-------------------------- MODULE ShortLinkProofs ---------------------------
(***************************************************************************)
(* Proofs about the short link, for every bound, every set of faults and   *)
(* every set of ticket counts: first what a client's requests and their    *)
(* keys are made of, then the exchanges.  One post is on its way at a time *)
(* and gets one answer (Exchange), the handshakes the server answers are   *)
(* those of the client in their order (FlightsInOrder), and what answers a *)
(* Request answers no other (Answered).  From this the short link          *)
(* implements SecureRequest.  What is read of an intact answer is the rest *)
(* of the one the server gave last, under the keys it was sealed with      *)
(* (IntactInv): the client does not refuse it.                             *)
(***************************************************************************)
EXTENDS ShortLink, WireProofs

USE TicketCountsAssumption, FaultsAssumption

-----------------------------------------------------------------------------
(* The terms of a request.                                                 *)

LEMMA PskKeyTypes ==
  ASSUME NEW psk \in Key, NEW h \in Transcript
  PROVE  EarlyKey(psk, h) \in Key /\ RequestKey(psk, h) \in Key
<1>1. psk.secret \in Secret /\ psk.hash \o h \in Transcript
  BY DEF Key, Transcript
<1> QED
  BY <1>1, KeyTypes DEF EarlyKey, RequestKey, Label

LEMMA EarlyBodyShape ==
  ASSUME NEW psk, NEW hello, NEW ext
  PROVE  /\ Len(EarlyBody(psk, hello, ext, 0)) = 4
         /\ EarlyBody(psk, hello, ext, 0)[1] = Plain(hello)
         /\ EarlyBody(psk, hello, ext, 0)[2].body = ext
BY DEF EarlyBody, Seal

LEMMA EarlyBodyKeys ==
  ASSUME NEW psk, NEW hello, NEW ext, NEW i \in 2..4
  PROVE  /\ EarlyBody(psk, hello, ext, 0)[i].key = EarlyKey(psk, <<hello>>)
         /\ EarlyBody(psk, hello, ext, 0)[i].seq = i - 1
BY DEF EarlyBody, Seal

LEMMA EarlyBodyTypes ==
  ASSUME NEW psk \in Key, NEW hello \in Message, NEW ext \in Message
  PROVE  /\ EarlyBody(psk, hello, ext, 0) \in Seq(Record)
         /\ Seals(EarlyBody(psk, hello, ext, 0)) \in Seq(Key \X Nat)
         /\ Len(Seals(EarlyBody(psk, hello, ext, 0))) = 3
         /\ \A i \in 1..3 :
              Seals(EarlyBody(psk, hello, ext, 0))[i]
                = <<EarlyKey(psk, <<hello>>), i>>
<1> DEFINE body == EarlyBody(psk, hello, ext, 0)
           key  == EarlyKey(psk, <<hello>>)
<1>1. <<hello>> \in Transcript /\ hello.id \in Nat
  BY DEF Transcript, Message
<1>2. key \in Key
  BY <1>1, PskKeyTypes
<1>3. Msg("Data", hello.id, "ok") \in Message /\ Msg("Abort", hello.id, "ok") \in Message
  BY <1>1, MsgType DEF Kind, Form
<1>4. body \in Seq(Record)
  <2>1. /\ Plain(hello) \in Record /\ Seal(key, 1, ext, NoKey) \in Record
        /\ Seal(key, 2, Msg("Data", hello.id, "ok"), NoKey) \in Record
        /\ Seal(key, 3, Msg("Abort", hello.id, "ok"), NoKey) \in Record
    BY <1>2, <1>3, RecordTypes, Constants
  <2> HIDE DEF key
  <2> QED
    BY <2>1 DEF EarlyBody, key
<1>5. Seals(body) = [i \in 1..3 |-> <<key, i>>]
  <2>1. Len(body) = 4 /\ 4 - 1 = 3
    BY EarlyBodyShape
  <2>2. \A i \in 1..3 : body[i + 1].key = key /\ body[i + 1].seq = i
    <3> TAKE i \in 1..3
    <3>1. i + 1 \in 2..4 /\ (i + 1) - 1 = i
      OBVIOUS
    <3> QED
      BY <3>1, EarlyBodyKeys
  <2> QED
    BY <2>1, <2>2 DEF Seals
<1> HIDE DEF body, key
<1>6. [i \in 1..3 |-> <<key, i>>] \in Seq(Key \X Nat)
  BY <1>2
<1>7. Len([i \in 1..3 |-> <<key, i>>]) = 3
  OBVIOUS
<1>8. /\ Seals(body) \in Seq(Key \X Nat) /\ Len(Seals(body)) = 3
      /\ \A i \in 1..3 : Seals(body)[i] = <<key, i>>
  BY <1>5, <1>6, <1>7
<1> QED
  BY <1>4, <1>8 DEF body, key

-----------------------------------------------------------------------------
(* Type correctness.                                                       *)

(* The transcripts the server remembers are whole: without this the key of *)
(* its answer to a request would not be known to be one.                   *)
IssuedWhole == \A j \in DOMAIN issued : Len(issued[j].tr) = 4

LEMMA InitType == Init => TypeOK /\ IssuedWhole
<1> SUFFICES ASSUME Init PROVE TypeOK /\ IssuedWhole
  OBVIOUS
<1>1. session \in SessionType /\ issued \in Seq(Flight) /\ IssuedWhole
  <2>1. CASE session = NoSession /\ issued = << >>
    BY <2>1, NoSessionType DEF IssuedWhole
  <2>2. ASSUME NEW n \in TicketCounts, session = Loaded(n),
               issued = <<priorFlight(n)>>
        PROVE  session \in SessionType /\ issued \in Seq(Flight) /\ IssuedWhole
    <3>1. Len(priorFlight(n).tr) = 4
      BY FlightShape DEF priorFlight
    <3>2. DOMAIN issued = {1} /\ issued[1] = priorFlight(n)
      BY <2>2
    <3> QED
      BY <2>2, <3>1, <3>2, LoadedTypes DEF IssuedWhole
  <2> QED
    BY <2>1, <2>2 DEF Init
<1>2. transcript \in Transcript /\ trafficKey \in Key
  BY Constants DEF Init
<1>3. intact \in BOOLEAN
  BY Zenon DEF Init
<1> QED
  BY <1>1, <1>2, <1>3 DEF Init, TypeOK

LEMMA HelloTypes ==
  ASSUME TypeOK
  PROVE  /\ clientHello \in Message /\ pskHello \in Message
         /\ extensions \in Message
<1>1. attempt + 1 \in Nat /\ session.issue \in Nat /\ requests \in Nat
  BY DEF TypeOK, SessionType
<1>2. clientHello \in Message /\ extensions \in Message
      /\ Msg("ClientHello", requests, "ok") \in Message
  BY <1>1, MsgType DEF clientHello, extensions, Kind, Form
<1> QED
  BY <1>1, <1>2 DEF pskHello, Message

LEMMA RecordRead ==
  ASSUME TypeOK, packetReader # << >>
  PROVE  /\ rec \in Record
         /\ rec.body \in Message /\ rec.body.id \in Nat /\ rec.body.count \in Nat
         /\ Tail(packetReader) \in Seq(Record)
         /\ Append(transcript, rec.body) \in Transcript
<1>1. rec \in Record /\ Tail(packetReader) \in Seq(Record)
  BY DEF TypeOK, rec
<1>2. rec.body \in Message
  BY <1>1 DEF Record
<1>3. Append(transcript, rec.body) \in Transcript
  BY <1>2 DEF TypeOK, Transcript
<1> QED
  BY <1>1, <1>2, <1>3 DEF Message

LEMMA CallsType == TypeOK /\ Calls => TypeOK'
<1> SUFFICES ASSUME TypeOK, Calls PROVE TypeOK'
  OBVIOUS
<1> USE DEF client, network, server, history
<1>1. CASE CallHandshake
  BY <1>1 DEF TypeOK, CallHandshake, Return
<1>2. CASE CallRequest
  BY <1>2 DEF TypeOK, CallRequest
<1> QED
  BY <1>1, <1>2 DEF Calls

LEMMA SendsType ==
  TypeOK /\ (KeyGenFails \/ SendHello \/ DialFails \/ NoTicket \/ SendRequest)
    => TypeOK'
<1> SUFFICES ASSUME TypeOK,
                    KeyGenFails \/ SendHello \/ DialFails \/ NoTicket
                    \/ SendRequest
             PROVE  TypeOK'
  OBVIOUS
<1> USE DEF client, network, server, history
<1>1. ASSUME NEW body \in Seq(Record), NEW next \in Waiting,
             Posts(body, next) \/ NotDialled \/ WriteFails \/ PostFails
      PROVE  /\ conn' \in {"none", "open", "lost"}
             /\ post' \in Seq(Record) /\ reply' \in Seq(Seq(Record))
             /\ intact' \in BOOLEAN
             /\ pc' \in Waiting \cup {"idle"}
             /\ res' \in {"none", "ok", "err"}
  <2>1. CASE Posts(body, next)
    <3>1. intact' = FALSE
      BY <2>1 DEF Posts
    <3>2. intact' \in BOOLEAN
      BY <3>1
    <3>3. reply' = << >> /\ post' = body
      BY <2>1 DEF Posts
    <3> QED
      BY <2>1, <3>2, <3>3 DEF TypeOK, Posts
  <2>2. CASE NotDialled \/ WriteFails \/ PostFails
    BY <2>2 DEF TypeOK, NotDialled, WriteFails, PostFails, EndRequest, Return
  <2> QED
    BY <1>1, <2>1, <2>2
<1>2. CASE KeyGenFails
  BY <1>2, Constants DEF TypeOK, KeyGenFails, Return
<1>3. CASE SendHello
  <2>1. <<clientHello>> \in Transcript /\ <<Plain(clientHello)>> \in Seq(Record)
    BY HelloTypes, RecordTypes, Constants DEF Transcript
  <2>2. Posts(<<Plain(clientHello)>>, "awaitHandshake") \/ NotDialled \/ WriteFails
    BY <1>3 DEF SendHello
  <2>3. "awaitHandshake" \in Waiting
    BY DEF Waiting
  <2>4. /\ conn' \in {"none", "open", "lost"}
        /\ post' \in Seq(Record) /\ reply' \in Seq(Seq(Record))
        /\ intact' \in BOOLEAN
        /\ pc' \in Waiting \cup {"idle"}
        /\ res' \in {"none", "ok", "err"}
    BY <1>1, <2>1, <2>2, <2>3
  <2> QED
    BY <1>3, <2>1, <2>4 DEF TypeOK, SendHello
<1>4. CASE DialFails
  BY <1>4 DEF TypeOK, DialFails, Return
<1>5. CASE NoTicket
  BY <1>5, Constants DEF TypeOK, NoTicket
<1>6. CASE SendRequest
  <2>1. session.psk \in Key /\ pskHello \in Message /\ extensions \in Message
    BY HelloTypes DEF TypeOK, SessionType
  <2>2. /\ earlyData \in Seq(Record) /\ Seals(earlyData) \in Seq(Key \X Nat)
        /\ Len(earlyData) = 4
    <3>1. earlyData \in Seq(Record) /\ Seals(earlyData) \in Seq(Key \X Nat)
      BY <2>1, EarlyBodyTypes, Zenon DEF earlyData
    <3>2. Len(earlyData) = 4
      BY EarlyBodyShape DEF earlyData
    <3> QED
      BY <3>1, <3>2
  <2>3. <<pskHello, extensions>> \in Transcript
    BY <2>1 DEF Transcript
  <2>4. sealed' \in Seq(Key \X Nat)
    BY <1>6, <2>2 DEF TypeOK, SendRequest
  <2>5. Posts(earlyData, "awaitRequest") \/ PostFails
    BY <1>6 DEF SendRequest
  <2>6. "awaitRequest" \in Waiting
    BY DEF Waiting
  <2> QED
    BY <1>1, <1>6, <2>2, <2>3, <2>4, <2>5, <2>6 DEF TypeOK, SendRequest
<1> QED
  BY <1>2, <1>3, <1>4, <1>5, <1>6

LEMMA HandshakeType ==
  TypeOK /\ (ReadServerHello \/ ReadSignature \/ ReadNewSessionTicket
             \/ ReadServerFinish)
    => TypeOK'
<1> SUFFICES ASSUME TypeOK,
                    ReadServerHello \/ ReadSignature \/ ReadNewSessionTicket
                    \/ ReadServerFinish
             PROVE  TypeOK'
  OBVIOUS
<1> USE DEF client, network, server, history
<1>1. packetReader # << >> /\ packetReader' = Tail(packetReader)
  BY DEF ReadServerHello, ReadSignature, ReadNewSessionTicket, ReadServerFinish,
     Take
<1>2. /\ packetReader' \in Seq(Record)
      /\ Hash => transcript' \in Transcript
      /\ Count => serverSeqNum' \in Nat
      /\ Fails => /\ transcript' \in Transcript /\ serverSeqNum' \in Nat
                  /\ pc' = "idle" /\ res' = "err"
  <2>1. packetReader' \in Seq(Record) /\ Append(transcript, rec.body) \in Transcript
    BY <1>1, RecordRead
  <2>2. Hash => transcript' \in Transcript
    BY <2>1 DEF Hash
  <2>3. Count => serverSeqNum' \in Nat
    BY DEF Count, TypeOK
  <2>4. Fails => /\ transcript' \in Transcript /\ serverSeqNum' \in Nat
                 /\ pc' = "idle" /\ res' = "err"
    BY DEF Fails, Return, TypeOK
  <2> QED
    BY <2>1, <2>2, <2>3, <2>4
<1>3. trafficKey.secret \in Secret
  BY DEF TypeOK, Key
<1>4. CASE ReadServerHello
  <2>1. computeEphemeralSecret(attempt, rec.body.id) \in Secret
    BY <1>1, RecordRead DEF TypeOK, computeEphemeralSecret, Secret
  <2>2. transcript' \in Transcript
    BY <1>2, <1>4 DEF ReadServerHello
  <2>3. trafficKey' \in Key
    BY <1>4, <2>1, <2>2, NamedKeys DEF TypeOK, ReadServerHello
  <2>4. pc' \in {"readSignature", "panicked", "idle"} /\ res' \in {"none", "ok", "err"}
    BY <1>4 DEF ReadServerHello, Return, TypeOK
  <2> QED
    BY <1>2, <1>4, <2>2, <2>3, <2>4
    DEF TypeOK, ReadServerHello, Take, Parsing, InHandshake
<1>5. CASE ReadSignature
  <2>1. \/ Hash /\ Count /\ pc' = "readNewSessionTicket" /\ UNCHANGED res
        \/ Fails
    BY <1>5, Zenon DEF ReadSignature
  <2>2. /\ transcript' \in Transcript /\ serverSeqNum' \in Nat
        /\ pc' \in {"readNewSessionTicket", "idle"} /\ res' \in {"none", "ok", "err"}
    BY <1>2, <2>1 DEF TypeOK
  <2> QED
    BY <1>2, <1>5, <2>2 DEF TypeOK, ReadSignature, Take, Parsing, InHandshake
<1>6. CASE ReadNewSessionTicket
  <2>1. newSession \in SessionType
    BY <1>1, <1>3, RecordRead, NamedKeys, Constants DEF newSession, SessionType, TypeOK
  <2>2. \/ /\ Hash /\ Count /\ session' = newSession
           /\ pc' = "readServerFinish" /\ UNCHANGED res
        \/ Fails /\ UNCHANGED session
    BY <1>6, Zenon DEF ReadNewSessionTicket
  <2>3. /\ transcript' \in Transcript /\ serverSeqNum' \in Nat
        /\ session' \in SessionType
        /\ pc' \in {"readServerFinish", "idle"} /\ res' \in {"none", "ok", "err"}
    BY <1>2, <2>1, <2>2 DEF TypeOK
  <2> QED
    BY <1>2, <1>6, <2>3 DEF TypeOK, ReadNewSessionTicket, Take, Parsing, InHandshake
<1>7. CASE ReadServerFinish
  <2>1. \/ /\ Count /\ status' = 1 /\ UNCHANGED transcript
           /\ \/ Return("ok")
              \/ pc' = "sendRequest" /\ UNCHANGED res
        \/ Fails /\ UNCHANGED status
    BY <1>7, Zenon DEF ReadServerFinish
  <2>2. /\ transcript' \in Transcript /\ serverSeqNum' \in Nat
        /\ status' \in {0, 1}
        /\ pc' \in {"sendRequest", "idle"} /\ res' \in {"none", "ok", "err"}
    BY <1>2, <2>1 DEF TypeOK, Return
  <2> QED
    BY <1>2, <1>7, <2>2 DEF TypeOK, ReadServerFinish
<1> QED
  BY <1>4, <1>5, <1>6, <1>7

LEMMA RequestType ==
  TypeOK /\ (ReadHello \/ ReadFinish \/ ReadData \/ ReadAbort) => TypeOK'
<1> SUFFICES ASSUME TypeOK, ReadHello \/ ReadFinish \/ ReadData \/ ReadAbort
             PROVE  TypeOK'
  OBVIOUS
<1> USE DEF client, network, server, history
<1>1. packetReader # << >> /\ packetReader' = Tail(packetReader)
  BY DEF ReadHello, ReadFinish, ReadData, ReadAbort, Take
<1>2. packetReader' \in Seq(Record) /\ rec.body.id \in Nat
  BY <1>1, RecordRead
<1>3. ASSUME NEW next \in InRequest, Opened(next)
      PROVE  /\ serverSeqNum' \in Nat
             /\ pc' \in InRequest \cup {"idle"} /\ res' \in {"none", "ok", "err"}
             /\ conn' \in {"none", "open", "lost"}
  BY <1>3 DEF Opened, Count, EndRequest, Return, TypeOK
<1>4. CASE ReadHello
  <2>1. transcript' \in Transcript
    BY <1>1, <1>4, RecordRead DEF ReadHello, Hash
  <2>2. session.psk \in Key
    BY DEF TypeOK, SessionType
  <2>3. RequestKey(session.psk, transcript') \in Key
    BY <2>1, <2>2, PskKeyTypes
  <2>4. session' \in SessionType
    BY <1>4, <2>3 DEF ReadHello, TypeOK, SessionType
  <2>5. /\ serverSeqNum' \in Nat /\ pc' = "readFinish"
        /\ UNCHANGED <<status, clientSeqNum, trafficKey, dataRecord, call, res,
                       conn, post, reply, server, attempt, requests, sealed, intact>>
    BY <1>4 DEF ReadHello, Take, Count, TypeOK
  <2> QED
    BY <1>2, <2>1, <2>4, <2>5 DEF TypeOK, Parsing, InRequest
<1>5. CASE ReadFinish
  <2>1. "readData" \in InRequest /\ Opened("readData")
    BY <1>5 DEF ReadFinish, InRequest
  <2> QED
    BY <1>2, <1>3, <1>5, <2>1 DEF TypeOK, ReadFinish, Take, Parsing
<1>6. CASE ReadData
  <2>1. "readAbort" \in InRequest /\ Opened("readAbort")
    BY <1>6 DEF ReadData, InRequest
  <2>2. dataRecord' \in Nat
    BY <1>2, <1>6 DEF ReadData, TypeOK
  <2> QED
    BY <1>2, <1>3, <1>6, <2>1, <2>2 DEF TypeOK, ReadData, Take, Parsing
<1>7. CASE ReadAbort
  <2>1. /\ serverSeqNum' \in Nat /\ pc' = "idle" /\ res' \in {"ok", "err"}
        /\ conn' = "none"
    BY <1>7 DEF ReadAbort, Count, EndRequest, Return, TypeOK
  <2> QED
    BY <1>2, <1>7, <2>1 DEF TypeOK, ReadAbort, Take
<1> QED
  BY <1>4, <1>5, <1>6, <1>7

LEMMA ResponsesType ==
  TypeOK /\ (ReadResponse \/ ResponseFails \/ BodyEnds) => TypeOK'
<1> SUFFICES ASSUME TypeOK, ReadResponse \/ ResponseFails \/ BodyEnds PROVE TypeOK'
  OBVIOUS
<1> USE DEF client, network, server, history
<1>1. CASE ReadResponse
  <2>1. reply \in Seq(Seq(Record)) /\ reply # << >>
    BY <1>1 DEF ReadResponse, TypeOK
  <2>2. reply[1] \in Seq(Record)
    BY <2>1
  <2> QED
    BY <1>1, <2>2 DEF TypeOK, ReadResponse, Parsing, InHandshake, InRequest
<1>2. CASE ResponseFails
  BY <1>2 DEF TypeOK, ResponseFails, Return
<1>3. CASE BodyEnds
  BY <1>3 DEF TypeOK, BodyEnds, EndRequest, Return
<1> QED
  BY <1>1, <1>2, <1>3

LEMMA AnswerParts ==
  ASSUME TypeOK, IssuedWhole, ServerAnswersRequest
  PROVE  LET hello == post[1].body
             psk   == FlightPsk(issued[hello.ticket])
             ext   == post[2].body
             sh    == [Msg("ServerHello", served + 1, "ok")
                         EXCEPT !.ticket = hello.ticket]
             key   == RequestKey(psk, <<hello, ext, sh>>)
             body  == <<Plain(sh),
                        Seal(key, 1, Msg("ServerFinish", hello.id, "ok"), NoKey),
                        Seal(key, 2, Msg("Data", hello.id, "ok"), NoKey),
                        Seal(key, 3, Msg("Abort", hello.id, "ok"), NoKey)>>
         IN  /\ hello \in Message /\ psk \in Key /\ ext \in Message
             /\ sh \in Message /\ body \in Seq(Record)
             /\ Replies(body, TRUE)
<1> DEFINE hello == post[1].body
           psk   == FlightPsk(issued[hello.ticket])
           ext   == post[2].body
           sh    == [Msg("ServerHello", served + 1, "ok")
                       EXCEPT !.ticket = hello.ticket]
           key   == RequestKey(psk, <<hello, ext, sh>>)
           body  == <<Plain(sh),
                      Seal(key, 1, Msg("ServerFinish", hello.id, "ok"), NoKey),
                      Seal(key, 2, Msg("Data", hello.id, "ok"), NoKey),
                      Seal(key, 3, Msg("Abort", hello.id, "ok"), NoKey)>>
<1>1. Len(post) > 1 /\ hello.ticket \in DOMAIN issued /\ Replies(body, TRUE)
  BY Zenon DEF ServerAnswersRequest
<1>2. hello \in Message /\ ext \in Message
  <2>1. post \in Seq(Record)
    BY DEF TypeOK
  <2>2. post[1] \in Record /\ post[2] \in Record
    BY <1>1, <2>1
  <2> QED
    BY <2>2 DEF Record
<1>3. sh \in Message
  <2>1. hello.ticket \in Nat /\ served + 1 \in Nat
    BY <1>2 DEF TypeOK, Message
  <2>2. Msg("ServerHello", served + 1, "ok") \in Message
    BY <2>1, MsgType DEF Kind, Form
  <2> QED
    BY <2>1, <2>2 DEF Message
<1>4. psk \in Key
  <2>1. issued[hello.ticket] \in Flight /\ Len(issued[hello.ticket].tr) = 4
    <3>1. issued \in Seq(Flight)
      BY DEF TypeOK
    <3> QED
      BY <1>1, <3>1 DEF IssuedWhole
  <2> QED
    BY <2>1, FlightKeyTypes
<1> HIDE DEF hello, psk, ext, sh
<1>5. <<hello, ext, sh>> \in Transcript
  BY <1>2, <1>3 DEF Transcript
<1>6. key \in Key
  BY <1>4, <1>5, PskKeyTypes
<1> HIDE DEF key
<1>7. hello.id \in Nat
  BY <1>2 DEF Message
<1>8. /\ Msg("ServerFinish", hello.id, "ok") \in Message
      /\ Msg("Data", hello.id, "ok") \in Message
      /\ Msg("Abort", hello.id, "ok") \in Message
  BY <1>7, MsgType DEF Kind, Form
<1>9. /\ Plain(sh) \in Record
      /\ Seal(key, 1, Msg("ServerFinish", hello.id, "ok"), NoKey) \in Record
      /\ Seal(key, 2, Msg("Data", hello.id, "ok"), NoKey) \in Record
      /\ Seal(key, 3, Msg("Abort", hello.id, "ok"), NoKey) \in Record
  BY <1>3, <1>6, <1>8, RecordTypes, Constants
<1>10. body \in Seq(Record)
  BY <1>9
<1> HIDE DEF body
<1> QED
  BY <1>1, <1>2, <1>3, <1>4, <1>10 DEF body, key, sh, ext, psk, hello

LEMMA RepliesType ==
  ASSUME TypeOK, NEW body \in Seq(Record), NEW good \in BOOLEAN,
         Replies(body, good)
  PROVE  /\ post' \in Seq(Record) /\ reply' \in Seq(Seq(Record))
         /\ served' \in Nat /\ last' \in Seq(Record) /\ intact' \in BOOLEAN
         /\ UNCHANGED <<client, packetReader, call, pc, res, conn, history>>
<1>1. intact' = good
  BY Zenon DEF Replies
<1>2. intact' \in BOOLEAN
  BY <1>1, Zenon
<1>3. post' = << >> /\ reply' = <<body>> /\ served' = served + 1 /\ last' = body
      /\ UNCHANGED <<client, packetReader, call, pc, res, conn, history>>
  BY DEF Replies
<1> QED
  BY <1>2, <1>3 DEF TypeOK

(* An answer to a hello: a new flight, and its records on their way.       *)
LEMMA HelloAnswered ==
  ASSUME TypeOK, NEW f \in Faults, NEW n \in TicketCounts,
         ServerAnswersHello(f, n)
  PROVE  LET id     == Len(issued) + 1
             flight == FlightTo(post[1].body, id, f, n)
         IN  /\ issued' = Append(issued, flight)
             /\ Replies(FlightRecords(flight, f), f = "none")
             /\ unproved' = IF f \in {"finish", "mac"} THEN unproved \cup {id}
                            ELSE unproved
             /\ flight \in Flight /\ Len(flight.tr) = 4
             /\ flight.secret = <<post[1].body.id, id>>
             /\ flight.tr[1] = post[1].body
             /\ flight.tr[4].id = id /\ flight.tr[4].count = n
             /\ FlightRecords(flight, f) \in Seq(Record)
             /\ DOMAIN issued' = DOMAIN issued \cup {id}
             /\ \A j \in DOMAIN issued : issued'[j] = issued[j] /\ j # id
             /\ issued'[id] = flight /\ Len(issued') = id /\ id \in Nat
             /\ post[1].body \in Message /\ Len(post) = 1
<1> DEFINE id     == Len(issued) + 1
           flight == FlightTo(post[1].body, id, f, n)
<1>1. /\ Len(post) = 1 /\ issued' = Append(issued, flight)
      /\ Replies(FlightRecords(flight, f), f = "none")
      /\ unproved' = IF f \in {"finish", "mac"} THEN unproved \cup {id}
                     ELSE unproved
  BY Zenon DEF ServerAnswersHello
<1>2. post[1].body \in Message
  <2>1. post \in Seq(Record)
    BY DEF TypeOK
  <2>2. 1 \in DOMAIN post
    <3>1. Len(post) = 1
      BY <1>1
    <3> QED
      BY <2>1, <3>1
  <2>3. post[1] \in Record
    BY <2>1, <2>2
  <2> QED
    BY <2>3 DEF Record
<1>3. id \in Nat /\ n \in Nat
  BY DEF TypeOK
<1>4. flight \in Flight /\ Len(flight.tr) = 4
  BY <1>2, <1>3, FlightTypes
<1>5. FlightRecords(flight, f) \in Seq(Record)
  BY <1>4, FlightRecordTypes
<1>6. /\ flight.secret = <<post[1].body.id, id>>
      /\ flight.tr[1] = post[1].body
      /\ flight.tr[4].id = id /\ flight.tr[4].count = n
  BY FlightShape
<1> HIDE DEF flight
<1>7. /\ DOMAIN issued' = DOMAIN issued \cup {id}
      /\ \A j \in DOMAIN issued : issued'[j] = issued[j] /\ j # id
      /\ issued'[id] = flight /\ Len(issued') = id
  <2>1. issued \in Seq(Flight)
    BY DEF TypeOK
  <2> QED
    BY <1>1, <2>1, AfterAppend
<1> QED
  BY <1>1, <1>2, <1>3, <1>4, <1>5, <1>6, <1>7 DEF flight

(* The part of it that most steps need, and no more.                       *)
LEMMA FlightIssued ==
  ASSUME TypeOK, NEW f \in Faults, NEW n \in TicketCounts,
         ServerAnswersHello(f, n)
  PROVE  /\ DOMAIN issued' = DOMAIN issued \cup {Len(issued) + 1}
         /\ \A j \in DOMAIN issued : /\ issued'[j] = issued[j]
                                     /\ j # Len(issued) + 1
         /\ issued'[Len(issued) + 1]
              = FlightTo(post[1].body, Len(issued) + 1, f, n)
<1>1. issued' = Append(issued, FlightTo(post[1].body, Len(issued) + 1, f, n))
  BY Zenon DEF ServerAnswersHello
<1>2. issued \in Seq(Flight)
  BY DEF TypeOK
<1> HIDE DEF FlightTo
<1> QED
  BY <1>1, <1>2, AfterAppend

LEMMA ServerType ==
  TypeOK /\ IssuedWhole /\ ServerReacts => TypeOK' /\ IssuedWhole'
<1> SUFFICES ASSUME TypeOK, IssuedWhole, ServerReacts PROVE TypeOK' /\ IssuedWhole'
  OBVIOUS
<1> USE DEF client, history
<1>1. ASSUME NEW f \in Faults, NEW n \in TicketCounts, ServerAnswersHello(f, n)
      PROVE  TypeOK' /\ IssuedWhole'
  <2> DEFINE flight == FlightTo(post[1].body, Len(issued) + 1, f, n)
             body   == FlightRecords(flight, f)
  <2>1. /\ issued' = Append(issued, flight) /\ flight \in Flight
        /\ Len(flight.tr) = 4
        /\ DOMAIN issued' = DOMAIN issued \cup {Len(issued) + 1}
        /\ \A j \in DOMAIN issued : issued'[j] = issued[j]
        /\ issued'[Len(issued) + 1] = flight
    <3>1. /\ DOMAIN issued' = DOMAIN issued \cup {Len(issued) + 1}
          /\ \A j \in DOMAIN issued : issued'[j] = issued[j] /\ j # Len(issued) + 1
          /\ issued'[Len(issued) + 1] = flight
      BY <1>1, FlightIssued, Zenon
    <3>2. /\ issued' = Append(issued, flight) /\ flight \in Flight
          /\ Len(flight.tr) = 4
      BY <1>1, HelloAnswered
    <3> QED
      BY <3>1, <3>2, Zenon
  <2>2. body \in Seq(Record) /\ Replies(body, f = "none") /\ (f = "none") \in BOOLEAN
    BY <1>1, HelloAnswered
  <2>3. unproved' \subseteq Nat
    <3>1. unproved' = IF f \in {"finish", "mac"} THEN unproved \cup {Len(issued) + 1}
                      ELSE unproved
      BY <1>1, HelloAnswered
    <3>2. Len(issued) + 1 \in Nat
      BY DEF TypeOK
    <3> QED
      BY <3>1, <3>2 DEF TypeOK
  <2> HIDE DEF flight, body
  <2>4. issued' \in Seq(Flight)
    BY <2>1 DEF TypeOK
  <2>5. /\ post' \in Seq(Record) /\ reply' \in Seq(Seq(Record))
        /\ served' \in Nat /\ last' \in Seq(Record) /\ intact' \in BOOLEAN
        /\ UNCHANGED <<client, packetReader, call, pc, res, conn, history>>
    BY <2>2, RepliesType
  <2>6. IssuedWhole'
    BY <2>1 DEF IssuedWhole
  <2> QED
    BY <2>3, <2>4, <2>5, <2>6 DEF TypeOK
<1>2. CASE ServerAnswersRequest
  <2>1. PICK body \in Seq(Record) : Replies(body, TRUE)
    BY <1>2, AnswerParts
  <2>2. /\ post' \in Seq(Record) /\ reply' \in Seq(Seq(Record))
        /\ served' \in Nat /\ last' \in Seq(Record) /\ intact' \in BOOLEAN
        /\ UNCHANGED <<client, packetReader, call, pc, res, conn, history>>
    BY <2>1, RepliesType
  <2>3. UNCHANGED <<issued, unproved>>
    BY <1>2 DEF ServerAnswersRequest
  <2> QED
    BY <2>2, <2>3 DEF TypeOK, IssuedWhole
<1>3. CASE ServerRejects
  <2>1. <<Plain(Msg("Alert", 0, "ok"))>> \in Seq(Record)
    <3>1. Msg("Alert", 0, "ok") \in Message
      BY MsgType DEF Kind, Form
    <3>2. Plain(Msg("Alert", 0, "ok")) \in Record
      BY <3>1, RecordTypes, Constants
    <3> QED
      BY <3>2
  <2>2. Replies(<<Plain(Msg("Alert", 0, "ok"))>>, FALSE)
    BY <1>3 DEF ServerRejects
  <2>3. /\ post' \in Seq(Record) /\ reply' \in Seq(Seq(Record))
        /\ served' \in Nat /\ last' \in Seq(Record) /\ intact' \in BOOLEAN
        /\ UNCHANGED <<client, packetReader, call, pc, res, conn, history>>
    BY <2>1, <2>2, RepliesType
  <2>4. UNCHANGED <<issued, unproved>>
    BY <1>3 DEF ServerRejects
  <2> QED
    BY <2>3, <2>4 DEF TypeOK, IssuedWhole
<1> QED
  BY <1>1, <1>2, <1>3 DEF ServerReacts

(* A body cut short: records of the body, and at most one that was cut.    *)
LEMMA CutShort ==
  ASSUME TypeOK, ResponseCut
  PROVE  \E b \in Seq(Record) :
           /\ reply' = <<b>>
           /\ \A i \in DOMAIN b : (\E k \in DOMAIN reply[1] : b[i] = reply[1][k])
                                  \/ b[i].key = NoKey
<1>1. reply \in Seq(Seq(Record)) /\ reply # << >>
  BY DEF ResponseCut, TypeOK
<1>2. reply[1] \in Seq(Record)
  BY <1>1
<1>3. PICK k \in 0..Len(reply[1]) - 1 :
        \/ reply' = <<SubSeq(reply[1], 1, k)>>
        \/ \E r \in Cut(reply[1][k + 1]) :
             reply' = <<Append(SubSeq(reply[1], 1, k), r)>>
  BY Zenon DEF ResponseCut
<1> DEFINE s == SubSeq(reply[1], 1, k)
<1>4. /\ k \in 0..Len(reply[1]) /\ k + 1 \in 1..Len(reply[1])
      /\ reply[1][k + 1] \in Record
  BY <1>2
<1>5. /\ s \in Seq(Record)
      /\ \A i \in DOMAIN s : i \in DOMAIN reply[1] /\ s[i] = reply[1][i]
  BY <1>2, <1>4, AfterLoss
<1> HIDE DEF s
<1>6. CASE reply' = <<s>>
  BY <1>5, <1>6
<1>7. ASSUME NEW r \in Cut(reply[1][k + 1]), reply' = <<Append(s, r)>>
      PROVE  \E b \in Seq(Record) :
               /\ reply' = <<b>>
               /\ \A i \in DOMAIN b : (\E j \in DOMAIN reply[1] : b[i] = reply[1][j])
                                      \/ b[i].key = NoKey
  <2>1. PICK form \in Form : r = Plain([reply[1][k + 1].body EXCEPT !.form = form])
    BY <1>7 DEF Cut, Form
  <2>2. [reply[1][k + 1].body EXCEPT !.form = form] \in Message
    BY <1>4 DEF Record, Message
  <2>3. r \in Record /\ r.key = NoKey
    BY <2>1, <2>2, RecordTypes, Constants DEF Plain
  <2>4. Append(s, r) \in Seq(Record)
    BY <1>5, <2>3
  <2>5. \A i \in DOMAIN Append(s, r) : \/ i \in DOMAIN s /\ Append(s, r)[i] = s[i]
                                       \/ Append(s, r)[i] = r
    BY <1>5, AfterAppend
  <2> QED
    BY <1>5, <1>7, <2>3, <2>4, <2>5
<1> QED
  BY <1>3, <1>6, <1>7 DEF s

LEMMA EnvironmentType == TypeOK /\ Environment => TypeOK'
<1> SUFFICES ASSUME TypeOK, Environment PROVE TypeOK'
  OBVIOUS
<1> USE DEF client, network, server, history
<1>1. CASE ConnectionLost
  BY <1>1 DEF TypeOK, ConnectionLost
<1>2. CASE ResponseCut
  <2>1. PICK b \in Seq(Record) : reply' = <<b>>
    BY <1>2, CutShort
  <2>2. reply' \in Seq(Seq(Record))
    BY <2>1
  <2>3. intact' = FALSE
    BY <1>2, Zenon DEF ResponseCut
  <2> QED
    BY <1>2, <2>2, <2>3 DEF TypeOK, ResponseCut
<1>3. CASE StaleResponse
  BY <1>3 DEF TypeOK, StaleResponse
<1> QED
  BY <1>1, <1>2, <1>3 DEF Environment

LEMMA TypeStep ==
  TypeOK /\ IssuedWhole /\ [Next]_vars => TypeOK' /\ IssuedWhole'
<1> SUFFICES ASSUME TypeOK, IssuedWhole, [Next]_vars PROVE TypeOK' /\ IssuedWhole'
  OBVIOUS
<1>1. CASE ServerReacts
  BY <1>1, ServerType
<1>2. CASE Calls \/ Continues \/ Environment
  <2>1. TypeOK'
    BY <1>2, CallsType, SendsType, HandshakeType, RequestType, ResponsesType,
       EnvironmentType DEF Continues
  <2>2. UNCHANGED issued
    <3> USE DEF server
    <3>1. CASE Calls \/ Environment
      BY <3>1 DEF Calls, CallHandshake, CallRequest, Environment,
         ConnectionLost, ResponseCut, StaleResponse
    <3>2. CASE Continues
      BY <3>2 DEF Continues, KeyGenFails, SendHello, ReadServerHello,
         ReadSignature, ReadNewSessionTicket, ReadServerFinish, DialFails,
         NoTicket, SendRequest, ReadHello, ReadFinish, ReadData, ReadAbort,
         ReadResponse, ResponseFails, BodyEnds, Take
    <3> QED
      BY <1>2, <3>1, <3>2
  <2> QED
    BY <2>1, <2>2 DEF IssuedWhole
<1>3. CASE UNCHANGED vars
  BY <1>3 DEF TypeOK, IssuedWhole, vars, client, network, server, history
<1> QED
  BY <1>1, <1>2, <1>3 DEF Next

(* In every reachable state of the short link each variable has its type.  *)
THEOREM TypeCorrect == Spec => []TypeOK
<1>1. Spec => [](TypeOK /\ IssuedWhole)
  BY InitType, TypeStep, PTL DEF Spec
<1> QED
  BY <1>1, PTL

-----------------------------------------------------------------------------
(* The steps, flattened: what each does to the variables of the client.    *)

(* A step of the server or the network leaves the caller where it was.     *)
LEMMA OtherSteps ==
  ASSUME ServerReacts \/ Environment \/ UNCHANGED vars
  PROVE  /\ UNCHANGED <<client, packetReader, call, pc, res, history>>
         /\ UNCHANGED conn \/ (pc \in Waiting /\ conn' = "lost")
<1> USE DEF vars, network
<1>1. ASSUME NEW f \in Faults, NEW n \in TicketCounts, ServerAnswersHello(f, n)
      PROVE  UNCHANGED <<client, packetReader, call, pc, res, conn, history>>
  BY <1>1, Zenon DEF ServerAnswersHello, Replies
<1>2. CASE ServerAnswersRequest
  BY <1>2, Zenon DEF ServerAnswersRequest, Replies
<1>3. CASE ServerRejects
  BY <1>3, Zenon DEF ServerRejects, Replies
<1>4. CASE Environment
  BY <1>4, Zenon DEF Environment, ConnectionLost, ResponseCut, StaleResponse
<1>5. CASE UNCHANGED vars
  BY <1>5
<1> QED
  BY <1>1, <1>2, <1>3, <1>4, <1>5, Zenon DEF ServerReacts

LEMMA ReadServerHelloShape ==
  ASSUME ReadServerHello
  PROVE  /\ Take("readServerHello") /\ Hash /\ Count
         /\ UNCHANGED <<session, dataRecord, conn>>
         /\ \/ /\ rec.key = NoKey /\ pc' = "readSignature" /\ UNCHANGED res
               /\ trafficKey' = HandshakeKey(<<attempt, rec.body.id>>, transcript')
            \/ pc' = "panicked" /\ UNCHANGED <<trafficKey, res>>
            \/ Return("err") /\ UNCHANGED trafficKey
BY Zenon DEF ReadServerHello, computeEphemeralSecret

LEMMA ReadSignatureShape ==
  ASSUME ReadSignature
  PROVE  /\ Take("readSignature")
         /\ UNCHANGED <<session, trafficKey, dataRecord, conn>>
         /\ \/ /\ Decrypts(trafficKey) /\ Hash /\ Count
               /\ pc' = "readNewSessionTicket" /\ UNCHANGED res
            \/ Fails
BY Zenon DEF ReadSignature

LEMMA ReadNewSessionTicketShape ==
  ASSUME ReadNewSessionTicket
  PROVE  /\ Take("readNewSessionTicket")
         /\ UNCHANGED <<trafficKey, dataRecord, conn>>
         /\ \/ /\ Decrypts(trafficKey) /\ Hash /\ Count
               /\ session' = newSession
               /\ pc' = "readServerFinish" /\ UNCHANGED res
            \/ Fails /\ UNCHANGED session
BY Zenon DEF ReadNewSessionTicket

LEMMA ReadServerFinishShape ==
  ASSUME ReadServerFinish
  PROVE  /\ packetReader # << >> /\ packetReader' = Tail(packetReader)
         /\ pc = "readServerFinish"
         /\ UNCHANGED <<clientSeqNum, session, trafficKey, dataRecord, call,
                        network, server, history>>
         /\ \/ /\ Decrypts(trafficKey) /\ Parses("ServerFinish")
               /\ serverFinishMatches /\ Count /\ status' = 1
               /\ \/ call = "Handshake" /\ Return("ok")
                  \/ call = "Request" /\ pc' = "sendRequest" /\ UNCHANGED res
               /\ UNCHANGED transcript
            \/ Fails /\ UNCHANGED status
BY Zenon DEF ReadServerFinish

(* The steps between the call and the post, and those that read a response *)
(* of a Request: where they lead and what they leave alone.                *)
LEMMA SendShapes ==
  ASSUME KeyGenFails \/ SendHello \/ DialFails \/ NoTicket \/ SendRequest
  PROVE  /\ UNCHANGED <<status, session, trafficKey, dataRecord, packetReader,
                        call, requests, server>>
         /\ KeyGenFails \/ SendHello => pc = "sendHello"
         /\ DialFails \/ NoTicket \/ SendRequest => pc = "sendRequest"
         /\ \/ /\ pc' = "idle" /\ res' = "err" /\ conn' \in {conn, "none"}
               /\ UNCHANGED <<post, reply, intact>>
            \/ NoTicket /\ pc' = "panicked" /\ UNCHANGED <<res, network>>
            \/ SendHello /\ Posts(<<Plain(clientHello)>>, "awaitHandshake")
            \/ SendRequest /\ Posts(earlyData, "awaitRequest")
BY Zenon DEF KeyGenFails, SendHello, DialFails, NoTicket, SendRequest, NotDialled,
   WriteFails, PostFails, EndRequest, Return, client, network, history

LEMMA RequestShapes ==
  ASSUME ReadHello \/ ReadFinish \/ ReadData \/ ReadAbort
  PROVE  /\ packetReader # << >> /\ packetReader' = Tail(packetReader)
         /\ UNCHANGED <<status, clientSeqNum, call, post, reply, intact, server,
                        history, trafficKey>>
         /\ \/ /\ ReadHello /\ pc = "readHello" /\ pc' = "readFinish"
               /\ Hash /\ Count /\ UNCHANGED <<dataRecord, res, conn>>
               /\ session' = [session EXCEPT
                    !.appKey = RequestKey(session.psk, transcript')]
            \/ /\ pc' = "idle" /\ res' = "err" /\ conn' = "none"
               /\ UNCHANGED <<session, transcript>>
               /\ pc \in {"readFinish", "readData", "readAbort"}
               /\ ~Decrypts(session.appKey)
            \/ /\ Decrypts(session.appKey) /\ Count
               /\ UNCHANGED <<session, transcript>>
               /\ \/ /\ pc = "readFinish" /\ pc' = "readData"
                     /\ UNCHANGED <<dataRecord, res, conn>>
                  \/ /\ pc = "readData" /\ pc' = "readAbort"
                     /\ dataRecord' = rec.body.id /\ UNCHANGED <<res, conn>>
                  \/ /\ pc = "readAbort" /\ pc' = "idle" /\ res' = "ok"
                     /\ conn' = "none" /\ UNCHANGED dataRecord
<1>1. CASE ReadHello
  BY <1>1, Zenon DEF ReadHello, Take
<1>2. CASE ReadFinish
  BY <1>2, Zenon DEF ReadFinish, Take, Opened, EndRequest, Return
<1>3. CASE ReadData
  BY <1>3 DEF ReadData, Take, Opened, EndRequest, Return
<1>4. CASE ReadAbort
  BY <1>4, Zenon DEF ReadAbort, Take, EndRequest, Return
<1> QED
  BY <1>1, <1>2, <1>3, <1>4

LEMMA ResponseShapes ==
  ASSUME ReadResponse \/ ResponseFails \/ BodyEnds
  PROVE  /\ UNCHANGED <<client, call, post, intact, server, history>>
         /\ \/ /\ ReadResponse /\ pc \in Waiting /\ reply # << >> /\ reply' = << >>
               /\ packetReader' = reply[1] /\ UNCHANGED res
               /\ \/ /\ pc = "awaitHandshake" /\ pc' = "readServerHello"
                     /\ conn' = "none"
                  \/ /\ pc = "awaitRequest" /\ pc' = "readHello"
                     /\ UNCHANGED conn
            \/ /\ pc' = "idle" /\ res' = "err" /\ conn' = "none"
               /\ UNCHANGED <<packetReader, reply>>
               /\ \/ pc \in Waiting /\ conn = "lost"
                  \/ pc \in Parsing /\ packetReader = << >>
BY DEF ReadResponse, ResponseFails, BodyEnds, EndRequest, Return, Waiting

-----------------------------------------------------------------------------
(* Where the caller stands.                                                *)

(* A handshake up to the message that carries the tickets.                 *)
BeforeTickets ==
  {"sendHello", "awaitHandshake", "readServerHello", "readSignature",
   "readNewSessionTicket"}

(* Where the caller stands, and what that says of the rest of the client:  *)
(* a handshake runs only until one has completed, and in a Request only    *)
(* when there is no ticket; no connection is held while the response to a  *)
(* hello is parsed; a session with a ticket has a pre-shared key.          *)
Control ==
  /\ pc \in {"sendHello", "awaitHandshake"} \cup InHandshake => status = 0
  /\ pc \in {"sendRequest", "awaitRequest"} \cup InRequest => call = "Request"
  /\ pc \in {"idle", "sendHello", "sendRequest"} \cup InHandshake
       => conn = "none"
  /\ call = "Request" /\ pc \in BeforeTickets => session.tickets = 0
  /\ session.tickets > 0 => session.psk # NoKey

LEMMA PskIsNoNoKey == \A s, h : Psk(s, h) # NoKey
<1>1. \A s, h : Psk(s, h).label = "psk"
  BY DEF Psk, hkdfExpand
<1>2. NoKey.label = "none"
  BY DEF NoKey, hkdfExpand
<1> QED
  BY <1>1, <1>2

LEMMA ControlInit == Init => Control
<1> SUFFICES ASSUME Init PROVE Control
  OBVIOUS
<1>1. session.tickets > 0 => session.psk # NoKey
  <2>1. CASE session = NoSession
    BY <2>1 DEF NoSession
  <2>2. ASSUME NEW n \in TicketCounts, session = Loaded(n)
        PROVE  session.psk # NoKey
    BY <2>2, PskIsNoNoKey DEF Loaded, FlightPsk
  <2> QED
    BY <2>1, <2>2 DEF Init
<1> QED
  BY <1>1 DEF Init, Control, InHandshake, InRequest, BeforeTickets

LEMMA ControlStep == TypeOK /\ Control /\ [Next]_vars => Control'
<1> SUFFICES ASSUME TypeOK, Control, [Next]_vars PROVE Control'
  OBVIOUS
<1> USE DEF client, network, server, history, InHandshake, InRequest,
         BeforeTickets
<1>1. session.tickets \in Nat
  BY DEF TypeOK, SessionType
<1>2. CASE CallHandshake
  BY <1>2 DEF CallHandshake, Return, Control
<1>3. CASE CallRequest
  BY <1>1, <1>3 DEF CallRequest, HasSession, Control
<1>4. CASE KeyGenFails \/ SendHello \/ DialFails \/ NoTicket \/ SendRequest
  BY <1>4, SendShapes DEF Posts, Control
<1>5. CASE ReadServerHello
  BY <1>5, ReadServerHelloShape DEF Take, Return, Control
<1>6. CASE ReadSignature
  BY <1>6, ReadSignatureShape DEF Take, Fails, Return, Control
<1>7. CASE ReadNewSessionTicket
  <2>1. newSession.psk # NoKey
    BY PskIsNoNoKey DEF newSession
  <2> QED
    BY <1>7, <2>1, ReadNewSessionTicketShape DEF Take, Fails, Return, Control
<1>8. CASE ReadServerFinish
  BY <1>8, ReadServerFinishShape DEF Fails, Return, Control
<1>9. CASE ReadHello \/ ReadFinish \/ ReadData \/ ReadAbort
  <2>1. /\ session'.tickets = session.tickets /\ session'.psk = session.psk
        /\ UNCHANGED <<status, call>>
        /\ pc \in InRequest /\ pc' \in InRequest \cup {"idle"}
        /\ pc' = "idle" => conn' = "none"
    BY <1>9, RequestShapes DEF TypeOK, SessionType
  <2> QED
    BY <2>1 DEF Control
<1>10. CASE ReadResponse \/ ResponseFails \/ BodyEnds
  BY <1>10, ResponseShapes DEF Waiting, Control
<1>11. CASE ServerReacts \/ Environment \/ UNCHANGED vars
  BY <1>11, OtherSteps DEF Waiting, Control
<1> QED
  BY <1>2, <1>3, <1>4, <1>5, <1>6, <1>7, <1>8, <1>9, <1>10, <1>11
  DEF Next, Calls, Continues

(* Types and Control in one, and with them at hand.                        *)
Typed == TypeOK /\ IssuedWhole /\ Control

LEMMA TypedInvariant == Spec => []Typed
<1>1. Init => Typed
  BY InitType, ControlInit DEF Typed
<1>2. Typed /\ [Next]_vars => Typed'
  BY TypeStep, ControlStep DEF Typed
<1> QED
  BY <1>1, <1>2, PTL DEF Spec

(* No connection of the short link outlives its exchange: outside one, and *)
(* between the handshake of a Request and its post, none is held.          *)
THEOREM ConnectionsEnd == Spec => []ConnectionsClosed
<1>1. Typed => ConnectionsClosed
  BY DEF Typed, Control, ConnectionsClosed
<1> QED
  BY <1>1, TypedInvariant, PTL

(* A Request leaves a session with a ticket in place, whatever the server  *)
(* answers: a handshake of its own would replace it, and there is none.    *)
THEOREM SessionsKept == Spec => RequestKeepsSession
<1>1. Typed /\ [Next]_vars
        => [call = "Request" /\ session.tickets > 0
              => session'.issue = session.issue]_vars
  <2> SUFFICES ASSUME Typed, Next, call = "Request", session.tickets > 0
               PROVE  session'.issue = session.issue
    BY DEF vars
  <2> USE DEF client
  <2>1. CASE Calls
    BY <2>1 DEF Calls, CallHandshake, CallRequest
  <2>2. CASE KeyGenFails \/ SendHello \/ DialFails \/ NoTicket \/ SendRequest
    BY <2>2, SendShapes
  <2>3. CASE ReadServerHello \/ ReadSignature \/ ReadServerFinish
    BY <2>3, ReadServerHelloShape, ReadSignatureShape, ReadServerFinishShape
  <2>4. CASE ReadNewSessionTicket
    <3>1. pc = "readNewSessionTicket"
      BY <2>4, ReadNewSessionTicketShape DEF Take
    <3>2. session.tickets = 0
      BY <3>1 DEF Typed, Control, BeforeTickets
    <3> QED
      BY <3>2
  <2>5. CASE ReadHello \/ ReadFinish \/ ReadData \/ ReadAbort
    BY <2>5, RequestShapes DEF Typed, TypeOK, SessionType
  <2>6. CASE ReadResponse \/ ResponseFails \/ BodyEnds
    BY <2>6, ResponseShapes
  <2>7. CASE ServerReacts \/ Environment
    BY <2>7, OtherSteps
  <2> QED
    BY <2>1, <2>2, <2>3, <2>4, <2>5, <2>6, <2>7 DEF Next, Continues
<1> QED
  BY <1>1, TypedInvariant, PTL DEF Spec, RequestKeepsSession

-----------------------------------------------------------------------------
(* No nonce is used twice.                                                 *)

(* A Request that has sealed nothing yet.                                  *)
Unsent ==
  pc = "sendRequest"
    \/ (call = "Request" /\ pc \in {"sendHello", "awaitHandshake"} \cup InHandshake)

(* The number of the request whose hello is the last in the hash of a key. *)
SealedBy(seal) == seal[1].hash[Len(seal[1].hash)].id

(* Every key sealed with is made of a hello, whose number is that of a     *)
(* request called, and not of the one that has yet to send: with this the  *)
(* key of the next early data is a new one, although nothing else need be. *)
NonceInv ==
  /\ \A i \in DOMAIN sealed :
       /\ SealedBy(sealed[i]) \in 0..requests
       /\ Unsent => SealedBy(sealed[i]) < requests
  /\ NoNonceReuse

LEMMA EarlyKeyHello ==
  ASSUME NEW psk \in Key, NEW hello \in Message, NEW q
  PROVE  SealedBy(<<EarlyKey(psk, <<hello>>), q>>) = hello.id
<1> DEFINE s == psk.hash
           t == <<hello>>
<1>1. s \in Seq(Message) /\ t \in Seq(Message)
  BY DEF Key, Transcript
<1>2. Len(t) = 1 /\ 1 \in DOMAIN t /\ t[1] = hello
  BY <1>1
<1> HIDE DEF s, t
<1>3. Len(s \o t) = Len(s) + 1 /\ (s \o t)[Len(s) + 1] = hello
  BY <1>1, <1>2, AfterConcat
<1>4. EarlyKey(psk, t).hash = s \o t
  BY DEF EarlyKey, hkdfExpand, s
<1>5. SealedBy(<<EarlyKey(psk, t), q>>)
        = EarlyKey(psk, t).hash[Len(EarlyKey(psk, t).hash)].id
  BY DEF SealedBy
<1> QED
  BY <1>3, <1>4, <1>5 DEF t

LEMMA SendRequestSeals ==
  ASSUME TypeOK, NonceInv, SendRequest
  PROVE  /\ \A i \in DOMAIN sealed' : SealedBy(sealed'[i]) \in 0..requests
         /\ NoNonceReuse'
<1> DEFINE key == EarlyKey(session.psk, <<pskHello>>)
           new == Seals(earlyData)
<1>1. session.psk \in Key /\ pskHello \in Message /\ extensions \in Message
  BY HelloTypes DEF TypeOK, SessionType
<1>2. /\ new \in Seq(Key \X Nat) /\ Len(new) = 3
      /\ \A i \in 1..3 : new[i] = <<key, i>>
  BY <1>1, EarlyBodyTypes, Zenon DEF earlyData
<1>3. pskHello.id = requests
  BY DEF pskHello, Msg
<1> HIDE DEF key, new
<1>4. DOMAIN new = 1..3
  BY <1>2
<1>5. \A i \in DOMAIN new : new[i] = <<key, i>> /\ SealedBy(new[i]) = requests
  <2> TAKE i \in DOMAIN new
  <2>1. new[i] = <<key, i>>
    BY <1>2, <1>4
  <2> QED
    BY <1>1, <1>3, <2>1, EarlyKeyHello DEF key
<1>6. sealed' = sealed \o new /\ pc = "sendRequest"
  BY DEF SendRequest, new
<1>7. sealed \in Seq(Key \X Nat) /\ requests \in Nat
  BY DEF TypeOK
<1>8. \A i \in DOMAIN sealed : /\ SealedBy(sealed[i]) # requests
                               /\ SealedBy(sealed[i]) \in 0..requests
  BY <1>6, <1>7 DEF NonceInv, Unsent
<1>9. \A i \in DOMAIN sealed' :
        \/ i \in DOMAIN sealed /\ sealed'[i] = sealed[i]
        \/ /\ i \notin DOMAIN sealed /\ i - Len(sealed) \in DOMAIN new
           /\ sealed'[i] = new[i - Len(sealed)]
  BY <1>2, <1>6, <1>7, AfterConcat
<1>10. \A i \in DOMAIN sealed' : SealedBy(sealed'[i]) \in 0..requests
  <2> TAKE i \in DOMAIN sealed'
  <2>1. CASE i \in DOMAIN sealed /\ sealed'[i] = sealed[i]
    BY <1>8, <2>1
  <2>2. CASE i - Len(sealed) \in DOMAIN new
             /\ sealed'[i] = new[i - Len(sealed)]
    BY <1>5, <1>7, <2>2
  <2> QED
    BY <1>9, <2>1, <2>2
<1>11. ASSUME NEW i \in DOMAIN sealed', NEW k \in DOMAIN sealed',
              sealed'[i] = sealed'[k]
       PROVE  i = k
  <2>1. CASE i \in DOMAIN sealed /\ k \in DOMAIN sealed
    BY <1>9, <1>11, <2>1 DEF NonceInv, NoNonceReuse
  <2>2. CASE i \in DOMAIN sealed /\ k \notin DOMAIN sealed
    BY <1>5, <1>8, <1>9, <1>11, <2>2
  <2>3. CASE i \notin DOMAIN sealed /\ k \in DOMAIN sealed
    BY <1>5, <1>8, <1>9, <1>11, <2>3
  <2>4. CASE i \notin DOMAIN sealed /\ k \notin DOMAIN sealed
    <3>1. /\ i - Len(sealed) \in 1..3 /\ k - Len(sealed) \in 1..3
          /\ <<key, i - Len(sealed)>> = <<key, k - Len(sealed)>>
      BY <1>4, <1>5, <1>9, <1>11, <2>4
    <3>2. i - Len(sealed) = k - Len(sealed)
      BY <3>1
    <3>3. i \in Int /\ k \in Int /\ Len(sealed) \in Int
      BY <1>7, <1>6, <1>2
    <3> QED
      BY <3>2, <3>3
  <2> QED
    BY <2>1, <2>2, <2>3, <2>4
<1> QED
  BY <1>10, <1>11 DEF NoNonceReuse

(* Only SendRequest seals; a Request has yet to send when it is called, or *)
(* had before the step.                                                    *)
LEMMA WhoSeals ==
  ASSUME [Next]_vars
  PROVE  /\ UNCHANGED sealed \/ SendRequest
         /\ UNCHANGED requests \/ requests' = requests + 1
         /\ Unsent' => Unsent \/ requests' = requests + 1
<1> USE DEF client, network, server, history, InHandshake, Unsent
<1>1. CASE CallHandshake
  BY <1>1 DEF CallHandshake, Return
<1>2. CASE CallRequest
  BY <1>2 DEF CallRequest
<1>3. CASE KeyGenFails \/ SendHello \/ DialFails \/ NoTicket \/ SendRequest
  <2>1. UNCHANGED sealed \/ SendRequest
    BY <1>3 DEF KeyGenFails, SendHello, DialFails, NoTicket
  <2> QED
    BY <1>3, <2>1, SendShapes DEF Posts
<1>4. CASE ReadServerHello
  BY <1>4, ReadServerHelloShape DEF Take, Return
<1>5. CASE ReadSignature
  BY <1>5, ReadSignatureShape DEF Take, Fails, Return
<1>6. CASE ReadNewSessionTicket
  BY <1>6, ReadNewSessionTicketShape DEF Take, Fails, Return
<1>7. CASE ReadServerFinish
  BY <1>7, ReadServerFinishShape DEF Fails, Return
<1>8. CASE ReadHello \/ ReadFinish \/ ReadData \/ ReadAbort
  BY <1>8, RequestShapes
<1>9. CASE ReadResponse \/ ResponseFails \/ BodyEnds
  BY <1>9, ResponseShapes
<1>10. CASE ServerReacts \/ Environment \/ UNCHANGED vars
  BY <1>10, OtherSteps
<1> QED
  BY <1>1, <1>2, <1>3, <1>4, <1>5, <1>6, <1>7, <1>8, <1>9, <1>10
  DEF Next, Calls, Continues

LEMMA NonceStep == Typed /\ NonceInv /\ [Next]_vars => NonceInv'
<1> SUFFICES ASSUME Typed, NonceInv, [Next]_vars PROVE NonceInv'
  OBVIOUS
<1>1. TypeOK
  BY DEF Typed
<1>2. CASE SendRequest
  <2>1. UNCHANGED requests /\ ~Unsent'
    BY <1>2, SendShapes DEF SendRequest, Posts, PostFails, EndRequest, Return, Unsent,
       InHandshake
  <2> QED
    BY <1>1, <1>2, <2>1, SendRequestSeals DEF NonceInv
<1>3. CASE UNCHANGED sealed
  <2>1. requests \in Nat
    BY <1>1 DEF TypeOK
  <2>2. CASE requests' = requests + 1
    BY <1>3, <2>1, <2>2 DEF NonceInv, NoNonceReuse
  <2>3. CASE UNCHANGED requests /\ (Unsent' => Unsent)
    BY <1>3, <2>3 DEF NonceInv, NoNonceReuse
  <2> QED
    BY <2>2, <2>3, WhoSeals
<1> QED
  BY <1>2, <1>3, WhoSeals

(* No two encrypts of the short link share a key and a sequence number:    *)
(* the counter starts again with every request, and the hello of the       *)
(* request, which is in the hash of the key, is new.                       *)
THEOREM NoncesDistinct == Spec => []NoNonceReuse
<1>1. Init => NonceInv
  BY DEF Init, NonceInv, NoNonceReuse
<1> QED
  BY <1>1, NonceStep, TypedInvariant, PTL DEF Spec, NonceInv

-----------------------------------------------------------------------------
(* What a handshake knows of the server.                                   *)

(* The handshakes the server has answered are numbered, and those that     *)
(* prove nothing are among them.                                           *)
IssuedInOrder ==
  /\ \A j \in DOMAIN issued : issued[j].secret[2] = j /\ issued[j].tr[4].id = j
  /\ unproved \subseteq DOMAIN issued

Proof(r, flight) ==
  /\ r.body.kind = "ServerFinish" /\ r.body.form = "ok"
  /\ r.tag = ServerFinished(flight.secret, flight.tr)

OfFlight(r, j) ==
  /\ r.key = FlightKey(issued[j])
  /\ r.seq = 1 => r.body = issued[j].tr[3]
  /\ r.seq = 2 => r.body = issued[j].tr[4]
  /\ r.seq = 3 /\ j \in unproved => ~Proof(r, issued[j])

(* The number of the request a response key is made for: its hash ends in  *)
(* the hello and the extensions of the request and the hello of the server.*)
AskedWith(key) == key.hash[Len(key.hash) - 2].id

(* A record the client may come to read: one of a handshake is of a flight *)
(* the server answered with, the data of a response is for the request its *)
(* key was made for.                                                       *)
Known(r) ==
  /\ r.key.label = "handshake" => \E j \in DOMAIN issued : OfFlight(r, j)
  /\ r.key.label = "request" /\ r.seq = 2 => r.body.id = AskedWith(r.key)

In(r, body) == \E i \in DOMAIN body : body[i] = r

(* In the response being read, in one on its way, or in the last the       *)
(* server has sent, which something on the path may send again.            *)
Heard(r) ==
  \/ In(r, packetReader)
  \/ In(r, last)
  \/ \E b \in DOMAIN reply : In(r, reply[b])

Received == \A r : Heard(r) => Known(r)

(* Handshakes answered stay as they were, proved or not.                   *)
Grows ==
  \A j \in DOMAIN issued : /\ j \in DOMAIN issued' /\ issued'[j] = issued[j]
                           /\ j \in unproved' <=> j \in unproved

LEMMA WhoIssues ==
  ASSUME [Next]_vars
  PROVE  \/ UNCHANGED <<issued, unproved>>
         \/ \E f \in Faults, n \in TicketCounts : ServerAnswersHello(f, n)
<1> USE DEF server
<1>1. CASE Calls
  BY <1>1 DEF Calls, CallHandshake, CallRequest
<1>2. CASE KeyGenFails \/ SendHello \/ DialFails \/ NoTicket \/ SendRequest
  BY <1>2, SendShapes
<1>3. CASE ReadServerHello \/ ReadSignature \/ ReadNewSessionTicket
           \/ ReadServerFinish
  BY <1>3, ReadServerHelloShape, ReadSignatureShape, ReadNewSessionTicketShape,
     ReadServerFinishShape DEF Take
<1>4. CASE ReadHello \/ ReadFinish \/ ReadData \/ ReadAbort
  BY <1>4, RequestShapes
<1>5. CASE ReadResponse \/ ResponseFails \/ BodyEnds
  BY <1>5, ResponseShapes
<1>6. CASE ServerAnswersRequest \/ ServerRejects
  BY <1>6, Zenon DEF ServerAnswersRequest, ServerRejects
<1>7. CASE Environment \/ UNCHANGED vars
  BY <1>7 DEF Environment, ConnectionLost, ResponseCut, StaleResponse, vars
<1> QED
  BY <1>1, <1>2, <1>3, <1>4, <1>5, <1>6, <1>7
  DEF Next, Continues, ServerReacts

LEMMA IssuedStep ==
  ASSUME Typed, IssuedInOrder, [Next]_vars
  PROVE  Grows /\ IssuedInOrder'
<1>1. CASE UNCHANGED <<issued, unproved>>
  BY <1>1 DEF Grows, IssuedInOrder
<1>2. ASSUME NEW f \in Faults, NEW n \in TicketCounts, ServerAnswersHello(f, n)
      PROVE  Grows /\ IssuedInOrder'
  <2> DEFINE id     == Len(issued) + 1
             flight == FlightTo(post[1].body, id, f, n)
  <2>1. /\ DOMAIN issued' = DOMAIN issued \cup {id}
        /\ \A j \in DOMAIN issued : issued'[j] = issued[j] /\ j # id
        /\ issued'[id] = flight
        /\ flight.secret = <<post[1].body.id, id>>
        /\ flight.tr[4].id = id
        /\ unproved' = IF f \in {"finish", "mac"} THEN unproved \cup {id}
                       ELSE unproved
    <3>1. TypeOK
      BY DEF Typed
    <3>2. /\ DOMAIN issued' = DOMAIN issued \cup {id}
          /\ \A j \in DOMAIN issued : issued'[j] = issued[j] /\ j # id
          /\ issued'[id] = flight
      BY <1>2, <3>1, FlightIssued, Zenon DEF id
    <3>3. flight.secret = <<post[1].body.id, id>> /\ flight.tr[4].id = id
      BY FlightShape
    <3>4. unproved' = IF f \in {"finish", "mac"} THEN unproved \cup {id}
                      ELSE unproved
      BY <1>2, Zenon DEF ServerAnswersHello
    <3> QED
      BY <3>2, <3>3, <3>4, Zenon
  <2> HIDE DEF id, flight
  <2> QED
    BY <2>1 DEF Grows, IssuedInOrder
<1> QED
  BY <1>1, <1>2, WhoIssues

LEMMA KnownLater ==
  ASSUME Grows, NEW r, Known(r)
  PROVE  Known(r)'
<1>1. ASSUME NEW j \in DOMAIN issued, OfFlight(r, j)
      PROVE  j \in DOMAIN issued' /\ OfFlight(r, j)'
  BY <1>1 DEF Grows, OfFlight, Proof
<1> QED
  BY <1>1 DEF Known, AskedWith

LEMMA NoKeyKnown == ASSUME NEW r, r.key = NoKey PROVE Known(r)
BY DEF Known, NoKey, hkdfExpand

LEMMA NoKeyKnownNext == ASSUME NEW r, r.key = NoKey PROVE Known(r)'
BY DEF Known, NoKey, hkdfExpand

(* The records of an answer to a hello are those of the new flight, and    *)
(* its finish proves nothing if the fault is in it.                        *)
LEMMA FlightKnown ==
  ASSUME Typed, IssuedInOrder, NEW f \in Faults, NEW n \in TicketCounts,
         ServerAnswersHello(f, n)
  PROVE  LET flight == FlightTo(post[1].body, Len(issued) + 1, f, n)
         IN  \A r : In(r, FlightRecords(flight, f)) => Known(r)'
<1> DEFINE id     == Len(issued) + 1
           flight == FlightTo(post[1].body, id, f, n)
           body   == FlightRecords(flight, f)
<1>1. TypeOK
  BY DEF Typed
<1>2. /\ id \in DOMAIN issued' /\ issued'[id] = flight
      /\ unproved' = IF f \in {"finish", "mac"} THEN unproved \cup {id}
                     ELSE unproved
      /\ body \in Seq(Record)
  BY <1>1, HelloAnswered
<1>3. id \notin unproved
  <2>1. Len(issued) \in Nat /\ DOMAIN issued = 1..Len(issued)
    BY <1>1 DEF TypeOK
  <2> QED
    BY <2>1 DEF IssuedInOrder
<1> HIDE DEF id, flight
<1>4. /\ Len(body) = 4
      /\ body[1] = Plain(flight.tr[2])
      /\ \A i \in 2..4 : body[i].key = FlightKey(flight) /\ body[i].seq = i - 1
      /\ body[2].body = flight.tr[3]
      /\ body[3].body = flight.tr[4]
  BY FlightRecordShape
<1>5. /\ body[4].body = Msg("ServerFinish", flight.tr[2].id, Faulty(f, "finish"))
      /\ body[4].tag = IF f = "mac" THEN NoKey
                       ELSE ServerFinished(flight.secret, flight.tr)
  BY FlightFinishShape
<1> HIDE DEF body
<1>6. DOMAIN body = 1..4
  BY <1>2, <1>4
<1>7. ASSUME NEW r, r = body[1] PROVE Known(r)'
  BY <1>4, <1>7, NoKeyKnownNext DEF Plain
<1>8. id \in unproved' => ~Proof(body[4], flight)
  <2>1. NoKey # ServerFinished(flight.secret, flight.tr)
    BY DEF NoKey, ServerFinished, hkdfExpand
  <2> QED
    BY <1>2, <1>3, <1>5, <2>1 DEF Proof, Msg, Faulty
<1>9. ASSUME NEW i \in 2..4, NEW r, r = body[i] PROVE Known(r)'
  <2>1. r.key = FlightKey(flight) /\ r.seq = i - 1
    BY <1>4, <1>9
  <2>2. r.key.label = "handshake"
    BY <2>1 DEF FlightKey, HandshakeKey, hkdfExpand
  <2>3. i = 2 \/ i = 3 \/ i = 4
    OBVIOUS
  <2>4. /\ r.key = FlightKey(issued'[id])
        /\ r.seq = 1 => r.body = issued'[id].tr[3]
        /\ r.seq = 2 => r.body = issued'[id].tr[4]
        /\ r.seq = 3 /\ id \in unproved' => ~Proof(r, issued'[id])
    BY <1>2, <1>4, <1>8, <1>9, <2>1, <2>3
  <2> QED
    BY <1>2, <2>2, <2>4 DEF Known, OfFlight
<1>10. \A r : In(r, body) => Known(r)'
  BY <1>6, <1>7, <1>9 DEF In
<1> QED
  BY <1>10 DEF body, flight, id

(* The key of a response is asked for with the hello of its request.       *)
LEMMA RequestKeyAsks ==
  ASSUME NEW psk \in Key, NEW hello \in Message, NEW ext \in Message,
         NEW sh \in Message
  PROVE  /\ AskedWith(RequestKey(psk, <<hello, ext, sh>>)) = hello.id
         /\ RequestKey(psk, <<hello, ext, sh>>).label = "request"
<1> DEFINE s == psk.hash
           t == <<hello, ext, sh>>
<1>1. s \in Seq(Message) /\ t \in Seq(Message)
  BY DEF Key, Transcript
<1>2. Len(t) = 3 /\ 1 \in DOMAIN t /\ t[1] = hello
  BY <1>1
<1> HIDE DEF s, t
<1>3. Len(s \o t) = Len(s) + 3 /\ (s \o t)[Len(s) + 1] = hello /\ Len(s) \in Nat
  <2>1. Len(s) \in Nat
    BY <1>1
  <2>2. /\ Len(s \o t) = Len(s) + Len(t)
        /\ \A i \in DOMAIN t : (s \o t)[Len(s) + i] = t[i]
    <3>1. \A S : \A u, v \in Seq(S) :
            /\ Len(u \o v) = Len(u) + Len(v)
            /\ \A i \in DOMAIN v : (u \o v)[Len(u) + i] = v[i]
      BY AfterConcat
    <3> QED
      BY <1>1, <3>1
  <2> QED
    BY <1>2, <2>1, <2>2
<1>4. (s \o t)[Len(s \o t) - 2] = hello
  <2>1. Len(s \o t) - 2 = Len(s) + 1
    BY <1>3
  <2> QED
    BY <1>3, <2>1
<1>5. RequestKey(psk, t).hash = s \o t /\ RequestKey(psk, t).label = "request"
  BY DEF RequestKey, hkdfExpand, s
<1>6. AskedWith(RequestKey(psk, t)) = hello.id
  BY <1>4, <1>5 DEF AskedWith
<1> QED
  BY <1>5, <1>6 DEF t

LEMMA ResponseKnown ==
  ASSUME Typed, ServerAnswersRequest
  PROVE  \E body \in Seq(Record) :
           Replies(body, TRUE) /\ \A r : In(r, body) => Known(r)'
<1> DEFINE hello == post[1].body
           psk   == FlightPsk(issued[hello.ticket])
           ext   == post[2].body
           sh    == [Msg("ServerHello", served + 1, "ok")
                       EXCEPT !.ticket = hello.ticket]
           key   == RequestKey(psk, <<hello, ext, sh>>)
           body  == <<Plain(sh),
                      Seal(key, 1, Msg("ServerFinish", hello.id, "ok"), NoKey),
                      Seal(key, 2, Msg("Data", hello.id, "ok"), NoKey),
                      Seal(key, 3, Msg("Abort", hello.id, "ok"), NoKey)>>
<1>1. Replies(body, TRUE)
  BY Zenon DEF ServerAnswersRequest
<1>2. body \in Seq(Record) /\ hello \in Message /\ ext \in Message
      /\ sh \in Message /\ psk \in Key
  BY AnswerParts DEF Typed
<1> HIDE DEF hello, psk, ext, sh
<1>3. AskedWith(key) = hello.id /\ key.label = "request"
  BY <1>2, RequestKeyAsks
<1> HIDE DEF key
<1>4. DOMAIN body = 1..4
  OBVIOUS
<1>5. ASSUME NEW r, r.key = key, r.seq = 2 => r.body.id = hello.id
      PROVE  Known(r)'
  BY <1>3, <1>5 DEF Known, AskedWith
<1>6. /\ body[1].key = NoKey
      /\ body[2].key = key /\ body[2].seq = 1
      /\ body[3].key = key /\ body[3].body.id = hello.id
      /\ body[4].key = key /\ body[4].seq = 3
  BY DEF Seal, Msg, Plain
<1> HIDE DEF body
<1>7. ASSUME NEW i \in 1..4, NEW r, r = body[i] PROVE Known(r)'
  <2>1. i = 1 \/ i = 2 \/ i = 3 \/ i = 4
    OBVIOUS
  <2> QED
    BY <1>5, <1>6, <1>7, <2>1, NoKeyKnownNext
<1>8. \A r : In(r, body) => Known(r)'
  BY <1>4, <1>7 DEF In
<1> QED
  BY <1>1, <1>2, <1>8

LEMMA RepliesHeard ==
  ASSUME NEW body, NEW good, Replies(body, good), NEW r, Heard(r)'
  PROVE  Heard(r) \/ In(r, body)
<1>1. packetReader' = packetReader /\ last' = body /\ reply' = <<body>>
  BY DEF Replies
<1>2. DOMAIN reply' = {1} /\ reply'[1] = body
  BY <1>1
<1> QED
  BY <1>1, <1>2 DEF Heard, In

(* The client reads on: no record is heard that was not heard before.      *)
LEMMA ReadsHeard ==
  ASSUME TypeOK, NEW r, Heard(r)', last' = last,
         \/ UNCHANGED packetReader
         \/ packetReader # << >> /\ packetReader' = Tail(packetReader)
         \/ reply # << >> /\ packetReader' = reply[1],
         UNCHANGED reply \/ reply' = << >>
  PROVE  Heard(r)
<1>1. In(r, last') => Heard(r)
  BY DEF Heard
<1>2. ASSUME NEW b \in DOMAIN reply', In(r, reply'[b]) PROVE Heard(r)
  <2>1. CASE UNCHANGED reply
    BY <1>2, <2>1 DEF Heard
  <2>2. CASE reply' = << >>
    BY <1>2, <2>2
  <2> QED
    BY <2>1, <2>2
<1>3. ASSUME In(r, packetReader') PROVE Heard(r)
  <2>1. CASE UNCHANGED packetReader
    BY <1>3, <2>1 DEF Heard
  <2>2. CASE packetReader # << >> /\ packetReader' = Tail(packetReader)
    <3>1. packetReader \in Seq(Record)
      BY DEF TypeOK
    <3>2. \A i \in DOMAIN Tail(packetReader) :
            i + 1 \in DOMAIN packetReader
            /\ Tail(packetReader)[i] = packetReader[i + 1]
      BY <2>2, <3>1, AfterTail
    <3> QED
      BY <1>3, <2>2, <3>2 DEF Heard, In
  <2>3. CASE reply # << >> /\ packetReader' = reply[1]
    <3>1. 1 \in DOMAIN reply
      BY <2>3 DEF TypeOK
    <3> QED
      BY <1>3, <2>3, <3>1 DEF Heard
  <2> QED
    BY <2>1, <2>2, <2>3
<1> QED
  BY <1>1, <1>2, <1>3 DEF Heard

LEMMA NetworkHeard ==
  ASSUME TypeOK, NEW r, Heard(r)', Environment
  PROVE  Heard(r) \/ r.key = NoKey
<1>1. CASE ConnectionLost
  BY <1>1, ReadsHeard DEF ConnectionLost, server
<1>2. CASE ResponseCut
  <2>1. PICK b \in Seq(Record) :
           /\ reply' = <<b>>
           /\ \A i \in DOMAIN b : (\E k \in DOMAIN reply[1] : b[i] = reply[1][k])
                                  \/ b[i].key = NoKey
    BY <1>2, CutShort
  <2>2. DOMAIN reply' = {1} /\ reply'[1] = b
    BY <2>1
  <2>3. 1 \in DOMAIN reply
    BY <1>2 DEF ResponseCut, TypeOK
  <2>4. UNCHANGED <<packetReader, last>>
    BY <1>2 DEF ResponseCut, server
  <2> QED
    BY <2>1, <2>2, <2>3, <2>4 DEF Heard, In
<1>3. CASE StaleResponse
  <2>1. UNCHANGED <<packetReader, last>> /\ reply' = <<last>>
    BY <1>3 DEF StaleResponse, server
  <2>2. DOMAIN reply' = {1} /\ reply'[1] = last
    BY <2>1
  <2> QED
    BY <2>1, <2>2 DEF Heard, In
<1> QED
  BY <1>1, <1>2, <1>3 DEF Environment

(* What the client does with its reader and the responses on their way.    *)
LEMMA ClientReads ==
  ASSUME Calls \/ Continues \/ UNCHANGED vars
  PROVE  /\ last' = last
         /\ \/ UNCHANGED packetReader
            \/ packetReader # << >> /\ packetReader' = Tail(packetReader)
            \/ reply # << >> /\ packetReader' = reply[1]
         /\ UNCHANGED reply \/ reply' = << >>
<1> USE DEF server, network
<1>1. CASE Calls
  BY <1>1 DEF Calls, CallHandshake, CallRequest
<1>2. CASE KeyGenFails \/ SendHello \/ DialFails \/ NoTicket \/ SendRequest
  BY <1>2, SendShapes DEF Posts
<1>3. CASE ReadServerHello \/ ReadSignature \/ ReadNewSessionTicket
           \/ ReadServerFinish
  BY <1>3, ReadServerHelloShape, ReadSignatureShape, ReadNewSessionTicketShape,
     ReadServerFinishShape DEF Take
<1>4. CASE ReadHello \/ ReadFinish \/ ReadData \/ ReadAbort
  BY <1>4, RequestShapes
<1>5. CASE ReadResponse \/ ResponseFails \/ BodyEnds
  BY <1>5, ResponseShapes
<1>6. CASE UNCHANGED vars
  BY <1>6 DEF vars
<1> QED
  BY <1>1, <1>2, <1>3, <1>4, <1>5, <1>6 DEF Continues

LEMMA ReceivedStep ==
  ASSUME Typed, IssuedInOrder, Received, [Next]_vars
  PROVE  Received'
<1>1. ASSUME NEW r, Heard(r)' PROVE Known(r)'
  <2>0. TypeOK /\ IssuedWhole
    BY DEF Typed
  <2>1. CASE Heard(r)
    BY <2>1, IssuedStep, KnownLater DEF Received
  <2>2. CASE r.key = NoKey
    BY <2>2, NoKeyKnownNext
  <2>3. ASSUME NEW f \in Faults, NEW n \in TicketCounts,
               ServerAnswersHello(f, n)
        PROVE  Known(r)'
    <3> DEFINE body == FlightRecords(FlightTo(post[1].body, Len(issued) + 1, f, n), f)
    <3>1. Replies(body, f = "none")
      BY <2>3, Zenon DEF ServerAnswersHello
    <3>2. In(r, body) => Known(r)'
      BY <2>3, FlightKnown
    <3> HIDE DEF body
    <3>3. Heard(r) \/ In(r, body)
      BY <1>1, <3>1, RepliesHeard
    <3> QED
      BY <2>1, <3>2, <3>3
  <2>4. CASE ServerAnswersRequest
    <3>1. PICK body \in Seq(Record) :
            Replies(body, TRUE) /\ \A s : In(s, body) => Known(s)'
      BY <2>4, ResponseKnown
    <3> QED
      BY <1>1, <2>1, <3>1, RepliesHeard
  <2>5. CASE ServerRejects
    <3>1. Replies(<<Plain(Msg("Alert", 0, "ok"))>>, FALSE)
      BY <2>5 DEF ServerRejects
    <3>2. In(r, <<Plain(Msg("Alert", 0, "ok"))>>) => r.key = NoKey
      BY DEF In, Plain
    <3>3. Heard(r) \/ In(r, <<Plain(Msg("Alert", 0, "ok"))>>)
      BY <1>1, <3>1, RepliesHeard
    <3> QED
      BY <2>1, <2>2, <3>2, <3>3
  <2>6. CASE Environment
    BY <1>1, <2>0, <2>1, <2>2, <2>6, NetworkHeard
  <2>7. CASE Calls \/ Continues \/ UNCHANGED vars
    BY <1>1, <2>0, <2>1, <2>7, ClientReads, ReadsHeard
  <2> QED
    BY <2>3, <2>4, <2>5, <2>6, <2>7 DEF Next, ServerReacts
<1> QED
  BY <1>1 DEF Received

-----------------------------------------------------------------------------
(* Where a handshake stands.                                               *)

(* The transcript, the traffic key and, once it is replaced, the session   *)
(* are of one and the same flight of the server.                           *)
Progress ==
  /\ pc \in {"awaitHandshake", "readServerHello"} => serverSeqNum = 0
  /\ pc = "readSignature" =>
       /\ serverSeqNum = 1
       /\ trafficKey.label = "handshake" /\ trafficKey.hash = transcript
  /\ pc = "readNewSessionTicket" =>
       /\ serverSeqNum = 2
       /\ \E j \in DOMAIN issued :
            trafficKey = FlightKey(issued[j]) /\ transcript = Signed(issued[j])
  /\ pc = "readServerFinish" =>
       /\ serverSeqNum = 3
       /\ session.issue \in DOMAIN issued
       /\ trafficKey = FlightKey(issued[session.issue])
       /\ transcript = issued[session.issue].tr

(* The session is of a flight of the server, and of one that proved itself *)
(* once the handshake is complete.                                         *)
SessionInv ==
  /\ SessionCoherent
  /\ status = 1 => session.issue \in DOMAIN issued \ unproved

HandshakeInv == IssuedInOrder /\ Received /\ Progress /\ SessionInv

LEMMA IssuedTypeOf ==
  ASSUME Typed, NEW j \in DOMAIN issued
  PROVE  issued[j] \in Flight /\ Len(issued[j].tr) = 4 /\ j \in Nat /\ j > 0
BY DEF Typed, TypeOK, IssuedWhole

(* The keys of two flights differ, since the server's key pairs do.        *)
LEMMA OneFlight ==
  ASSUME IssuedInOrder, NEW j \in DOMAIN issued, NEW k \in DOMAIN issued,
         FlightKey(issued[j]) = FlightKey(issued[k])
  PROVE  j = k
<1>1. issued[j].secret = issued[k].secret
  BY DEF FlightKey, HandshakeKey, hkdfExpand
<1> QED
  BY <1>1 DEF IssuedInOrder

LEMMA RecordHeard ==
  ASSUME TypeOK, packetReader # << >>
  PROVE  Heard(rec)
<1>1. packetReader \in Seq(Record)
  BY DEF TypeOK
<1>2. 1 \in DOMAIN packetReader /\ Head(packetReader) = packetReader[1]
  BY <1>1, AfterTail
<1> QED
  BY <1>2 DEF Heard, In, rec

(* A record that opens under a handshake key is of the flight of that key. *)
LEMMA OpenedRecord ==
  ASSUME Typed, HandshakeInv, packetReader # << >>,
         NEW key, key.label = "handshake", Decrypts(key)
  PROVE  \E j \in DOMAIN issued :
           /\ key = FlightKey(issued[j])
           /\ OfFlight(rec, j) /\ rec.seq = serverSeqNum
<1>1. Known(rec)
  BY RecordHeard DEF Typed, HandshakeInv, Received
<1>2. rec.key = key /\ rec.seq = serverSeqNum
  BY DEF Decrypts, Opens
<1> QED
  BY <1>1, <1>2 DEF Known, OfFlight

LEMMA SignatureRead ==
  ASSUME Typed, HandshakeInv, ReadSignature, Hash, Count, Decrypts(trafficKey)
  PROVE  /\ serverSeqNum' = 2
         /\ \E j \in DOMAIN issued : /\ trafficKey = FlightKey(issued[j])
                                     /\ transcript' = Signed(issued[j])
<1>1. pc = "readSignature" /\ packetReader # << >>
  BY ReadSignatureShape DEF Take
<1>2. /\ serverSeqNum = 1
      /\ trafficKey.label = "handshake" /\ trafficKey.hash = transcript
  BY <1>1 DEF HandshakeInv, Progress
<1>3. PICK j \in DOMAIN issued : /\ trafficKey = FlightKey(issued[j])
                                 /\ OfFlight(rec, j) /\ rec.seq = 1
  BY <1>1, <1>2, OpenedRecord
<1>4. transcript = Hellos(issued[j]) /\ rec.body = issued[j].tr[3]
  BY <1>2, <1>3 DEF FlightKey, HandshakeKey, hkdfExpand, OfFlight
<1>5. transcript' = Signed(issued[j])
  BY <1>4, IssuedTypeOf, TranscriptParts DEF Hash
<1> QED
  BY <1>2, <1>3, <1>5 DEF Count

LEMMA TicketsRead ==
  ASSUME Typed, HandshakeInv, ReadNewSessionTicket, Hash, Count,
         Decrypts(trafficKey), session' = newSession
  PROVE  /\ serverSeqNum' = 3
         /\ session'.issue \in DOMAIN issued
         /\ trafficKey = FlightKey(issued[session'.issue])
         /\ transcript' = issued[session'.issue].tr
         /\ SessionOf(session', issued)
<1>1. pc = "readNewSessionTicket" /\ packetReader # << >>
  BY ReadNewSessionTicketShape DEF Take
<1>2. serverSeqNum = 2
  BY <1>1 DEF HandshakeInv, Progress
<1>3. PICK j \in DOMAIN issued : /\ trafficKey = FlightKey(issued[j])
                                 /\ transcript = Signed(issued[j])
  BY <1>1 DEF HandshakeInv, Progress
<1>4. trafficKey.label = "handshake" /\ trafficKey.secret = issued[j].secret
  BY <1>3 DEF FlightKey, HandshakeKey, hkdfExpand
<1>5. PICK k \in DOMAIN issued : /\ trafficKey = FlightKey(issued[k])
                                 /\ OfFlight(rec, k) /\ rec.seq = 2
  BY <1>1, <1>2, <1>4, OpenedRecord
<1>6. k = j
  BY <1>3, <1>5, OneFlight DEF HandshakeInv
<1>7. rec.body = issued[j].tr[4]
  BY <1>5, <1>6 DEF OfFlight
<1>8. rec.body.id = j
  BY <1>7 DEF HandshakeInv, IssuedInOrder
<1>9. transcript' = issued[j].tr
  BY <1>3, <1>7, IssuedTypeOf, TranscriptParts DEF Hash
<1>10. /\ session'.issue = j
       /\ session'.tickets = issued[j].tr[4].count
       /\ session'.psk = FlightPsk(issued[j])
  BY <1>3, <1>4, <1>7, <1>8 DEF newSession, FlightPsk
<1> QED
  BY <1>2, <1>3, <1>9, <1>10 DEF Count, SessionOf

(* A finish that matches is one the server meant: its flight proves it.    *)
LEMMA FinishRead ==
  ASSUME Typed, HandshakeInv, ReadServerFinish, Decrypts(trafficKey),
         Parses("ServerFinish"), serverFinishMatches
  PROVE  session.issue \in DOMAIN issued \ unproved
<1>1. pc = "readServerFinish" /\ packetReader # << >>
  BY ReadServerFinishShape
<1>2. /\ serverSeqNum = 3 /\ session.issue \in DOMAIN issued
      /\ trafficKey = FlightKey(issued[session.issue])
      /\ transcript = issued[session.issue].tr
  BY <1>1 DEF HandshakeInv, Progress
<1>3. /\ trafficKey.label = "handshake"
      /\ trafficKey.secret = issued[session.issue].secret
  BY <1>2 DEF FlightKey, HandshakeKey, hkdfExpand
<1>4. PICK k \in DOMAIN issued : /\ trafficKey = FlightKey(issued[k])
                                 /\ OfFlight(rec, k) /\ rec.seq = 3
  BY <1>1, <1>2, <1>3, OpenedRecord
<1>5. k = session.issue
  BY <1>2, <1>4, OneFlight DEF HandshakeInv
<1>6. Proof(rec, issued[session.issue])
  BY <1>2, <1>3 DEF Proof, Parses, serverFinishMatches
<1> QED
  BY <1>2, <1>4, <1>5, <1>6 DEF OfFlight

LEMMA HandshakeInit == Init => HandshakeInv
<1> SUFFICES ASSUME Init PROVE HandshakeInv
  OBVIOUS
<1>1. Received /\ Progress
  BY DEF Init, Received, Heard, In, Progress
<1>2. CASE session = NoSession /\ issued = << >>
  BY <1>1, <1>2 DEF Init, HandshakeInv, IssuedInOrder, SessionInv,
     SessionCoherent, NoSession
<1>3. ASSUME NEW n \in TicketCounts, session = Loaded(n),
             issued = <<priorFlight(n)>>
      PROVE  HandshakeInv
  <2>1. DOMAIN issued = {1} /\ issued[1] = priorFlight(n)
    BY <1>3
  <2>2. /\ issued[1].secret[2] = 1 /\ issued[1].tr[4].id = 1
        /\ issued[1].tr[4].count = n
    BY <2>1, FlightShape DEF priorFlight
  <2>3. SessionOf(session, issued)
    BY <1>3, <2>1, <2>2 DEF SessionOf, Loaded
  <2> QED
    BY <1>1, <2>1, <2>2, <2>3 DEF Init, HandshakeInv, IssuedInOrder, SessionInv,
       SessionCoherent
<1> QED
  BY <1>2, <1>3 DEF Init

(* A session that is not replaced stays coherent, and one the server has   *)
(* proved stays proved.                                                    *)
LEMMA SessionStays ==
  ASSUME Grows, SessionInv, UNCHANGED status,
         session'.issue = session.issue, session'.psk = session.psk,
         session'.tickets = session.tickets
  PROVE  SessionInv'
<1>1. SessionOf(session, issued) => SessionOf(session, issued)'
  BY DEF Grows, SessionOf
<1>2. SessionCoherent'
  BY <1>1 DEF SessionInv, SessionCoherent
<1>3. status' = 1 => session'.issue \in DOMAIN issued' \ unproved'
  BY DEF Grows, SessionInv
<1> QED
  BY <1>2, <1>3 DEF SessionInv

LEMMA ProgressStays ==
  ASSUME Grows, Progress, UNCHANGED <<pc, serverSeqNum, trafficKey, transcript,
                                      session>>
  PROVE  Progress'
<1>1. ASSUME NEW j \in DOMAIN issued
      PROVE  j \in DOMAIN issued' /\ issued'[j] = issued[j]
  BY DEF Grows
<1>2. pc = "readNewSessionTicket" =>
        \E j \in DOMAIN issued' :
          trafficKey = FlightKey(issued'[j]) /\ transcript = Signed(issued'[j])
  BY <1>1 DEF Progress
<1>3. pc = "readServerFinish" =>
        /\ session.issue \in DOMAIN issued'
        /\ trafficKey = FlightKey(issued'[session.issue])
        /\ transcript = issued'[session.issue].tr
  BY <1>1 DEF Progress
<1> QED
  BY <1>2, <1>3 DEF Progress

LEMMA HandshakeStep ==
  ASSUME Typed, HandshakeInv, [Next]_vars
  PROVE  Progress' /\ SessionInv'
<1> USE DEF client, server
<1>1. Grows /\ SessionInv /\ Progress /\ TypeOK
  BY IssuedStep DEF HandshakeInv, Typed
<1>2. CASE Calls
  <2>1. UNCHANGED <<status, session>> /\ pc' \in {"idle", "sendHello", "sendRequest"}
    BY <1>2 DEF Calls, CallHandshake, CallRequest, Return
  <2> QED
    BY <1>1, <2>1, SessionStays DEF Progress
<1>3. CASE KeyGenFails \/ SendHello \/ DialFails \/ NoTicket \/ SendRequest
  <2>1. UNCHANGED <<status, session>>
    BY <1>3, SendShapes
  <2>2. \/ pc' \in {"idle", "panicked", "awaitRequest"}
        \/ pc' = "awaitHandshake" /\ serverSeqNum' = 0
    BY <1>3, SendShapes DEF SendHello, Posts
  <2> QED
    BY <1>1, <2>1, <2>2, SessionStays DEF Progress
<1>4. CASE ReadServerHello
  <2>1. /\ pc = "readServerHello" /\ UNCHANGED <<status, session>>
        /\ \/ /\ serverSeqNum' = serverSeqNum + 1 /\ pc' = "readSignature"
              /\ trafficKey' = HandshakeKey(<<attempt, rec.body.id>>, transcript')
           \/ pc' \in {"panicked", "idle"}
    BY <1>4, ReadServerHelloShape DEF Take, Count, Return
  <2>2. Progress'
    BY <1>1, <2>1 DEF Progress, HandshakeKey, hkdfExpand
  <2> QED
    BY <1>1, <2>1, <2>2, SessionStays
<1>5. CASE ReadSignature
  <2>1. UNCHANGED <<status, session, trafficKey, issued>>
    BY <1>5, ReadSignatureShape DEF Take
  <2>2. CASE Fails
    <3>1. pc' = "idle"
      BY <2>2 DEF Fails, Return
    <3> QED
      BY <1>1, <2>1, <3>1, SessionStays DEF Progress
  <2>3. CASE /\ Hash /\ Count /\ Decrypts(trafficKey)
             /\ pc' = "readNewSessionTicket"
    <3>1. /\ serverSeqNum' = 2
          /\ \E j \in DOMAIN issued : /\ trafficKey = FlightKey(issued[j])
                                      /\ transcript' = Signed(issued[j])
      BY <1>5, <2>3, SignatureRead
    <3> QED
      BY <1>1, <2>1, <2>3, <3>1, SessionStays DEF Progress
  <2> QED
    BY <1>5, <2>2, <2>3, ReadSignatureShape
<1>6. CASE ReadNewSessionTicket
  <2>1. pc = "readNewSessionTicket" /\ UNCHANGED <<status, trafficKey, issued>>
    BY <1>6, ReadNewSessionTicketShape DEF Take
  <2>2. CASE Fails /\ UNCHANGED session
    <3>1. pc' = "idle"
      BY <2>2 DEF Fails, Return
    <3> QED
      BY <1>1, <2>1, <2>2, <3>1, SessionStays DEF Progress
  <2>3. CASE /\ Hash /\ Count /\ Decrypts(trafficKey)
             /\ session' = newSession /\ pc' = "readServerFinish"
    <3>1. /\ serverSeqNum' = 3
          /\ session'.issue \in DOMAIN issued
          /\ trafficKey = FlightKey(issued[session'.issue])
          /\ transcript' = issued[session'.issue].tr
          /\ SessionOf(session', issued)
      BY <1>6, <2>3, TicketsRead
    <3>2. status' = 0
      BY <2>1 DEF Typed, Control, InHandshake
    <3>3. SessionInv'
      BY <2>1, <3>1, <3>2 DEF SessionInv, SessionCoherent
    <3>4. Progress'
      BY <2>1, <2>3, <3>1 DEF Progress
    <3> QED
      BY <3>3, <3>4
  <2> QED
    BY <1>6, <2>2, <2>3, ReadNewSessionTicketShape
<1>7. CASE ReadServerFinish
  <2>1. UNCHANGED <<session, issued, unproved>> /\ pc' \in {"idle", "sendRequest"}
    BY <1>7, ReadServerFinishShape DEF Fails, Return
  <2>2. Progress'
    BY <2>1 DEF Progress
  <2>3. CASE UNCHANGED status
    BY <1>1, <2>1, <2>2, <2>3, SessionStays
  <2>4. CASE /\ Decrypts(trafficKey) /\ Parses("ServerFinish")
             /\ serverFinishMatches
    <3>1. session.issue \in DOMAIN issued \ unproved
      BY <1>7, <2>4, FinishRead
    <3> QED
      BY <1>1, <2>1, <2>2, <3>1 DEF SessionInv, SessionCoherent
  <2> QED
    BY <1>7, <2>3, <2>4, ReadServerFinishShape
<1>8. CASE ReadHello \/ ReadFinish \/ ReadData \/ ReadAbort
  <2>1. /\ UNCHANGED status /\ pc' \in InRequest \cup {"idle"}
        /\ session'.issue = session.issue /\ session'.psk = session.psk
        /\ session'.tickets = session.tickets
    BY <1>1, <1>8, RequestShapes DEF TypeOK, SessionType, InRequest
  <2> QED
    BY <1>1, <2>1, SessionStays DEF Progress, InRequest
<1>9. CASE ReadResponse \/ ResponseFails \/ BodyEnds
  <2>1. /\ UNCHANGED <<status, session, serverSeqNum>>
        /\ \/ pc = "awaitHandshake" /\ pc' = "readServerHello"
           \/ pc' \in {"readHello", "idle"}
    BY <1>9, ResponseShapes
  <2> QED
    BY <1>1, <2>1, SessionStays DEF Progress
<1>10. CASE ServerReacts \/ Environment \/ UNCHANGED vars
  BY <1>1, <1>10, OtherSteps, SessionStays, ProgressStays
<1> QED
  BY <1>2, <1>3, <1>4, <1>5, <1>6, <1>7, <1>8, <1>9, <1>10 DEF Next, Continues

LEMMA HandshakeInvariant == Spec => [](Typed /\ HandshakeInv)
<1>1. Typed /\ HandshakeInv /\ [Next]_vars => HandshakeInv'
  BY IssuedStep, ReceivedStep, HandshakeStep DEF HandshakeInv
<1> QED
  BY <1>1, HandshakeInit, TypedInvariant, PTL DEF Spec

(* The session of the short link is, in memory, one the server issued with *)
(* the pre-shared key it derived, whether or not the handshake that made   *)
(* it came to an end: a later Request can use it.                          *)
THEOREM SessionsCoherent == Spec => []SessionCoherent
<1>1. HandshakeInv => SessionCoherent
  BY DEF HandshakeInv, SessionInv
<1> QED
  BY <1>1, HandshakeInvariant, PTL

(* A handshake of the short link completes only with a session whose       *)
(* server has proved itself, and such a session is not replaced.           *)
THEOREM CompletionVerified == Spec => []VerifiedStatus
<1>1. HandshakeInv => VerifiedStatus
  BY DEF HandshakeInv, SessionInv, VerifiedStatus
<1> QED
  BY <1>1, HandshakeInvariant, PTL

-----------------------------------------------------------------------------
(* Where a request stands.                                                 *)

(* The key of the response is made with the hello of this Request, and the *)
(* record the answer is taken from is the second under that key.           *)
RequestInv ==
  /\ pc \in {"awaitRequest", "readHello"} =>
       /\ serverSeqNum = 0
       /\ transcript = <<transcript[1], transcript[2]>>
       /\ transcript[1] \in Message /\ transcript[2] \in Message
       /\ transcript[1].id = requests
  /\ pc \in {"readFinish", "readData", "readAbort"} =>
       session.appKey.label = "request" /\ AskedWith(session.appKey) = requests
  /\ pc = "readFinish" => serverSeqNum = 1
  /\ pc = "readData" => serverSeqNum = 2
  /\ pc = "readAbort" => serverSeqNum = 3 /\ dataRecord = requests
  /\ ResponseMatches

LEMMA RequestStep ==
  ASSUME Typed, HandshakeInv, RequestInv, [Next]_vars
  PROVE  RequestInv'
<1> USE DEF client, server, history
<1>1. TypeOK
  BY DEF Typed
<1>2. CASE Calls
  <2>1. /\ pc' \in {"idle", "sendHello", "sendRequest"}
        /\ pc' = "idle" => call' = "Handshake"
    BY <1>2 DEF Calls, CallHandshake, CallRequest, Return
  <2> QED
    BY <2>1 DEF RequestInv, ResponseMatches
<1>3. CASE KeyGenFails \/ SendHello \/ DialFails \/ NoTicket \/ SendRequest
  <2>1. \/ pc' \in {"panicked", "awaitHandshake"}
        \/ pc' = "idle" /\ res' = "err"
        \/ SendRequest /\ pc' = "awaitRequest" /\ UNCHANGED requests
    BY <1>3, SendShapes DEF Posts
  <2>2. CASE SendRequest /\ pc' = "awaitRequest" /\ UNCHANGED requests
    <3>1. transcript' = <<pskHello, extensions>> /\ serverSeqNum' = 0
      BY <2>2 DEF SendRequest
    <3>2. pskHello \in Message /\ extensions \in Message /\ pskHello.id = requests
      BY <1>1, HelloTypes DEF pskHello, Msg
    <3> QED
      BY <2>2, <3>1, <3>2 DEF RequestInv, ResponseMatches
  <2> QED
    BY <2>1, <2>2 DEF RequestInv, ResponseMatches
<1>4. CASE ReadServerHello \/ ReadSignature \/ ReadNewSessionTicket
           \/ ReadServerFinish
  <2>1. \/ pc' \in {"panicked", "readSignature", "readNewSessionTicket",
                    "readServerFinish", "sendRequest"}
        \/ pc' = "idle" /\ (res' = "err" \/ call' = "Handshake")
    BY <1>4, ReadServerHelloShape, ReadSignatureShape,
       ReadNewSessionTicketShape, ReadServerFinishShape DEF Fails, Return
  <2> QED
    BY <2>1 DEF RequestInv, ResponseMatches
<1>5. CASE ReadHello \/ ReadFinish \/ ReadData \/ ReadAbort
  <2>1. packetReader # << >> /\ UNCHANGED <<requests, call>>
    BY <1>5, RequestShapes
  <2>2. CASE /\ ReadHello /\ pc = "readHello" /\ pc' = "readFinish"
             /\ Hash /\ Count
             /\ session' = [session EXCEPT
                  !.appKey = RequestKey(session.psk, transcript')]
    <3>1. rec.body \in Message /\ session \in SessionType
      BY <1>1, <2>1, RecordRead DEF TypeOK
    <3>2. session'.appKey = RequestKey(session.psk, transcript')
          /\ session.psk \in Key
      BY <2>2, <3>1 DEF SessionType
    <3>3. /\ transcript = <<transcript[1], transcript[2]>>
          /\ transcript[1] \in Message /\ transcript[2] \in Message
          /\ transcript[1].id = requests /\ serverSeqNum = 0
      BY <2>2 DEF RequestInv
    <3>4. transcript' = <<transcript[1], transcript[2], rec.body>>
      <4>1. transcript' = Append(transcript, rec.body)
        BY <2>2 DEF Hash
      <4>2. Append(<<transcript[1], transcript[2]>>, rec.body)
              = <<transcript[1], transcript[2], rec.body>>
        BY <3>1, <3>3, AppendToPair
      <4> QED
        BY <3>3, <4>1, <4>2, Zenon
    <3>5. /\ AskedWith(session'.appKey) = requests
          /\ session'.appKey.label = "request"
      BY <3>1, <3>2, <3>3, <3>4, RequestKeyAsks
    <3>6. serverSeqNum' = 1
      BY <2>2, <3>3 DEF Count
    <3> QED
      BY <2>1, <2>2, <3>5, <3>6 DEF RequestInv, ResponseMatches, AskedWith
  <2>3. CASE pc' = "idle" /\ res' = "err"
    BY <2>3 DEF RequestInv, ResponseMatches
  <2>4. CASE /\ Decrypts(session.appKey) /\ Count
             /\ UNCHANGED <<session, transcript>>
             /\ \/ pc = "readFinish" /\ pc' = "readData"
                \/ pc = "readData" /\ pc' = "readAbort" /\ dataRecord' = rec.body.id
                \/ pc = "readAbort" /\ pc' = "idle" /\ UNCHANGED dataRecord
    <3>1. CASE pc = "readFinish" /\ pc' = "readData"
      BY <2>1, <2>4, <3>1 DEF RequestInv, ResponseMatches, Count, AskedWith
    <3>2. CASE pc = "readData" /\ pc' = "readAbort" /\ dataRecord' = rec.body.id
      <4>1. /\ rec.key = session.appKey /\ rec.seq = 2
            /\ session.appKey.label = "request"
            /\ AskedWith(session.appKey) = requests
        BY <2>4, <3>2 DEF RequestInv, Decrypts, Opens
      <4>2. Known(rec)
        BY <1>1, <2>1, RecordHeard DEF HandshakeInv, Received
      <4>3. rec.body.id = requests
        BY <4>1, <4>2 DEF Known
      <4>4. serverSeqNum' = 3
        BY <2>4, <3>2 DEF RequestInv, Count
      <4> QED
        BY <2>1, <2>4, <3>2, <4>1, <4>3, <4>4
        DEF RequestInv, ResponseMatches, AskedWith
    <3>3. CASE pc = "readAbort" /\ pc' = "idle" /\ UNCHANGED dataRecord
      BY <2>1, <3>3 DEF RequestInv, ResponseMatches
    <3> QED
      BY <2>4, <3>1, <3>2, <3>3
  <2> QED
    BY <1>5, <2>2, <2>3, <2>4, RequestShapes
<1>6. CASE ReadResponse \/ ResponseFails \/ BodyEnds
  <2>1. /\ UNCHANGED <<client, call, requests>>
        /\ \/ pc' = "readServerHello"
           \/ pc = "awaitRequest" /\ pc' = "readHello"
           \/ pc' = "idle" /\ res' = "err"
    BY <1>6, ResponseShapes
  <2> QED
    BY <2>1 DEF RequestInv, ResponseMatches
<1>7. CASE ServerReacts \/ Environment \/ UNCHANGED vars
  <2>1. UNCHANGED <<client, call, pc, res, requests>>
    BY <1>7, OtherSteps
  <2> QED
    BY <2>1 DEF RequestInv, ResponseMatches, AskedWith
<1> QED
  BY <1>2, <1>3, <1>4, <1>5, <1>6, <1>7 DEF Next, Continues

LEMMA RequestInvariant == Spec => [](Typed /\ HandshakeInv /\ RequestInv)
<1>1. Init => RequestInv
  BY DEF Init, RequestInv, ResponseMatches
<1> QED
  BY <1>1, RequestStep, HandshakeInvariant, PTL DEF Spec

(* When Request returns data, it is the server's data for this very        *)
(* Request: a response to an earlier one is under a key that was made with *)
(* another hello, and does not open.                                       *)
THEOREM ResponsesMatch == Spec => []ResponseMatches
<1>1. RequestInv => ResponseMatches
  BY DEF RequestInv
<1> QED
  BY <1>1, RequestInvariant, PTL

-----------------------------------------------------------------------------
(* A post is on its way until its answer is, and neither outlives the      *)
(* caller's wait; what is on its way is made of what the client holds.     *)
Exchange ==
  /\ post # << >> => pc \in Waiting /\ reply = << >>
  /\ reply # << >> => pc \in Waiting
  /\ conn = "lost" => post = << >> /\ reply = << >>
  /\ pc = "awaitHandshake" /\ post # << >> =>
       post = <<Plain(Msg("ClientHello", attempt, "ok"))>>
  /\ pc = "awaitRequest" /\ post # << >> =>
       /\ post = EarlyBody(session.psk, transcript[1], transcript[2], 0)
       /\ transcript[1].ticket = session.issue

(* Outside the wait the network is idle, and stays so until the next post. *)
LEMMA IdleNetwork ==
  ASSUME Exchange, pc \notin Waiting
  PROVE  post = << >> /\ reply = << >>
BY DEF Exchange

LEMMA ExchangeStays ==
  ASSUME post' = << >>, reply' = << >>
  PROVE  Exchange'
BY DEF Exchange

LEMMA ExchangeStep == Typed /\ Exchange /\ [Next]_vars => Exchange'
<1> SUFFICES ASSUME Typed, Exchange, [Next]_vars PROVE Exchange'
  OBVIOUS
<1> USE DEF network, client, server, history
<1>1. CASE Calls
  <2>1. pc \notin Waiting /\ UNCHANGED <<post, reply>>
    BY <1>1 DEF Calls, CallHandshake, CallRequest, Waiting
  <2> QED
    BY <2>1, IdleNetwork, ExchangeStays
<1>2. CASE KeyGenFails \/ SendHello \/ DialFails \/ NoTicket \/ SendRequest
  <2>1. pc \notin Waiting
    BY <1>2, SendShapes DEF Waiting
  <2>2. CASE UNCHANGED <<post, reply>>
    BY <2>1, <2>2, IdleNetwork, ExchangeStays
  <2>3. CASE SendHello /\ Posts(<<Plain(clientHello)>>, "awaitHandshake")
    <3>1. /\ post' = <<Plain(Msg("ClientHello", attempt', "ok"))>>
          /\ pc' = "awaitHandshake" /\ reply' = << >> /\ conn' = "open"
      BY <2>3 DEF SendHello, Posts, clientHello
    <3> QED
      BY <3>1 DEF Exchange, Waiting
  <2>4. CASE SendRequest /\ Posts(earlyData, "awaitRequest")
    <3>1. /\ post' = EarlyBody(session.psk, pskHello, extensions, 0)
          /\ pc' = "awaitRequest" /\ reply' = << >> /\ conn' = "open"
          /\ UNCHANGED session
          /\ transcript' = <<pskHello, extensions>>
      BY <2>4 DEF SendRequest, Posts, earlyData
    <3>2. transcript'[1] = pskHello /\ transcript'[2] = extensions
      BY <3>1
    <3>3. pskHello.ticket = session.issue
      BY DEF pskHello, Msg
    <3> QED
      BY <3>1, <3>2, <3>3 DEF Exchange, Waiting
  <2> QED
    BY <1>2, <2>2, <2>3, <2>4, SendShapes
<1>3. CASE ReadServerHello \/ ReadSignature \/ ReadNewSessionTicket
           \/ ReadServerFinish
  <2>1. pc \notin Waiting /\ UNCHANGED <<post, reply>>
    BY <1>3, ReadServerHelloShape, ReadSignatureShape,
       ReadNewSessionTicketShape, ReadServerFinishShape DEF Take, Waiting
  <2> QED
    BY <2>1, IdleNetwork, ExchangeStays
<1>4. CASE ReadHello \/ ReadFinish \/ ReadData \/ ReadAbort
  <2>1. pc \notin Waiting /\ UNCHANGED <<post, reply>>
    BY <1>4, RequestShapes DEF Waiting
  <2> QED
    BY <2>1, IdleNetwork, ExchangeStays
<1>5. CASE ReadResponse \/ ResponseFails \/ BodyEnds
  <2>1. post = << >>
    BY <1>5, ResponseShapes DEF Exchange, Parsing, InHandshake, InRequest, Waiting
  <2>2. post' = << >> /\ reply' = << >>
    BY <1>5, <2>1, ResponseShapes
    DEF Exchange, Parsing, InHandshake, InRequest, Waiting
  <2> QED
    BY <2>2, ExchangeStays
<1>6. CASE ServerReacts \/ StaleResponse
  <2>1. /\ post' = << >> /\ pc' = pc /\ conn' = conn /\ post # << >>
    <3>1. ASSUME NEW f \in Faults, NEW n \in TicketCounts,
                 ServerAnswersHello(f, n)
          PROVE  post' = << >> /\ pc' = pc /\ conn' = conn /\ post # << >>
      <4>1. Len(post) = 1 /\ post' = << >> /\ pc' = pc /\ conn' = conn
        BY <3>1, Zenon DEF ServerAnswersHello, Replies
      <4> QED
        BY <4>1
    <3>2. CASE ServerAnswersRequest
      <4>1. Len(post) > 1 /\ post' = << >> /\ pc' = pc /\ conn' = conn
        BY <3>2, Zenon DEF ServerAnswersRequest, Replies
      <4> QED
        BY <4>1
    <3>3. CASE ServerRejects \/ StaleResponse
      BY <3>3 DEF ServerRejects, StaleResponse, Replies
    <3> QED
      BY <1>6, <3>1, <3>2, <3>3 DEF ServerReacts
  <2>2. pc \in Waiting /\ conn # "lost"
    BY <2>1 DEF Exchange
  <2> QED
    BY <2>1, <2>2 DEF Exchange
<1>7. CASE ConnectionLost
  BY <1>7, ExchangeStays DEF ConnectionLost
<1>8. CASE ResponseCut
  <2>1. UNCHANGED <<pc, post, conn>> /\ reply # << >>
    BY <1>8 DEF ResponseCut
  <2>2. pc \in Waiting /\ post = << >> /\ conn # "lost"
    BY <2>1 DEF Exchange
  <2> QED
    BY <2>1, <2>2 DEF Exchange
<1>9. CASE UNCHANGED vars
  BY <1>9 DEF vars, Exchange
<1> QED
  BY <1>1, <1>2, <1>3, <1>4, <1>5, <1>6, <1>7, <1>8, <1>9
  DEF Next, Continues, Environment

(* Only the server's answers change what it has sent last, and they answer *)
(* a post: a hello in a handshake, early data in a Request.                *)
LEMMA AnswersPost ==
  ASSUME Typed, Exchange, ServerReacts
  PROVE  /\ post # << >> /\ post' = << >> /\ pc \in Waiting
         /\ UNCHANGED <<client, packetReader, call, pc, res, conn, history>>
         /\ \A f \in Faults, n \in TicketCounts :
              ServerAnswersHello(f, n) => pc = "awaitHandshake"
         /\ ServerAnswersRequest => pc = "awaitRequest"
<1>1. ASSUME NEW f \in Faults, NEW n \in TicketCounts, ServerAnswersHello(f, n)
      PROVE  /\ post # << >> /\ post' = << >> /\ Len(post) = 1
             /\ UNCHANGED <<client, packetReader, call, pc, res, conn, history>>
  <2>1. /\ Len(post) = 1 /\ post' = << >>
        /\ UNCHANGED <<client, packetReader, call, pc, res, conn, history>>
    BY <1>1, Zenon DEF ServerAnswersHello, Replies
  <2>2. Len(post) = 1 => post # << >>
    OBVIOUS
  <2> QED
    BY <2>1, <2>2, Zenon
<1>2. ASSUME ServerAnswersRequest
      PROVE  /\ post # << >> /\ post' = << >> /\ Len(post) > 1
             /\ UNCHANGED <<client, packetReader, call, pc, res, conn, history>>
  <2>1. /\ Len(post) > 1 /\ post' = << >>
        /\ UNCHANGED <<client, packetReader, call, pc, res, conn, history>>
    BY <1>2, Zenon DEF ServerAnswersRequest, Replies
  <2>2. Len(post) > 1 => post # << >>
    OBVIOUS
  <2> QED
    BY <2>1, <2>2, Zenon
<1>3. ASSUME ServerRejects
      PROVE  /\ post # << >> /\ post' = << >>
             /\ UNCHANGED <<client, packetReader, call, pc, res, conn, history>>
  BY <1>3, Zenon DEF ServerRejects, Replies
<1>4. /\ post # << >> /\ post' = << >>
      /\ UNCHANGED <<client, packetReader, call, pc, res, conn, history>>
  BY <1>1, <1>2, <1>3, Zenon DEF ServerReacts
<1>5. pc \in Waiting
  BY <1>4 DEF Exchange
<1>6. pc = "awaitHandshake" => Len(post) = 1
  BY <1>4 DEF Exchange
<1>7. pc = "awaitRequest" => Len(post) = 4
  BY <1>4, EarlyBodyShape DEF Exchange
<1>8. ASSUME NEW f \in Faults, NEW n \in TicketCounts, ServerAnswersHello(f, n)
      PROVE  pc = "awaitHandshake"
  <2>1. Len(post) = 1
    BY <1>1, <1>8
  <2> QED
    BY <1>5, <1>7, <2>1 DEF Waiting
<1>9. ASSUME ServerAnswersRequest PROVE pc = "awaitRequest"
  <2>1. Len(post) > 1
    BY <1>2, <1>9, Zenon
  <2>2. Len(post) = 1 => ~(Len(post) > 1)
    OBVIOUS
  <2>3. pc = "awaitHandshake" \/ pc = "awaitRequest"
    BY <1>5 DEF Waiting
  <2> QED
    BY <1>6, <2>1, <2>2, <2>3, Zenon
<1> QED
  BY <1>4, <1>5, <1>8, <1>9, Zenon

-----------------------------------------------------------------------------
(* The handshakes the server has answered are the client's, in order.      *)

(* The number of the key pair of the hello a flight answers.               *)
Asker(flight) == flight.secret[1]

(* Key pairs are answered once, in the order they are made: the one in use *)
(* was answered last, and the session in memory is of an earlier one until *)
(* its tickets are read.                                                   *)
FlightsInOrder ==
  /\ \A j \in DOMAIN issued : Asker(issued[j]) <= attempt
  /\ \A j, k \in DOMAIN issued : j < k => Asker(issued[j]) < Asker(issued[k])
  /\ pc = "awaitHandshake" /\ post # << >> =>
       \A j \in DOMAIN issued : Asker(issued[j]) < attempt
  /\ pc \in BeforeTickets \ {"sendHello"} /\ session.issue > 0 =>
       Asker(issued[session.issue]) < attempt
  /\ pc \in {"readSignature", "readNewSessionTicket", "readServerFinish"} =>
       Asker(trafficKey) = attempt
  /\ pc = "readServerFinish" => session.issue = Len(issued)

LEMMA AskerTypes ==
  ASSUME Typed
  PROVE  /\ attempt \in Nat
         /\ \A j \in DOMAIN issued : Asker(issued[j]) \in Nat
         /\ session.issue \in Nat
         /\ DOMAIN issued = 1..Len(issued) /\ Len(issued) \in Nat
<1>1. TypeOK
  BY DEF Typed
<1>2. \A j \in DOMAIN issued : issued[j] \in Flight
  BY IssuedTypeOf
<1> QED
  BY <1>1, <1>2 DEF TypeOK, SessionType, Asker, Flight, Secret

(* The session is of the flight with the greatest number of key pair.      *)
LEMMA LastAsked ==
  ASSUME Typed, FlightsInOrder, NEW j \in DOMAIN issued,
         Asker(issued[j]) = attempt
  PROVE  j = Len(issued)
<1>1. /\ DOMAIN issued = 1..Len(issued) /\ Len(issued) \in Nat
      /\ attempt \in Nat /\ \A k \in DOMAIN issued : Asker(issued[k]) \in Nat
  BY AskerTypes
<1>2. SUFFICES ASSUME j < Len(issued) PROVE FALSE
  BY <1>1
<1>3. Len(issued) \in DOMAIN issued
  BY <1>1
<1>4. /\ Asker(issued[j]) < Asker(issued[Len(issued)])
      /\ Asker(issued[Len(issued)]) <= attempt
  BY <1>2, <1>3 DEF FlightsInOrder
<1> QED
  BY <1>1, <1>3, <1>4

LEMMA FlightsInit == Init => FlightsInOrder
<1> SUFFICES ASSUME Init PROVE FlightsInOrder
  OBVIOUS
<1>1. CASE issued = << >>
  BY <1>1 DEF Init, FlightsInOrder, BeforeTickets
<1>2. ASSUME NEW n \in TicketCounts, issued = <<priorFlight(n)>>
      PROVE  FlightsInOrder
  <2>1. DOMAIN issued = {1} /\ issued[1] = priorFlight(n)
    BY <1>2
  <2>2. Asker(issued[1]) = 0
    BY <2>1, FlightShape DEF priorFlight, Asker, Msg
  <2> QED
    BY <2>1, <2>2 DEF Init, FlightsInOrder, BeforeTickets
<1> QED
  BY <1>1, <1>2 DEF Init

(* An answer to a hello is the flight of the key pair in use.              *)
LEMMA FlightAdded ==
  ASSUME Typed, Exchange, FlightsInOrder, SessionCoherent,
         NEW f \in Faults, NEW n \in TicketCounts, ServerAnswersHello(f, n)
  PROVE  FlightsInOrder'
<1> DEFINE id     == Len(issued) + 1
           flight == FlightTo(post[1].body, id, f, n)
<1>1. TypeOK
  BY DEF Typed
<1>2. /\ DOMAIN issued' = DOMAIN issued \cup {id}
      /\ \A j \in DOMAIN issued : issued'[j] = issued[j]
      /\ issued'[id] = flight
      /\ flight.secret = <<post[1].body.id, id>>
  <2>1. flight.secret = <<post[1].body.id, id>>
    BY FlightShape
  <2>2. /\ DOMAIN issued' = DOMAIN issued \cup {id}
        /\ \A j \in DOMAIN issued : issued'[j] = issued[j] /\ j # id
        /\ issued'[id] = flight
    BY <1>1, FlightIssued, Zenon
  <2> QED
    BY <2>1, <2>2, Zenon
<1> HIDE DEF flight
<1>3. /\ post # << >> /\ post' = << >> /\ pc = "awaitHandshake"
      /\ UNCHANGED <<client, pc, attempt>>
  <2>1. ServerReacts
    BY DEF ServerReacts
  <2> QED
    BY <2>1, AnswersPost DEF history
<1>4. post[1].body.id = attempt
  <2>1. post = <<Plain(Msg("ClientHello", attempt, "ok"))>>
    BY <1>3 DEF Exchange
  <2> QED
    BY <2>1 DEF Plain, Msg
<1>5. /\ DOMAIN issued = 1..Len(issued) /\ Len(issued) \in Nat
      /\ attempt \in Nat /\ \A k \in DOMAIN issued : Asker(issued[k]) \in Nat
  BY AskerTypes
<1>6. Asker(issued'[id]) = attempt
  BY <1>2, <1>4 DEF Asker
<1>7. \A j \in DOMAIN issued : Asker(issued[j]) < attempt
  BY <1>3 DEF FlightsInOrder
<1>8. \A j \in DOMAIN issued' : Asker(issued'[j]) <= attempt
  BY <1>2, <1>5, <1>6, <1>7
<1>9. ASSUME NEW j \in DOMAIN issued', NEW k \in DOMAIN issued', j < k
      PROVE  Asker(issued'[j]) < Asker(issued'[k])
  <2>1. j \in DOMAIN issued
    BY <1>2, <1>5, <1>9
  <2>2. CASE k \in DOMAIN issued
    BY <1>2, <1>9, <2>1, <2>2 DEF FlightsInOrder
  <2>3. CASE k = id
    BY <1>2, <1>6, <1>7, <2>1, <2>3
  <2> QED
    BY <1>2, <2>2, <2>3
<1>10. session.issue > 0 => Asker(issued'[session.issue]) < attempt
  BY <1>2, <1>7 DEF SessionCoherent, SessionOf
<1> QED
  BY <1>3, <1>8, <1>9, <1>10 DEF FlightsInOrder, client

LEMMA FlightsStep ==
  ASSUME Typed, HandshakeInv, Exchange, FlightsInOrder, [Next]_vars
  PROVE  FlightsInOrder'
<1> USE DEF client, server, history, BeforeTickets
<1>1. SessionCoherent /\ TypeOK
  BY DEF HandshakeInv, SessionInv, Typed
<1>2. CASE Calls
  <2>1. /\ UNCHANGED <<session, issued, attempt>>
        /\ pc' \in {"idle", "sendHello", "sendRequest"}
    BY <1>2 DEF Calls, CallHandshake, CallRequest, Return
  <2> QED
    BY <2>1 DEF FlightsInOrder
<1>3. CASE KeyGenFails \/ SendHello \/ DialFails \/ NoTicket \/ SendRequest
  <2>1. UNCHANGED <<session, issued>>
    BY <1>3, SendShapes
  <2>2. \/ /\ UNCHANGED attempt
           /\ pc' \in {"idle", "panicked", "awaitRequest"}
        \/ attempt' = attempt + 1 /\ pc' \in {"awaitHandshake", "idle"}
    BY <1>3, SendShapes DEF KeyGenFails, SendHello, DialFails, NoTicket,
       SendRequest, Posts
  <2>3. CASE UNCHANGED attempt /\ pc' \in {"idle", "panicked", "awaitRequest"}
    BY <2>1, <2>3 DEF FlightsInOrder
  <2>4. CASE attempt' = attempt + 1 /\ pc' \in {"awaitHandshake", "idle"}
    <3>1. \A j \in DOMAIN issued : /\ Asker(issued[j]) \in Nat
                                   /\ Asker(issued[j]) < attempt + 1
                                   /\ Asker(issued[j]) <= attempt + 1
      BY AskerTypes DEF FlightsInOrder
    <3>2. session.issue > 0 => Asker(issued[session.issue]) < attempt + 1
      BY <1>1, <3>1 DEF SessionCoherent, SessionOf
    <3> QED
      BY <2>1, <2>4, <3>1, <3>2 DEF FlightsInOrder
  <2> QED
    BY <2>2, <2>3, <2>4
<1>4. CASE ReadServerHello
  <2>1. /\ UNCHANGED <<session, issued, attempt>> /\ pc = "readServerHello"
        /\ \/ /\ pc' = "readSignature"
              /\ trafficKey' = HandshakeKey(<<attempt, rec.body.id>>, transcript')
           \/ pc' \in {"panicked", "idle"}
    BY <1>4, ReadServerHelloShape DEF Take, Return
  <2>2. Asker(HandshakeKey(<<attempt, rec.body.id>>, transcript')) = attempt
    BY DEF Asker, HandshakeKey, hkdfExpand
  <2> QED
    BY <2>1, <2>2 DEF FlightsInOrder, Asker
<1>5. CASE ReadSignature
  <2>1. /\ UNCHANGED <<session, issued, attempt, trafficKey>>
        /\ pc = "readSignature" /\ pc' \in {"readNewSessionTicket", "idle"}
    BY <1>5, ReadSignatureShape DEF Take, Fails, Return
  <2> QED
    BY <2>1 DEF FlightsInOrder
<1>6. CASE ReadNewSessionTicket
  <2>1. /\ UNCHANGED <<issued, attempt, trafficKey>>
        /\ pc = "readNewSessionTicket"
    BY <1>6, ReadNewSessionTicketShape DEF Take
  <2>2. CASE pc' = "idle"
    BY <2>1, <2>2 DEF FlightsInOrder
  <2>3. CASE /\ Decrypts(trafficKey) /\ Hash /\ Count
             /\ session' = newSession /\ pc' = "readServerFinish"
    <3>1. /\ session'.issue \in DOMAIN issued
          /\ trafficKey = FlightKey(issued[session'.issue])
      BY <1>6, <2>3, TicketsRead
    <3>2. Asker(trafficKey) = attempt
      BY <2>1 DEF FlightsInOrder
    <3>3. Asker(issued[session'.issue]) = attempt
      BY <3>1, <3>2 DEF Asker, FlightKey, HandshakeKey, hkdfExpand
    <3>4. session'.issue = Len(issued)
      BY <3>1, <3>3, LastAsked
    <3> QED
      BY <2>1, <2>3, <3>2, <3>4 DEF FlightsInOrder
  <2> QED
    BY <1>6, <2>2, <2>3, ReadNewSessionTicketShape DEF Fails, Return
<1>7. CASE ReadServerFinish
  <2>1. /\ UNCHANGED <<session, issued, attempt>>
        /\ pc' \in {"idle", "sendRequest"}
    BY <1>7, ReadServerFinishShape DEF Fails, Return
  <2> QED
    BY <2>1 DEF FlightsInOrder
<1>8. CASE ReadHello \/ ReadFinish \/ ReadData \/ ReadAbort
  <2>1. UNCHANGED <<issued, attempt>> /\ pc' \in InRequest \cup {"idle"}
    BY <1>8, RequestShapes DEF InRequest
  <2> QED
    BY <2>1 DEF FlightsInOrder, InRequest
<1>9. CASE ReadResponse \/ ResponseFails \/ BodyEnds
  <2>1. /\ UNCHANGED <<session, issued, attempt>>
        /\ \/ pc = "awaitHandshake" /\ pc' = "readServerHello"
           \/ pc' \in {"readHello", "idle"}
    BY <1>9, ResponseShapes
  <2> QED
    BY <2>1 DEF FlightsInOrder
<1>10. ASSUME NEW f \in Faults, NEW n \in TicketCounts, ServerAnswersHello(f, n)
       PROVE  FlightsInOrder'
  BY <1>1, <1>10, FlightAdded
<1>11. CASE ServerReacts \/ Environment \/ UNCHANGED vars
  <2>1. CASE UNCHANGED issued
    <3>1. UNCHANGED <<client, pc, attempt>>
      BY <1>11, OtherSteps
    <3>2. post' # << >> => post # << >>
      BY <1>11, AnswersPost
      DEF Environment, ConnectionLost, ResponseCut, StaleResponse, vars, network
    <3> QED
      BY <2>1, <3>1, <3>2 DEF FlightsInOrder
  <2> QED
    BY <1>10, <2>1, WhoIssues
<1> QED
  BY <1>2, <1>3, <1>4, <1>5, <1>6, <1>7, <1>8, <1>9, <1>11 DEF Next, Continues

-----------------------------------------------------------------------------
(* What answers a Request answers no other.                                *)

(* The server's answer to early data.                                      *)
LEMMA ResponseShape ==
  ASSUME Typed, ServerAnswersRequest
  PROVE  \E body \in Seq(Record), key \in Key :
           /\ Replies(body, TRUE)
           /\ post[1].body.ticket \in DOMAIN issued
           /\ post[1].body \in Message /\ post[2].body \in Message
           /\ body[1].body \in Message
           /\ key = RequestKey(FlightPsk(issued[post[1].body.ticket]),
                               <<post[1].body, post[2].body, body[1].body>>)
           /\ key.label = "request" /\ AskedWith(key) = post[1].body.id
           /\ Len(body) = 4 /\ body[1].key = NoKey
           /\ \A i \in 2..4 : body[i].key = key /\ body[i].seq = i - 1
           /\ body[3].body.kind = "Data" /\ body[3].body.id = post[1].body.id
<1> DEFINE hello == post[1].body
           psk   == FlightPsk(issued[hello.ticket])
           ext   == post[2].body
           sh    == [Msg("ServerHello", served + 1, "ok")
                       EXCEPT !.ticket = hello.ticket]
           key   == RequestKey(psk, <<hello, ext, sh>>)
           body  == <<Plain(sh),
                      Seal(key, 1, Msg("ServerFinish", hello.id, "ok"), NoKey),
                      Seal(key, 2, Msg("Data", hello.id, "ok"), NoKey),
                      Seal(key, 3, Msg("Abort", hello.id, "ok"), NoKey)>>
<1>1. Replies(body, TRUE) /\ hello.ticket \in DOMAIN issued
  BY Zenon DEF ServerAnswersRequest
<1>2. body \in Seq(Record) /\ hello \in Message /\ ext \in Message
      /\ sh \in Message /\ psk \in Key
  BY AnswerParts DEF Typed
<1> HIDE DEF hello, psk, ext, sh
<1>3. AskedWith(key) = hello.id /\ key.label = "request"
  BY <1>2, RequestKeyAsks
<1>4. key \in Key
  <2>1. <<hello, ext, sh>> \in Transcript
    BY <1>2 DEF Transcript
  <2> QED
    BY <1>2, <2>1, PskKeyTypes
<1>5. key = RequestKey(psk, <<hello, ext, body[1].body>>) /\ body[1].body = sh
  BY DEF Plain
<1> HIDE DEF key
<1>6. /\ Len(body) = 4 /\ body[1].key = NoKey
      /\ body[3].body = Msg("Data", hello.id, "ok")
  BY DEF Seal, Plain
<1>7. \A i \in 2..4 : body[i].key = key /\ body[i].seq = i - 1
  BY DEF Seal
<1> HIDE DEF body
<1>8. body[3].body.kind = "Data" /\ body[3].body.id = hello.id
  BY <1>6 DEF Msg
<1> QED
  BY <1>1, <1>2, <1>3, <1>4, <1>5, <1>6, <1>7, <1>8 DEF hello, ext, psk

(* A Request the server cannot have answered yet.                          *)
NotYet == Unsent \/ (pc = "awaitRequest" /\ post # << >>)

Data(body) == Len(body) = 4 /\ body[3].body.kind = "Data"

(* The answer the server gave last, and every record under the key of an   *)
(* answer, is for a Request that has been called; and if for the present   *)
(* one, the answer the server gave last is the answer to it.               *)
Answered ==
  /\ Data(last) => /\ last[3].body.id \in 0..requests
                   /\ NotYet => last[3].body.id < requests
  /\ \A r : Heard(r) /\ r.key.label = "request" =>
       /\ AskedWith(r.key) \in 0..requests
       /\ NotYet => AskedWith(r.key) < requests
       /\ call = "Request" /\ AskedWith(r.key) = requests =>
            Data(last) /\ last[3].body.id = requests

LEMMA WhoAsks ==
  ASSUME Typed, Exchange, [Next]_vars
  PROVE  \/ requests' = requests + 1
         \/ /\ UNCHANGED requests
            /\ NotYet' => NotYet
            /\ call' = "Request" => call = "Request"
<1> USE DEF client, network, server, history
<1>1. CASE CallHandshake
  <2>1. UNCHANGED requests /\ call' = "Handshake" /\ pc' \in {"idle", "sendHello"}
    BY <1>1 DEF CallHandshake, Return
  <2> QED
    BY <2>1 DEF NotYet, Unsent
<1>2. CASE CallRequest
  BY <1>2 DEF CallRequest
<1>3. CASE UNCHANGED <<requests, call>>
  <2>1. Unsent' => Unsent
    <3>1. requests \in Nat /\ requests # requests + 1
      BY DEF Typed, TypeOK
    <3> QED
      BY <1>3, <3>1, WhoSeals
  <2>2. pc' = "awaitRequest" /\ post' # << >> => NotYet
    <3>1. CASE SendRequest
      BY <3>1 DEF SendRequest, NotYet, Unsent
    <3>2. CASE Calls
      BY <3>2 DEF Calls, CallHandshake, CallRequest, Return
    <3>3. CASE KeyGenFails \/ SendHello \/ DialFails \/ NoTicket
      BY <3>3, SendShapes DEF Posts, KeyGenFails, SendHello, DialFails, NoTicket,
         NotDialled, WriteFails, PostFails, EndRequest, Return
    <3>4. CASE ReadServerHello \/ ReadSignature \/ ReadNewSessionTicket
               \/ ReadServerFinish
      BY <3>4, ReadServerHelloShape, ReadSignatureShape,
         ReadNewSessionTicketShape, ReadServerFinishShape DEF Fails, Return
    <3>5. CASE ReadHello \/ ReadFinish \/ ReadData \/ ReadAbort
      BY <3>5, RequestShapes
    <3>6. CASE ReadResponse \/ ResponseFails \/ BodyEnds
      BY <3>6, ResponseShapes
    <3>7. CASE ServerReacts \/ Environment \/ UNCHANGED vars
      <4>1. pc' = pc
        BY <3>7, OtherSteps
      <4>2. post' # << >> => post # << >>
        BY <3>7, AnswersPost
        DEF Environment, ConnectionLost, ResponseCut, StaleResponse, vars
      <4> QED
        BY <4>1, <4>2 DEF NotYet
    <3> QED
      BY <3>1, <3>2, <3>3, <3>4, <3>5, <3>6, <3>7 DEF Next, Continues
  <2>3. NotYet' => NotYet
    BY <2>1, <2>2 DEF NotYet
  <2> QED
    BY <1>3, <2>3
<1>4. ~Calls => UNCHANGED <<requests, call>>
  <2>1. CASE Continues
    BY <2>1, SendShapes, ReadServerHelloShape, ReadSignatureShape,
       ReadNewSessionTicketShape, ReadServerFinishShape, RequestShapes,
       ResponseShapes DEF Continues, Take
  <2>2. CASE ServerReacts \/ Environment \/ UNCHANGED vars
    BY <2>2, OtherSteps
  <2> QED
    BY <2>1, <2>2 DEF Next
<1> QED
  BY <1>1, <1>2, <1>3, <1>4 DEF Calls

LEMMA AnsweredInit == Init => Answered
BY DEF Init, Answered, Heard, In, Data

(* Where the server can answer, it has not answered the present Request.   *)
LEMMA NothingAnswered ==
  ASSUME Typed, Exchange, Answered, post # << >>, call = "Request"
  PROVE  /\ NotYet
         /\ \A r : Heard(r) /\ r.key.label = "request" =>
              AskedWith(r.key) # requests
         /\ Data(last) => last[3].body.id # requests
<1>1. requests \in Nat
  BY DEF Typed, TypeOK
<1>2. NotYet
  BY DEF Exchange, NotYet, Unsent, Waiting
<1> QED
  BY <1>1, <1>2 DEF Answered

(* An answer that is no response to early data.                            *)
LEMMA OtherAnswer ==
  ASSUME Typed, Exchange, Answered, post # << >>, post' = << >>,
         UNCHANGED <<pc, call, requests>>,
         NEW body, NEW good, Replies(body, good),
         ~Data(body), \A r : In(r, body) => r.key.label # "request"
  PROVE  Answered'
<1>1. last' = body
  BY DEF Replies
<1>2. NotYet' => NotYet
  BY DEF NotYet, Unsent
<1>3. ASSUME NEW r, Heard(r)', r.key.label = "request" PROVE Heard(r)
  BY <1>3, RepliesHeard
<1>4. call = "Request" =>
        \A r : Heard(r) /\ r.key.label = "request" => AskedWith(r.key) # requests
  BY NothingAnswered
<1> QED
  BY <1>1, <1>2, <1>3, <1>4 DEF Answered, Data, AskedWith

LEMMA ResponseAnswers ==
  ASSUME Typed, Exchange, RequestInv, Answered, ServerAnswersRequest
  PROVE  Answered'
<1>1. /\ post # << >> /\ post' = << >> /\ pc = "awaitRequest"
      /\ UNCHANGED <<pc, call, requests>>
  BY AnswersPost DEF ServerReacts, history
<1>2. post[1].body.id = requests
  <2>1. post = EarlyBody(session.psk, transcript[1], transcript[2], 0)
        /\ transcript[1].id = requests
    BY <1>1 DEF Exchange, RequestInv
  <2>2. EarlyBody(session.psk, transcript[1], transcript[2], 0)[1]
          = Plain(transcript[1])
    BY EarlyBodyShape
  <2> QED
    BY <2>1, <2>2 DEF Plain
<1>3. PICK body \in Seq(Record), key \in Key :
        /\ Replies(body, TRUE)
        /\ AskedWith(key) = requests
        /\ Len(body) = 4 /\ body[1].key = NoKey
        /\ \A i \in 2..4 : body[i].key = key
        /\ body[3].body.kind = "Data" /\ body[3].body.id = requests
  BY <1>2, ResponseShape
<1>4. last' = body /\ requests \in Nat
  BY <1>3 DEF Replies, Typed, TypeOK
<1>5. ~NotYet'
  BY <1>1 DEF NotYet, Unsent, InHandshake
<1>6. Data(last)' /\ last'[3].body.id = requests
  BY <1>3, <1>4 DEF Data
<1>7. ASSUME NEW r, In(r, body), r.key.label = "request"
      PROVE  AskedWith(r.key) = requests
  <2>1. PICK i \in 1..4 : body[i] = r
    BY <1>3, <1>7 DEF In
  <2>2. CASE i = 1
    BY <1>3, <1>7, <2>1, <2>2 DEF NoKey, hkdfExpand
  <2>3. CASE i # 1
    <3>1. i \in 2..4
      BY <2>3
    <3> QED
      BY <1>3, <2>1, <3>1
  <2> QED
    BY <2>2, <2>3
<1>8. ASSUME NEW r, Heard(r)', r.key.label = "request"
      PROVE  AskedWith(r.key) \in 0..requests
  <2>1. Heard(r) \/ In(r, body)
    BY <1>3, <1>8, RepliesHeard
  <2> QED
    BY <1>4, <1>7, <1>8, <2>1 DEF Answered
<1> QED
  BY <1>1, <1>4, <1>5, <1>6, <1>8 DEF Answered, AskedWith

LEMMA AnsweredStep ==
  ASSUME Typed, Exchange, RequestInv, Answered, [Next]_vars
  PROVE  Answered'
<1> USE DEF history
<1>1. TypeOK /\ requests \in Nat
  BY DEF Typed, TypeOK
<1>2. ASSUME last' = last,
             \A r : Heard(r)' /\ r.key.label = "request" => Heard(r)
      PROVE  Answered'
  <2>1. CASE requests' = requests + 1
    <3>1. \A n \in 0..requests : n \in 0..requests' /\ n < requests' /\ n # requests'
      BY <1>1, <2>1
    <3>2. Data(last)' => Data(last)
      BY <1>2 DEF Data
    <3>3. \A r : Heard(r)' /\ r.key.label = "request"
                => AskedWith(r.key) \in 0..requests
      BY <1>2 DEF Answered
    <3> QED
      BY <1>2, <3>1, <3>2, <3>3 DEF Answered, AskedWith
  <2>2. CASE /\ UNCHANGED requests
             /\ NotYet' => NotYet
             /\ call' = "Request" => call = "Request"
    BY <1>2, <2>2 DEF Answered, Data, AskedWith
  <2> QED
    BY <2>1, <2>2, WhoAsks
<1>3. CASE Calls \/ Continues \/ UNCHANGED vars
  <2>1. \A r : Heard(r)' => Heard(r)
    BY <1>1, <1>3, ClientReads, ReadsHeard
  <2> QED
    BY <1>2, <1>3, <2>1, ClientReads
<1>4. CASE Environment
  <2>1. \A r : Heard(r)' /\ r.key.label = "request" => Heard(r)
    BY <1>1, <1>4, NetworkHeard DEF NoKey, hkdfExpand
  <2>2. last' = last
    BY <1>4 DEF Environment, ConnectionLost, ResponseCut, StaleResponse, server
  <2> QED
    BY <1>2, <2>1, <2>2
<1>5. ASSUME NEW f \in Faults, NEW n \in TicketCounts, ServerAnswersHello(f, n)
      PROVE  Answered'
  <2> DEFINE flight == FlightTo(post[1].body, Len(issued) + 1, f, n)
             body   == FlightRecords(flight, f)
  <2>1. /\ post # << >> /\ post' = << >>
        /\ UNCHANGED <<pc, call, requests>>
    BY <1>5, AnswersPost DEF ServerReacts
  <2>2. Replies(body, f = "none") /\ body \in Seq(Record)
    BY <1>1, <1>5, HelloAnswered
  <2>3. flight.tr[4].kind = "NewSessionTicket"
    BY DEF FlightTo, Msg
  <2> HIDE DEF flight
  <2>4. /\ Len(body) = 4 /\ body[1].key = NoKey
        /\ \A i \in 2..4 : body[i].key = FlightKey(flight)
        /\ body[3].body = flight.tr[4]
    <3>1. /\ Len(body) = 4 /\ body[1] = Plain(flight.tr[2])
          /\ \A i \in 2..4 : body[i].key = FlightKey(flight)
                             /\ body[i].seq = i - 1
          /\ body[3].body = flight.tr[4]
      BY FlightRecordShape
    <3> HIDE DEF body
    <3> QED
      BY <3>1 DEF Plain
  <2> HIDE DEF body
  <2>5. ~Data(body)
    BY <2>3, <2>4 DEF Data
  <2>6. ASSUME NEW r, In(r, body) PROVE r.key.label # "request"
    <3>1. PICK i \in 1..4 : body[i] = r
      BY <2>2, <2>4, <2>6 DEF In
    <3>2. i = 1 \/ i \in 2..4
      OBVIOUS
    <3>3. r.key = NoKey \/ r.key = FlightKey(flight)
      BY <2>4, <3>1, <3>2
    <3> QED
      BY <3>3 DEF NoKey, FlightKey, HandshakeKey, hkdfExpand
  <2> QED
    BY <2>1, <2>2, <2>5, <2>6, OtherAnswer
<1>6. CASE ServerRejects
  <2> DEFINE body == <<Plain(Msg("Alert", 0, "ok"))>>
  <2>1. /\ post # << >> /\ post' = << >>
        /\ UNCHANGED <<pc, call, requests>>
    BY <1>6, AnswersPost DEF ServerReacts
  <2>2. Replies(body, FALSE)
    BY <1>6 DEF ServerRejects
  <2>3. ~Data(body)
    BY DEF Data
  <2>4. \A r : In(r, body) => r.key.label # "request"
    BY DEF In, Plain, NoKey, hkdfExpand
  <2> QED
    BY <2>1, <2>2, <2>3, <2>4, OtherAnswer
<1> QED
  BY <1>3, <1>4, <1>5, <1>6, ResponseAnswers DEF Next, ServerReacts

ExchangeInv ==
  Typed /\ HandshakeInv /\ RequestInv /\ Exchange /\ FlightsInOrder /\ Answered

LEMMA ExchangeInvariant == Spec => []ExchangeInv
<1>1. Init => Exchange
  BY DEF Init, Exchange, Waiting
<1>2. ExchangeInv /\ [Next]_vars => Exchange' /\ FlightsInOrder' /\ Answered'
  BY ExchangeStep, FlightsStep, AnsweredStep DEF ExchangeInv
<1> QED
  BY <1>1, <1>2, FlightsInit, AnsweredInit, RequestInvariant, PTL
  DEF Spec, ExchangeInv

-----------------------------------------------------------------------------
(* The short link implements SecureRequest: a step of it is a step of      *)
(* SecureRequest or leaves the variables of SecureRequest, as the          *)
(* substitution of ShortLink gives them, as they are.                      *)

(* The substitution of the INSTANCE, named.                                *)
Calling ==
  CASE pc = "idle" -> "none" [] pc = "panicked" -> "gone" [] OTHER -> call

LEMMA CallingValues ==
  /\ pc = "idle" => Calling = "none"
  /\ pc = "panicked" => Calling = "gone"
  /\ pc \notin {"idle", "panicked"} => Calling = call
BY DEF Calling

LEMMA OutcomeValues ==
  /\ pc # "idle" => Outcome = << >>
  /\ pc = "idle" /\ call = "Request" /\ res = "ok" => Outcome = <<"ok", dataRecord>>
  /\ pc = "idle" /\ ~(call = "Request" /\ res = "ok") => Outcome = <<res>>
BY DEF Outcome

(* The same of the next state.                                             *)
LEMMA NextValues ==
  /\ pc' = "idle" => Calling' = "none"
  /\ pc' = "panicked" => Calling' = "gone"
  /\ pc' \notin {"idle", "panicked"} => Calling' = call'
  /\ pc' # "idle" => Outcome' = << >>
  /\ pc' = "idle" /\ call' = "Request" /\ res' = "ok"
       => Outcome' = <<"ok", dataRecord'>>
  /\ pc' = "idle" /\ ~(call' = "Request" /\ res' = "ok") => Outcome' = <<res'>>
BY DEF Calling, Outcome

Running == pc \notin {"idle", "panicked"}

(* A step that fails the call in progress.                                 *)
LEMMA FailStep ==
  ASSUME Typed, Running, pc' = "idle", res' = "err",
         UNCHANGED <<issued, status, call, requests, last>>,
         session'.issue = session.issue
  PROVE  Abstract!Fail
<1>1. /\ Calling = call /\ call \in {"Handshake", "Request"}
      /\ Calling' = "none" /\ Outcome' = <<"err">>
  BY CallingValues, NextValues DEF Running, Typed, TypeOK
<1>2. /\ Len(issued)' = Len(issued) /\ (status = 1)' = (status = 1)
      /\ ServerHasAnswered' = ServerHasAnswered
  BY DEF ServerHasAnswered
<1> QED
  BY <1>1, <1>2 DEF Abstract!Fail, Abstract!Returns, Calling

(* A step SecureRequest does not see.                                      *)
LEMMA UnseenStep ==
  ASSUME (Running /\ Running') \/ UNCHANGED <<pc, res, dataRecord>>,
         UNCHANGED <<status, call, requests>>,
         Len(issued') = Len(issued), ServerHasAnswered' = ServerHasAnswered,
         session'.issue = session.issue
  PROVE  UNCHANGED Abstract!vars
<1>1. Calling' = Calling /\ Outcome' = Outcome
  <2>1. CASE Running /\ Running'
    BY <2>1, CallingValues, OutcomeValues, NextValues DEF Running
  <2>2. CASE UNCHANGED <<pc, res, dataRecord>>
    BY <2>2 DEF Calling, Outcome
  <2> QED
    BY <2>1, <2>2
<1>2. (status = 1)' = (status = 1) /\ Len(issued)' = Len(issued)
  OBVIOUS
<1> QED
  BY <1>1, <1>2 DEF Abstract!vars, Calling

LEMMA PanicStep ==
  ASSUME Typed, Running, pc' = "panicked",
         UNCHANGED <<issued, status, call, requests, last, session>>
  PROVE  Abstract!Panic
<1>1. /\ Calling = call /\ call \in {"Handshake", "Request"}
      /\ Calling' = "gone" /\ Outcome' = << >> /\ Outcome = << >>
  BY CallingValues, OutcomeValues, NextValues DEF Running, Typed, TypeOK
<1>2. /\ Len(issued)' = Len(issued) /\ (status = 1)' = (status = 1)
      /\ ServerHasAnswered' = ServerHasAnswered
  BY DEF ServerHasAnswered
<1> QED
  BY <1>1, <1>2 DEF Abstract!Panic, Calling

LEMMA CallsSeen ==
  ASSUME ExchangeInv, Calls
  PROVE  Abstract!Next
<1> USE DEF client, server
<1>1. pc = "idle" /\ Calling = "none" /\ UNCHANGED <<issued, status, session, last>>
  BY CallingValues DEF Calls, CallHandshake, CallRequest
<1>2. Len(issued)' = Len(issued) /\ (status = 1)' = (status = 1)
      /\ session'.issue = session.issue
  BY <1>1
<1>3. CASE CallHandshake
  <2>1. call' = "Handshake" /\ requests' = requests
    BY <1>3 DEF CallHandshake, history
  <2>2. ServerHasAnswered' = FALSE
    BY <2>1 DEF ServerHasAnswered
  <2>3. CASE status = 1 /\ Return("ok")
    <3>1. Calling' = "none" /\ Outcome' = <<"ok">>
      BY <2>1, <2>3, NextValues DEF Return
    <3> QED
      BY <1>1, <1>2, <2>1, <2>2, <2>3, <3>1
      DEF Abstract!Next, Abstract!HandshakeAgain, Calling
  <2>4. CASE status = 0 /\ pc' = "sendHello"
    <3>1. Calling' = "Handshake" /\ Outcome' = << >>
      BY <2>1, <2>4, NextValues
    <3> QED
      BY <1>1, <1>2, <2>1, <2>2, <2>4, <3>1
      DEF Abstract!Next, Abstract!CallHandshake, Calling
  <2> QED
    BY <1>3, <2>3, <2>4 DEF CallHandshake
<1>4. CASE CallRequest
  <2>1. /\ call' = "Request" /\ requests' = requests + 1
        /\ pc' \in {"sendHello", "sendRequest"}
    BY <1>4 DEF CallRequest
  <2>2. ServerHasAnswered' = FALSE
    <3>1. Data(last) => last[3].body.id \in 0..requests
      BY DEF ExchangeInv, Answered
    <3>2. requests \in Nat
      BY DEF ExchangeInv, Typed, TypeOK
    <3>3. Data(last) => last[3].body.id # requests + 1
      BY <3>1, <3>2
    <3> QED
      BY <1>1, <2>1, <3>3 DEF ServerHasAnswered, Data
  <2>3. Calling' = "Request" /\ Outcome' = << >>
    BY <2>1, NextValues
  <2> QED
    BY <1>1, <1>2, <2>1, <2>2, <2>3
    DEF Abstract!Next, Abstract!CallRequest, Calling
<1> QED
  BY <1>3, <1>4 DEF Calls

LEMMA SendsSeen ==
  ASSUME ExchangeInv,
         KeyGenFails \/ SendHello \/ DialFails \/ NoTicket \/ SendRequest
  PROVE  [Abstract!Next]_Abstract!vars
<1>1. /\ Typed /\ Running
      /\ UNCHANGED <<issued, status, call, requests, last, session>>
  BY SendShapes DEF ExchangeInv, Running, server
<1>2. ServerHasAnswered' = ServerHasAnswered
  BY <1>1 DEF ServerHasAnswered
<1>3. CASE pc' = "idle" /\ res' = "err"
  BY <1>1, <1>3, FailStep DEF Abstract!Next
<1>4. CASE pc' = "panicked"
  BY <1>1, <1>4, PanicStep DEF Abstract!Next
<1>5. CASE pc' \in Waiting
  BY <1>1, <1>2, <1>5, UnseenStep DEF Running, Waiting
<1> QED
  BY <1>3, <1>4, <1>5, SendShapes DEF Posts, Waiting

LEMMA HandshakeSeen ==
  ASSUME ExchangeInv, ExchangeInv', ReadServerHello \/ ReadSignature
  PROVE  [Abstract!Next]_Abstract!vars
<1>1. /\ Typed /\ Running
      /\ UNCHANGED <<issued, status, call, requests, last, session>>
      /\ \/ pc' = "idle" /\ res' = "err"
         \/ pc' = "panicked"
         \/ pc' \in InHandshake
  BY ReadServerHelloShape, ReadSignatureShape
  DEF ExchangeInv, Running, Take, Fails, Return, InHandshake, server, history
<1>2. ServerHasAnswered' = ServerHasAnswered
  BY <1>1 DEF ServerHasAnswered
<1>3. CASE pc' \in InHandshake
  BY <1>1, <1>2, <1>3, UnseenStep DEF Running, InHandshake
<1> QED
  BY <1>1, <1>3, FailStep, PanicStep DEF Abstract!Next

(* The tickets read are those the server issued last, and not before.      *)
LEMMA AdoptSeen ==
  ASSUME ExchangeInv, ExchangeInv', ReadNewSessionTicket
  PROVE  Abstract!Adopt \/ Abstract!Fail
<1>1. /\ Typed /\ pc = "readNewSessionTicket" /\ Running
      /\ UNCHANGED <<issued, status, call, requests, last>>
  BY ReadNewSessionTicketShape DEF ExchangeInv, Running, Take, server, history
<1>2. CASE Fails /\ UNCHANGED session
  BY <1>1, <1>2, FailStep DEF Fails, Return
<1>3. CASE /\ Decrypts(trafficKey) /\ Hash /\ Count /\ session' = newSession
           /\ pc' = "readServerFinish"
  <2>1. /\ status = 0
        /\ session'.issue = Len(issued)
    BY <1>1, <1>3 DEF ExchangeInv, Typed, Control, InHandshake, FlightsInOrder
  <2>2. session.issue < Len(issued)
    <3>1. /\ DOMAIN issued = 1..Len(issued) /\ Len(issued) \in Nat
          /\ session.issue \in Nat /\ attempt \in Nat
          /\ \A j \in DOMAIN issued : Asker(issued[j]) \in Nat
      BY <1>1, AskerTypes
    <3>2. /\ session'.issue \in DOMAIN issued
          /\ trafficKey = FlightKey(issued[session'.issue])
      BY <1>3, TicketsRead DEF ExchangeInv
    <3>3. Asker(issued[Len(issued)]) = attempt
      <4>1. Asker(trafficKey) = attempt
        BY <1>1 DEF ExchangeInv, FlightsInOrder
      <4> QED
        BY <2>1, <3>2, <4>1 DEF Asker, FlightKey, HandshakeKey, hkdfExpand
    <3>4. CASE session.issue > 0
      <4>1. /\ session.issue \in DOMAIN issued
            /\ Asker(issued[session.issue]) < attempt
        BY <1>1, <3>4 DEF ExchangeInv, FlightsInOrder, BeforeTickets,
           HandshakeInv, SessionInv, SessionCoherent, SessionOf
      <4>2. session.issue # Len(issued)
        BY <3>1, <3>3, <4>1
      <4> QED
        BY <3>1, <4>1, <4>2
    <3> QED
      BY <2>1, <3>1, <3>2, <3>4
  <2>3. /\ Calling = call /\ call \in {"Handshake", "Request"}
        /\ Calling' = Calling /\ Outcome' = Outcome
    BY <1>1, <1>3, CallingValues, OutcomeValues, NextValues
    DEF Running, Typed, TypeOK
  <2>4. /\ Len(issued)' = Len(issued) /\ (status = 1)' = (status = 1)
        /\ ServerHasAnswered' = ServerHasAnswered
    BY <1>1 DEF ServerHasAnswered
  <2> QED
    BY <1>1, <2>1, <2>2, <2>3, <2>4 DEF Abstract!Adopt, Calling
<1> QED
  BY <1>2, <1>3, ReadNewSessionTicketShape

LEMMA CompleteSeen ==
  ASSUME ExchangeInv, ReadServerFinish
  PROVE  Abstract!Complete \/ Abstract!Fail
<1>1. /\ Typed /\ pc = "readServerFinish" /\ Running
      /\ UNCHANGED <<issued, call, requests, last, session>>
  BY ReadServerFinishShape DEF ExchangeInv, Running, server, history
<1>2. CASE Fails /\ UNCHANGED status
  BY <1>1, <1>2, FailStep DEF Fails, Return
<1>3. CASE /\ status' = 1
           /\ \/ call = "Handshake" /\ Return("ok")
              \/ call = "Request" /\ pc' = "sendRequest"
  <2>1. /\ status = 0
        /\ session.issue = Len(issued) /\ Len(issued) > 0
    <3>1. /\ status = 0 /\ session.issue = Len(issued)
          /\ session.issue \in DOMAIN issued
      BY <1>1 DEF ExchangeInv, Typed, Control, InHandshake, FlightsInOrder,
         HandshakeInv, Progress
    <3> QED
      BY <1>1, <3>1, AskerTypes
  <2>2. /\ Len(issued)' = Len(issued) /\ (status = 1) = FALSE
        /\ (status = 1)' = TRUE
        /\ ServerHasAnswered' = ServerHasAnswered
    BY <1>1, <1>3, <2>1 DEF ServerHasAnswered
  <2>3. Calling = call /\ Outcome = << >>
    BY <1>1, CallingValues, OutcomeValues DEF Running
  <2>4. CASE call = "Handshake" /\ Return("ok")
    <3>1. Calling' = "none" /\ Outcome' = <<"ok">>
      BY <1>1, <2>4, NextValues DEF Return
    <3> QED
      BY <1>1, <2>1, <2>2, <2>3, <2>4, <3>1
      DEF Abstract!Complete, Abstract!Returns, Calling
  <2>5. CASE call = "Request" /\ pc' = "sendRequest"
    <3>1. Calling' = call' /\ Outcome' = << >>
      BY <2>5, NextValues
    <3> QED
      BY <1>1, <2>1, <2>2, <2>3, <2>5, <3>1 DEF Abstract!Complete, Calling
  <2> QED
    BY <1>3, <2>4, <2>5
<1> QED
  BY <1>2, <1>3, ReadServerFinishShape

(* The data returned is of the answer the server gave to this Request.     *)
LEMMA RequestSeen ==
  ASSUME ExchangeInv, ReadHello \/ ReadFinish \/ ReadData \/ ReadAbort
  PROVE  [Abstract!Next]_Abstract!vars
<1> USE DEF server, history
<1>1. /\ Typed /\ Running /\ packetReader # << >> /\ pc \in InRequest
      /\ call = "Request"
      /\ UNCHANGED <<issued, status, call, requests, last>>
  BY RequestShapes DEF ExchangeInv, Running, InRequest, Typed, Control
<1>2. ServerHasAnswered' = ServerHasAnswered
  BY <1>1 DEF ServerHasAnswered
<1>3. session'.issue = session.issue
  BY RequestShapes DEF ExchangeInv, Typed, TypeOK, SessionType
<1>4. CASE pc' = "idle" /\ res' = "err"
  BY <1>1, <1>3, <1>4, FailStep DEF Abstract!Next
<1>5. CASE pc' \in InRequest
  BY <1>1, <1>2, <1>3, <1>5, UnseenStep DEF Running, InRequest
<1>6. CASE /\ Decrypts(session.appKey) /\ pc = "readAbort"
           /\ pc' = "idle" /\ res' = "ok" /\ UNCHANGED dataRecord
  <2>1. ServerHasAnswered = TRUE
    <3>1. /\ rec.key = session.appKey
          /\ session.appKey.label = "request"
          /\ AskedWith(session.appKey) = requests
      BY <1>6 DEF ExchangeInv, RequestInv, Decrypts, Opens
    <3>2. Heard(rec)
      BY <1>1, RecordHeard DEF Typed
    <3>3. Data(last) /\ last[3].body.id = requests
      BY <1>1, <3>1, <3>2 DEF ExchangeInv, Answered
    <3> QED
      BY <1>1, <3>3 DEF ServerHasAnswered, Data
  <2>2. dataRecord' = requests
    BY <1>6 DEF ExchangeInv, RequestInv
  <2>3. Calling = "Request" /\ Calling' = "none" /\ Outcome' = <<"ok", requests>>
    BY <1>1, <1>6, <2>2, CallingValues, NextValues DEF Running
  <2>4. Len(issued)' = Len(issued) /\ (status = 1)' = (status = 1)
    BY <1>1
  <2> QED
    BY <1>1, <1>2, <1>3, <2>1, <2>3, <2>4
    DEF Abstract!Next, Abstract!Succeed, Abstract!Returns, Calling
<1> QED
  BY <1>4, <1>5, <1>6, RequestShapes DEF InRequest

LEMMA ResponseSeen ==
  ASSUME ExchangeInv, ReadResponse \/ ResponseFails \/ BodyEnds
  PROVE  [Abstract!Next]_Abstract!vars
<1>1. /\ Typed /\ Running
      /\ UNCHANGED <<issued, status, call, requests, last, session>>
  BY ResponseShapes DEF ExchangeInv, Running, Waiting, Parsing, InHandshake,
     InRequest, client, server, history
<1>2. ServerHasAnswered' = ServerHasAnswered
  BY <1>1 DEF ServerHasAnswered
<1>3. CASE pc' = "idle" /\ res' = "err"
  BY <1>1, <1>3, FailStep DEF Abstract!Next
<1>4. CASE pc' \in {"readServerHello", "readHello"}
  BY <1>1, <1>2, <1>4, UnseenStep DEF Running
<1> QED
  BY <1>3, <1>4, ResponseShapes

LEMMA NotAnswered ==
  ASSUME ExchangeInv, post # << >>
  PROVE  ServerHasAnswered = FALSE
<1>1. call = "Request" => (Data(last) => last[3].body.id # requests)
  BY NothingAnswered DEF ExchangeInv
<1> QED
  BY <1>1 DEF ServerHasAnswered, Data

LEMMA IssueSeen ==
  ASSUME ExchangeInv, NEW f \in Faults, NEW n \in TicketCounts,
         ServerAnswersHello(f, n)
  PROVE  Abstract!Issue
<1> DEFINE flight == FlightTo(post[1].body, Len(issued) + 1, f, n)
           body   == FlightRecords(flight, f)
<1>1. Typed /\ Exchange /\ TypeOK
  BY DEF ExchangeInv, Typed
<1>2. /\ post # << >> /\ pc = "awaitHandshake"
      /\ UNCHANGED <<client, call, pc, res, requests>>
  BY <1>1, AnswersPost DEF ServerReacts, history
<1>3. issued' = Append(issued, flight) /\ Replies(body, f = "none")
  BY <1>1, HelloAnswered
<1>4. Len(issued') = Len(issued) + 1
  BY <1>1, HelloAnswered
<1>5. flight.tr[4].kind = "NewSessionTicket"
  BY DEF FlightTo, Msg
<1> HIDE DEF flight
<1>6. body[3].body = flight.tr[4]
  BY FlightRecordShape
<1> HIDE DEF body
<1>7. ServerHasAnswered' = FALSE
  <2>1. last' = body
    BY <1>3 DEF Replies
  <2> QED
    BY <1>5, <1>6, <2>1 DEF ServerHasAnswered
<1>8. ServerHasAnswered = FALSE
  BY <1>2, NotAnswered
<1>9. status = 0 /\ call \in {"Handshake", "Request"}
  BY <1>1, <1>2 DEF Typed, Control, TypeOK
<1>10. Calling = call /\ Calling' = Calling /\ Outcome' = Outcome
  BY <1>2, CallingValues DEF Calling, Outcome, client
<1>11. /\ (status = 1) = FALSE /\ (status = 1)' = FALSE
       /\ session'.issue = session.issue /\ requests' = requests
  BY <1>2, <1>9 DEF client
<1>12. ServerHasAnswered' = ServerHasAnswered /\ ~ServerHasAnswered
  BY <1>7, <1>8
<1>13. Calling \in {"Handshake", "Request"}
  BY <1>9, <1>10
<1>14. ~(status = 1) /\ (status = 1)' = (status = 1)
  BY <1>11
<1> QED
  BY <1>4, <1>10, <1>11, <1>12, <1>13, <1>14 DEF Abstract!Issue, Calling

LEMMA AnswerSeen ==
  ASSUME ExchangeInv, ServerAnswersRequest
  PROVE  Abstract!Answer
<1>1. Typed /\ Exchange
  BY DEF ExchangeInv
<1>2. /\ post # << >> /\ pc = "awaitRequest"
      /\ UNCHANGED <<client, call, pc, res, requests>>
  BY <1>1, AnswersPost DEF ServerReacts, history
<1>3. /\ post = EarlyBody(session.psk, transcript[1], transcript[2], 0)
      /\ transcript[1].ticket = session.issue /\ transcript[1].id = requests
  BY <1>2 DEF ExchangeInv, Exchange, RequestInv
<1>4. post[1].body = transcript[1]
  <2>1. EarlyBody(session.psk, transcript[1], transcript[2], 0)[1]
          = Plain(transcript[1])
    BY EarlyBodyShape
  <2> QED
    BY <1>3, <2>1 DEF Plain
<1>5. PICK body \in Seq(Record), key \in Key :
        /\ Replies(body, TRUE)
        /\ post[1].body.ticket \in DOMAIN issued
        /\ Len(body) = 4
        /\ body[3].body.kind = "Data" /\ body[3].body.id = post[1].body.id
  BY <1>1, ResponseShape
<1>6. session.issue > 0
  BY <1>1, <1>3, <1>4, <1>5, AskerTypes
<1>7. call = "Request"
  BY <1>1, <1>2 DEF Typed, Control
<1>8. ServerHasAnswered' = TRUE
  <2>1. last' = body
    BY <1>5 DEF Replies
  <2> QED
    BY <1>2, <1>3, <1>4, <1>5, <1>7, <2>1 DEF ServerHasAnswered
<1>9. ServerHasAnswered = FALSE
  BY <1>2, NotAnswered
<1>10. Calling = "Request" /\ Calling' = Calling /\ Outcome' = Outcome
  BY <1>2, <1>7, CallingValues DEF Calling, Outcome, client
<1>11. /\ (status = 1)' = (status = 1) /\ session'.issue = session.issue
       /\ Len(issued)' = Len(issued)
  BY <1>2 DEF client, ServerAnswersRequest
<1> QED
  BY <1>2, <1>6, <1>8, <1>9, <1>10, <1>11 DEF Abstract!Answer, Calling

LEMMA OthersSeen ==
  ASSUME ExchangeInv, ServerRejects \/ Environment \/ UNCHANGED vars
  PROVE  UNCHANGED Abstract!vars
<1>1. UNCHANGED <<client, call, pc, res, requests>>
  BY OtherSteps DEF ServerReacts, history
<1>2. UNCHANGED issued
  BY DEF ServerRejects, Environment, ConnectionLost, ResponseCut,
     StaleResponse, server, vars
<1>3. ServerHasAnswered' = ServerHasAnswered
  <2>1. CASE ServerRejects
    <3>1. post # << >> /\ last' = <<Plain(Msg("Alert", 0, "ok"))>>
      BY <2>1 DEF ServerRejects, Replies
    <3>2. ServerHasAnswered' = FALSE
      BY <3>1 DEF ServerHasAnswered
    <3> QED
      BY <3>1, <3>2, NotAnswered
  <2>2. CASE Environment \/ UNCHANGED vars
    <3>1. last' = last
      BY <2>2 DEF Environment, ConnectionLost, ResponseCut, StaleResponse,
         server, vars
    <3> QED
      BY <1>1, <3>1 DEF ServerHasAnswered
  <2> QED
    BY <2>1, <2>2
<1> QED
  BY <1>1, <1>2, <1>3, UnseenStep DEF client

LEMMA AbstractInit == Init => Abstract!Init
<1> SUFFICES ASSUME Init PROVE Abstract!Init
  OBVIOUS
<1>1. /\ Calling = "none" /\ Outcome = <<"none">> /\ ServerHasAnswered = FALSE
      /\ (status = 1) = FALSE /\ requests = 0
  BY CallingValues, OutcomeValues DEF Init, ServerHasAnswered
<1>2. Len(issued) \in {0, 1} /\ session.issue = Len(issued)
  <2>1. CASE session = NoSession /\ issued = << >>
    BY <2>1 DEF NoSession
  <2>2. ASSUME NEW n \in TicketCounts,
               session = Loaded(n), issued = <<priorFlight(n)>>
        PROVE  Len(issued) = 1 /\ session.issue = 1
    <3>1. Loaded(n).issue = 1
      BY DEF Loaded
    <3> HIDE DEF Loaded, priorFlight
    <3> QED
      BY <2>2, <3>1
  <2> QED
    BY <2>1, <2>2 DEF Init
<1> QED
  BY <1>1, <1>2 DEF Abstract!Init, Calling

(* Every step of the short link is a step of SecureRequest, or leaves its  *)
(* variables as they are: whatever answer is lost, cut, stale or refused,  *)
(* a call has an outcome SecureRequest allows, and the session only moves  *)
(* to the one the server issued last.                                      *)
THEOREM Implements == Spec => ImplementsSecureRequest
<1>1. ExchangeInv /\ ExchangeInv' /\ [Next]_vars
        => [Abstract!Next]_Abstract!vars
  <2> SUFFICES ASSUME ExchangeInv, ExchangeInv', [Next]_vars
               PROVE  [Abstract!Next]_Abstract!vars
    OBVIOUS
  <2>1. CASE Calls
    BY <2>1, CallsSeen
  <2>2. CASE Continues
    <3>1. CASE ReadNewSessionTicket
      BY <3>1, AdoptSeen DEF Abstract!Next
    <3>2. CASE ReadServerFinish
      BY <3>2, CompleteSeen DEF Abstract!Next
    <3> QED
      BY <2>2, <3>1, <3>2, SendsSeen, HandshakeSeen, RequestSeen, ResponseSeen
      DEF Continues
  <2>3. CASE ServerReacts
    <3>1. ASSUME NEW f \in Faults, NEW n \in TicketCounts,
                 ServerAnswersHello(f, n)
          PROVE  Abstract!Next
      BY <3>1, IssueSeen DEF Abstract!Next
    <3>2. CASE ServerAnswersRequest
      BY <3>2, AnswerSeen DEF Abstract!Next
    <3>3. CASE ServerRejects
      BY <3>3, OthersSeen
    <3> QED
      BY <2>3, <3>1, <3>2, <3>3 DEF ServerReacts
  <2>4. CASE Environment \/ UNCHANGED vars
    BY <2>4, OthersSeen
  <2> QED
    BY <2>1, <2>2, <2>3, <2>4 DEF Next
<1> QED
  BY <1>1, AbstractInit, ExchangeInvariant, PTL
  DEF Spec, ImplementsSecureRequest, Abstract!Spec

-----------------------------------------------------------------------------
(* The server's whole and faultless answer is never refused.               *)

(* The flight the server issued last.                                      *)
LastFlight == issued[Len(issued)]

(* It answers the hello of the handshake in progress, nothing is wrong     *)
(* with it, and its records are the answer the server gave last.           *)
Faultless ==
  /\ Len(issued) > 0
  /\ LastFlight = FlightTo(Msg("ClientHello", attempt, "ok"), Len(issued),
                           "none", LastFlight.tr[4].count)
  /\ last = FlightRecords(LastFlight, "none")

(* The answer the server gave last is sealed, after its hello, with a key. *)
SealedWith(key) ==
  /\ Len(last) = 4
  /\ \A i \in 2..4 : last[i].key = key /\ last[i].seq = i - 1

(* The records still to be read are the rest of the answer given last: as  *)
(* many as the client has not counted.                                     *)
RestOfLast ==
  /\ Len(last) = 4
  /\ Len(packetReader) = 4 - serverSeqNum
  /\ \A i \in 1..4 - serverSeqNum : packetReader[i] = last[serverSeqNum + i]

(* As long as an answer is intact, it is the one the server gave last, to  *)
(* the hello or the early data on the wire, and every key the client will  *)
(* need for the rest of it is the key the rest is sealed with.             *)
IntactInv ==
  /\ pc \in {"awaitHandshake", "readServerHello"} =>
       transcript = <<Msg("ClientHello", attempt, "ok")>>
  /\ pc \in Waiting /\ intact => post = << >> /\ (reply # << >> => reply[1] = last)
  /\ pc \in Parsing /\ intact => RestOfLast
  /\ pc \in {"awaitHandshake"} \cup InHandshake /\ intact => Faultless
  /\ pc \in InHandshake \ {"readServerHello"} /\ intact =>
       trafficKey = FlightKey(LastFlight)
  /\ pc \in {"awaitRequest", "readHello"} /\ intact =>
       SealedWith(RequestKey(session.psk,
                             <<transcript[1], transcript[2], last[1].body>>))
  /\ pc \in InRequest \ {"readHello"} /\ intact => SealedWith(session.appKey)

LEMMA FaultlessParts ==
  ASSUME Typed, Faultless
  PROVE  LET flight == LastFlight
         IN  /\ Len(issued) \in DOMAIN issued
             /\ flight \in Flight /\ Len(flight.tr) = 4
             /\ flight.secret = <<attempt, Len(issued)>>
             /\ flight.tr[1] = Msg("ClientHello", attempt, "ok")
             /\ flight.tr[2] = Msg("ServerHello", Len(issued), "ok")
             /\ flight.tr[3] = Msg("Signature", Len(issued), "ok")
             /\ flight.tr[4].kind = "NewSessionTicket" /\ flight.tr[4].form = "ok"
<1> DEFINE hello == Msg("ClientHello", attempt, "ok")
           count == LastFlight.tr[4].count
<1>1. /\ Len(issued) \in DOMAIN issued
      /\ LastFlight \in Flight /\ Len(LastFlight.tr) = 4
  <2>1. Len(issued) \in DOMAIN issued
    BY DEF Faultless, Typed, TypeOK
  <2> QED
    BY <2>1, IssuedTypeOf DEF LastFlight
<1>2. LastFlight = FlightTo(hello, Len(issued), "none", count)
  BY DEF Faultless
<1> HIDE DEF count
<1>3. hello.id = attempt
  BY DEF Msg
<1>4. /\ FlightTo(hello, Len(issued), "none", count).secret = <<attempt, Len(issued)>>
      /\ FlightTo(hello, Len(issued), "none", count).tr[1] = hello
  BY <1>3, FlightShape
<1>5. /\ FlightTo(hello, Len(issued), "none", count).tr[2]
           = Msg("ServerHello", Len(issued), "ok")
      /\ FlightTo(hello, Len(issued), "none", count).tr[3]
           = Msg("Signature", Len(issued), "ok")
      /\ FlightTo(hello, Len(issued), "none", count).tr[4].kind = "NewSessionTicket"
      /\ FlightTo(hello, Len(issued), "none", count).tr[4].form = "ok"
  BY DEF FlightTo, Faulty, Msg
<1> QED
  BY <1>1, <1>2, <1>4, <1>5

(* The records of a faultless flight are what the client looks for.        *)
LEMMA FaultlessRecords ==
  ASSUME Typed, Faultless
  PROVE  /\ Len(last) = 4
         /\ last[1] = Plain(LastFlight.tr[2])
         /\ \A i \in 2..4 : last[i].key = FlightKey(LastFlight) /\ last[i].seq = i - 1
         /\ last[2].body = LastFlight.tr[3]
         /\ last[2].tag = EcdsaSignature(Hellos(LastFlight))
         /\ last[3].body = LastFlight.tr[4]
         /\ last[4].body.kind = "ServerFinish" /\ last[4].body.form = "ok"
         /\ last[4].tag = ServerFinished(LastFlight.secret, LastFlight.tr)
<1>1. last = FlightRecords(LastFlight, "none")
  BY DEF Faultless
<1>2. FlightRecords(LastFlight, "none")[2].tag = EcdsaSignature(Hellos(LastFlight))
  BY DEF FlightRecords, Seal
<1>3. LET finish == FlightRecords(LastFlight, "none")[4]
      IN  /\ finish.body.kind = "ServerFinish" /\ finish.body.form = "ok"
          /\ finish.tag = ServerFinished(LastFlight.secret, LastFlight.tr)
  <2> DEFINE finish == FlightRecords(LastFlight, "none")[4]
  <2>1. /\ finish.body = Msg("ServerFinish", LastFlight.tr[2].id, Faulty("none", "finish"))
        /\ finish.tag = IF "none" = "mac" THEN NoKey
                        ELSE ServerFinished(LastFlight.secret, LastFlight.tr)
    BY FlightFinishShape
  <2> HIDE DEF finish
  <2>2. Faulty("none", "finish") = "ok"
    BY DEF Faulty
  <2>3. finish.body.kind = "ServerFinish" /\ finish.body.form = "ok"
    BY <2>1, <2>2 DEF Msg
  <2> QED
    BY <2>1, <2>3 DEF finish
<1> QED
  BY <1>1, <1>2, <1>3, FlightRecordShape

(* Where the client reads an intact answer there is a record to read, and  *)
(* what remains of the answer after it is again its rest.                  *)
LEMMA IntactReads ==
  ASSUME Typed, RestOfLast, serverSeqNum \in 0..3
  PROVE  /\ packetReader # << >>
         /\ rec = last[serverSeqNum + 1]
         /\ packetReader' = Tail(packetReader) /\ UNCHANGED last /\ Count
              => RestOfLast'
<1>1. packetReader \in Seq(Record)
  BY DEF Typed, TypeOK
<1>2. Len(packetReader) = 4 - serverSeqNum /\ 1 \in 1..4 - serverSeqNum
  BY DEF RestOfLast
<1>3. packetReader # << >>
  BY <1>1, <1>2
<1>4. rec = packetReader[1]
  BY <1>1, <1>3, AfterTail DEF rec
<1>5. rec = last[serverSeqNum + 1]
  BY <1>2, <1>4 DEF RestOfLast
<1>6. ASSUME packetReader' = Tail(packetReader), UNCHANGED last, Count
      PROVE  RestOfLast'
  <2>1. serverSeqNum' = serverSeqNum + 1
    BY <1>6 DEF Count
  <2>2. Len(packetReader') = 4 - serverSeqNum'
    BY <1>1, <1>2, <1>3, <1>6, <2>1, AfterTail
  <2>3. ASSUME NEW i \in 1..4 - serverSeqNum'
        PROVE  packetReader'[i] = last'[serverSeqNum' + i]
    <3>1. i + 1 \in 1..4 - serverSeqNum /\ i \in 1..Len(Tail(packetReader))
      BY <1>6, <2>1, <2>2
    <3>2. Tail(packetReader)[i] = packetReader[i + 1]
      BY <1>1, <1>3, <3>1, AfterTail
    <3>3. packetReader[i + 1] = last[serverSeqNum + (i + 1)]
      BY <3>1 DEF RestOfLast
    <3>4. serverSeqNum + (i + 1) = serverSeqNum' + i
      BY <2>1
    <3> QED
      BY <1>6, <3>2, <3>3, <3>4
  <2> QED
    BY <1>6, <2>2, <2>3 DEF RestOfLast
<1> QED
  BY <1>3, <1>5, <1>6

(* The steps of Handshake on an intact answer: each takes its record.      *)
LEMMA IntactHello ==
  ASSUME Typed, HandshakeInv, IntactInv, intact, ReadServerHello
  PROVE  /\ pc' = "readSignature" /\ RestOfLast'
         /\ UNCHANGED <<issued, last, attempt>> /\ Faultless
         /\ trafficKey' = FlightKey(LastFlight)
<1>1. /\ pc = "readServerHello" /\ packetReader' = Tail(packetReader)
      /\ Hash /\ Count /\ UNCHANGED <<issued, last, attempt>>
  BY ReadServerHelloShape DEF Take, server, history
<1>2. RestOfLast /\ Faultless /\ transcript = <<Msg("ClientHello", attempt, "ok")>>
  BY <1>1 DEF IntactInv, Parsing, InHandshake
<1>3. serverSeqNum = 0
  BY <1>1 DEF HandshakeInv, Progress
<1>4. rec = last[1] /\ RestOfLast'
  <2>1. serverSeqNum \in 0..3
    BY <1>3
  <2>2. rec = last[serverSeqNum + 1] /\ RestOfLast'
    BY <1>1, <1>2, <2>1, IntactReads
  <2> QED
    BY <1>3, <2>2
<1>5. rec = Plain(LastFlight.tr[2])
  BY <1>2, <1>4, FaultlessRecords
<1>6. LastFlight.tr[2] = Msg("ServerHello", Len(issued), "ok")
  BY <1>2, FaultlessParts
<1>7. /\ rec.key = NoKey /\ rec.body = LastFlight.tr[2]
      /\ rec.body.kind = "ServerHello" /\ rec.body.form = "ok"
      /\ rec.body.id = Len(issued)
  BY <1>5, <1>6 DEF Plain, Msg
<1>8. /\ pc' = "readSignature"
      /\ trafficKey' = HandshakeKey(<<attempt, Len(issued)>>, transcript')
  BY <1>7 DEF ReadServerHello, computeEphemeralSecret
<1>9. transcript' = Hellos(LastFlight)
  <2>1. transcript' = Append(<<LastFlight.tr[1]>>, LastFlight.tr[2])
    BY <1>1, <1>2, <1>7, FaultlessParts DEF Hash
  <2> QED
    BY <1>2, <2>1, FaultlessParts, TranscriptParts
<1>10. trafficKey' = FlightKey(LastFlight)
  BY <1>2, <1>8, <1>9, FaultlessParts DEF FlightKey
<1> QED
  BY <1>1, <1>2, <1>4, <1>8, <1>10

LEMMA IntactSignature ==
  ASSUME Typed, HandshakeInv, IntactInv, intact, ReadSignature
  PROVE  /\ pc' = "readNewSessionTicket" /\ RestOfLast'
         /\ UNCHANGED <<issued, last, attempt, trafficKey>> /\ Faultless
         /\ trafficKey = FlightKey(LastFlight)
<1>1. /\ pc = "readSignature" /\ packetReader' = Tail(packetReader)
      /\ UNCHANGED <<issued, last, attempt, trafficKey>>
  BY ReadSignatureShape DEF Take, server, history
<1>2. RestOfLast /\ Faultless /\ trafficKey = FlightKey(LastFlight)
  BY <1>1 DEF IntactInv, Parsing, InHandshake
<1>3. serverSeqNum = 1 /\ trafficKey.hash = transcript
  BY <1>1 DEF HandshakeInv, Progress
<1>4. rec = last[2] /\ (Count => RestOfLast')
  <2>1. serverSeqNum \in 0..3 /\ serverSeqNum + 1 = 2
    BY <1>3
  <2> QED
    BY <1>1, <1>2, <2>1, IntactReads
<1>5. /\ rec.key = trafficKey /\ rec.seq = serverSeqNum
      /\ rec.body = Msg("Signature", Len(issued), "ok")
      /\ rec.tag = EcdsaSignature(Hellos(LastFlight))
  <2>1. 2 \in 2..4 /\ 2 - 1 = 1
    OBVIOUS
  <2> QED
    BY <1>2, <1>3, <1>4, <2>1, FaultlessRecords, FaultlessParts
<1>6. transcript = Hellos(LastFlight)
  BY <1>2, <1>3 DEF FlightKey, HandshakeKey, hkdfExpand
<1>7. /\ Decrypts(trafficKey) /\ Parses("Signature") /\ verifyEcdsaSignature
  BY <1>5, <1>6 DEF Decrypts, Opens, Parses, verifyEcdsaSignature, Msg
<1>8. Count /\ pc' = "readNewSessionTicket"
  BY <1>7, Zenon DEF ReadSignature
<1> QED
  BY <1>1, <1>2, <1>4, <1>8

LEMMA IntactTickets ==
  ASSUME Typed, HandshakeInv, IntactInv, intact, ReadNewSessionTicket
  PROVE  /\ pc' = "readServerFinish" /\ RestOfLast'
         /\ UNCHANGED <<issued, last, attempt, trafficKey>> /\ Faultless
         /\ trafficKey = FlightKey(LastFlight)
<1>1. /\ pc = "readNewSessionTicket" /\ packetReader' = Tail(packetReader)
      /\ UNCHANGED <<issued, last, attempt, trafficKey>>
  BY ReadNewSessionTicketShape DEF Take, server, history
<1>2. RestOfLast /\ Faultless /\ trafficKey = FlightKey(LastFlight)
  BY <1>1 DEF IntactInv, Parsing, InHandshake
<1>3. serverSeqNum = 2
  BY <1>1 DEF HandshakeInv, Progress
<1>4. rec = last[3] /\ (Count => RestOfLast')
  <2>1. serverSeqNum \in 0..3 /\ serverSeqNum + 1 = 3
    BY <1>3
  <2> QED
    BY <1>1, <1>2, <2>1, IntactReads
<1>5. /\ rec.key = trafficKey /\ rec.seq = serverSeqNum
      /\ rec.body.kind = "NewSessionTicket" /\ rec.body.form = "ok"
  <2>1. 3 \in 2..4 /\ 3 - 1 = 2
    OBVIOUS
  <2> QED
    BY <1>2, <1>3, <1>4, <2>1, FaultlessRecords, FaultlessParts
<1>6. Decrypts(trafficKey) /\ Parses("NewSessionTicket")
  BY <1>5 DEF Decrypts, Opens, Parses
<1>7. Count /\ pc' = "readServerFinish"
  BY <1>6, Zenon DEF ReadNewSessionTicket
<1> QED
  BY <1>1, <1>2, <1>4, <1>7

(* The tickets adopted are those of the flight issued last, and so the     *)
(* transcript the finish is checked against is that flight's.              *)
LEMMA IntactFinish ==
  ASSUME Typed, HandshakeInv, FlightsInOrder, IntactInv, intact, ReadServerFinish
  PROVE  pc' = "sendRequest" \/ (pc' = "idle" /\ res' = "ok")
<1>1. pc = "readServerFinish"
  BY ReadServerFinishShape
<1>2. RestOfLast /\ Faultless /\ trafficKey = FlightKey(LastFlight)
  BY <1>1 DEF IntactInv, Parsing, InHandshake
<1>3. serverSeqNum = 3 /\ transcript = LastFlight.tr
  BY <1>1 DEF HandshakeInv, Progress, FlightsInOrder, LastFlight
<1>4. rec = last[4]
  <2>1. serverSeqNum \in 0..3 /\ serverSeqNum + 1 = 4
    BY <1>3
  <2> QED
    BY <1>2, <2>1, IntactReads
<1>5. /\ rec.key = trafficKey /\ rec.seq = serverSeqNum
      /\ rec.body.kind = "ServerFinish" /\ rec.body.form = "ok"
      /\ rec.tag = ServerFinished(LastFlight.secret, LastFlight.tr)
  <2>1. 4 \in 2..4 /\ 4 - 1 = 3
    OBVIOUS
  <2> QED
    BY <1>2, <1>3, <1>4, <2>1, FaultlessRecords
<1>6. trafficKey.secret = LastFlight.secret
  BY <1>2 DEF FlightKey, HandshakeKey, hkdfExpand
<1>7. Decrypts(trafficKey) /\ Parses("ServerFinish") /\ serverFinishMatches
  BY <1>3, <1>5, <1>6 DEF Decrypts, Opens, Parses, serverFinishMatches
<1> QED
  BY <1>7, Zenon DEF ReadServerFinish, Return

(* The steps of Request on an intact answer.  The key the client expands   *)
(* once it has read the hello of the server is the one the server used.    *)
LEMMA IntactRequest ==
  ASSUME Typed, RequestInv, IntactInv, intact,
         ReadHello \/ ReadFinish \/ ReadData \/ ReadAbort
  PROVE  /\ UNCHANGED <<issued, last, attempt>>
         /\ \/ /\ pc' \in InRequest \ {"readHello"}
               /\ RestOfLast' /\ SealedWith(session'.appKey)
            \/ pc' = "idle" /\ res' = "ok"
<1>1. /\ packetReader' = Tail(packetReader) /\ pc \in InRequest
      /\ UNCHANGED <<issued, last, attempt>>
  BY RequestShapes DEF InRequest, server, history
<1>2. RestOfLast
  BY <1>1 DEF IntactInv, Parsing
<1>3. serverSeqNum = CASE pc = "readHello" -> 0 [] pc = "readFinish" -> 1
                       [] pc = "readData" -> 2 [] pc = "readAbort" -> 3
  BY <1>1 DEF RequestInv, InRequest
<1>4. serverSeqNum \in 0..3 /\ (pc # "readHello" => serverSeqNum \in 1..3)
  BY <1>1, <1>3 DEF InRequest
<1>5. rec = last[serverSeqNum + 1] /\ (Count => RestOfLast')
  BY <1>1, <1>2, <1>4, IntactReads
<1>6. CASE /\ pc = "readHello" /\ pc' = "readFinish" /\ Hash /\ Count
           /\ session' = [session EXCEPT
                !.appKey = RequestKey(session.psk, transcript')]
  <2>1. rec = last[1] /\ packetReader # << >>
    <3>1. serverSeqNum = 0 /\ 0 + 1 = 1
      BY <1>3, <1>6
    <3>2. packetReader # << >>
      BY <1>2, <1>4, IntactReads
    <3> QED
      BY <1>5, <3>1, <3>2
  <2>2. rec.body \in Message /\ session \in SessionType
    BY <2>1, RecordRead DEF Typed, TypeOK
  <2>3. session'.appKey = RequestKey(session.psk, transcript')
    BY <1>6, <2>2 DEF SessionType
  <2>4. transcript' = <<transcript[1], transcript[2], last[1].body>>
    <3>1. /\ transcript = <<transcript[1], transcript[2]>>
          /\ transcript[1] \in Message /\ transcript[2] \in Message
      BY <1>6 DEF RequestInv
    <3>2. transcript' = Append(transcript, rec.body)
      BY <1>6 DEF Hash
    <3>3. Append(<<transcript[1], transcript[2]>>, rec.body)
            = <<transcript[1], transcript[2], rec.body>>
      BY <2>2, <3>1, AppendToPair
    <3> QED
      BY <2>1, <3>1, <3>2, <3>3, Zenon
  <2>5. SealedWith(RequestKey(session.psk,
                              <<transcript[1], transcript[2], last[1].body>>))
    BY <1>6 DEF IntactInv
  <2>6. SealedWith(session'.appKey)
    BY <2>3, <2>4, <2>5
  <2> QED
    BY <1>1, <1>5, <1>6, <2>6 DEF InRequest
<1>7. CASE pc # "readHello"
  <2>1. SealedWith(session.appKey)
    BY <1>1, <1>7 DEF IntactInv
  <2>2. serverSeqNum + 1 \in 2..4 /\ (serverSeqNum + 1) - 1 = serverSeqNum
    BY <1>4, <1>7
  <2>3. Decrypts(session.appKey)
    BY <1>5, <2>1, <2>2 DEF SealedWith, Decrypts, Opens
  <2>4. \/ /\ pc' \in {"readData", "readAbort"} /\ Count
           /\ UNCHANGED session
        \/ pc' = "idle" /\ res' = "ok"
    BY <1>7, <2>3, RequestShapes
  <2>5. CASE pc' \in {"readData", "readAbort"} /\ Count /\ UNCHANGED session
    <3>1. session'.appKey = session.appKey
      BY <2>5
    <3>2. SealedWith(session'.appKey)
      BY <2>1, <3>1
    <3> QED
      BY <1>1, <1>5, <2>5, <3>2 DEF InRequest
  <2> QED
    BY <1>1, <2>4, <2>5
<1> QED
  BY <1>6, <1>7, RequestShapes

(* Outside the exchange there is nothing to say; nor of an answer that is  *)
(* not intact, but that a hello on the wire is the transcript.             *)
LEMMA IntactNone ==
  ASSUME pc' \notin Waiting \cup Parsing
  PROVE  IntactInv'
BY DEF IntactInv, Waiting, Parsing, InHandshake, InRequest

LEMMA IntactNot ==
  ASSUME ~intact',
         pc' \in {"awaitHandshake", "readServerHello"} =>
           transcript' = <<Msg("ClientHello", attempt', "ok")>>
  PROVE  IntactInv'
BY DEF IntactInv

(* An answer the server gives: to a hello with a new flight, to early data *)
(* under the pre-shared key both ends have.                                *)
LEMMA FlightIntact ==
  ASSUME Typed, Exchange, IntactInv,
         NEW f \in Faults, NEW n \in TicketCounts, ServerAnswersHello(f, n)
  PROVE  IntactInv'
<1> DEFINE hello  == Msg("ClientHello", attempt, "ok")
           id     == Len(issued) + 1
           flight == FlightTo(hello, id, f, n)
<1>1. /\ post # << >> /\ pc = "awaitHandshake"
      /\ UNCHANGED <<client, pc, attempt>>
  BY AnswersPost DEF ServerReacts, history
<1>2. transcript' = <<Msg("ClientHello", attempt', "ok")>>
  BY <1>1 DEF IntactInv, client
<1>3. post[1].body = hello
  <2>1. post = <<Plain(hello)>>
    BY <1>1 DEF Exchange
  <2> QED
    BY <2>1 DEF Plain
<1>4. /\ Replies(FlightRecords(flight, f), f = "none")
      /\ issued'[id] = flight /\ Len(issued') = id /\ id \in Nat
  BY <1>3, HelloAnswered DEF Typed
<1>5. flight.tr[4].count = n
  BY FlightShape
<1> HIDE DEF flight
<1>6. /\ post' = << >> /\ reply' = <<last'>> /\ last' = FlightRecords(flight, f)
      /\ intact' = (f = "none")
  BY <1>4, Zenon DEF Replies
<1>7. CASE f = "none"
  <2>1. id > 0
    BY <1>4 DEF Typed, TypeOK
  <2>2. LastFlight' = flight
    BY <1>4 DEF LastFlight
  <2>3. LastFlight' = FlightTo(Msg("ClientHello", attempt', "ok"), Len(issued'),
                               "none", LastFlight'.tr[4].count)
    BY <1>1, <1>4, <1>5, <1>7, <2>2 DEF flight
  <2>4. Faultless'
    BY <1>4, <1>6, <1>7, <2>1, <2>2, <2>3 DEF Faultless
  <2> QED
    BY <1>1, <1>2, <1>6, <2>4
    DEF IntactInv, Waiting, Parsing, InHandshake, InRequest
<1>8. CASE f # "none"
  BY <1>2, <1>6, <1>8, IntactNot
<1> QED
  BY <1>7, <1>8

LEMMA ResponseIntact ==
  ASSUME Typed, HandshakeInv, Exchange, IntactInv, ServerAnswersRequest
  PROVE  IntactInv'
<1>1. /\ post # << >> /\ pc = "awaitRequest"
      /\ UNCHANGED <<client, pc>>
  BY AnswersPost DEF ServerReacts
<1>2. /\ post[1].body = transcript[1] /\ post[2].body = transcript[2]
      /\ transcript[1].ticket = session.issue
  <2>1. /\ post = EarlyBody(session.psk, transcript[1], transcript[2], 0)
        /\ transcript[1].ticket = session.issue
    BY <1>1 DEF Exchange
  <2>2. /\ EarlyBody(session.psk, transcript[1], transcript[2], 0)[1]
             = Plain(transcript[1])
        /\ EarlyBody(session.psk, transcript[1], transcript[2], 0)[2].body
             = transcript[2]
    BY EarlyBodyShape
  <2> QED
    BY <2>1, <2>2 DEF Plain
<1>3. PICK body \in Seq(Record), key \in Key :
        /\ Replies(body, TRUE)
        /\ post[1].body.ticket \in DOMAIN issued
        /\ key = RequestKey(FlightPsk(issued[post[1].body.ticket]),
                            <<post[1].body, post[2].body, body[1].body>>)
        /\ Len(body) = 4
        /\ \A i \in 2..4 : body[i].key = key /\ body[i].seq = i - 1
  BY ResponseShape
<1>4. session.psk = FlightPsk(issued[session.issue])
  <2>1. session.issue \in DOMAIN issued
    BY <1>2, <1>3
  <2>2. session.issue > 0
    BY <2>1, IssuedTypeOf
  <2> QED
    BY <2>2 DEF HandshakeInv, SessionInv, SessionCoherent, SessionOf
<1>5. key = RequestKey(session.psk, <<transcript[1], transcript[2], body[1].body>>)
  BY <1>2, <1>3, <1>4
<1>6. post' = << >> /\ reply' = <<body>> /\ last' = body
  BY <1>3 DEF Replies
<1>7. SealedWith(RequestKey(session.psk,
                            <<transcript[1], transcript[2], last[1].body>>))'
  <2>1. UNCHANGED <<session, transcript>>
    BY <1>1 DEF client
  <2> QED
    BY <1>3, <1>5, <1>6, <2>1 DEF SealedWith
<1> QED
  BY <1>1, <1>6, <1>7 DEF IntactInv, Waiting, Parsing, InHandshake, InRequest

LEMMA IntactStep ==
  ASSUME ExchangeInv, IntactInv, [Next]_vars
  PROVE  IntactInv'
<1> USE DEF client, network, server, history
<1>1. /\ Typed /\ HandshakeInv /\ RequestInv /\ Exchange /\ FlightsInOrder
      /\ TypeOK
  BY DEF ExchangeInv, Typed
<1>2. CASE Calls
  <2>1. pc' \in {"idle", "sendHello", "sendRequest"}
    BY <1>2 DEF Calls, CallHandshake, CallRequest, Return
  <2> QED
    BY <2>1, IntactNone DEF Waiting, Parsing, InHandshake, InRequest
<1>3. CASE KeyGenFails \/ SendHello \/ DialFails \/ NoTicket \/ SendRequest
  <2>1. CASE pc' \in {"idle", "panicked"}
    BY <2>1, IntactNone DEF Waiting, Parsing, InHandshake, InRequest
  <2>2. CASE SendHello /\ Posts(<<Plain(clientHello)>>, "awaitHandshake")
    <3>1. /\ intact' = FALSE
          /\ transcript' = <<Msg("ClientHello", attempt', "ok")>>
      BY <2>2 DEF SendHello, Posts, clientHello
    <3> QED
      BY <3>1, IntactNot
  <2>3. CASE SendRequest /\ Posts(earlyData, "awaitRequest")
    <3>1. intact' = FALSE /\ pc' = "awaitRequest"
      BY <2>3 DEF Posts
    <3> QED
      BY <3>1, IntactNot
  <2> QED
    BY <1>3, <2>1, <2>2, <2>3, SendShapes
<1>4. CASE /\ ~intact
           /\ ReadServerHello \/ ReadSignature \/ ReadNewSessionTicket
              \/ ReadServerFinish \/ ReadHello \/ ReadFinish \/ ReadData
              \/ ReadAbort
  <2>1. intact' = intact /\ pc' \notin {"awaitHandshake", "readServerHello"}
    BY <1>4, ReadServerHelloShape, ReadSignatureShape,
       ReadNewSessionTicketShape, ReadServerFinishShape, RequestShapes
    DEF Take, Fails, Return
  <2> QED
    BY <1>4, <2>1, IntactNot
<1>5. CASE intact /\ (ReadServerHello \/ ReadSignature \/ ReadNewSessionTicket)
  <2>1. /\ pc' \in {"readSignature", "readNewSessionTicket", "readServerFinish"}
        /\ RestOfLast' /\ UNCHANGED <<issued, last, attempt>> /\ Faultless
        /\ trafficKey' = FlightKey(LastFlight)
    BY <1>1, <1>5, IntactHello, IntactSignature, IntactTickets
  <2>2. LastFlight' = LastFlight
    BY <2>1 DEF LastFlight
  <2>3. Faultless' /\ trafficKey' = FlightKey(LastFlight')
    BY <2>1, <2>2 DEF Faultless
  <2> QED
    BY <2>1, <2>3 DEF IntactInv, Waiting, Parsing, InHandshake, InRequest
<1>6. CASE intact /\ ReadServerFinish
  BY <1>1, <1>6, IntactFinish, IntactNone
  DEF Waiting, Parsing, InHandshake, InRequest
<1>7. CASE intact /\ (ReadHello \/ ReadFinish \/ ReadData \/ ReadAbort)
  <2>1. CASE pc' = "idle"
    BY <2>1, IntactNone DEF Waiting, Parsing, InHandshake, InRequest
  <2>2. CASE /\ pc' \in InRequest \ {"readHello"}
             /\ RestOfLast' /\ SealedWith(session'.appKey) /\ UNCHANGED last
    <3>1. SealedWith(session.appKey)'
      BY <2>2 DEF SealedWith
    <3> QED
      BY <2>2, <3>1 DEF IntactInv, Waiting, Parsing, InHandshake, InRequest
  <2> QED
    BY <1>1, <1>7, <2>1, <2>2, IntactRequest
<1>8. CASE ReadResponse \/ ResponseFails \/ BodyEnds
  <2>1. CASE pc' = "idle"
    BY <2>1, IntactNone DEF Waiting, Parsing, InHandshake, InRequest
  <2>2. CASE pc' # "idle"
    <3>1. /\ UNCHANGED <<client, intact, server, attempt>>
          /\ pc \in Waiting /\ reply # << >> /\ packetReader' = reply[1]
          /\ \/ pc = "awaitHandshake" /\ pc' = "readServerHello"
             \/ pc = "awaitRequest" /\ pc' = "readHello"
      BY <1>8, <2>2, ResponseShapes
    <3>2. pc' = "readServerHello" =>
            transcript' = <<Msg("ClientHello", attempt', "ok")>>
      BY <3>1 DEF IntactInv
    <3>3. CASE ~intact
      BY <3>1, <3>2, <3>3, IntactNot
    <3>4. CASE intact
      <4>1. packetReader' = last
        BY <3>1, <3>4 DEF IntactInv
      <4>2. serverSeqNum' = 0
        BY <1>1, <3>1 DEF HandshakeInv, Progress, RequestInv
      <4>3. Len(last) = 4
        <5>1. CASE pc = "awaitHandshake"
          BY <1>1, <3>4, <5>1, FaultlessRecords DEF IntactInv
        <5>2. CASE pc = "awaitRequest"
          BY <3>4, <5>2 DEF IntactInv, SealedWith
        <5> QED
          BY <3>1, <5>1, <5>2
      <4>4. RestOfLast'
        <5>1. \A i \in 1..4 : 0 + i = i
          OBVIOUS
        <5>2. last' = last /\ 4 - 0 = 4
          BY <3>1
        <5> QED
          BY <4>1, <4>2, <4>3, <5>1, <5>2 DEF RestOfLast
      <4>5. CASE pc = "awaitHandshake" /\ pc' = "readServerHello"
        <5>1. Faultless
          BY <3>4, <4>5 DEF IntactInv
        <5>2. Faultless'
          BY <3>1, <5>1 DEF Faultless, LastFlight
        <5> QED
          BY <3>2, <4>4, <4>5, <5>2
          DEF IntactInv, Waiting, Parsing, InHandshake, InRequest
      <4>6. CASE pc = "awaitRequest" /\ pc' = "readHello"
        <5>1. SealedWith(RequestKey(session.psk,
                                    <<transcript[1], transcript[2], last[1].body>>))
          BY <3>4, <4>6 DEF IntactInv
        <5>2. SealedWith(RequestKey(session.psk,
                                    <<transcript[1], transcript[2], last[1].body>>))'
          BY <3>1, <5>1 DEF SealedWith
        <5> QED
          BY <4>4, <4>6, <5>2
          DEF IntactInv, Waiting, Parsing, InHandshake, InRequest
      <4> QED
        BY <3>1, <4>5, <4>6
    <3> QED
      BY <3>3, <3>4
  <2> QED
    BY <2>1, <2>2
<1>9. ASSUME NEW f \in Faults, NEW n \in TicketCounts, ServerAnswersHello(f, n)
      PROVE  IntactInv'
  BY <1>1, <1>9, FlightIntact
<1>10. CASE ServerAnswersRequest
  BY <1>1, <1>10, ResponseIntact
<1>11. CASE ServerRejects \/ Environment
  <2>1. UNCHANGED <<client, pc, attempt, packetReader, issued>>
    BY <1>11, OtherSteps DEF ServerReacts, ServerRejects, Environment,
       ConnectionLost, ResponseCut, StaleResponse
  <2>2. pc \in {"awaitHandshake", "readServerHello"} =>
          transcript = <<Msg("ClientHello", attempt, "ok")>>
    BY DEF IntactInv
  <2>3. CASE ServerRejects \/ ResponseCut
    <3>1. intact' = FALSE
      BY <2>3 DEF ServerRejects, Replies, ResponseCut
    <3> QED
      BY <2>1, <2>2, <3>1, IntactNot
  <2>4. CASE StaleResponse
    <3>1. post # << >> /\ intact' = intact
      BY <2>4 DEF StaleResponse
    <3>2. ~intact
      BY <1>1, <3>1 DEF Exchange, IntactInv
    <3> QED
      BY <2>1, <2>2, <3>1, <3>2, IntactNot
  <2>5. CASE ConnectionLost
    <3>1. /\ intact' = intact /\ last' = last /\ pc \in Waiting
          /\ post' = << >> /\ reply' = << >>
      BY <2>5 DEF ConnectionLost
    <3>2. Faultless => Faultless'
      BY <2>1, <3>1 DEF Faultless, LastFlight
    <3>3. SealedWith(RequestKey(session.psk,
                                <<transcript[1], transcript[2], last[1].body>>))
            => SealedWith(RequestKey(session.psk,
                            <<transcript[1], transcript[2], last[1].body>>))'
      BY <2>1, <3>1 DEF SealedWith
    <3> QED
      BY <2>1, <2>2, <3>1, <3>2, <3>3
      DEF IntactInv, Waiting, Parsing, InHandshake, InRequest
  <2> QED
    BY <1>11, <2>3, <2>4, <2>5 DEF Environment
<1>12. CASE UNCHANGED vars
  BY <1>12 DEF vars, IntactInv, RestOfLast, Faultless, LastFlight, SealedWith
<1> QED
  BY <1>2, <1>3, <1>4, <1>5, <1>6, <1>7, <1>8, <1>9, <1>10, <1>11, <1>12
  DEF Next, Continues, ServerReacts

LEMMA IntactInvariant == Spec => [](ExchangeInv /\ IntactInv)
<1>1. Init => IntactInv
  BY DEF Init, IntactInv, Waiting, Parsing, InHandshake, InRequest
<1> QED
  BY <1>1, IntactStep, ExchangeInvariant, PTL DEF Spec

(* The whole and faultless answer of the server, to a hello or to early    *)
(* data, is accepted: reading it never ends a call with an error, whatever *)
(* was lost, cut, stale or refused before.                                 *)
THEOREM Accepted == Spec => IntactAccepted
<1>1. ExchangeInv /\ IntactInv /\ [Next]_vars
        => [intact /\ pc \in Parsing /\ pc' = "idle" => res' = "ok"]_vars
  <2> SUFFICES ASSUME ExchangeInv, IntactInv, Next,
                      intact, pc \in Parsing, pc' = "idle"
               PROVE  res' = "ok"
    OBVIOUS
  <2>1. Typed /\ HandshakeInv /\ RequestInv /\ FlightsInOrder
    BY DEF ExchangeInv
  <2>2. pc \notin Waiting \cup {"idle", "sendHello", "sendRequest"}
    BY DEF Parsing, InHandshake, InRequest, Waiting
  <2>3. packetReader # << >>
    <3>1. RestOfLast
      BY DEF IntactInv
    <3>2. serverSeqNum \in 0..3
      BY <2>1 DEF HandshakeInv, Progress, RequestInv, Parsing, InHandshake,
         InRequest
    <3> QED
      BY <2>1, <3>1, <3>2, IntactReads
  <2>4. CASE Calls
    BY <2>2, <2>4 DEF Calls, CallHandshake, CallRequest
  <2>5. CASE KeyGenFails \/ SendHello \/ DialFails \/ NoTicket \/ SendRequest
    BY <2>2, <2>5, SendShapes
  <2>6. CASE ReadServerHello \/ ReadSignature \/ ReadNewSessionTicket
    BY <2>1, <2>6, IntactHello, IntactSignature, IntactTickets
  <2>7. CASE ReadServerFinish
    BY <2>1, <2>7, IntactFinish
  <2>8. CASE ReadHello \/ ReadFinish \/ ReadData \/ ReadAbort
    BY <2>1, <2>8, IntactRequest DEF InRequest
  <2>9. CASE ReadResponse \/ ResponseFails \/ BodyEnds
    BY <2>2, <2>3, <2>9, ResponseShapes
  <2>10. CASE ServerReacts \/ Environment
    BY <2>2, <2>10, OtherSteps
  <2> QED
    BY <2>4, <2>5, <2>6, <2>7, <2>8, <2>9, <2>10 DEF Next, Continues
<1> QED
  BY <1>1, IntactInvariant, PTL DEF Spec, IntactAccepted

=============================================================================
