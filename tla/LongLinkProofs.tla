--------------------------- MODULE LongLinkProofs ---------------------------
(***************************************************************************)
(* Proofs about the handshakes of the long link, for every bound, every set*)
(* of faults and every set of ticket counts: types, nonces, and the keys   *)
(* and sessions the two ends agree on.                                     *)
(***************************************************************************)
EXTENDS LongLink, WireProofs

USE TicketCountsAssumption, FaultsAssumption

-----------------------------------------------------------------------------
(* Type correctness.                                                       *)

LEMMA InitType == Init => TypeOK
<1> SUFFICES ASSUME Init PROVE TypeOK
  OBVIOUS
<1>1. session \in SessionType /\ flights \in Seq(Flight)
  <2>1. CASE session = NoSession /\ flights = << >>
    BY <2>1, NoSessionType
  <2>2. ASSUME NEW n \in TicketCounts, session = Loaded(n),
               flights = <<priorFlight(n)>>
        PROVE  session \in SessionType /\ flights \in Seq(Flight)
    BY <2>2, LoadedTypes
  <2> QED
    BY <2>1, <2>2 DEF Init
<1>2. transcript \in Transcript /\ trafficKey \in Key
  BY Constants DEF Init
<1>3. up \in BOOLEAN /\ noopFailed \in BOOLEAN /\ clean \in BOOLEAN
  BY Zenon DEF Init
<1> QED
  BY <1>1, <1>2, <1>3 DEF Init, TypeOK

LEMMA NoopRequestType == TypeOK => noopRequest \in Record
<1> SUFFICES ASSUME TypeOK PROVE noopRequest \in Record
  OBVIOUS
<1>1. Msg("Noop", noops + 1, "ok") \in Message
  BY DEF TypeOK, Msg, Message, Kind, Form
<1>2. session.appKey \in Key
  BY DEF TypeOK, SessionType
<1> QED
  BY <1>1, <1>2, Constants, RecordTypes DEF noopRequest, TypeOK

LEMMA DeliverType ==
  ASSUME c2s \in Seq(Record), NEW rec \in Record, Deliver(rec)
  PROVE  c2s' \in Seq(Record)
BY DEF Deliver

LEMMA EncryptType ==
  ASSUME sealed \in Seq(Key \X Nat), clientSeqNum \in Nat, NEW key \in Key,
         Encrypt(key)
  PROVE  sealed' \in Seq(Key \X Nat) /\ clientSeqNum' \in Nat
BY DEF Encrypt, NextClientSeq

LEMMA CallsType == TypeOK /\ Calls => TypeOK'
<1> SUFFICES ASSUME TypeOK, Calls PROVE TypeOK'
  OBVIOUS
<1> USE DEF vars, client, network, server, history
<1>1. CASE Dial
  BY <1>1 DEF TypeOK, Dial
<1>2. CASE DialFails
  BY <1>2 DEF TypeOK, DialFails, Return
<1>3. CASE HandshakeAgain
  BY <1>3 DEF TypeOK, HandshakeAgain, Return
<1>4. CASE Retry
  BY <1>4 DEF TypeOK, Retry
<1>5. CASE SendNoop
  <2>1. session.appKey \in Key
    BY DEF TypeOK, SessionType
  <2>2. sealed' \in Seq(Key \X Nat) /\ clientSeqNum' \in Nat
    BY <1>5, <2>1, EncryptType DEF TypeOK, SendNoop
  <2>3. CASE WriteWorks /\ Deliver(noopRequest) /\ pc' = "readNoop"
             /\ UNCHANGED <<res, noopFailed>>
    <3>1. c2s' \in Seq(Record)
      BY <2>3, NoopRequestType, DeliverType DEF TypeOK
    <3> QED
      BY <1>5, <2>2, <2>3, <3>1 DEF TypeOK, SendNoop, Deliver, Reading
  <2>4. CASE WriteFails /\ Return("err") /\ noopFailed' = TRUE
             /\ UNCHANGED network
    BY <1>5, <2>2, <2>4 DEF TypeOK, SendNoop, Return
  <2> QED
    BY <1>5, <2>3, <2>4 DEF SendNoop
<1> QED
  BY <1>1, <1>2, <1>3, <1>4, <1>5 DEF Calls

(* What the client reads is a record.                                      *)
LEMMA ReceiveType ==
  ASSUME TypeOK, s2c # << >>
  PROVE  /\ Head(s2c) \in Record
         /\ Head(s2c).body \in Message
         /\ Head(s2c).body.id \in Nat
         /\ Head(s2c).body.count \in Nat
         /\ Tail(s2c) \in Seq(Record)
         /\ Append(transcript, Head(s2c).body) \in Transcript
<1>1. Head(s2c) \in Record /\ Tail(s2c) \in Seq(Record)
  BY DEF TypeOK
<1>2. Head(s2c).body \in Message
  BY <1>1 DEF Record
<1>3. Append(transcript, Head(s2c).body) \in Transcript
  BY <1>2 DEF TypeOK, Transcript
<1> QED
  BY <1>1, <1>2, <1>3 DEF Message

LEMMA TrafficKeyType == TypeOK => trafficKey.secret \in Secret
BY DEF TypeOK, Key

LEMMA ContinuesType == TypeOK /\ Continues => TypeOK'
<1> SUFFICES ASSUME TypeOK, Continues PROVE TypeOK'
  OBVIOUS
<1> USE DEF vars, client, network, server, history
<1>1. CASE KeyGenFails
  BY <1>1, Constants DEF TypeOK, KeyGenFails, Return
<1>2. CASE SendClientHello
  <2>1. newHello \in Message
    <3>1. attempt + 1 \in Nat /\ session.issue \in Nat
      BY DEF TypeOK, SessionType
    <3>2. Msg("ClientHello", attempt + 1, "ok") \in Message
      BY <3>1, MsgType DEF Kind, Form
    <3> QED
      BY <3>1, <3>2 DEF newHello, Message
  <2>2. <<newHello>> \in Transcript /\ Plain(newHello) \in Record
    BY <2>1, Constants, RecordTypes DEF Transcript
  <2>3. c2s' \in Seq(Record)
    BY <1>2, <2>2, DeliverType DEF TypeOK, SendClientHello
  <2> QED
    BY <1>2, <2>2, <2>3
    DEF TypeOK, SendClientHello, Deliver, Return, Reading
<1>3. CASE ReadServerHello
  <2> DEFINE rec == Head(s2c)
  <2>1. rec.body.id \in Nat /\ s2c' \in Seq(Record) /\ transcript' \in Transcript
    BY <1>3, ReceiveType DEF ReadServerHello, Receive, Consume
  <2>2. computeEphemeralSecret(attempt, rec.body.id) \in Secret
    BY <2>1 DEF TypeOK, computeEphemeralSecret, Secret
  <2>3. trafficKey' \in Key
    BY <1>3, <2>1, <2>2, NamedKeys DEF TypeOK, ReadServerHello
  <2>4. pc' \in {"readSignature", "panicked", "idle"}
    BY <1>3 DEF ReadServerHello, Return, Parses
  <2>5. res' \in {"none", "ok", "err"}
    BY <1>3 DEF ReadServerHello, Return, TypeOK
  <2> QED
    BY <1>3, <2>1, <2>3, <2>4, <2>5
    DEF TypeOK, ReadServerHello, Consume, NextServerSeq, Reading
<1>4. CASE ReadSignature
  <2>1. s2c' \in Seq(Record)
    BY <1>4, ReceiveType DEF ReadSignature, Receive, Consume
  <2>2. Append(transcript, Head(s2c).body) \in Transcript
    BY <1>4, ReceiveType DEF ReadSignature, Receive
  <2>3. \/ Accept(Head(s2c), "readNewSessionTicket")
        \/ Return("err") /\ UNCHANGED <<transcript, serverSeqNum>>
    BY <1>4, Zenon DEF ReadSignature
  <2>4. transcript' \in Transcript /\ serverSeqNum' \in Nat
        /\ pc' \in {"readNewSessionTicket", "idle"}
        /\ res' \in {"none", "ok", "err"}
    <3>1. CASE Accept(Head(s2c), "readNewSessionTicket")
      BY <2>2, <3>1 DEF Accept, NextServerSeq, TypeOK
    <3>2. CASE Return("err") /\ UNCHANGED <<transcript, serverSeqNum>>
      BY <3>2 DEF Return, TypeOK
    <3> QED
      BY <2>3, <3>1, <3>2
  <2> QED
    BY <1>4, <2>1, <2>4 DEF TypeOK, ReadSignature, Consume, Reading
<1>5. CASE ReadNewSessionTicket
  <2>1. s2c' \in Seq(Record)
    BY <1>5, ReceiveType DEF ReadNewSessionTicket, Receive, Consume
  <2>2. /\ Append(transcript, Head(s2c).body) \in Transcript
        /\ Head(s2c).body.id \in Nat
        /\ Head(s2c).body.count \in Nat
    BY <1>5, ReceiveType DEF ReadNewSessionTicket, Receive
  <2>3. Psk(trafficKey.secret, transcript) \in Key
    BY TrafficKeyType, NamedKeys DEF TypeOK
  <2>4. newSession(Head(s2c)) \in SessionType
    BY <2>2, <2>3, Constants DEF newSession, SessionType
  <2>5. \/ /\ Accept(Head(s2c), "readServerFinish")
           /\ session' = newSession(Head(s2c))
        \/ Return("err") /\ UNCHANGED <<transcript, serverSeqNum, session>>
    BY <1>5, Zenon DEF ReadNewSessionTicket
  <2>6. transcript' \in Transcript /\ serverSeqNum' \in Nat
        /\ session' \in SessionType
        /\ pc' \in {"readServerFinish", "idle"}
        /\ res' \in {"none", "ok", "err"}
    <3>1. CASE /\ Accept(Head(s2c), "readServerFinish")
               /\ session' = newSession(Head(s2c))
      BY <2>2, <2>4, <3>1 DEF Accept, NextServerSeq, TypeOK
    <3>2. CASE Return("err") /\ UNCHANGED <<transcript, serverSeqNum, session>>
      BY <3>2 DEF Return, TypeOK
    <3> QED
      BY <2>5, <3>1, <3>2
  <2> QED
    BY <1>5, <2>1, <2>6 DEF TypeOK, ReadNewSessionTicket, Consume, Reading
<1>6. CASE ReadServerFinish
  <2>1. s2c' \in Seq(Record)
    BY <1>6, ReceiveType DEF ReadServerFinish, Receive, Consume
  <2>2. serverSeqNum' \in Nat /\ pc' \in {"sendClientFinish", "idle"}
        /\ res' \in {"none", "ok", "err"}
    BY <1>6 DEF ReadServerFinish, Return, NextServerSeq, TypeOK
  <2> QED
    BY <1>6, <2>1, <2>2 DEF TypeOK, ReadServerFinish, Consume
<1>7. CASE SendClientFinish
  <2>1. Msg("ClientFinish", attempt, "ok") \in Message
    BY DEF TypeOK, Msg, Message, Kind, Form
  <2>2. /\ ClientFinished(trafficKey.secret, transcript) \in Key
        /\ applicationKey \in Key
    BY TrafficKeyType, NamedKeys DEF TypeOK, applicationKey
  <2>3. clientFinish \in Record
    BY <2>1, <2>2, RecordTypes DEF clientFinish, TypeOK
  <2>4. c2s' \in Seq(Record)
    BY <1>7, <2>3, DeliverType DEF TypeOK, SendClientFinish
  <2>5. sealed' \in Seq(Key \X Nat) /\ clientSeqNum' \in Nat
    BY <1>7, EncryptType DEF TypeOK, SendClientFinish
  <2>6. session' \in SessionType
    BY <1>7, <2>2 DEF TypeOK, SendClientFinish, SessionType
  <2> QED
    BY <1>7, <2>4, <2>5, <2>6 DEF TypeOK, SendClientFinish, Deliver, Return
<1>8. CASE ReadNoop
  <2>1. s2c' \in Seq(Record)
    BY <1>8, ReceiveType DEF ReadNoop, Receive, Consume
  <2>2. serverSeqNum' \in Nat /\ pc' = "idle" /\ res' \in {"none", "ok", "err"}
    BY <1>8 DEF ReadNoop, Return, NoopSeq, NextServerSeq, TypeOK
  <2>3. noopFailed' \in BOOLEAN
    BY <1>8 DEF ReadNoop, TypeOK
  <2> QED
    BY <1>8, <2>1, <2>2, <2>3 DEF TypeOK, ReadNoop, Consume
<1>9. CASE ReadFails
  BY <1>9 DEF TypeOK, ReadFails, Return
<1> QED
  BY <1>1, <1>2, <1>3, <1>4, <1>5, <1>6, <1>7, <1>8, <1>9 DEF Continues

LEMMA CloseType == TypeOK /\ Close => TypeOK'
BY DEF TypeOK, Close, client, network, server, history

(* The keys of a server in the middle of a handshake, or past it, are      *)
(* those of a flight: type correctness needs this to be inductive.         *)
FlightSent == srvState # "hello" => flights # << >>

LEMMA LastFlightType ==
  ASSUME TypeOK, flights # << >>
  PROVE  ServerAppKey \in Key
<1>1. LastFlight.secret \in Secret /\ LastFlight.tr \in Transcript
  <2>1. flights[Len(flights)] \in Flight
    BY DEF TypeOK
  <2> QED
    BY <2>1 DEF LastFlight, Flight
<1> QED
  BY <1>1, NamedKeys DEF ServerAppKey

LEMMA ServerReactsType == TypeOK /\ FlightSent /\ ServerReacts => TypeOK'
<1> SUFFICES ASSUME TypeOK, FlightSent, ServerReacts PROVE TypeOK'
  OBVIOUS
<1> USE DEF vars, client, network, server, history
<1>1. ASSUME NEW f \in Faults, NEW n \in TicketCounts, ServerAnswers(f, n)
      PROVE  TypeOK'
  <2> DEFINE flight == FlightTo(Head(c2s).body, Len(flights) + 1, f, n)
  <2>1. Head(c2s).body \in Message /\ Tail(c2s) \in Seq(Record)
    <3>1. c2s # << >> /\ c2s \in Seq(Record)
      BY <1>1 DEF ServerAnswers, TypeOK
    <3>2. Head(c2s) \in Record /\ Tail(c2s) \in Seq(Record)
      BY <3>1
    <3> QED
      BY <3>2 DEF Record
  <2>2. Len(flights) + 1 \in Nat /\ n \in Nat
    BY DEF TypeOK
  <2>3. flight \in Flight /\ Len(flight.tr) = 4
    BY <2>1, <2>2, FlightTypes
  <2>4. FlightRecords(flight, f) \in Seq(Record)
    BY <2>3, FlightRecordTypes
  <2>5. /\ s2c' = s2c \o FlightRecords(flight, f)
        /\ flights' = Append(flights, flight)
    BY <1>1 DEF ServerAnswers
  <2>6. s2c' \in Seq(Record) /\ flights' \in Seq(Flight)
    <3> HIDE DEF flight
    <3> QED
      BY <2>3, <2>4, <2>5 DEF TypeOK
  <2>7. clean' \in BOOLEAN
    BY <1>1, Zenon DEF ServerAnswers
  <2> QED
    BY <1>1, <2>1, <2>6, <2>7 DEF TypeOK, ServerAnswers
<1>2. CASE ServerAcceptsFinish
  BY <1>2 DEF TypeOK, ServerAcceptsFinish
<1>3. ASSUME NEW f \in Faults, ServerAnswersNoop(f) PROVE TypeOK'
  <2> DEFINE b == Msg("NoopResponse", answered + 1, Faulty(f, "noop"))
  <2>1. b \in Message
    BY DEF TypeOK, Msg, Message, Kind, Form, Faulty
  <2>2. ServerAppKey \in Key
    BY <1>3, LastFlightType DEF ServerAnswersNoop, GoodNoop, FlightSent
  <2>3. Seal(ServerAppKey, srvSend, b, NoKey) \in Record
    BY <2>1, <2>2, RecordTypes, Constants DEF TypeOK
  <2>4. s2c' \in Seq(Record) /\ c2s' \in Seq(Record)
    BY <1>3, <2>3 DEF TypeOK, ServerAnswersNoop
  <2>5. clean' \in BOOLEAN
    BY <1>3, Zenon DEF ServerAnswersNoop
  <2> QED
    BY <1>3, <2>4, <2>5 DEF TypeOK, ServerAnswersNoop
<1>4. CASE ServerRejects
  <2>1. up' \in BOOLEAN
    BY <1>4, Zenon DEF ServerRejects
  <2> QED
    BY <1>4, <2>1 DEF TypeOK, ServerRejects
<1> QED
  BY <1>1, <1>2, <1>3, <1>4 DEF ServerReacts

LEMMA EnvironmentType == TypeOK /\ FlightSent /\ Environment => TypeOK'
<1> SUFFICES ASSUME TypeOK, FlightSent, Environment PROVE TypeOK'
  OBVIOUS
<1> USE DEF vars, client, network, server, history
<1>1. CASE ServerPushes
  <2> DEFINE b == Msg("Push", pushes + 1, "ok")
  <2>1. b \in Message
    BY DEF TypeOK, Msg, Message, Kind, Form
  <2>2. ServerAppKey \in Key
    BY <1>1, LastFlightType DEF ServerPushes, FlightSent
  <2>3. Seal(ServerAppKey, srvSend, b, NoKey) \in Record
    BY <2>1, <2>2, RecordTypes, Constants DEF TypeOK
  <2>4. s2c' \in Seq(Record)
    BY <1>1, <2>3 DEF TypeOK, ServerPushes
  <2>5. clean' \in BOOLEAN
    BY <1>1, Zenon DEF ServerPushes
  <2> QED
    BY <1>1, <2>4, <2>5 DEF TypeOK, ServerPushes
<1>2. CASE LinkBreaks
  <2>1. s2c' \in Seq(Record)
    BY <1>2 DEF TypeOK, LinkBreaks
  <2>2. up' \in BOOLEAN
    BY <1>2, Zenon DEF LinkBreaks
  <2> QED
    BY <1>2, <2>1, <2>2 DEF TypeOK, LinkBreaks
<1> QED
  BY <1>1, <1>2 DEF Environment

LEMMA FlightSentStep ==
  TypeOK /\ FlightSent /\ [Next]_vars => FlightSent'
<1> SUFFICES ASSUME TypeOK, FlightSent, [Next]_vars PROVE FlightSent'
  OBVIOUS
<1> USE DEF vars, client, network, server, history
<1>1. ASSUME NEW f \in Faults, NEW n \in TicketCounts, ServerAnswers(f, n)
      PROVE  FlightSent'
  <2>1. PICK x : flights' = Append(flights, x)
    BY <1>1, Zenon DEF ServerAnswers
  <2>2. flights \in Seq(Flight)
    BY DEF TypeOK
  <2> QED
    BY <2>1, <2>2 DEF FlightSent
<1>2. ASSUME UNCHANGED <<srvState, flights>> PROVE FlightSent'
  BY <1>2 DEF FlightSent
<1>3. CASE ServerAcceptsFinish
  BY <1>3 DEF ServerAcceptsFinish, GoodFinish, FlightSent
<1>4. CASE UNCHANGED vars
  BY <1>2, <1>4
<1>5. CASE Calls
  BY <1>2, <1>5 DEF Calls, Dial, DialFails, HandshakeAgain, Retry, SendNoop
<1>6. CASE Continues
  BY <1>2, <1>6 DEF Continues, KeyGenFails, SendClientHello, ReadServerHello,
     ReadSignature, ReadNewSessionTicket, ReadServerFinish, SendClientFinish,
     ReadNoop, ReadFails
<1>7. CASE Close
  BY <1>2, <1>7 DEF Close
<1>8. ASSUME NEW f \in Faults, ServerAnswersNoop(f) PROVE FlightSent'
  BY <1>2, <1>8 DEF ServerAnswersNoop
<1>9. CASE ServerRejects
  BY <1>2, <1>9 DEF ServerRejects
<1>10. CASE Environment
  BY <1>2, <1>10 DEF Environment, ServerPushes, LinkBreaks
<1> QED
  BY <1>1, <1>3, <1>4, <1>5, <1>6, <1>7, <1>8, <1>9, <1>10
  DEF Next, ServerReacts

(* In every reachable state of the long link each variable has its type.   *)
THEOREM TypeCorrect == Spec => []TypeOK
<1>1. Init => TypeOK /\ FlightSent
  BY InitType DEF Init, FlightSent
<1>2. TypeOK /\ FlightSent /\ [Next]_vars => (TypeOK /\ FlightSent)'
  <2> SUFFICES ASSUME TypeOK, FlightSent, [Next]_vars PROVE TypeOK'
    BY FlightSentStep
  <2>1. CASE UNCHANGED vars
    BY <2>1 DEF TypeOK, vars, client, network, server, history
  <2> QED
    BY <2>1, CallsType, ContinuesType, CloseType, ServerReactsType,
       EnvironmentType DEF Next
<1> QED
  BY <1>1, <1>2, PTL DEF Spec

-----------------------------------------------------------------------------
(* No two encrypts share a key and a sequence number.                      *)

Handshaking == {"sendClientHello", "readServerHello", "readSignature",
                "readNewSessionTicket", "readServerFinish",
                "sendClientFinish"}

HasTrafficKey == {"readSignature", "readNewSessionTicket",
                  "readServerFinish", "sendClientFinish"}

(* A handshake runs only while none has completed, a Noop only after.      *)
StatusAndPc ==
  /\ pc \in Handshaking => status = 0
  /\ pc = "readNoop" => status = 1
  /\ conn = "none" => pc = "idle" /\ status = 0

(* The traffic key in use is of the key pair of this attempt.              *)
TrafficKeyFresh ==
  pc \in HasTrafficKey =>
    trafficKey.label = "handshake" /\ trafficKey.secret[1] = attempt

(* Once complete, the application key is of the last key pair.             *)
AppKeyFresh ==
  status = 1 =>
    session.appKey.label = "application" /\ session.appKey.secret[1] = attempt

(* Each seal is under a key of an attempt made; of this attempt there is   *)
(* none before the ClientFinish; under the application key all are of      *)
(* sequence numbers the counter has passed.                                *)
SealedKeys ==
  \A i \in DOMAIN sealed :
    /\ sealed[i][1].secret[1] <= attempt
    /\ pc \in Handshaking \ {"sendClientHello"} =>
         sealed[i][1].secret[1] # attempt
    /\ status = 1 /\ sealed[i][1] = session.appKey =>
         sealed[i][2] < clientSeqNum

NonceInv ==
  /\ StatusAndPc
  /\ TrafficKeyFresh
  /\ AppKeyFresh
  /\ SealedKeys
  /\ NoNonceReuse

LEMMA SealedTypes ==
  ASSUME TypeOK
  PROVE  \A i \in DOMAIN sealed :
            sealed[i][1].secret[1] \in Nat /\ sealed[i][2] \in Nat
<1> SUFFICES ASSUME NEW i \in DOMAIN sealed
             PROVE  sealed[i][1].secret[1] \in Nat /\ sealed[i][2] \in Nat
  OBVIOUS
<1>1. sealed[i] \in Key \X Nat
  BY DEF TypeOK
<1>2. sealed[i][1] \in Key /\ sealed[i][2] \in Nat
  BY <1>1
<1> QED
  BY <1>2 DEF Key, Secret

(* A step that seals nothing, leaves the keys alone and takes no part in   *)
(* the handshake, or ends it.                                              *)
LEMMA QuietStep ==
  ASSUME NonceInv, pc' = pc \/ pc' = "idle", UNCHANGED conn \/ conn' # "none",
         UNCHANGED <<status, sealed, attempt, session, trafficKey>>,
         UNCHANGED clientSeqNum \/ status = 0
  PROVE  NonceInv'
BY DEF NonceInv, StatusAndPc, TrafficKeyFresh, AppKeyFresh, SealedKeys,
   NoNonceReuse, Handshaking, HasTrafficKey

(* A step of the handshake that goes on with the traffic key it has.       *)
LEMMA HandshakeStep ==
  ASSUME NonceInv, pc \in HasTrafficKey, pc' \in HasTrafficKey \cup {"idle"},
         UNCHANGED <<conn, status, sealed, attempt, trafficKey, clientSeqNum>>
  PROVE  NonceInv'
BY DEF NonceInv, StatusAndPc, TrafficKeyFresh, AppKeyFresh, SealedKeys,
   NoNonceReuse, Handshaking, HasTrafficKey

(* A step that starts to handshake, before the new key pair.               *)
LEMMA StartStep ==
  ASSUME NonceInv, pc' = "sendClientHello", status = 0, conn' # "none",
         UNCHANGED <<status, sealed, attempt, session, trafficKey,
                     clientSeqNum>>
  PROVE  NonceInv'
BY DEF NonceInv, StatusAndPc, TrafficKeyFresh, AppKeyFresh, SealedKeys,
   NoNonceReuse, Handshaking, HasTrafficKey

(* Sealing a pair that is not there yet keeps the pairs distinct.          *)
LEMMA SealOnce ==
  ASSUME TypeOK, NoNonceReuse, NEW k, sealed' = Append(sealed, <<k, clientSeqNum>>),
         \A i \in DOMAIN sealed : sealed[i] # <<k, clientSeqNum>>
  PROVE  NoNonceReuse'
<1>1. /\ Len(sealed) \in Nat
      /\ DOMAIN sealed = 1..Len(sealed)
      /\ DOMAIN sealed' = 1..(Len(sealed) + 1)
      /\ \A i \in DOMAIN sealed : sealed'[i] = sealed[i]
      /\ sealed'[Len(sealed) + 1] = <<k, clientSeqNum>>
  BY DEF TypeOK
<1> SUFFICES ASSUME NEW i \in DOMAIN sealed', NEW j \in DOMAIN sealed',
                    sealed'[i] = sealed'[j]
             PROVE  i = j
  BY DEF NoNonceReuse
<1>2. CASE i \in DOMAIN sealed /\ j \in DOMAIN sealed
  BY <1>1, <1>2 DEF NoNonceReuse
<1>3. CASE i = Len(sealed) + 1 /\ j \in DOMAIN sealed
  BY <1>1, <1>3
<1>4. CASE j = Len(sealed) + 1 /\ i \in DOMAIN sealed
  BY <1>1, <1>4
<1> QED
  BY <1>1, <1>2, <1>3, <1>4

LEMMA NonceCalls == TypeOK /\ NonceInv /\ Calls => NonceInv'
<1> SUFFICES ASSUME TypeOK, NonceInv, Calls PROVE NonceInv'
  OBVIOUS
<1> USE DEF client, history
<1>1. CASE Dial
  <2>1. status = 0
    BY <1>1 DEF Dial, NonceInv, StatusAndPc
  <2> QED
    BY <1>1, <2>1, StartStep DEF Dial
<1>2. CASE DialFails
  BY <1>2, QuietStep DEF DialFails, Return
<1>3. CASE HandshakeAgain
  BY <1>3, QuietStep DEF HandshakeAgain, Return
<1>4. CASE Retry
  BY <1>4, StartStep DEF Retry
<1>5. CASE SendNoop
  <2>1. /\ status = 1 /\ status' = 1
        /\ UNCHANGED <<conn, session, attempt>>
        /\ sealed' = Append(sealed, <<session.appKey, clientSeqNum>>)
        /\ clientSeqNum' = clientSeqNum + 1
        /\ pc' \in {"idle", "readNoop"}
    BY <1>5 DEF SendNoop, Encrypt, NextClientSeq, Return
  <2>2. \A i \in DOMAIN sealed : sealed[i] # <<session.appKey, clientSeqNum>>
    BY <2>1, SealedTypes DEF NonceInv, SealedKeys, TypeOK
  <2>3. NoNonceReuse'
    BY <2>1, <2>2, SealOnce DEF NonceInv
  <2>4. SealedKeys'
    <3> SUFFICES ASSUME NEW i \in DOMAIN sealed'
                 PROVE  /\ sealed'[i][1].secret[1] <= attempt
                        /\ sealed'[i][1] = session.appKey =>
                             sealed'[i][2] < clientSeqNum + 1
      BY <2>1 DEF SealedKeys, Handshaking
    <3>1. CASE i \in DOMAIN sealed
      <4>1. sealed'[i] = sealed[i]
        BY <2>1, <3>1 DEF TypeOK
      <4>2. /\ sealed[i][1].secret[1] <= attempt
            /\ sealed[i][1] = session.appKey => sealed[i][2] < clientSeqNum
        BY <2>1, <3>1 DEF NonceInv, SealedKeys
      <4>3. sealed[i][2] \in Nat /\ clientSeqNum \in Nat
        BY <3>1, SealedTypes DEF TypeOK
      <4> QED
        BY <4>1, <4>2, <4>3
    <3>2. CASE i = Len(sealed) + 1
      <4>1. sealed'[i] = <<session.appKey, clientSeqNum>>
        BY <2>1, <3>2 DEF TypeOK
      <4>2. session.appKey.secret[1] = attempt
        BY <2>1 DEF NonceInv, AppKeyFresh
      <4>3. attempt \in Nat /\ clientSeqNum \in Nat
        BY DEF TypeOK
      <4> QED
        BY <4>1, <4>2, <4>3
    <3> QED
      BY <2>1, <3>1, <3>2 DEF TypeOK
  <2> QED
    BY <2>1, <2>3, <2>4 DEF NonceInv, StatusAndPc, TrafficKeyFresh, AppKeyFresh,
       Handshaking, HasTrafficKey
<1> QED
  BY <1>1, <1>2, <1>3, <1>4, <1>5 DEF Calls

LEMMA NonceContinues == TypeOK /\ NonceInv /\ Continues => NonceInv'
<1> SUFFICES ASSUME TypeOK, NonceInv, Continues PROVE NonceInv'
  OBVIOUS
<1> USE DEF client, history
<1>1. CASE KeyGenFails
  <2>1. status = 0
    BY <1>1 DEF KeyGenFails, NonceInv, StatusAndPc, Handshaking
  <2> QED
    BY <1>1, <2>1, QuietStep DEF KeyGenFails, Return
<1>2. CASE SendClientHello
  <2>1. /\ status = 0 /\ status' = 0
        /\ UNCHANGED <<conn, sealed>>
        /\ attempt' = attempt + 1
        /\ pc' \in {"idle", "readServerHello"}
    BY <1>2 DEF SendClientHello, Return, NonceInv, StatusAndPc, Handshaking
  <2>2. \A i \in DOMAIN sealed : sealed[i][1].secret[1] < attempt'
    BY <2>1, SealedTypes DEF NonceInv, SealedKeys, TypeOK
  <2>3. SealedKeys'
    <3>1. \A i \in DOMAIN sealed : /\ sealed[i][1].secret[1] <= attempt'
                                   /\ sealed[i][1].secret[1] # attempt'
      BY <2>1, <2>2, SealedTypes DEF TypeOK
    <3> QED
      BY <2>1, <3>1 DEF SealedKeys
  <2>4. conn # "none"
    BY <1>2 DEF SendClientHello, NonceInv, StatusAndPc
  <2> QED
    BY <2>1, <2>3, <2>4 DEF NonceInv, StatusAndPc, TrafficKeyFresh,
       AppKeyFresh, NoNonceReuse, HasTrafficKey
<1>3. CASE ReadServerHello
  <2>1. /\ UNCHANGED <<conn, status, sealed, attempt, session, clientSeqNum>>
        /\ pc = "readServerHello"
        /\ pc' \in {"readSignature", "panicked", "idle"}
    BY <1>3 DEF ReadServerHello, Receive, Return
  <2>2. pc' = "readSignature" =>
          trafficKey'.label = "handshake" /\ trafficKey'.secret[1] = attempt
    BY <1>3 DEF ReadServerHello, Return, HandshakeKey, hkdfExpand,
       computeEphemeralSecret
  <2> QED
    BY <2>1, <2>2 DEF NonceInv, StatusAndPc, TrafficKeyFresh, AppKeyFresh,
       SealedKeys, NoNonceReuse, Handshaking, HasTrafficKey
<1>4. CASE ReadSignature
  <2>1. /\ pc = "readSignature" /\ pc' \in {"readNewSessionTicket", "idle"}
        /\ UNCHANGED <<conn, status, sealed, attempt, trafficKey, clientSeqNum>>
    BY <1>4, Zenon DEF ReadSignature, Receive, Accept, Return
  <2> QED
    BY <2>1, HandshakeStep DEF HasTrafficKey
<1>5. CASE ReadNewSessionTicket
  <2>1. /\ pc = "readNewSessionTicket" /\ pc' \in {"readServerFinish", "idle"}
        /\ UNCHANGED <<conn, status, sealed, attempt, trafficKey, clientSeqNum>>
    BY <1>5, Zenon DEF ReadNewSessionTicket, Receive, Accept, Return
  <2> QED
    BY <2>1, HandshakeStep DEF HasTrafficKey
<1>6. CASE ReadServerFinish
  <2>1. /\ pc = "readServerFinish" /\ pc' \in {"sendClientFinish", "idle"}
        /\ UNCHANGED <<conn, status, sealed, attempt, trafficKey, clientSeqNum>>
    BY <1>6, Zenon DEF ReadServerFinish, Receive, Return
  <2> QED
    BY <2>1, HandshakeStep DEF HasTrafficKey
<1>7. CASE SendClientFinish
  <2>1. /\ pc = "sendClientFinish" /\ pc' = "idle"
        /\ conn # "none"
        /\ UNCHANGED <<conn, attempt, trafficKey>>
        /\ status = 0
        /\ sealed' = Append(sealed, <<trafficKey, clientSeqNum>>)
        /\ trafficKey.label = "handshake" /\ trafficKey.secret[1] = attempt
    BY <1>7 DEF SendClientFinish, Encrypt, Return, NonceInv, StatusAndPc,
       TrafficKeyFresh, Handshaking, HasTrafficKey
  <2>2. status' = 1 => /\ session'.appKey.label = "application"
                       /\ session'.appKey.secret[1] = attempt
    <3>1. status' = 1 => session' = [session EXCEPT !.appKey = applicationKey]
      BY <1>7, <2>1 DEF SendClientFinish
    <3>2. session \in SessionType
      BY DEF TypeOK
    <3>3. /\ applicationKey.label = "application"
          /\ applicationKey.secret = trafficKey.secret
      BY DEF applicationKey, AppKey, hkdfExpand
    <3>4. session' = [session EXCEPT !.appKey = applicationKey]
            => session'.appKey = applicationKey
      BY <3>2 DEF SessionType
    <3> QED
      BY <2>1, <3>1, <3>3, <3>4
  <2>3. \A i \in DOMAIN sealed : /\ sealed[i][1].secret[1] <= attempt
                                 /\ sealed[i][1].secret[1] # attempt
    BY <2>1 DEF NonceInv, SealedKeys, Handshaking
  <2>4. \A i \in DOMAIN sealed : sealed[i] # <<trafficKey, clientSeqNum>>
    BY <2>1, <2>3
  <2>5. NoNonceReuse'
    BY <2>1, <2>4, SealOnce DEF NonceInv
  <2>6. SealedKeys'
    <3> SUFFICES ASSUME NEW i \in DOMAIN sealed'
                 PROVE  /\ sealed'[i][1].secret[1] <= attempt
                        /\ status' = 1 => sealed'[i][1] # session'.appKey
      BY <2>1 DEF SealedKeys, Handshaking
    <3>1. CASE i \in DOMAIN sealed
      <4>1. sealed'[i] = sealed[i]
        BY <2>1, <3>1 DEF TypeOK
      <4> QED
        BY <2>2, <2>3, <3>1, <4>1
    <3>2. CASE i = Len(sealed) + 1
      <4>1. sealed'[i] = <<trafficKey, clientSeqNum>>
        BY <2>1, <3>2 DEF TypeOK
      <4>2. attempt <= attempt
        BY DEF TypeOK
      <4> QED
        BY <2>1, <2>2, <4>1, <4>2
    <3> QED
      BY <2>1, <3>1, <3>2 DEF TypeOK
  <2> QED
    BY <2>1, <2>2, <2>5, <2>6 DEF NonceInv, StatusAndPc, TrafficKeyFresh,
       AppKeyFresh, Handshaking, HasTrafficKey
<1>8. CASE ReadNoop
  <2>1. pc' = "idle"
        /\ UNCHANGED <<conn, status, sealed, attempt, session, trafficKey,
                       clientSeqNum>>
    BY <1>8 DEF ReadNoop, Return
  <2> QED
    BY <2>1, QuietStep
<1>9. CASE ReadFails
  BY <1>9, QuietStep DEF ReadFails, Return
<1> QED
  BY <1>1, <1>2, <1>3, <1>4, <1>5, <1>6, <1>7, <1>8, <1>9 DEF Continues

(* The steps of the server, the network and Close leave the client's keys  *)
(* and counters alone.                                                     *)
LEMMA OtherSteps ==
  ASSUME Close \/ ServerReacts \/ Environment \/ UNCHANGED vars
  PROVE  /\ UNCHANGED <<client, pc, history, res>>
         /\ UNCHANGED conn \/ conn' # "none"
<1> USE DEF vars
<1>1. CASE Close
  BY <1>1 DEF Close
<1>2. CASE ServerReacts
  BY <1>2, Zenon DEF ServerReacts, ServerAnswers, ServerAcceptsFinish,
     ServerAnswersNoop, ServerRejects
<1>3. CASE Environment
  BY <1>3, Zenon DEF Environment, ServerPushes, LinkBreaks
<1>4. CASE UNCHANGED vars
  BY <1>4
<1> QED
  BY <1>1, <1>2, <1>3, <1>4

LEMMA NonceInit == Init => NonceInv
BY DEF Init, NonceInv, StatusAndPc, TrafficKeyFresh, AppKeyFresh, SealedKeys,
   NoNonceReuse, Handshaking, HasTrafficKey

LEMMA NonceStep == TypeOK /\ NonceInv /\ [Next]_vars => NonceInv'
<1> SUFFICES ASSUME TypeOK, NonceInv, [Next]_vars PROVE NonceInv'
  OBVIOUS
<1>1. CASE Close \/ ServerReacts \/ Environment \/ UNCHANGED vars
  BY <1>1, OtherSteps, QuietStep DEF client, history
<1> QED
  BY <1>1, NonceCalls, NonceContinues DEF Next

(* No nonce is used twice with the same key, however many attempts fail    *)
(* and in whatever way.                                                    *)
THEOREM NoncesDistinct == Spec => []NoNonceReuse
<1>1. NonceInv => NoNonceReuse
  BY DEF NonceInv
<1> QED
  BY <1>1, NonceInit, NonceStep, TypeCorrect, PTL DEF Spec

-----------------------------------------------------------------------------
(* Agreement: a completed handshake leaves both ends with the same key, and*)
(* the session in memory is one the server issued.  The argument: every    *)
(* handshake record in flight belongs to one of the flights the server has *)
(* sent (Answers); a record that opens under the client's traffic key fixes*)
(* which (Progress); the flights answer hellos in the order they were sent *)
(* (FlightsInOrder, HellosInOrder), so the one that completes a handshake  *)
(* answers the hello sent last.                                            *)

(* The id of the hello a flight answers: the number of the key pair.       *)
Hello(flight) == flight.tr[1].id

(* Flights answer hellos that were sent, in the order they were sent.      *)
FlightsInOrder ==
  /\ \A j \in DOMAIN flights :
       /\ Len(flights[j].tr) = 4
       /\ flights[j].secret = <<Hello(flights[j]), j>>
       /\ flights[j].tr[4].id = j
       /\ Hello(flights[j]) <= attempt
  /\ \A j, k \in DOMAIN flights :
       j < k => Hello(flights[j]) < Hello(flights[k])

(* Until a handshake completes only hellos are on their way to the server, *)
(* in the order of their key pairs, all newer than those answered; after,  *)
(* none.                                                                   *)
HellosInOrder ==
  /\ \A i \in DOMAIN c2s :
       /\ c2s[i].key = NoKey <=> status = 0
       /\ status = 0 =>
            /\ c2s[i].body.id <= attempt
            /\ \A j \in DOMAIN flights : Hello(flights[j]) < c2s[i].body.id
  /\ status = 0 =>
       \A i, k \in DOMAIN c2s : i < k => c2s[i].body.id < c2s[k].body.id

OfFlight(rec, flight) ==
  /\ rec.key = FlightKey(flight)
  /\ rec.seq = 1 => rec.body = flight.tr[3]
  /\ rec.seq = 2 => rec.body = flight.tr[4]

(* A handshake record on its way to the client is of one of the flights.   *)
Answers ==
  \A i \in DOMAIN s2c :
    s2c[i].key.label = "handshake" =>
      \E j \in DOMAIN flights : OfFlight(s2c[i], flights[j])

(* Where the caller of Handshake stands: the transcript, the traffic key   *)
(* and, once there is one, the session are of one and the same flight.     *)
Progress ==
  /\ pc = "readServerHello" => Len(transcript) = 1 /\ serverSeqNum = 0
  /\ pc = "readSignature" => serverSeqNum = 1 /\ trafficKey.hash = transcript
  /\ pc = "readNewSessionTicket" =>
       /\ serverSeqNum = 2
       /\ \E j \in DOMAIN flights :
            trafficKey = FlightKey(flights[j]) /\ transcript = Signed(flights[j])
  /\ pc \in {"readServerFinish", "sendClientFinish"} =>
       /\ serverSeqNum \in {3, 4}
       /\ pc = "readServerFinish" => serverSeqNum = 3
       /\ \E j \in DOMAIN flights :
            /\ trafficKey = FlightKey(flights[j])
            /\ transcript = flights[j].tr
            /\ session.issue = j

(* The server waits for data only once the client is done.                 *)
DataMeansDone == srvState = "data" => status = 1

AgreeInv ==
  FlightsInOrder /\ HellosInOrder /\ Answers /\ Progress /\ DataMeansDone

-----------------------------------------------------------------------------
(* Which steps change what.                                                *)

LEMMA WhoChanges ==
  ASSUME [Next]_vars
  PROVE  /\ \/ UNCHANGED flights
            \/ \E f \in Faults, n \in TicketCounts : ServerAnswers(f, n)
         /\ UNCHANGED attempt \/ SendClientHello
         /\ UNCHANGED status \/ SendClientFinish
         /\ \/ UNCHANGED c2s
            \/ c2s' = << >>
            \/ c2s # << >> /\ c2s' = Tail(c2s)
            \/ SendClientHello
            \/ SendClientFinish
            \/ SendNoop
         /\ \/ UNCHANGED s2c
            \/ s2c # << >> /\ s2c' = Tail(s2c)
            \/ \E f \in Faults, n \in TicketCounts : ServerAnswers(f, n)
            \/ \E f \in Faults : ServerAnswersNoop(f)
            \/ ServerPushes
            \/ LinkBreaks
         /\ \/ UNCHANGED srvState
            \/ \E f \in Faults, n \in TicketCounts : ServerAnswers(f, n)
            \/ ServerAcceptsFinish
<1> USE DEF vars, client, network, server, history
<1>1. CASE UNCHANGED vars
  BY <1>1
<1>2. CASE Calls
  <2>1. CASE Dial \/ DialFails \/ HandshakeAgain \/ Retry
    BY <2>1 DEF Dial, DialFails, HandshakeAgain, Retry
  <2>2. CASE SendNoop
    BY <2>2 DEF SendNoop, Deliver
  <2> QED
    BY <1>2, <2>1, <2>2 DEF Calls
<1>3. CASE Continues
  <2>1. CASE KeyGenFails \/ ReadFails
    BY <2>1 DEF KeyGenFails, ReadFails
  <2>2. CASE SendClientHello
    BY <2>2 DEF SendClientHello, Deliver
  <2>3. CASE ReadServerHello
    BY <2>3, Zenon DEF ReadServerHello, Receive, Consume
  <2>4. CASE ReadSignature
    BY <2>4, Zenon DEF ReadSignature, Receive, Consume
  <2>5. CASE ReadNewSessionTicket
    BY <2>5, Zenon DEF ReadNewSessionTicket, Receive, Consume
  <2>6. CASE ReadServerFinish
    BY <2>6, Zenon DEF ReadServerFinish, Receive, Consume
  <2>7. CASE SendClientFinish
    BY <2>7 DEF SendClientFinish, Deliver
  <2>8. CASE ReadNoop
    BY <2>8, Zenon DEF ReadNoop, Receive, Consume
  <2> QED
    BY <1>3, <2>1, <2>2, <2>3, <2>4, <2>5, <2>6, <2>7, <2>8 DEF Continues
<1>4. CASE Close
  BY <1>4 DEF Close
<1>5. CASE ServerReacts
  <2>1. ASSUME NEW f \in Faults, NEW n \in TicketCounts, ServerAnswers(f, n)
        PROVE  /\ UNCHANGED <<attempt, status>>
               /\ c2s # << >> /\ c2s' = Tail(c2s)
    BY <2>1, Zenon DEF ServerAnswers
  <2>2. CASE ServerAcceptsFinish
    BY <2>2 DEF ServerAcceptsFinish
  <2>3. ASSUME NEW f \in Faults, ServerAnswersNoop(f)
        PROVE  /\ UNCHANGED <<flights, attempt, status, srvState>>
               /\ c2s # << >> /\ c2s' = Tail(c2s)
    BY <2>3, Zenon DEF ServerAnswersNoop
  <2>4. CASE ServerRejects
    BY <2>4 DEF ServerRejects
  <2> QED
    BY <1>5, <2>1, <2>2, <2>3, <2>4 DEF ServerReacts
<1>6. CASE Environment
  <2>1. CASE ServerPushes
    BY <2>1 DEF ServerPushes
  <2>2. CASE LinkBreaks
    BY <2>2 DEF LinkBreaks
  <2> QED
    BY <1>6, <2>1, <2>2 DEF Environment
<1> QED
  BY <1>1, <1>2, <1>3, <1>4, <1>5, <1>6 DEF Next

LEMMA Queues ==
  ASSUME TypeOK
  PROVE  c2s \in Seq(Record) /\ s2c \in Seq(Record) /\ flights \in Seq(Flight)
BY DEF TypeOK

LEMMA FlightTypeOf ==
  ASSUME TypeOK, NEW j \in DOMAIN flights
  PROVE  /\ flights[j] \in Flight
         /\ flights[j].tr \in Seq(Message)
         /\ j \in Nat /\ 1 <= j /\ j <= Len(flights)
<1>1. flights[j] \in Flight /\ j \in Nat /\ 1 <= j /\ j <= Len(flights)
  BY DEF TypeOK
<1> QED
  BY <1>1 DEF Flight, Transcript

LEMMA HelloType ==
  ASSUME TypeOK, FlightsInOrder, NEW j \in DOMAIN flights
  PROVE  Hello(flights[j]) \in Nat
<1>1. flights[j].tr \in Seq(Message) /\ Len(flights[j].tr) = 4
  BY FlightTypeOf DEF FlightsInOrder
<1>2. flights[j].tr[1] \in Message
  BY <1>1
<1> QED
  BY <1>2 DEF Hello, Message

LEMMA SentType ==
  ASSUME TypeOK, NEW i \in DOMAIN c2s
  PROVE  /\ c2s[i] \in Record
         /\ c2s[i].body.id \in Nat
<1>1. c2s[i] \in Record
  BY DEF TypeOK
<1>2. c2s[i].body \in Message
  BY <1>1 DEF Record
<1> QED
  BY <1>1, <1>2 DEF Message

(* What the answer to a hello adds to the flights.                         *)
LEMMA NewFlight ==
  ASSUME TypeOK, AgreeInv, NEW f \in Faults, NEW n \in TicketCounts,
         ServerAnswers(f, n)
  PROVE  LET flight == FlightTo(c2s[1].body, Len(flights) + 1, f, n)
         IN  /\ status = 0
             /\ flights' = Append(flights, flight)
             /\ s2c' = s2c \o FlightRecords(flight, f)
             /\ DOMAIN flights' = DOMAIN flights \cup {Len(flights) + 1}
             /\ \A j \in DOMAIN flights : flights'[j] = flights[j]
             /\ flights'[Len(flights) + 1] = flight
             /\ flight.secret = <<Hello(flight), Len(flights) + 1>>
             /\ Len(flight.tr) = 4
             /\ flight \in Flight
             /\ flight.tr[4].id = Len(flights) + 1
             /\ Hello(flight) = c2s[1].body.id
             /\ Hello(flight) <= attempt
             /\ \A j \in DOMAIN flights : Hello(flights[j]) < Hello(flight)
             /\ c2s # << >> /\ c2s' = Tail(c2s) /\ 1 \in DOMAIN c2s
<1> DEFINE hello == c2s[1].body
           flight == FlightTo(hello, Len(flights) + 1, f, n)
<1>1. c2s # << >> /\ c2s[1].key = NoKey /\ 1 \in DOMAIN c2s
      /\ c2s' = Tail(c2s)
  <2>1. c2s # << >> /\ Head(c2s).key = NoKey /\ c2s' = Tail(c2s)
    BY DEF ServerAnswers
  <2> QED
    BY <2>1 DEF TypeOK
<1>2. /\ flights' = Append(flights, flight)
      /\ s2c' = s2c \o FlightRecords(flight, f)
  <2>1. Head(c2s) = c2s[1]
    BY <1>1
  <2> QED
    BY <2>1, Zenon DEF ServerAnswers
<1>3. /\ status = 0 /\ hello.id <= attempt
      /\ \A j \in DOMAIN flights : Hello(flights[j]) < hello.id
  BY <1>1 DEF AgreeInv, HellosInOrder, TypeOK
<1>4. /\ flight.secret = <<hello.id, Len(flights) + 1>>
      /\ Len(flight.tr) = 4
      /\ flight.tr[1] = hello
      /\ flight.tr[4].id = Len(flights) + 1
  BY FlightShape
<1>5. flight \in Flight
  <2>1. hello \in Message
    BY <1>1, SentType DEF Record
  <2>2. n \in Nat /\ Len(flights) + 1 \in Nat
    BY DEF TypeOK
  <2> QED
    BY <2>1, <2>2, FlightTypes
<1> HIDE DEF flight
<1>6. /\ DOMAIN flights' = DOMAIN flights \cup {Len(flights) + 1}
      /\ \A j \in DOMAIN flights : flights'[j] = flights[j]
      /\ flights'[Len(flights) + 1] = flight
  BY <1>2, Queues, AfterAppend
<1>7. Hello(flight) = hello.id
  BY <1>4 DEF Hello
<1> QED
  BY <1>1, <1>2, <1>3, <1>4, <1>5, <1>6, <1>7 DEF flight

LEMMA FlightsStep ==
  TypeOK /\ TypeOK' /\ AgreeInv /\ [Next]_vars => FlightsInOrder'
<1> SUFFICES ASSUME TypeOK, TypeOK', AgreeInv, [Next]_vars
             PROVE  FlightsInOrder'
  OBVIOUS
<1>1. CASE UNCHANGED flights /\ UNCHANGED attempt
  BY <1>1 DEF AgreeInv, FlightsInOrder, Hello
<1>2. CASE SendClientHello
  <2>1. UNCHANGED flights /\ attempt' = attempt + 1
    BY <1>2 DEF SendClientHello, server
  <2>2. \A j \in DOMAIN flights : Hello(flights[j]) <= attempt + 1
    <3> TAKE j \in DOMAIN flights
    <3>1. Hello(flights[j]) <= attempt /\ attempt \in Nat
      BY DEF AgreeInv, FlightsInOrder, TypeOK
    <3>2. Hello(flights[j]) \in Nat
      BY HelloType DEF AgreeInv
    <3> QED
      BY <3>1, <3>2
  <2> QED
    BY <2>1, <2>2 DEF AgreeInv, FlightsInOrder, Hello
<1>3. ASSUME NEW f \in Faults, NEW n \in TicketCounts, ServerAnswers(f, n)
      PROVE  FlightsInOrder'
  <2> DEFINE flight == FlightTo(c2s[1].body, Len(flights) + 1, f, n)
             new == Len(flights) + 1
  <2>1. /\ DOMAIN flights' = DOMAIN flights \cup {new}
        /\ \A j \in DOMAIN flights : flights'[j] = flights[j]
        /\ flights'[new] = flight
        /\ flight.secret = <<Hello(flight), new>>
        /\ Len(flight.tr) = 4
        /\ flight.tr[4].id = new
        /\ Hello(flight) <= attempt
        /\ \A j \in DOMAIN flights : Hello(flights[j]) < Hello(flight)
    BY <1>3, NewFlight
  <2>2. attempt' = attempt
    BY <1>3 DEF ServerAnswers, history
  <2> HIDE DEF flight
  <2>3. \A j \in DOMAIN flights : j < new /\ ~(new < j)
    BY Queues, AfterAppend
  <2>4. ~(new < new)
    BY Queues, AfterAppend
  <2>5. \A j \in DOMAIN flights' :
          /\ Len(flights'[j].tr) = 4
          /\ flights'[j].secret = <<Hello(flights'[j]), j>>
          /\ flights'[j].tr[4].id = j
          /\ Hello(flights'[j]) <= attempt'
    BY <2>1, <2>2 DEF AgreeInv, FlightsInOrder
  <2>6. \A j, k \in DOMAIN flights' :
          j < k => Hello(flights'[j]) < Hello(flights'[k])
    BY <2>1, <2>3, <2>4 DEF AgreeInv, FlightsInOrder
  <2> QED
    BY <2>5, <2>6 DEF FlightsInOrder, Hello
<1>4. \/ UNCHANGED flights /\ UNCHANGED attempt
      \/ SendClientHello
      \/ \E f \in Faults, n \in TicketCounts : ServerAnswers(f, n)
  BY WhoChanges
<1> QED
  BY <1>1, <1>2, <1>3, <1>4

(* The flight whose key the client has reached the end with is the last.   *)
LEMMA LastReached ==
  ASSUME TypeOK, NonceInv, AgreeInv, pc \in HasTrafficKey,
         NEW j \in DOMAIN flights, trafficKey = FlightKey(flights[j])
  PROVE  /\ Hello(flights[j]) = attempt
         /\ j = Len(flights)
<1>1. trafficKey.secret[1] = attempt
  BY DEF NonceInv, TrafficKeyFresh
<1>2. trafficKey.secret = flights[j].secret
  BY DEF FlightKey, HandshakeKey, hkdfExpand
<1>3. Hello(flights[j]) = attempt
  BY <1>1, <1>2 DEF AgreeInv, FlightsInOrder
<1>4. ASSUME j # Len(flights) PROVE FALSE
  <2>1. Len(flights) \in DOMAIN flights /\ j < Len(flights)
    BY <1>4, FlightTypeOf DEF TypeOK
  <2>2. /\ Hello(flights[j]) < Hello(flights[Len(flights)])
        /\ Hello(flights[Len(flights)]) <= attempt
    BY <2>1 DEF AgreeInv, FlightsInOrder
  <2>3. Hello(flights[Len(flights)]) \in Nat /\ attempt \in Nat
    BY <2>1, HelloType DEF AgreeInv, TypeOK
  <2> QED
    BY <1>3, <2>2, <2>3
<1> QED
  BY <1>3, <1>4

(* By the time the client finishes, the server has answered every hello.   *)
LEMMA NoHelloLeft ==
  ASSUME TypeOK, NonceInv, AgreeInv, pc = "sendClientFinish"
  PROVE  c2s = << >>
<1>1. PICK j \in DOMAIN flights : trafficKey = FlightKey(flights[j])
  BY DEF AgreeInv, Progress
<1>2. Hello(flights[j]) = attempt
  BY <1>1, LastReached DEF HasTrafficKey
<1>3. status = 0
  BY DEF NonceInv, StatusAndPc, Handshaking
<1>4. ASSUME NEW i \in DOMAIN c2s PROVE FALSE
  <2>1. attempt < c2s[i].body.id /\ c2s[i].body.id <= attempt
    BY <1>2, <1>3 DEF AgreeInv, HellosInOrder
  <2> QED
    BY <2>1, SentType DEF TypeOK
<1> QED
  BY <1>4, Queues, EmptyQueue

LEMMA HellosStep ==
  TypeOK /\ TypeOK' /\ NonceInv /\ AgreeInv /\ [Next]_vars => HellosInOrder'
<1> SUFFICES ASSUME TypeOK, TypeOK', NonceInv, AgreeInv, [Next]_vars
             PROVE  HellosInOrder'
  OBVIOUS
<1>1. HellosInOrder
  BY DEF AgreeInv
(* The front of the queue leaves, or all of it.                            *)
<1>2. ASSUME UNCHANGED <<status, attempt, flights>>,
             \/ UNCHANGED c2s
             \/ c2s' = << >>
             \/ c2s # << >> /\ c2s' = Tail(c2s)
      PROVE  HellosInOrder'
  <2>1. CASE UNCHANGED c2s
    BY <1>1, <1>2, <2>1 DEF HellosInOrder, Hello
  <2>2. CASE c2s' = << >>
    BY <1>2, <2>2 DEF HellosInOrder
  <2>3. CASE c2s # << >> /\ c2s' = Tail(c2s)
    <3>1. /\ \A i \in DOMAIN c2s' : /\ i + 1 \in DOMAIN c2s
                                    /\ c2s'[i] = c2s[i + 1]
          /\ \A i, k \in DOMAIN c2s' : i < k => i + 1 < k + 1
      BY <2>3, Queues, AfterTail
    <3> QED
      BY <1>1, <1>2, <3>1 DEF HellosInOrder, Hello
  <2> QED
    BY <1>2, <2>1, <2>2, <2>3
<1>3. CASE SendClientHello
  <2>1. /\ status = 0 /\ status' = 0
        /\ attempt' = attempt + 1
        /\ UNCHANGED flights
        /\ UNCHANGED c2s \/ c2s' = Append(c2s, Plain(newHello))
    BY <1>3 DEF SendClientHello, Deliver, network, server, NonceInv,
       StatusAndPc, Handshaking
  <2>2. attempt \in Nat /\ \A i \in DOMAIN c2s : c2s[i].body.id \in Nat
    BY SentType DEF TypeOK
  <2>3. \A i \in DOMAIN c2s : c2s[i].body.id < attempt + 1
    BY <1>1, <2>1, <2>2 DEF HellosInOrder
  <2>4. \A j \in DOMAIN flights : Hello(flights[j]) < attempt + 1
    BY <2>2, HelloType DEF AgreeInv, FlightsInOrder
  <2>5. CASE UNCHANGED c2s
    BY <1>1, <2>1, <2>2, <2>3, <2>5 DEF HellosInOrder, Hello
  <2>6. CASE c2s' = Append(c2s, Plain(newHello))
    <3> DEFINE last == Len(c2s) + 1
    <3>1. /\ DOMAIN c2s' = DOMAIN c2s \cup {last}
          /\ \A i \in DOMAIN c2s : c2s'[i] = c2s[i]
          /\ c2s'[last] = Plain(newHello)
          /\ \A i \in DOMAIN c2s : ~(last < i)
          /\ ~(last < last)
      BY <2>6, Queues, AfterAppend
    <3>2. Plain(newHello).key = NoKey /\ Plain(newHello).body.id = attempt + 1
      BY DEF Plain, newHello, Msg
    <3>3. attempt + 1 <= attempt + 1
      BY <2>2
    <3>4. \A i \in DOMAIN c2s' :
            /\ c2s'[i].key = NoKey
            /\ c2s'[i].body.id <= attempt'
            /\ \A j \in DOMAIN flights' : Hello(flights'[j]) < c2s'[i].body.id
      BY <1>1, <2>1, <2>2, <2>3, <2>4, <3>1, <3>2, <3>3 DEF HellosInOrder
    <3>5. \A i, k \in DOMAIN c2s' :
            i < k => c2s'[i].body.id < c2s'[k].body.id
      BY <1>1, <2>1, <2>3, <3>1, <3>2 DEF HellosInOrder
    <3> QED
      BY <2>1, <3>4, <3>5 DEF HellosInOrder, Hello
  <2> QED
    BY <2>1, <2>5, <2>6
<1>4. ASSUME NEW f \in Faults, NEW n \in TicketCounts, ServerAnswers(f, n)
      PROVE  HellosInOrder'
  <2> DEFINE flight == FlightTo(c2s[1].body, Len(flights) + 1, f, n)
  <2>1. /\ UNCHANGED <<status, attempt>> /\ status = 0
        /\ c2s # << >> /\ c2s' = Tail(c2s) /\ 1 \in DOMAIN c2s
        /\ DOMAIN flights' = DOMAIN flights \cup {Len(flights) + 1}
        /\ \A j \in DOMAIN flights : flights'[j] = flights[j]
        /\ flights'[Len(flights) + 1] = flight
        /\ Hello(flight) = c2s[1].body.id
    BY <1>4, NewFlight DEF ServerAnswers, client, history
  <2> HIDE DEF flight
  <2>2. \A i \in DOMAIN c2s' : /\ i + 1 \in DOMAIN c2s
                               /\ c2s'[i] = c2s[i + 1]
                               /\ 1 < i + 1
    BY <2>1, Queues, AfterTail
  <2>3. \A i, k \in DOMAIN c2s' : i < k => i + 1 < k + 1
    BY <2>1, Queues, AfterTail
  <2>4. \A i \in DOMAIN c2s' :
          /\ c2s'[i].key = NoKey
          /\ c2s'[i].body.id <= attempt'
          /\ \A j \in DOMAIN flights' : Hello(flights'[j]) < c2s'[i].body.id
    BY <1>1, <2>1, <2>2 DEF HellosInOrder
  <2>5. \A i, k \in DOMAIN c2s' : i < k => c2s'[i].body.id < c2s'[k].body.id
    BY <1>1, <2>1, <2>2, <2>3 DEF HellosInOrder
  <2> QED
    BY <2>1, <2>4, <2>5 DEF HellosInOrder, Hello
<1>5. CASE SendClientFinish
  <2>1. c2s = << >>
    BY <1>5, NoHelloLeft DEF SendClientFinish
  <2>2. CASE UNCHANGED c2s
    BY <2>1, <2>2 DEF HellosInOrder
  <2>3. CASE c2s' = Append(c2s, clientFinish) /\ status' = 1
    <3>1. DOMAIN c2s' = {1} /\ c2s'[1] = clientFinish
      BY <2>1, <2>3
    <3>2. clientFinish.key # NoKey
      BY <1>5 DEF clientFinish, Seal, NoKey, hkdfExpand, SendClientFinish,
         NonceInv, TrafficKeyFresh, HasTrafficKey
    <3> QED
      BY <2>3, <3>1, <3>2 DEF HellosInOrder
  <2> QED
    BY <1>5, <2>2, <2>3 DEF SendClientFinish, Deliver, network
<1>6. CASE SendNoop
  <2>1. status = 1 /\ status' = 1
    BY <1>6 DEF SendNoop
  <2>2. CASE UNCHANGED c2s
    BY <1>1, <2>1, <2>2 DEF HellosInOrder
  <2>3. CASE c2s' = Append(c2s, noopRequest)
    <3>1. /\ DOMAIN c2s' = DOMAIN c2s \cup {Len(c2s) + 1}
          /\ \A i \in DOMAIN c2s : c2s'[i] = c2s[i]
          /\ c2s'[Len(c2s) + 1] = noopRequest
      BY <2>3, Queues, AfterAppend
    <3>2. noopRequest.key # NoKey
      BY <2>1 DEF noopRequest, Seal, NoKey, hkdfExpand, NonceInv, AppKeyFresh
    <3> QED
      BY <1>1, <2>1, <3>1, <3>2 DEF HellosInOrder
  <2> QED
    BY <1>6, <2>2, <2>3 DEF SendNoop, Deliver, network
<1>7. \/ /\ UNCHANGED <<status, attempt, flights>>
         /\ \/ UNCHANGED c2s
            \/ c2s' = << >>
            \/ c2s # << >> /\ c2s' = Tail(c2s)
      \/ SendClientHello \/ SendClientFinish \/ SendNoop
      \/ \E f \in Faults, n \in TicketCounts : ServerAnswers(f, n)
  BY WhoChanges
<1> QED
  BY <1>2, <1>3, <1>4, <1>5, <1>6, <1>7

LEMMA AnswersStep ==
  TypeOK /\ TypeOK' /\ NonceInv /\ AgreeInv /\ [Next]_vars => Answers'
<1> SUFFICES ASSUME TypeOK, TypeOK', NonceInv, AgreeInv, [Next]_vars
             PROVE  Answers'
  OBVIOUS
<1>1. Answers
  BY DEF AgreeInv
<1>2. \A j \in DOMAIN flights :
        j \in DOMAIN flights' /\ flights'[j] = flights[j]
  <2>1. ASSUME NEW f \in Faults, NEW n \in TicketCounts, ServerAnswers(f, n)
        PROVE  <1>2!:
    BY <2>1, NewFlight
  <2> QED
    BY <2>1, WhoChanges
(* No record of s2c' that was not in s2c is under a handshake key.         *)
<1>3. ASSUME \A i \in DOMAIN s2c' :
               s2c'[i].key.label = "handshake" =>
                 \E k \in DOMAIN s2c : s2c'[i] = s2c[k]
      PROVE  Answers'
  <2> SUFFICES ASSUME NEW i \in DOMAIN s2c', s2c'[i].key.label = "handshake"
               PROVE  \E j \in DOMAIN flights' : OfFlight(s2c'[i], flights'[j])
    BY DEF Answers, OfFlight
  <2>1. PICK k \in DOMAIN s2c : s2c'[i] = s2c[k]
    BY <1>3
  <2>2. PICK j \in DOMAIN flights : OfFlight(s2c[k], flights[j])
    BY <1>1, <2>1 DEF Answers
  <2> QED
    BY <1>2, <2>1, <2>2
<1>4. CASE UNCHANGED s2c
  BY <1>3, <1>4
<1>5. CASE s2c # << >> /\ s2c' = Tail(s2c)
  BY <1>3, <1>5, Queues, AfterTail
<1>6. ASSUME NEW f \in Faults, NEW n \in TicketCounts, ServerAnswers(f, n)
      PROVE  Answers'
  <2> DEFINE flight == FlightTo(c2s[1].body, Len(flights) + 1, f, n)
             recs   == FlightRecords(flight, f)
  <2>1. /\ s2c' = s2c \o recs
        /\ flight \in Flight /\ Len(flight.tr) = 4
        /\ Len(flights) + 1 \in DOMAIN flights'
        /\ flights'[Len(flights) + 1] = flight
    BY <1>6, NewFlight
  <2> HIDE DEF flight
  <2>2. \A m \in DOMAIN recs :
          recs[m].key.label = "handshake" => OfFlight(recs[m], flight)
    <3> SUFFICES ASSUME NEW m \in DOMAIN recs,
                        recs[m].key.label = "handshake"
                 PROVE  OfFlight(recs[m], flight)
      OBVIOUS
    <3>1. m \in 1..4
      BY FlightRecordShape DEF FlightRecords
    <3>2. CASE m = 1
      <4>1. recs[1] = Plain(flight.tr[2])
        BY FlightRecordShape
      <4>2. recs[m].key.label = "none"
        BY <3>2, <4>1 DEF Plain, NoKey, hkdfExpand
      <4> QED
        BY <4>2
    <3>3. CASE m \in 2..4
      BY <3>3, FlightRecordShape DEF OfFlight
    <3> QED
      BY <3>1, <3>2, <3>3
  <2>3. recs \in Seq(Record)
    BY <2>1, FlightRecordTypes
  <2> HIDE DEF recs
  <2> SUFFICES ASSUME NEW i \in DOMAIN s2c', s2c'[i].key.label = "handshake"
               PROVE  \E j \in DOMAIN flights' : OfFlight(s2c'[i], flights'[j])
    BY DEF Answers, OfFlight
  <2>4. CASE i \in DOMAIN s2c /\ s2c'[i] = s2c[i]
    BY <1>1, <1>2, <2>4 DEF Answers
  <2>5. CASE i - Len(s2c) \in DOMAIN recs /\ s2c'[i] = recs[i - Len(s2c)]
    BY <2>1, <2>2, <2>5
  <2> QED
    BY <2>1, <2>3, <2>4, <2>5, Queues, AfterConcat
(* A record of the server's own under its application key.                 *)
<1>7. ASSUME NEW b, s2c' = Append(s2c, Seal(ServerAppKey, srvSend, b, NoKey))
      PROVE  Answers'
  <2>1. Seal(ServerAppKey, srvSend, b, NoKey).key.label = "application"
    BY DEF Seal, ServerAppKey, AppKey, hkdfExpand
  <2> QED
    BY <1>3, <1>7, <2>1, Queues, AfterAppend
<1>8. CASE \E f \in Faults : ServerAnswersNoop(f)
  BY <1>7, <1>8 DEF ServerAnswersNoop
<1>9. CASE ServerPushes
  BY <1>7, <1>9 DEF ServerPushes
<1>10. CASE LinkBreaks
  <2>1. PICK n \in 0..Len(s2c) : s2c' = SubSeq(s2c, 1, n)
    BY <1>10 DEF LinkBreaks
  <2> QED
    BY <1>3, <2>1, Queues, AfterLoss
<1> QED
  BY <1>4, <1>5, <1>6, <1>8, <1>9, <1>10, WhoChanges

LEMMA DataStep ==
  TypeOK /\ TypeOK' /\ NonceInv /\ AgreeInv /\ [Next]_vars => DataMeansDone'
<1> SUFFICES ASSUME TypeOK, NonceInv, AgreeInv, [Next]_vars, srvState' = "data"
             PROVE  status' = 1
  BY DEF DataMeansDone
<1>1. status = 1
  <2>1. CASE UNCHANGED srvState
    BY <2>1 DEF AgreeInv, DataMeansDone
  <2>2. CASE \E f \in Faults, n \in TicketCounts : ServerAnswers(f, n)
    BY <2>2 DEF ServerAnswers
  <2>3. CASE ServerAcceptsFinish
    <3>1. c2s # << >> /\ Head(c2s).key = ServerHandshakeKey
      BY <2>3 DEF ServerAcceptsFinish, GoodFinish, Opens
    <3>2. ServerHandshakeKey # NoKey
      BY DEF ServerHandshakeKey, FlightKey, HandshakeKey, NoKey, hkdfExpand
    <3>3. 1 \in DOMAIN c2s /\ Head(c2s) = c2s[1]
      BY <3>1, Queues, AfterTail
    <3> QED
      BY <3>1, <3>2, <3>3 DEF AgreeInv, HellosInOrder, TypeOK
  <2> QED
    BY <2>1, <2>2, <2>3, WhoChanges
<1>2. CASE SendClientFinish
  BY <1>1, <1>2 DEF SendClientFinish, NonceInv, StatusAndPc, Handshaking
<1> QED
  BY <1>1, <1>2, WhoChanges

(* A record that opens under the traffic key is of the flight of that key. *)
LEMMA OpenedIsOfFlight ==
  ASSUME TypeOK, NonceInv, AgreeInv, pc \in HasTrafficKey, s2c # << >>,
         Head(s2c).key = trafficKey
  PROVE  \E j \in DOMAIN flights : OfFlight(Head(s2c), flights[j])
<1>1. 1 \in DOMAIN s2c /\ Head(s2c) = s2c[1]
  BY Queues, AfterTail
<1>2. s2c[1].key.label = "handshake"
  BY <1>1 DEF NonceInv, TrafficKeyFresh
<1> QED
  BY <1>1, <1>2 DEF AgreeInv, Answers

(* Flights are told apart by their keys.                                   *)
LEMMA KeyTellsFlight ==
  ASSUME AgreeInv, NEW j \in DOMAIN flights, NEW k \in DOMAIN flights,
         FlightKey(flights[j]) = FlightKey(flights[k])
  PROVE  j = k
<1>1. flights[j].secret = flights[k].secret
  BY DEF FlightKey, HandshakeKey, hkdfExpand
<1>2. flights[j].secret[2] = j /\ flights[k].secret[2] = k
  BY DEF AgreeInv, FlightsInOrder
<1> QED
  BY <1>1, <1>2

(* The ticket message on its way to a client that waits for it is that of  *)
(* the flight the client is talking to.                                    *)
TicketOf(j) ==
  /\ trafficKey = FlightKey(flights[j])
  /\ transcript = Signed(flights[j])
  /\ Head(s2c).body = flights[j].tr[4]

LEMMA TicketRead ==
  ASSUME TypeOK, NonceInv, AgreeInv, ReadNewSessionTicket,
         Decrypts(Head(s2c), trafficKey)
  PROVE  \E j \in DOMAIN flights : TicketOf(j)
<1>1. pc = "readNewSessionTicket" /\ s2c # << >>
  BY DEF ReadNewSessionTicket, Receive
<1>2. Head(s2c).key = trafficKey /\ Head(s2c).seq = 2
  BY <1>1 DEF Decrypts, Opens, AgreeInv, Progress
<1>3. PICK j \in DOMAIN flights :
        trafficKey = FlightKey(flights[j]) /\ transcript = Signed(flights[j])
  BY <1>1 DEF AgreeInv, Progress
<1>4. PICK k \in DOMAIN flights : OfFlight(Head(s2c), flights[k])
  BY <1>1, <1>2, OpenedIsOfFlight DEF HasTrafficKey
<1>5. j = k
  BY <1>2, <1>3, <1>4, KeyTellsFlight DEF OfFlight
<1> QED
  BY <1>2, <1>3, <1>4, <1>5 DEF OfFlight, TicketOf

LEMMA ProgressStep ==
  TypeOK /\ TypeOK' /\ NonceInv /\ AgreeInv /\ [Next]_vars => Progress'
<1> SUFFICES ASSUME TypeOK, TypeOK', NonceInv, AgreeInv, [Next]_vars
             PROVE  Progress'
  OBVIOUS
<1> USE DEF vars, client, network, server, history
<1>1. Progress
  BY DEF AgreeInv
(* A step that ends or starts a call, or has no part in the handshake.     *)
<1>2. ASSUME pc' \in {"idle", "sendClientHello", "panicked", "readNoop"}
      PROVE  Progress'
  BY <1>2 DEF Progress
<1>3. CASE SendClientHello
  BY <1>3 DEF SendClientHello, Return, Progress
<1>4. CASE ReadServerHello
  <2>1. pc' \in {"idle", "panicked"} \/ pc' = "readSignature"
    BY <1>4, Zenon DEF ReadServerHello, Return
  <2>2. ASSUME pc' = "readSignature" PROVE Progress'
    <3>1. serverSeqNum' = 1
      BY <1>1, <1>4 DEF ReadServerHello, Receive, NextServerSeq, Progress
    <3>2. trafficKey'.hash = transcript'
      BY <1>4, <2>2 DEF ReadServerHello, Return, HandshakeKey, hkdfExpand
    <3> QED
      BY <2>2, <3>1, <3>2 DEF Progress
  <2> QED
    BY <1>2, <2>1, <2>2
<1>5. CASE ReadSignature
  <2> DEFINE rec == Head(s2c)
  <2>1. \/ pc' = "idle"
        \/ Decrypts(rec, trafficKey) /\ Accept(rec, "readNewSessionTicket")
    BY <1>5, Zenon DEF ReadSignature, Return
  <2>2. ASSUME Decrypts(rec, trafficKey), Accept(rec, "readNewSessionTicket")
        PROVE  Progress'
    <3>1. /\ pc = "readSignature" /\ s2c # << >>
          /\ UNCHANGED <<trafficKey, flights>>
      BY <1>5, Zenon DEF ReadSignature, Receive
    <3>2. rec.key = trafficKey /\ rec.seq = 1 /\ trafficKey.hash = transcript
      BY <1>1, <2>2, <3>1 DEF Decrypts, Opens, Progress
    <3>3. PICK j \in DOMAIN flights : OfFlight(rec, flights[j])
      BY <3>1, <3>2, OpenedIsOfFlight DEF HasTrafficKey
    <3>4. trafficKey = FlightKey(flights[j]) /\ rec.body = flights[j].tr[3]
      BY <3>2, <3>3 DEF OfFlight
    <3>5. transcript = Hellos(flights[j])
      BY <3>2, <3>4 DEF FlightKey, HandshakeKey, hkdfExpand
    <3>6. transcript' = Signed(flights[j])
      <4>1. flights[j] \in Flight /\ Len(flights[j].tr) = 4
        BY FlightTypeOf DEF AgreeInv, FlightsInOrder
      <4> QED
        BY <2>2, <3>4, <3>5, <4>1, TranscriptParts DEF Accept
    <3>7. pc' = "readNewSessionTicket" /\ serverSeqNum' = 2
      BY <1>1, <2>2, <3>1 DEF Accept, NextServerSeq, Progress
    <3> QED
      BY <3>1, <3>4, <3>6, <3>7 DEF Progress
  <2> QED
    BY <1>2, <2>1, <2>2
<1>6. CASE ReadNewSessionTicket
  <2> DEFINE rec == Head(s2c)
  <2>1. \/ pc' = "idle"
        \/ /\ Decrypts(rec, trafficKey)
           /\ Accept(rec, "readServerFinish")
           /\ session' = newSession(rec)
    BY <1>6, Zenon DEF ReadNewSessionTicket, Return
  <2>2. ASSUME Decrypts(rec, trafficKey), Accept(rec, "readServerFinish"),
               session' = newSession(rec)
        PROVE  Progress'
    <3>1. PICK j \in DOMAIN flights : TicketOf(j)
      BY <1>6, <2>2, TicketRead
    <3>2. /\ pc' = "readServerFinish"
          /\ serverSeqNum' = 3
          /\ UNCHANGED <<trafficKey, flights>>
      BY <1>1, <1>6, <2>2
      DEF ReadNewSessionTicket, Receive, Accept, NextServerSeq, Progress
    <3>3. session'.issue = j
      BY <2>2, <3>1 DEF newSession, TicketOf, AgreeInv, FlightsInOrder
    <3>4. transcript' = flights[j].tr
      <4>1. flights[j] \in Flight /\ Len(flights[j].tr) = 4
        BY FlightTypeOf DEF AgreeInv, FlightsInOrder
      <4> QED
        BY <2>2, <3>1, <4>1, TranscriptParts DEF Accept, TicketOf
    <3> QED
      BY <3>1, <3>2, <3>3, <3>4 DEF Progress, TicketOf
  <2> QED
    BY <1>2, <2>1, <2>2
<1>7. CASE ReadServerFinish
  <2>1. /\ pc = "readServerFinish"
        /\ UNCHANGED <<trafficKey, transcript, session, flights>>
        /\ \/ pc' = "idle"
           \/ /\ pc' = "sendClientFinish"
              /\ serverSeqNum' = serverSeqNum + 1 \/ UNCHANGED serverSeqNum
    BY <1>7, Zenon DEF ReadServerFinish, Receive, Return, NextServerSeq
  <2> QED
    BY <1>1, <1>2, <2>1 DEF Progress
<1>8. ASSUME UNCHANGED <<pc, transcript, serverSeqNum, trafficKey, session>>
      PROVE  Progress'
  <2>1. \A j \in DOMAIN flights :
          j \in DOMAIN flights' /\ flights'[j] = flights[j]
    BY WhoChanges, NewFlight
  <2> QED
    BY <1>1, <1>8, <2>1 DEF Progress
<1>9. CASE Calls
  <2>1. pc' \in {"idle", "sendClientHello", "readNoop"}
    BY <1>9 DEF Calls, Dial, DialFails, HandshakeAgain, Retry, SendNoop, Return
  <2> QED
    BY <1>2, <2>1
<1>10. CASE KeyGenFails \/ SendClientFinish \/ ReadNoop \/ ReadFails
  <2>1. pc' = "idle"
    BY <1>10 DEF KeyGenFails, SendClientFinish, ReadNoop, ReadFails, Return
  <2> QED
    BY <1>2, <2>1
<1>11. CASE Close \/ ServerReacts \/ Environment \/ UNCHANGED vars
  BY <1>8, <1>11, OtherSteps
<1> QED
  BY <1>3, <1>4, <1>5, <1>6, <1>7, <1>9, <1>10, <1>11 DEF Next, Continues

LEMMA AgreeInit == Init => AgreeInv
<1> SUFFICES ASSUME Init PROVE AgreeInv
  OBVIOUS
<1>1. flights = << >> \/ \E n \in TicketCounts : flights = <<priorFlight(n)>>
  BY DEF Init
<1>2. FlightsInOrder
  <2>1. CASE flights = << >>
    BY <2>1 DEF FlightsInOrder
  <2>2. ASSUME NEW n \in TicketCounts, flights = <<priorFlight(n)>>
        PROVE  FlightsInOrder
    <3> DEFINE hello == Msg("ClientHello", 0, "ok")
               flight == FlightTo(hello, 1, "none", n)
    <3>1. DOMAIN flights = {1} /\ flights[1] = flight
      BY <2>2 DEF priorFlight
    <3>2. /\ flight.secret = <<hello.id, 1>> /\ Len(flight.tr) = 4
          /\ flight.tr[1] = hello /\ flight.tr[4].id = 1
      BY FlightShape
    <3>3. hello.id = 0 /\ attempt = 0 /\ 0 <= 0 /\ ~(1 < 1)
      BY DEF Init, Msg
    <3> HIDE DEF flight, hello
    <3> QED
      BY <3>1, <3>2, <3>3 DEF FlightsInOrder, Hello
  <2> QED
    BY <1>1, <2>1, <2>2
<1>3. /\ c2s = << >> /\ s2c = << >> /\ pc = "idle" /\ srvState = "hello"
  BY DEF Init
<1> QED
  BY <1>2, <1>3 DEF AgreeInv, HellosInOrder, Answers, Progress, DataMeansDone

-----------------------------------------------------------------------------
(* The theorems.                                                           *)

LEMMA Invariants == Spec => [](TypeOK /\ NonceInv /\ AgreeInv)
<1>1. Init => NonceInv /\ AgreeInv
  BY NonceInit, AgreeInit
<1>2. TypeOK /\ NonceInv /\ [Next]_vars => NonceInv'
  BY NonceStep
<1>3. TypeOK /\ TypeOK' /\ NonceInv /\ AgreeInv /\ [Next]_vars => AgreeInv'
  BY FlightsStep, HellosStep, AnswersStep, ProgressStep, DataStep
  DEF AgreeInv
<1> QED
  BY <1>1, <1>2, <1>3, TypeCorrect, PTL DEF Spec

(* After the handshake nothing it has agreed on changes.                   *)
LEMMA SettledWhenDone ==
  TypeOK /\ NonceInv /\ AgreeInv /\ [Next]_vars /\ status = 1
    => status' = 1 /\ UNCHANGED <<session, flights>>
<1> SUFFICES ASSUME TypeOK, NonceInv, AgreeInv, [Next]_vars, status = 1
             PROVE  status' = 1 /\ UNCHANGED <<session, flights>>
  OBVIOUS
<1>1. UNCHANGED flights
  <2>1. ASSUME NEW f \in Faults, NEW n \in TicketCounts, ServerAnswers(f, n)
        PROVE  FALSE
    BY <2>1, NewFlight
  <2> QED
    BY <2>1, WhoChanges
<1>2. pc \notin Handshaking
  BY DEF NonceInv, StatusAndPc
<1>3. status' = 1 /\ UNCHANGED session
  <2> USE DEF vars, client
  <2>1. CASE Calls
    BY <2>1 DEF Calls, Dial, DialFails, HandshakeAgain, Retry, SendNoop
  <2>2. CASE Continues
    BY <1>2, <2>2 DEF Continues, KeyGenFails, SendClientHello, ReadServerHello,
       ReadSignature, ReadNewSessionTicket, ReadServerFinish, SendClientFinish,
       ReadNoop, ReadFails, Receive, Handshaking
  <2>3. CASE Close \/ ServerReacts \/ Environment \/ UNCHANGED vars
    BY <2>3, OtherSteps
  <2> QED
    BY <2>1, <2>2, <2>3 DEF Next
<1> QED
  BY <1>1, <1>3

(* When Handshake has returned nil, client and server hold the same        *)
(* application key, that of the flight the server has answered last, and   *)
(* the client's tickets are of that flight.                                *)
THEOREM KeysAgree == Spec => []KeyAgreement
<1>1. Init => KeyAgreement
  BY DEF Init, KeyAgreement
<1>2. TypeOK /\ NonceInv /\ AgreeInv /\ KeyAgreement /\ [Next]_vars
        => KeyAgreement'
  <2> SUFFICES ASSUME TypeOK, NonceInv, AgreeInv, KeyAgreement, [Next]_vars,
                      status' = 1
               PROVE  /\ flights' # << >>
                      /\ session'.appKey = ServerAppKey'
                      /\ session'.issue = Len(flights')
    BY DEF KeyAgreement
  <2>1. CASE status = 1
    BY <2>1, SettledWhenDone DEF KeyAgreement, ServerAppKey, LastFlight
  <2>2. CASE status = 0
    <3>1. SendClientFinish
      BY <2>2, WhoChanges
    <3>2. pc = "sendClientFinish" /\ UNCHANGED flights
          /\ session' = [session EXCEPT !.appKey = applicationKey]
      BY <2>2, <3>1 DEF SendClientFinish, server
    <3>3. PICK j \in DOMAIN flights : /\ trafficKey = FlightKey(flights[j])
                                      /\ transcript = flights[j].tr
                                      /\ session.issue = j
      BY <3>2 DEF AgreeInv, Progress
    <3>4. j = Len(flights)
      BY <3>2, <3>3, LastReached DEF HasTrafficKey
    <3>5. session.issue = Len(flights) /\ flights # << >>
      BY <3>3, <3>4
    <3>6. session'.appKey = applicationKey /\ session'.issue = session.issue
      BY <3>2 DEF TypeOK, SessionType
    <3>7. applicationKey = ServerAppKey
      BY <3>3, <3>4 DEF applicationKey, ServerAppKey, LastFlight, FlightKey,
         HandshakeKey, hkdfExpand
    <3> QED
      BY <3>2, <3>5, <3>6, <3>7 DEF ServerAppKey, LastFlight
  <2> QED
    BY <2>1, <2>2 DEF TypeOK
<1> QED
  BY <1>1, <1>2, Invariants, PTL DEF Spec

LEMMA SessionChanges ==
  ASSUME [Next]_vars
  PROVE  \/ UNCHANGED session
         \/ ReadNewSessionTicket
         \/ SendClientFinish
<1> USE DEF vars, client
<1>1. CASE Calls
  BY <1>1 DEF Calls, Dial, DialFails, HandshakeAgain, Retry, SendNoop
<1>2. CASE Continues
  BY <1>2 DEF Continues, KeyGenFails, SendClientHello, ReadServerHello,
     ReadSignature, ReadServerFinish, ReadNoop, ReadFails
<1>3. CASE Close \/ ServerReacts \/ Environment \/ UNCHANGED vars
  BY <1>3, OtherSteps
<1> QED
  BY <1>1, <1>2, <1>3 DEF Next

(* The session in memory, whatever handshake has put it there and even if  *)
(* that handshake failed later, is one the server issued: the tickets and  *)
(* the pre-shared key of one and the same flight.                          *)
THEOREM SessionsCoherent == Spec => []SessionCoherent
<1>1. Init => SessionCoherent
  <2> SUFFICES ASSUME Init PROVE SessionCoherent
    OBVIOUS
  <2>1. CASE session = NoSession
    BY <2>1 DEF NoSession, SessionCoherent
  <2>2. ASSUME NEW n \in TicketCounts, session = Loaded(n),
               flights = <<priorFlight(n)>>
        PROVE  SessionCoherent
    <3>1. priorFlight(n).tr[4].count = n
      BY FlightShape DEF priorFlight
    <3>2. /\ session.issue = 1 /\ session.tickets = n
          /\ session.psk = FlightPsk(priorFlight(n))
      BY <2>2 DEF Loaded
    <3>3. 1 \in DOMAIN flights /\ flights[1] = priorFlight(n)
      BY <2>2
    <3> QED
      BY <3>1, <3>2, <3>3 DEF SessionCoherent, SessionOf
  <2> QED
    BY <2>1, <2>2 DEF Init
<1>2. TypeOK /\ NonceInv /\ AgreeInv /\ SessionCoherent /\ [Next]_vars
        => SessionCoherent'
  <2> SUFFICES ASSUME TypeOK, NonceInv, AgreeInv, SessionCoherent, [Next]_vars
               PROVE  SessionCoherent'
    OBVIOUS
  <2>1. \A j \in DOMAIN flights :
          j \in DOMAIN flights' /\ flights'[j] = flights[j]
    BY WhoChanges, NewFlight
  <2>2. CASE session'.issue = session.issue /\ session'.psk = session.psk
             /\ session'.tickets = session.tickets
    BY <2>1, <2>2 DEF SessionCoherent, SessionOf
  <2>3. CASE ReadNewSessionTicket
    <3>1. CASE UNCHANGED session
      BY <2>2, <3>1
    <3>2. CASE /\ Decrypts(Head(s2c), trafficKey)
               /\ session' = newSession(Head(s2c))
      <4>1. PICK j \in DOMAIN flights : TicketOf(j)
        BY <2>3, <3>2, TicketRead
      <4>2. /\ session'.issue = j
            /\ session'.tickets = flights[j].tr[4].count
        BY <3>2, <4>1 DEF newSession, TicketOf, AgreeInv, FlightsInOrder
      <4>3. session'.psk = FlightPsk(flights[j])
        BY <3>2, <4>1 DEF newSession, TicketOf, FlightPsk, FlightKey,
           HandshakeKey, hkdfExpand
      <4> QED
        BY <2>1, <4>2, <4>3 DEF SessionCoherent, SessionOf
    <3> QED
      BY <2>3, <3>1, <3>2, Zenon DEF ReadNewSessionTicket
  <2>4. CASE SendClientFinish
    <3>1. UNCHANGED session
          \/ session' = [session EXCEPT !.appKey = applicationKey]
      BY <2>4 DEF SendClientFinish
    <3> QED
      BY <2>2, <3>1 DEF TypeOK, SessionType
  <2> QED
    BY <2>2, <2>3, <2>4, SessionChanges
<1> QED
  BY <1>1, <1>2, Invariants, PTL DEF Spec

=============================================================================
