--------------------------- MODULE LongLinkStream ---------------------------
(***************************************************************************)
(* Proofs about the heartbeats of the long link, in order and in number.   *)
(* The argument: the finish message of the last flight is the last record  *)
(* on its way to the client (FinishComesLast), so a completed handshake    *)
(* starts the data on an empty connection (BeforeDone); from there the     *)
(* records each way are in the order they were sealed in (BeatsInOrder,    *)
(* AnswersInOrder), and after a Noop that failed nothing that could pass   *)
(* for an answer comes (Waits).                                            *)
(***************************************************************************)
EXTENDS LongLinkProofs

USE TicketCountsAssumption, FaultsAssumption

(* Nothing follows the finish message of the last flight before the client *)
(* has answered it.                                                        *)
FinishComesLast ==
  status = 0 /\ flights # << >> =>
    \A i \in DOMAIN s2c :
      s2c[i].key = FlightKey(LastFlight) /\ s2c[i].seq = 3 => i = Len(s2c)

IsData(rec) == rec.key.label = "application"

(* Until the handshake completes there are no Noops and no data, and when  *)
(* the client is about to finish, nothing is on its way to it.             *)
BeforeDone ==
  /\ status = 0 =>
       /\ noops = 0 /\ answered = 0 /\ ~noopFailed
       /\ \A i \in DOMAIN s2c : ~IsData(s2c[i])
  /\ pc = "sendClientFinish" => s2c = << >>
  /\ srvState = "finish" /\ status = 0 => srvSend = 4
  /\ srvState = "hello" => \A j \in DOMAIN flights : Hello(flights[j]) = 0
  /\ pc \in HasTrafficKey \cup {"readServerHello"} => attempt > 0

(* The Noops on their way are those not answered yet, in order.            *)
BeatsInOrder ==
  /\ answered <= noops
  /\ \A i \in DOMAIN c2s :
       IsData(c2s[i]) => answered < c2s[i].body.id /\ c2s[i].body.id <= noops
  /\ \A i, k \in DOMAIN c2s :
       IsData(c2s[i]) /\ IsData(c2s[k]) /\ i < k
         => c2s[i].body.id < c2s[k].body.id

(* Once the handshake is complete, what is on its way to the client is     *)
(* data, numbered in order and below the server's counter.                 *)
AnswersInOrder ==
  status = 1 =>
    /\ \A i \in DOMAIN s2c : s2c[i].key = session.appKey /\ s2c[i].seq < srvSend
    /\ \A i, k \in DOMAIN s2c : i < k => s2c[i].seq < s2c[k].seq

IsReply(rec) == IsData(rec) /\ rec.body.kind = "NoopResponse"

(* While no Noop has failed there is at most one reply on its way, that of *)
(* the Noop the caller waits in.                                           *)
WaitsForOne ==
  /\ pc # "readNoop" => answered = noops
  /\ pc = "readNoop" => noops <= answered + 1
  /\ \A i \in DOMAIN s2c :
       IsReply(s2c[i]) => pc = "readNoop" /\ answered = noops
  /\ \A i, k \in DOMAIN s2c : IsReply(s2c[i]) /\ IsReply(s2c[k]) => i = k
  /\ status = 1 => /\ srvSend >= serverSeqNum
                   /\ \A i \in DOMAIN s2c : s2c[i].seq >= serverSeqNum

(* After one has failed nothing will be taken for a reply: the connection  *)
(* is closed, or no reply is left on a broken one, or the client's counter *)
(* has stopped short of every record still to come.                        *)
CannotResume ==
  \/ conn = "closed"
  \/ ~up /\ \A i \in DOMAIN s2c : ~IsReply(s2c[i])
  \/ /\ srvSend > serverSeqNum
     /\ \A i \in DOMAIN s2c : s2c[i].seq > serverSeqNum

Waits == IF noopFailed THEN CannotResume ELSE WaitsForOne

StreamInv ==
  FinishComesLast /\ BeforeDone /\ BeatsInOrder /\ AnswersInOrder /\ Waits

-----------------------------------------------------------------------------
(* What is settled elsewhere, and which steps change what.                 *)

Settled == TypeOK /\ NonceInv /\ AgreeInv /\ KeyAgreement

LEMMA WhoCounts ==
  ASSUME [Next]_vars
  PROVE  /\ UNCHANGED noops \/ SendNoop
         /\ \/ UNCHANGED noopFailed
            \/ SendNoop \/ ReadNoop
            \/ ReadFails
         /\ UNCHANGED answered \/ \E f \in Faults : ServerAnswersNoop(f)
         /\ \/ UNCHANGED srvSend
            \/ \E f \in Faults, n \in TicketCounts : ServerAnswers(f, n)
            \/ \E f \in Faults : ServerAnswersNoop(f)
            \/ ServerPushes
         /\ UNCHANGED srvState \/ srvState' # "hello"
<1> USE DEF vars, client, network, server, history
<1>1. CASE UNCHANGED vars
  BY <1>1
<1>2. CASE Calls
  <2>1. CASE SendNoop
    BY <2>1 DEF SendNoop
  <2> QED
    BY <1>2, <2>1 DEF Calls, Dial, DialFails, HandshakeAgain, Retry
<1>3. CASE Continues
  <2>1. CASE ReadNoop
    BY <2>1 DEF ReadNoop
  <2>2. CASE ReadFails
    BY <2>2 DEF ReadFails
  <2> QED
    BY <1>3, <2>1, <2>2 DEF Continues, KeyGenFails, SendClientHello,
       ReadServerHello, ReadSignature, ReadNewSessionTicket, ReadServerFinish,
       SendClientFinish
<1>4. CASE Close
  BY <1>4 DEF Close
<1>5. CASE ServerReacts
  <2>1. ASSUME NEW f \in Faults, NEW n \in TicketCounts, ServerAnswers(f, n)
        PROVE  /\ UNCHANGED <<noops, noopFailed, answered>>
               /\ srvState' = "finish"
    BY <2>1, Zenon DEF ServerAnswers
  <2>2. CASE ServerAcceptsFinish
    BY <2>2 DEF ServerAcceptsFinish
  <2>3. ASSUME NEW f \in Faults, ServerAnswersNoop(f)
        PROVE  UNCHANGED <<noops, noopFailed, srvState>>
    BY <2>3, Zenon DEF ServerAnswersNoop
  <2>4. CASE ServerRejects
    BY <2>4 DEF ServerRejects
  <2> QED
    BY <1>5, <2>1, <2>2, <2>3, <2>4 DEF ServerReacts
<1>6. CASE Environment
  <2>1. CASE ServerPushes
    BY <2>1 DEF ServerPushes
  <2>2. CASE LinkBreaks
    BY <2>2 DEF LinkBreaks
  <2> QED
    BY <1>6, <2>1, <2>2 DEF Environment
<1> QED
  BY <1>1, <1>2, <1>3, <1>4, <1>5, <1>6 DEF Next

(* A record the server sends past the handshake: the client is done, the   *)
(* record is under the key both hold, and it joins at the end.             *)
DataSent(kind) ==
  \E id \in Nat, form \in Form :
    LET rec == Seal(session.appKey, srvSend, Msg(kind, id, form), NoKey)
    IN  s2c' = Append(s2c, rec)

LEMMA DataStepShape ==
  ASSUME Settled, NEW kind \in {"NoopResponse", "Push"},
         \/ \E f \in Faults : ServerAnswersNoop(f) /\ kind = "NoopResponse"
         \/ ServerPushes /\ kind = "Push"
  PROVE  /\ status = 1 /\ up
         /\ srvSend' = srvSend + 1
         /\ UNCHANGED <<conn, status, session, serverSeqNum, pc, up, flights,
                        noops, noopFailed>>
         /\ DataSent(kind)
         /\ kind = "Push" => UNCHANGED <<answered, c2s>>
         /\ kind = "NoopResponse" =>
              /\ answered' = answered + 1
              /\ c2s # << >> /\ c2s' = Tail(c2s) /\ Head(c2s).key = session.appKey
<1> USE DEF client, history
<1>1. srvState = "data"
  BY DEF ServerAnswersNoop, GoodNoop, ServerPushes
<1>2. status = 1 /\ ServerAppKey = session.appKey
  BY <1>1 DEF Settled, AgreeInv, DataMeansDone, KeyAgreement
<1>3. ASSUME NEW f \in Faults, ServerAnswersNoop(f), kind = "NoopResponse"
      PROVE  /\ DataSent(kind) /\ up
             /\ c2s # << >> /\ c2s' = Tail(c2s) /\ Head(c2s).key = session.appKey
             /\ srvSend' = srvSend + 1 /\ answered' = answered + 1
             /\ UNCHANGED <<conn, status, session, serverSeqNum, pc, up,
                            flights, noops, noopFailed>>
  <2>1. answered + 1 \in Nat /\ Faulty(f, "noop") \in Form
    BY DEF Settled, TypeOK, Faulty, Form
  <2>2. s2c' = Append(s2c, Seal(session.appKey, srvSend,
                    Msg("NoopResponse", answered + 1, Faulty(f, "noop")), NoKey))
    BY <1>2, <1>3, Zenon DEF ServerAnswersNoop
  <2>3. DataSent(kind)
    BY <1>3, <2>1, <2>2 DEF DataSent
  <2>4. Head(c2s).key = session.appKey
    BY <1>2, <1>3 DEF ServerAnswersNoop, GoodNoop, Opens
  <2> QED
    BY <1>3, <2>3, <2>4, Zenon DEF ServerAnswersNoop
<1>4. ASSUME ServerPushes, kind = "Push"
      PROVE  /\ DataSent(kind) /\ up
             /\ srvSend' = srvSend + 1
             /\ UNCHANGED <<conn, status, session, serverSeqNum, pc, up,
                            flights, noops, noopFailed, answered, c2s>>
  <2>1. pushes + 1 \in Nat /\ "ok" \in Form
    BY DEF Settled, TypeOK, Form
  <2>2. s2c' = Append(s2c, Seal(session.appKey, srvSend,
                               Msg("Push", pushes + 1, "ok"), NoKey))
    BY <1>2, <1>4 DEF ServerPushes
  <2>3. DataSent(kind)
    BY <1>4, <2>1, <2>2 DEF DataSent
  <2> QED
    BY <1>4, <2>3 DEF ServerPushes
<1> QED
  BY <1>2, <1>3, <1>4

LEMMA DataOnlyWhenDone ==
  ASSUME Settled, (\E f \in Faults : ServerAnswersNoop(f)) \/ ServerPushes
  PROVE  status = 1
BY DataStepShape

(* A step before the handshake completes.                                  *)
LEMMA StillUndone ==
  ASSUME Settled, [Next]_vars, status' = 0
  PROVE  status = 0
BY SettledWhenDone DEF Settled, TypeOK

LEMMA ComingType ==
  ASSUME TypeOK, NEW i \in DOMAIN s2c
  PROVE  s2c[i] \in Record /\ s2c[i].seq \in Nat
<1>1. s2c[i] \in Record
  BY Queues
<1> QED
  BY <1>1 DEF Record

-----------------------------------------------------------------------------
(* Each part of StreamInv is kept.                                         *)

LEMMA FinishComesLastStep ==
  Settled /\ StreamInv /\ [Next]_vars => FinishComesLast'
<1> SUFFICES ASSUME Settled, StreamInv, [Next]_vars,
                    status' = 0, flights' # << >>,
                    NEW i \in DOMAIN s2c',
                    s2c'[i].key = FlightKey(LastFlight'), s2c'[i].seq = 3
             PROVE  i = Len(s2c')
  BY DEF FinishComesLast, LastFlight, FlightKey, HandshakeKey, Hellos
<1>1. status = 0 /\ FinishComesLast /\ AgreeInv /\ TypeOK
  BY StillUndone DEF StreamInv, Settled
<1>2. ASSUME NEW f \in Faults, NEW n \in TicketCounts, ServerAnswers(f, n)
      PROVE  i = Len(s2c')
  <2> DEFINE flight == FlightTo(c2s[1].body, Len(flights) + 1, f, n)
             recs   == FlightRecords(flight, f)
  <2>1. /\ s2c' = s2c \o recs
        /\ flights' = Append(flights, flight)
        /\ flight.secret = <<Hello(flight), Len(flights) + 1>>
        /\ flight \in Flight /\ Len(flight.tr) = 4
    BY <1>1, <1>2, NewFlight
  <2> HIDE DEF flight
  <2>2. LastFlight' = flight
    BY <1>1, <2>1, Queues, AfterAppend DEF LastFlight
  <2>3. CASE i \in DOMAIN s2c /\ s2c'[i] = s2c[i]
    <3>1. s2c[i].key.label = "handshake"
      BY <2>3 DEF FlightKey, HandshakeKey, hkdfExpand
    <3>2. PICK j \in DOMAIN flights : s2c[i].key = FlightKey(flights[j])
      BY <1>1, <2>3, <3>1 DEF AgreeInv, Answers, OfFlight
    <3>3. flights[j].secret = flight.secret
      BY <2>2, <2>3, <3>2 DEF FlightKey, HandshakeKey, hkdfExpand
    <3>4. flights[j].secret[2] = j /\ j # Len(flights) + 1
      BY <1>1, FlightTypeOf DEF AgreeInv, FlightsInOrder
    <3> QED
      BY <2>1, <3>3, <3>4
  <2>4. /\ recs \in Seq(Record) /\ Len(recs) = 4
        /\ recs[1].seq = 0 /\ recs[2].seq = 1 /\ recs[3].seq = 2
    <3>1. recs[1] = Plain(flight.tr[2]) /\ \A k \in 2..4 : recs[k].seq = k - 1
      BY FlightRecordShape
    <3>2. recs[1].seq = 0 /\ recs[2].seq = 1 /\ recs[3].seq = 2
      BY <3>1 DEF Plain
    <3>3. recs \in Seq(Record)
      BY <2>1, FlightRecordTypes
    <3>4. Len(recs) = 4
      BY FlightRecordShape
    <3> QED
      BY <3>2, <3>3, <3>4
  <2> HIDE DEF recs
  <2>5. ASSUME i - Len(s2c) \in DOMAIN recs, s2c'[i] = recs[i - Len(s2c)]
        PROVE  i = Len(s2c')
    <3>1. i - Len(s2c) \in 1..4
      BY <2>4, <2>5
    <3>2. i - Len(s2c) = 4
      BY <2>4, <2>5, <3>1
    <3>3. Len(s2c') = Len(s2c) + 4
      <4>1. s2c \in Seq(Record) /\ recs \in Seq(Record)
        BY <1>1, <2>4, Queues
      <4>2. Len(s2c \o recs) = Len(s2c) + Len(recs)
        BY <4>1
      <4> QED
        BY <2>1, <2>4, <4>2
    <3>4. s2c' \in Seq(Record) /\ Len(s2c) \in Nat
      BY <1>1, <2>1, <2>4, Queues
    <3>5. i \in Nat
      BY <3>4
    <3> QED
      BY <3>2, <3>3, <3>4, <3>5
  <2> QED
    BY <1>1, <2>1, <2>3, <2>4, <2>5, Queues, AfterConcat
<1>3. ASSUME UNCHANGED flights PROVE i = Len(s2c')
  <2>1. LastFlight' = LastFlight /\ flights # << >>
    BY <1>3 DEF LastFlight
  <2>2. CASE UNCHANGED s2c
    BY <1>1, <2>1, <2>2 DEF FinishComesLast
  <2>3. CASE s2c # << >> /\ s2c' = Tail(s2c)
    <3>1. /\ i + 1 \in DOMAIN s2c /\ s2c'[i] = s2c[i + 1]
          /\ i \in Nat /\ Len(s2c') = Len(s2c) - 1 /\ Len(s2c) \in Nat
      BY <1>1, <2>3, Queues, AfterTail
    <3>2. i + 1 = Len(s2c)
      BY <1>1, <2>1, <3>1 DEF FinishComesLast
    <3> QED
      BY <3>1, <3>2
  <2>4. CASE LinkBreaks
    <3>1. PICK n \in 0..Len(s2c) : s2c' = SubSeq(s2c, 1, n)
      BY <2>4 DEF LinkBreaks
    <3>2. /\ i \in DOMAIN s2c /\ s2c'[i] = s2c[i]
          /\ i \in 1..n /\ Len(s2c') = n /\ Len(s2c) \in Nat
      BY <1>1, <3>1, Queues, AfterLoss
    <3>3. i = Len(s2c)
      BY <1>1, <2>1, <3>2 DEF FinishComesLast
    <3> QED
      BY <3>2, <3>3
  <2>5. CASE (\E f \in Faults : ServerAnswersNoop(f)) \/ ServerPushes
    BY <1>1, <2>5, DataOnlyWhenDone
  <2> QED
    BY <1>2, <2>2, <2>3, <2>4, <2>5, WhoChanges
<1> QED
  BY <1>2, <1>3, WhoChanges

LEMMA PcStep ==
  ASSUME [Next]_vars
  PROVE  /\ pc' = "sendClientFinish" => UNCHANGED pc \/ ReadServerFinish
         /\ pc' \in HasTrafficKey \cup {"readServerHello"} =>
              \/ pc \in HasTrafficKey \cup {"readServerHello"}
              \/ SendClientHello
         /\ pc' = "readNoop" => UNCHANGED <<pc, noops>> \/ SendNoop
         /\ pc = "readNoop" => UNCHANGED pc \/ ReadNoop \/ ReadFails
<1> USE DEF vars, HasTrafficKey
<1>1. CASE Calls
  <2>1. CASE SendNoop
    BY <2>1 DEF SendNoop, Return
  <2> QED
    BY <1>1, <2>1 DEF Calls, Dial, DialFails, HandshakeAgain, Retry, Return
<1>2. CASE Continues
  <2>1. CASE KeyGenFails \/ SendClientFinish \/ ReadFails \/ ReadNoop
    <3>1. pc' = "idle"
      BY <2>1 DEF KeyGenFails, SendClientFinish, ReadFails, ReadNoop, Return
    <3> QED
      BY <2>1, <3>1 DEF KeyGenFails, SendClientFinish
  <2>2. CASE SendClientHello
    <3>1. pc = "sendClientHello" /\ pc' \in {"idle", "readServerHello"}
      BY <2>2 DEF SendClientHello, Return
    <3> QED
      BY <2>2, <3>1
  <2>3. CASE ReadServerHello
    <3>1. pc = "readServerHello" /\ pc' \in {"idle", "panicked", "readSignature"}
      BY <2>3, Zenon DEF ReadServerHello, Receive, Return
    <3> QED
      BY <3>1
  <2>4. CASE ReadSignature
    <3>1. pc = "readSignature" /\ pc' \in {"idle", "readNewSessionTicket"}
      BY <2>4, Zenon DEF ReadSignature, Receive, Accept, Return
    <3> QED
      BY <3>1
  <2>5. CASE ReadNewSessionTicket
    <3>1. pc = "readNewSessionTicket" /\ pc' \in {"idle", "readServerFinish"}
      BY <2>5, Zenon DEF ReadNewSessionTicket, Receive, Accept, Return
    <3> QED
      BY <3>1
  <2>6. CASE ReadServerFinish
    <3>1. pc = "readServerFinish" /\ pc' \in {"idle", "sendClientFinish"}
      BY <2>6, Zenon DEF ReadServerFinish, Receive, Return
    <3> QED
      BY <2>6, <3>1
  <2> QED
    BY <1>2, <2>1, <2>2, <2>3, <2>4, <2>5, <2>6 DEF Continues
<1>3. CASE Close \/ ServerReacts \/ Environment \/ UNCHANGED vars
  BY <1>3, OtherSteps DEF history
<1> QED
  BY <1>1, <1>2, <1>3 DEF Next

LEMMA BeforeDoneStep ==
  Settled /\ StreamInv /\ [Next]_vars => BeforeDone'
<1> SUFFICES ASSUME Settled, StreamInv, [Next]_vars PROVE BeforeDone'
  OBVIOUS
<1>1. BeforeDone /\ FinishComesLast /\ AgreeInv /\ NonceInv /\ TypeOK
  BY DEF StreamInv, Settled
<1>2. ASSUME status' = 0
      PROVE  noops' = 0 /\ answered' = 0 /\ ~noopFailed'
  <2>1. status = 0 /\ pc # "readNoop"
    BY <1>1, <1>2, StillUndone DEF NonceInv, StatusAndPc
  <2>2. ~SendNoop /\ ~ReadNoop /\ ~\E f \in Faults : ServerAnswersNoop(f)
    BY <2>1, DataOnlyWhenDone DEF SendNoop, ReadNoop, Receive
  <2>3. ~noopFailed'
    <3>1. CASE UNCHANGED noopFailed
      BY <1>1, <2>1, <3>1 DEF BeforeDone
    <3>2. CASE ReadFails
      <4>1. noopFailed' = (noopFailed \/ pc = "readNoop")
        BY <3>2 DEF ReadFails
      <4> QED
        BY <1>1, <2>1, <4>1 DEF BeforeDone
    <3> QED
      BY <2>2, <3>1, <3>2, WhoCounts
  <2> QED
    BY <1>1, <2>1, <2>2, <2>3, WhoCounts DEF BeforeDone
<1>3. ASSUME status' = 0, NEW i \in DOMAIN s2c'
      PROVE  ~IsData(s2c'[i])
  <2>1. status = 0 /\ \A k \in DOMAIN s2c : ~IsData(s2c[k])
    BY <1>1, <1>3, StillUndone DEF BeforeDone
  <2>2. CASE UNCHANGED s2c
    BY <1>3, <2>1, <2>2
  <2>3. CASE s2c # << >> /\ s2c' = Tail(s2c)
    BY <1>1, <1>3, <2>1, <2>3, Queues, AfterTail
  <2>4. ASSUME NEW f \in Faults, NEW n \in TicketCounts, ServerAnswers(f, n)
        PROVE  ~IsData(s2c'[i])
    <3> DEFINE flight == FlightTo(c2s[1].body, Len(flights) + 1, f, n)
               recs   == FlightRecords(flight, f)
    <3>1. /\ s2c' = s2c \o recs
          /\ flight \in Flight /\ Len(flight.tr) = 4
      BY <1>1, <2>4, NewFlight
    <3> HIDE DEF flight
    <3>2. recs \in Seq(Record) /\ \A m \in DOMAIN recs : ~IsData(recs[m])
      <4>1. DOMAIN recs = 1..4
        BY DEF FlightRecords
      <4>2. /\ recs[1] = Plain(flight.tr[2])
            /\ \A m \in 2..4 : recs[m].key = FlightKey(flight)
        BY FlightRecordShape
      <4>3. ~IsData(recs[1])
        BY <4>2 DEF IsData, Plain, NoKey, hkdfExpand
      <4>4. \A m \in 2..4 : ~IsData(recs[m])
        BY <4>2 DEF IsData, FlightKey, HandshakeKey, hkdfExpand
      <4>5. recs \in Seq(Record)
        BY <3>1, FlightRecordTypes
      <4> QED
        BY <4>1, <4>3, <4>4, <4>5
    <3> HIDE DEF recs
    <3> QED
      BY <1>1, <1>3, <2>1, <3>1, <3>2, Queues, AfterConcat
  <2>5. CASE LinkBreaks
    <3>1. PICK n \in 0..Len(s2c) : s2c' = SubSeq(s2c, 1, n)
      BY <2>5 DEF LinkBreaks
    <3> QED
      BY <1>1, <1>3, <2>1, <3>1, Queues, AfterLoss
  <2>6. CASE (\E f \in Faults : ServerAnswersNoop(f)) \/ ServerPushes
    BY <2>1, <2>6, DataOnlyWhenDone
  <2> QED
    BY <2>2, <2>3, <2>4, <2>5, <2>6, WhoChanges
<1>4. ASSUME pc' = "sendClientFinish" PROVE s2c' = << >>
  <2>1. CASE pc = "sendClientFinish"
    <3>1. status = 0 /\ c2s = << >> /\ s2c = << >>
      BY <1>1, <2>1, NoHelloLeft
      DEF NonceInv, StatusAndPc, Handshaking, BeforeDone
    <3>2. ASSUME NEW f \in Faults, NEW n \in TicketCounts, ServerAnswers(f, n)
          PROVE  FALSE
      BY <3>1, <3>2 DEF ServerAnswers
    <3>3. CASE LinkBreaks
      BY <3>1, <3>3 DEF LinkBreaks
    <3> QED
      BY <3>1, <3>2, <3>3, WhoChanges, DataOnlyWhenDone
  <2>2. CASE ReadServerFinish
    <3>1. /\ pc = "readServerFinish" /\ s2c # << >> /\ s2c' = Tail(s2c)
          /\ Head(s2c).key = trafficKey /\ Head(s2c).seq = serverSeqNum
      BY <1>4, <2>2, Zenon DEF ReadServerFinish, Receive, Consume, Return,
         FinishUnparsed, Decrypts, Opens
    <3>2. status = 0 /\ serverSeqNum = 3
      BY <1>1, <3>1 DEF NonceInv, StatusAndPc, Handshaking, AgreeInv, Progress
    <3>3. PICK j \in DOMAIN flights : trafficKey = FlightKey(flights[j])
      BY <1>1, <3>1 DEF AgreeInv, Progress
    <3>4. flights # << >> /\ trafficKey = FlightKey(LastFlight)
      BY <1>1, <3>1, <3>3, LastReached DEF LastFlight, HasTrafficKey
    <3>5. 1 \in DOMAIN s2c /\ s2c[1] = Head(s2c)
      BY <1>1, <3>1, Queues, AfterTail
    <3>6. Len(s2c) = 1
      BY <1>1, <3>1, <3>2, <3>4, <3>5 DEF FinishComesLast
    <3> QED
      BY <1>1, <3>1, <3>6, Queues
  <2> QED
    BY <1>4, <2>1, <2>2, PcStep
<1>5. ASSUME srvState' = "finish", status' = 0 PROVE srvSend' = 4
  <2>1. CASE \E f \in Faults, n \in TicketCounts : ServerAnswers(f, n)
    BY <2>1 DEF ServerAnswers
  <2>2. CASE ServerAcceptsFinish
    BY <1>5, <2>2 DEF ServerAcceptsFinish
  <2>3. status = 0
    BY <1>5, StillUndone
  <2>4. CASE UNCHANGED srvState /\ UNCHANGED srvSend
    BY <1>1, <1>5, <2>3, <2>4 DEF BeforeDone
  <2> QED
    BY <2>1, <2>2, <2>3, <2>4, WhoChanges, WhoCounts, DataOnlyWhenDone
<1>6. ASSUME srvState' = "hello" PROVE \A j \in DOMAIN flights' : Hello(flights'[j]) = 0
  <2>1. ~\E f \in Faults, n \in TicketCounts : ServerAnswers(f, n)
    BY <1>6 DEF ServerAnswers
  <2>2. UNCHANGED <<srvState, flights>>
    BY <1>6, <2>1, WhoChanges, WhoCounts
  <2> QED
    BY <1>1, <1>6, <2>2 DEF BeforeDone, Hello
<1>7. ASSUME pc' \in HasTrafficKey \cup {"readServerHello"} PROVE attempt' > 0
  <2>1. attempt \in Nat
    BY <1>1 DEF TypeOK
  <2>2. CASE SendClientHello
    BY <2>1, <2>2 DEF SendClientHello
  <2>3. CASE pc \in HasTrafficKey \cup {"readServerHello"} /\ UNCHANGED attempt
    BY <1>1, <2>3 DEF BeforeDone
  <2> QED
    BY <1>7, <2>2, <2>3, PcStep, WhoChanges
<1> QED
  BY <1>2, <1>3, <1>4, <1>5, <1>6, <1>7 DEF BeforeDone, IsData, Hello,
     HasTrafficKey

LEMMA BeatsInOrderStep ==
  Settled /\ StreamInv /\ [Next]_vars => BeatsInOrder'
<1> SUFFICES ASSUME Settled, StreamInv, [Next]_vars PROVE BeatsInOrder'
  OBVIOUS
<1>1. BeatsInOrder /\ NonceInv /\ AgreeInv /\ TypeOK
  BY DEF StreamInv, Settled
<1>2. /\ answered \in Nat /\ noops \in Nat
      /\ \A i \in DOMAIN c2s : c2s[i].body.id \in Nat
  BY <1>1, SentType DEF TypeOK
<1>3. CASE UNCHANGED <<noops, answered, c2s>>
  BY <1>1, <1>3 DEF BeatsInOrder
<1>4. CASE UNCHANGED <<noops, answered>> /\ c2s' = << >>
  BY <1>1, <1>4 DEF BeatsInOrder
<1>5. CASE UNCHANGED <<noops, answered>> /\ c2s # << >> /\ c2s' = Tail(c2s)
  <2>1. /\ \A i \in DOMAIN c2s' : i + 1 \in DOMAIN c2s /\ c2s'[i] = c2s[i + 1]
        /\ \A i, k \in DOMAIN c2s' : i < k => i + 1 < k + 1
    BY <1>1, <1>5, Queues, AfterTail
  <2> QED
    BY <1>1, <1>5, <2>1 DEF BeatsInOrder
<1>6. ASSUME NEW rec, ~IsData(rec), c2s' = Append(c2s, rec),
             UNCHANGED <<noops, answered>>
      PROVE  BeatsInOrder'
  <2>1. /\ DOMAIN c2s' = DOMAIN c2s \cup {Len(c2s) + 1}
        /\ \A i \in DOMAIN c2s : c2s'[i] = c2s[i]
        /\ c2s'[Len(c2s) + 1] = rec
    BY <1>1, <1>6, Queues, AfterAppend
  <2> QED
    BY <1>1, <1>6, <2>1 DEF BeatsInOrder
<1>7. CASE SendClientHello
  <2>1. ~IsData(Plain(newHello))
    BY DEF IsData, Plain, NoKey, hkdfExpand
  <2>2. /\ UNCHANGED <<noops, answered>>
        /\ UNCHANGED c2s \/ c2s' = Append(c2s, Plain(newHello))
    BY <1>7 DEF SendClientHello, Deliver, network, server
  <2> QED
    BY <1>3, <1>6, <2>1, <2>2
<1>8. CASE SendClientFinish
  <2>1. trafficKey.label = "handshake"
    BY <1>1, <1>8 DEF SendClientFinish, NonceInv, TrafficKeyFresh, HasTrafficKey
  <2>2. ~IsData(clientFinish)
    BY <2>1 DEF IsData, clientFinish, Seal
  <2>3. /\ UNCHANGED <<noops, answered>>
        /\ UNCHANGED c2s \/ c2s' = Append(c2s, clientFinish)
    BY <1>8 DEF SendClientFinish, Deliver, network, server
  <2> QED
    BY <1>3, <1>6, <2>2, <2>3
<1>9. CASE SendNoop
  <2>1. /\ noops' = noops + 1 /\ UNCHANGED answered
        /\ UNCHANGED c2s \/ c2s' = Append(c2s, noopRequest)
    BY <1>9 DEF SendNoop, Deliver, network, server
  <2>2. \A i \in DOMAIN c2s :
          IsData(c2s[i]) => /\ c2s[i].body.id <= noops + 1
                            /\ c2s[i].body.id < noops + 1
    BY <1>1, <1>2 DEF BeatsInOrder
  <2>3. answered <= noops + 1 /\ answered < noops + 1 /\ noops + 1 <= noops + 1
    BY <1>1, <1>2 DEF BeatsInOrder
  <2>4. CASE UNCHANGED c2s
    BY <1>1, <2>1, <2>2, <2>3, <2>4 DEF BeatsInOrder
  <2>5. CASE c2s' = Append(c2s, noopRequest)
    <3>1. noopRequest.body.id = noops + 1
      BY DEF noopRequest, Seal, Msg
    <3>2. /\ DOMAIN c2s' = DOMAIN c2s \cup {Len(c2s) + 1}
          /\ \A i \in DOMAIN c2s : c2s'[i] = c2s[i] /\ ~(Len(c2s) + 1 < i)
          /\ c2s'[Len(c2s) + 1] = noopRequest
          /\ ~(Len(c2s) + 1 < Len(c2s) + 1)
      BY <1>1, <2>5, Queues, AfterAppend
    <3>3. \A i \in DOMAIN c2s' :
            IsData(c2s'[i]) => answered' < c2s'[i].body.id
                               /\ c2s'[i].body.id <= noops'
      BY <1>1, <2>1, <2>2, <2>3, <3>1, <3>2 DEF BeatsInOrder
    <3>4. \A i, k \in DOMAIN c2s' :
            IsData(c2s'[i]) /\ IsData(c2s'[k]) /\ i < k
              => c2s'[i].body.id < c2s'[k].body.id
      BY <1>1, <2>2, <3>1, <3>2 DEF BeatsInOrder
    <3> QED
      BY <2>1, <2>3, <3>3, <3>4 DEF BeatsInOrder, IsData
  <2> QED
    BY <2>1, <2>4, <2>5
<1>10. CASE \E f \in Faults : ServerAnswersNoop(f)
  <2>1. /\ answered' = answered + 1 /\ UNCHANGED noops
        /\ c2s # << >> /\ c2s' = Tail(c2s) /\ Head(c2s).key = session.appKey
        /\ status = 1
    BY <1>10, DataStepShape
  <2>2. /\ 1 \in DOMAIN c2s /\ Head(c2s) = c2s[1]
        /\ \A i \in DOMAIN c2s' : /\ i + 1 \in DOMAIN c2s /\ 1 < i + 1
                                  /\ c2s'[i] = c2s[i + 1]
        /\ \A i, k \in DOMAIN c2s' : i < k => i + 1 < k + 1
    BY <1>1, <2>1, Queues, AfterTail
  <2>3. IsData(c2s[1])
    BY <1>1, <2>1, <2>2 DEF IsData, NonceInv, AppKeyFresh
  <2>4. answered + 1 <= c2s[1].body.id /\ answered + 1 <= noops
    BY <1>1, <1>2, <2>2, <2>3 DEF BeatsInOrder
  <2>5. \A i \in DOMAIN c2s' :
          IsData(c2s'[i]) => /\ answered + 1 < c2s'[i].body.id
                             /\ c2s'[i].body.id <= noops
    <3> TAKE i \in DOMAIN c2s'
    <3> HAVE IsData(c2s'[i])
    <3>1. c2s[1].body.id < c2s[i + 1].body.id /\ c2s[i + 1].body.id <= noops
      BY <1>1, <2>2, <2>3 DEF BeatsInOrder
    <3> QED
      BY <1>2, <2>2, <2>4, <3>1
  <2>6. \A i, k \in DOMAIN c2s' :
          IsData(c2s'[i]) /\ IsData(c2s'[k]) /\ i < k
            => c2s'[i].body.id < c2s'[k].body.id
    BY <1>1, <2>2 DEF BeatsInOrder
  <2> QED
    BY <2>1, <2>4, <2>5, <2>6 DEF BeatsInOrder, IsData
<1>11. CASE /\ ~SendClientHello /\ ~SendClientFinish /\ ~SendNoop
            /\ ~\E f \in Faults : ServerAnswersNoop(f)
  BY <1>3, <1>4, <1>5, <1>11, WhoChanges, WhoCounts
<1> QED
  BY <1>7, <1>8, <1>9, <1>10, <1>11

LEMMA AnswersInOrderStep ==
  Settled /\ StreamInv /\ [Next]_vars => AnswersInOrder'
<1> SUFFICES ASSUME Settled, StreamInv, [Next]_vars, status' = 1
             PROVE  /\ \A i \in DOMAIN s2c' : /\ s2c'[i].key = session'.appKey
                                              /\ s2c'[i].seq < srvSend'
                    /\ \A i, k \in DOMAIN s2c' : i < k => s2c'[i].seq < s2c'[k].seq
  BY DEF AnswersInOrder
<1>1. AnswersInOrder /\ BeforeDone /\ AgreeInv /\ TypeOK
  BY DEF StreamInv, Settled
<1>2. CASE status = 0
  <2>1. SendClientFinish
    BY <1>2, WhoChanges
  <2>2. s2c' = << >>
    BY <1>1, <2>1 DEF SendClientFinish, BeforeDone, Deliver, network
  <2> QED
    BY <2>2
<1>3. CASE status = 1
  <2>1. UNCHANGED session /\ AnswersInOrder
    BY <1>1, <1>3, SettledWhenDone DEF Settled
  <2>2. \A i \in DOMAIN s2c : s2c[i].seq \in Nat
    BY <1>1, ComingType
  <2>3. ~\E f \in Faults, n \in TicketCounts : ServerAnswers(f, n)
    BY <1>1, <1>3, NewFlight
  <2>4. ASSUME NEW kind, DataSent(kind), srvSend' = srvSend + 1
        PROVE  /\ \A i \in DOMAIN s2c' : /\ s2c'[i].key = session'.appKey
                                         /\ s2c'[i].seq < srvSend'
               /\ \A i, k \in DOMAIN s2c' : i < k => s2c'[i].seq < s2c'[k].seq
    <3>1. PICK rec : /\ s2c' = Append(s2c, rec)
                     /\ rec.key = session.appKey /\ rec.seq = srvSend
      BY <2>4 DEF DataSent, Seal
    <3>2. /\ DOMAIN s2c' = DOMAIN s2c \cup {Len(s2c) + 1}
          /\ \A i \in DOMAIN s2c : s2c'[i] = s2c[i] /\ ~(Len(s2c) + 1 < i)
          /\ s2c'[Len(s2c) + 1] = rec
          /\ ~(Len(s2c) + 1 < Len(s2c) + 1)
      BY <1>1, <3>1, Queues, AfterAppend
    <3>3. srvSend \in Nat /\ \A i \in DOMAIN s2c : s2c[i].seq < srvSend + 1
      BY <1>1, <1>3, <2>1, <2>2 DEF AnswersInOrder, TypeOK
    <3>4. \A i \in DOMAIN s2c' : /\ s2c'[i].key = session'.appKey
                                 /\ s2c'[i].seq < srvSend'
      BY <1>3, <2>1, <2>4, <3>1, <3>2, <3>3 DEF AnswersInOrder
    <3>5. \A i, k \in DOMAIN s2c' : i < k => s2c'[i].seq < s2c'[k].seq
      BY <1>3, <2>1, <3>1, <3>2 DEF AnswersInOrder
    <3> QED
      BY <3>4, <3>5
  <2>5. CASE \E f \in Faults : ServerAnswersNoop(f)
    BY <2>4, <2>5, DataStepShape
  <2>6. CASE ServerPushes
    BY <2>4, <2>6, DataStepShape
  <2>7. CASE UNCHANGED <<s2c, srvSend>>
    BY <1>3, <2>1, <2>7 DEF AnswersInOrder
  <2>8. CASE s2c # << >> /\ s2c' = Tail(s2c) /\ UNCHANGED srvSend
    <3>1. /\ \A i \in DOMAIN s2c' : i + 1 \in DOMAIN s2c /\ s2c'[i] = s2c[i + 1]
          /\ \A i, k \in DOMAIN s2c' : i < k => i + 1 < k + 1
      BY <1>1, <2>8, Queues, AfterTail
    <3> QED
      BY <1>3, <2>1, <2>8, <3>1 DEF AnswersInOrder
  <2>9. CASE LinkBreaks /\ UNCHANGED srvSend
    <3>1. PICK n \in 0..Len(s2c) : s2c' = SubSeq(s2c, 1, n)
      BY <2>9 DEF LinkBreaks
    <3>2. \A i \in DOMAIN s2c' : i \in DOMAIN s2c /\ s2c'[i] = s2c[i]
      BY <1>1, <3>1, Queues, AfterLoss
    <3> QED
      BY <1>3, <2>1, <2>9, <3>2 DEF AnswersInOrder
  <2> QED
    BY <2>3, <2>5, <2>6, <2>7, <2>8, <2>9, WhoChanges, WhoCounts
<1> QED
  BY <1>1, <1>2, <1>3 DEF TypeOK

(* The steps there are once the handshake is complete.                     *)
LEMMA StepsWhenDone ==
  ASSUME Settled, [Next]_vars, status = 1
  PROVE  \/ HandshakeAgain \/ SendNoop \/ ReadNoop \/ ReadFails \/ Close
         \/ ServerAcceptsFinish \/ ServerRejects \/ LinkBreaks \/ ServerPushes
         \/ \E f \in Faults : ServerAnswersNoop(f)
         \/ UNCHANGED vars
<1>1. pc \notin Handshaking /\ conn # "none"
  BY DEF Settled, NonceInv, StatusAndPc
<1>2. ~\E f \in Faults, n \in TicketCounts : ServerAnswers(f, n)
  BY NewFlight DEF Settled
<1>3. CASE Calls
  BY <1>1, <1>3 DEF Calls, Dial, DialFails, Retry
<1>4. CASE Continues
  BY <1>1, <1>4 DEF Continues, KeyGenFails, SendClientHello, ReadServerHello,
     ReadSignature, ReadNewSessionTicket, ReadServerFinish, SendClientFinish,
     Receive, Handshaking
<1> QED
  BY <1>2, <1>3, <1>4 DEF Next, ServerReacts, Environment

(* The handshake ends with the server's counter where the client's is, or  *)
(* past it.                                                                *)
LEMMA CountersMeet ==
  ASSUME Settled, StreamInv, pc = "sendClientFinish"
  PROVE  /\ srvSend = 4 /\ serverSeqNum \in {3, 4} /\ s2c = << >>
         /\ srvState = "finish" /\ status = 0
<1>1. PICK j \in DOMAIN flights : trafficKey = FlightKey(flights[j])
  BY DEF Settled, AgreeInv, Progress
<1>2. Hello(flights[j]) = attempt /\ attempt > 0 /\ attempt \in Nat
  BY <1>1, LastReached DEF Settled, HasTrafficKey, StreamInv, BeforeDone, TypeOK
<1>3. status = 0
  BY DEF Settled, NonceInv, StatusAndPc, Handshaking
<1>4. srvState = "finish"
  <2>1. srvState # "hello"
    BY <1>2 DEF StreamInv, BeforeDone
  <2>2. srvState # "data"
    BY <1>3 DEF Settled, AgreeInv, DataMeansDone
  <2> QED
    BY <2>1, <2>2 DEF Settled, TypeOK
<1> QED
  BY <1>3, <1>4 DEF Settled, AgreeInv, Progress, StreamInv, BeforeDone

(* A record the caller of Noop takes for the answer: no Noop has failed,   *)
(* it is the one reply on its way, and it answers the last Noop.           *)
LEMMA AcceptedReply ==
  ASSUME Settled, StreamInv, ReadNoop,
         Decrypts(Head(s2c), session.appKey), Parses(Head(s2c), "NoopResponse")
  PROVE  /\ ~noopFailed /\ answered = noops
         /\ 1 \in DOMAIN s2c /\ Head(s2c) = s2c[1]
         /\ IsReply(s2c[1]) /\ s2c[1].seq = serverSeqNum
<1>1. pc = "readNoop" /\ conn = "open" /\ s2c # << >> /\ status = 1
  BY DEF ReadNoop, Receive, Settled, NonceInv, StatusAndPc
<1>2. 1 \in DOMAIN s2c /\ Head(s2c) = s2c[1]
  BY <1>1, Queues, AfterTail DEF Settled
<1>3. IsReply(s2c[1]) /\ s2c[1].seq = serverSeqNum
  BY <1>1, <1>2 DEF Decrypts, Opens, Parses, IsReply, IsData, Settled, NonceInv,
     AppKeyFresh
<1>4. ASSUME noopFailed PROVE FALSE
  <2>1. CannotResume
    BY <1>4 DEF StreamInv, Waits
  <2>2. ~(s2c[1].seq > serverSeqNum)
    BY <1>2, <1>3, ComingType DEF Settled
  <2> QED
    BY <1>1, <1>2, <1>3, <2>1, <2>2 DEF CannotResume
<1> QED
  BY <1>2, <1>3, <1>4 DEF StreamInv, Waits, WaitsForOne

(* A Noop that fails on reading a record, good for nothing: what is left   *)
(* is numbered past the client's counter.                                  *)
LEMMA FailedRead ==
  ASSUME Settled, StreamInv, status = 1, ~noopFailed, s2c # << >>,
         s2c' = Tail(s2c), UNCHANGED <<serverSeqNum, srvSend>>
  PROVE  CannotResume'
<1>1. TypeOK /\ WaitsForOne /\ AnswersInOrder
  BY DEF Settled, StreamInv, Waits
<1>2. serverSeqNum \in Nat /\ srvSend \in Nat
  BY <1>1 DEF TypeOK
<1>3. /\ 1 \in DOMAIN s2c
      /\ \A i \in DOMAIN s2c' : /\ i + 1 \in DOMAIN s2c /\ 1 < i + 1
                                /\ s2c'[i] = s2c[i + 1]
  BY <1>1, Queues, AfterTail
<1>4. /\ s2c[1].seq \in Nat
      /\ s2c[1].seq >= serverSeqNum
      /\ s2c[1].seq < srvSend
  BY <1>1, <1>3, ComingType DEF WaitsForOne, AnswersInOrder
<1>5. \A i \in DOMAIN s2c' : s2c'[i].seq > serverSeqNum
  <2> TAKE i \in DOMAIN s2c'
  <2>1. s2c[i + 1].seq \in Nat /\ s2c[1].seq < s2c[i + 1].seq
    BY <1>1, <1>3, ComingType DEF AnswersInOrder
  <2> QED
    BY <1>2, <1>3, <1>4, <2>1
<1>6. srvSend > serverSeqNum
  BY <1>2, <1>4
<1> QED
  BY <1>5, <1>6 DEF CannotResume

LEMMA WaitsStep ==
  Settled /\ Settled' /\ StreamInv /\ BeforeDone' /\ [Next]_vars => Waits'
<1> SUFFICES ASSUME Settled, Settled', StreamInv, BeforeDone', [Next]_vars
             PROVE  Waits'
  OBVIOUS
<1> USE DEF vars, client, network, server, history
<1>1. TypeOK /\ TypeOK' /\ Waits /\ AnswersInOrder
  BY DEF Settled, StreamInv
<1>2. /\ serverSeqNum \in Nat /\ srvSend \in Nat
      /\ noops \in Nat /\ answered \in Nat
      /\ \A i \in DOMAIN s2c : s2c[i].seq \in Nat
  BY <1>1, ComingType DEF TypeOK
<1>3. CASE status' = 0
  <2>1. noops' = 0 /\ answered' = 0 /\ ~noopFailed'
        /\ \A i \in DOMAIN s2c' : ~IsReply(s2c'[i])
    BY <1>3 DEF BeforeDone, IsReply, IsData
  <2>2. pc' # "readNoop"
    BY <1>3 DEF Settled, NonceInv, StatusAndPc
  <2> QED
    BY <1>3, <2>1, <2>2 DEF Waits, WaitsForOne, IsReply, IsData
<1>4. CASE status = 0 /\ status' = 1
  <2>1. SendClientFinish
    BY <1>4, WhoChanges
  <2>2. pc' = "idle" /\ s2c' = s2c /\ UNCHANGED <<noops, answered, noopFailed>>
        /\ UNCHANGED <<serverSeqNum, srvSend>> /\ pc = "sendClientFinish"
    BY <2>1 DEF SendClientFinish, Return, Deliver
  <2>3. srvSend >= serverSeqNum /\ s2c = << >>
    BY <2>2, CountersMeet
  <2>4. noops = 0 /\ answered = 0 /\ ~noopFailed
    BY <1>4 DEF StreamInv, BeforeDone
  <2> QED
    BY <2>2, <2>3, <2>4 DEF Waits, WaitsForOne
<1>5. CASE status = 1
  <2>1. pc # "readNoop" /\ ~noopFailed => \A i \in DOMAIN s2c : ~IsReply(s2c[i])
    BY <1>1 DEF Waits, WaitsForOne
  <2>2. status' = 1
    BY <1>5, SettledWhenDone DEF Settled
  <2>3. CASE HandshakeAgain \/ Close \/ ServerAcceptsFinish \/ UNCHANGED vars
    <3>1. /\ UNCHANGED <<status, up, s2c, srvSend, serverSeqNum, noops,
                         answered, noopFailed>>
          /\ conn = "closed" => conn' = "closed"
          /\ pc' = "readNoop" <=> pc = "readNoop"
      BY <2>3 DEF HandshakeAgain, Close, ServerAcceptsFinish, Return
    <3> QED
      BY <1>1, <3>1 DEF Waits, WaitsForOne, CannotResume, IsReply, IsData
  <2>4. CASE SendNoop
    <3>1. /\ pc = "idle" /\ noops' = noops + 1
          /\ UNCHANGED <<conn, status, up, s2c, srvSend, serverSeqNum, answered>>
      BY <2>4 DEF SendNoop, Deliver
    <3>2. CASE noopFailed
      <4>1. noopFailed'
        BY <2>4, <3>2 DEF SendNoop
      <4> QED
        BY <1>1, <3>1, <3>2, <4>1 DEF Waits, CannotResume, IsReply, IsData
    <3>3. CASE ~noopFailed /\ pc' = "readNoop" /\ UNCHANGED noopFailed
      <4>1. answered = noops
        BY <1>1, <3>1, <3>3 DEF Waits, WaitsForOne
      <4>2. noops' <= answered' + 1
        BY <1>2, <3>1, <4>1
      <4> QED
        BY <1>1, <2>1, <3>1, <3>3, <4>2 DEF Waits, WaitsForOne, IsReply, IsData
    <3>4. CASE ~noopFailed /\ WriteFails /\ noopFailed' = TRUE
      BY <2>1, <3>1, <3>4 DEF Waits, CannotResume, WriteFails, IsReply, IsData
    <3> QED
      BY <2>4, <3>2, <3>3, <3>4 DEF SendNoop
  <2>5. CASE ReadNoop
    <3> DEFINE good == /\ Decrypts(Head(s2c), session.appKey)
                       /\ Parses(Head(s2c), "NoopResponse")
    <3>1. /\ conn = "open" /\ s2c # << >> /\ s2c' = Tail(s2c) /\ pc' = "idle"
          /\ UNCHANGED <<conn, status, up, srvSend, noops, answered>>
          /\ serverSeqNum' = NoopSeq(good)
          /\ good => UNCHANGED noopFailed
          /\ ~good => noopFailed' = TRUE
      BY <2>5 DEF ReadNoop, Receive, Consume, Return
    <3>2. /\ 1 \in DOMAIN s2c
          /\ \A i \in DOMAIN s2c' : /\ i + 1 \in DOMAIN s2c /\ 1 < i + 1
                                    /\ i \in Nat
                                    /\ s2c'[i] = s2c[i + 1]
      BY <1>1, <3>1, Queues, AfterTail
    <3>3. CASE good
      <4>1. /\ ~noopFailed /\ answered = noops
            /\ IsReply(s2c[1]) /\ s2c[1].seq = serverSeqNum
        BY <2>5, <3>3, AcceptedReply
      <4>2. serverSeqNum' = serverSeqNum + 1
        BY <3>1, <3>3 DEF NoopSeq, NextServerSeq
      <4>3. srvSend >= serverSeqNum + 1
        BY <1>1, <1>2, <1>5, <3>2, <4>1 DEF AnswersInOrder
      <4>4. \A i \in DOMAIN s2c' : s2c'[i].seq >= serverSeqNum + 1
        <5> TAKE i \in DOMAIN s2c'
        <5>1. s2c[1].seq < s2c[i + 1].seq /\ s2c[i + 1].seq \in Nat
          BY <1>1, <1>2, <1>5, <3>2 DEF AnswersInOrder
        <5> QED
          BY <1>2, <3>2, <4>1, <5>1
      <4>5. \A i \in DOMAIN s2c' : ~IsReply(s2c'[i])
        <5> SUFFICES ASSUME NEW i \in DOMAIN s2c', IsReply(s2c[i + 1])
                     PROVE  FALSE
          BY <3>2
        <5>1. i + 1 = 1
          BY <1>1, <3>2, <4>1 DEF Waits, WaitsForOne
        <5> QED
          BY <3>2, <5>1
      <4>6. ~noopFailed' /\ answered' = noops'
        BY <3>1, <3>3, <4>1
      <4>7. srvSend' >= serverSeqNum'
            /\ \A i \in DOMAIN s2c' : s2c'[i].seq >= serverSeqNum'
        BY <3>1, <4>2, <4>3, <4>4
      <4> HIDE DEF good
      <4> QED
        BY <3>1, <4>5, <4>6, <4>7 DEF Waits, WaitsForOne, IsReply, IsData
    <3>4. CASE ~good
      <4>1. UNCHANGED serverSeqNum /\ noopFailed'
        BY <3>1, <3>4 DEF NoopSeq
      <4>2. CASE ~noopFailed
        BY <1>5, <3>1, <4>1, <4>2, FailedRead DEF Waits
      <4>3. CASE noopFailed
        BY <1>1, <3>1, <3>2, <4>1, <4>3
        DEF Waits, CannotResume, IsReply, IsData
      <4> QED
        BY <4>2, <4>3
    <3> QED
      BY <3>3, <3>4
  <2>6. CASE ReadFails
    <3>1. /\ pc' = "idle" /\ (conn = "closed" \/ (s2c = << >> /\ ~up))
          /\ UNCHANGED <<conn, status, up, s2c, srvSend, serverSeqNum, noops,
                         answered>>
          /\ pc = "readNoop" \/ noopFailed => noopFailed'
          /\ pc # "readNoop" => UNCHANGED noopFailed
      <4>1. noopFailed' = (noopFailed \/ pc = "readNoop")
        BY <2>6 DEF ReadFails
      <4>2. pc # "readNoop" => UNCHANGED noopFailed
        BY <1>1, <4>1 DEF TypeOK
      <4> QED
        BY <2>6, <4>1, <4>2 DEF ReadFails, Return
    <3>2. CASE noopFailed'
      BY <3>1, <3>2 DEF Waits, CannotResume
    <3>3. CASE ~noopFailed'
      BY <1>1, <2>1, <3>1, <3>3 DEF Waits, WaitsForOne, IsReply, IsData
    <3> QED
      BY <3>2, <3>3
  <2>7. CASE ServerRejects \/ LinkBreaks
    <3>1. /\ up /\ ~up'
          /\ UNCHANGED <<conn, pc, status, srvSend, serverSeqNum, noops,
                         answered, noopFailed>>
          /\ UNCHANGED s2c \/ \E n \in 0..Len(s2c) : s2c' = SubSeq(s2c, 1, n)
      BY <2>7, Zenon DEF ServerRejects, LinkBreaks
    <3>2. \A i \in DOMAIN s2c' : i \in DOMAIN s2c /\ s2c'[i] = s2c[i]
      BY <1>1, <3>1, Queues, AfterLoss
    <3>3. CASE noopFailed
      BY <1>1, <3>1, <3>2, <3>3 DEF Waits, CannotResume, IsReply, IsData
    <3>4. CASE ~noopFailed
      BY <1>1, <3>1, <3>2, <3>4 DEF Waits, WaitsForOne, IsReply, IsData
    <3> QED
      BY <3>3, <3>4
  <2>8. ASSUME NEW kind \in {"NoopResponse", "Push"},
               \/ \E f \in Faults : ServerAnswersNoop(f) /\ kind = "NoopResponse"
               \/ ServerPushes /\ kind = "Push"
        PROVE  Waits'
    <3>1. /\ up /\ srvSend' = srvSend + 1
          /\ UNCHANGED <<conn, status, session, serverSeqNum, pc, up, noops,
                         noopFailed>>
          /\ DataSent(kind)
          /\ kind = "Push" => UNCHANGED answered
          /\ kind = "NoopResponse" => answered' = answered + 1
      BY <2>8, DataStepShape
    <3>2. PICK rec : /\ s2c' = Append(s2c, rec)
                     /\ rec.seq = srvSend
                     /\ IsReply(rec) => kind = "NoopResponse"
      BY <3>1 DEF DataSent, Seal, IsReply, Msg
    <3>3. /\ DOMAIN s2c' = DOMAIN s2c \cup {Len(s2c) + 1}
          /\ \A i \in DOMAIN s2c : s2c'[i] = s2c[i]
          /\ s2c'[Len(s2c) + 1] = rec
      BY <1>1, <3>2, Queues, AfterAppend
    <3>4. CASE noopFailed
      <4>1. conn = "closed" \/ (/\ srvSend > serverSeqNum
                                /\ \A i \in DOMAIN s2c : s2c[i].seq > serverSeqNum)
        BY <1>1, <3>1, <3>4 DEF Waits, CannotResume
      <4>2. srvSend > serverSeqNum => srvSend + 1 > serverSeqNum
        BY <1>2
      <4> QED
        BY <3>1, <3>2, <3>3, <3>4, <4>1, <4>2 DEF Waits, CannotResume
    <3>5. CASE ~noopFailed
      <4>1. WaitsForOne
        BY <1>1, <3>5 DEF Waits
      <4>2. /\ srvSend' >= serverSeqNum'
            /\ \A i \in DOMAIN s2c' : s2c'[i].seq >= serverSeqNum'
        BY <1>2, <1>5, <3>1, <3>2, <3>3, <4>1 DEF WaitsForOne
      <4>3. CASE kind = "Push"
        <5>1. ~IsReply(rec)
          BY <3>2, <4>3
        <5> QED
          BY <3>1, <3>2, <3>3, <3>5, <4>1, <4>2, <4>3, <5>1
          DEF Waits, WaitsForOne, IsReply, IsData
      <4>4. CASE kind = "NoopResponse"
        <5>1. answered' <= noops'
          <6>1. BeatsInOrder'
            BY BeatsInOrderStep
          <6> QED
            BY <6>1 DEF BeatsInOrder
        <5>2. pc = "readNoop" /\ answered' = noops
          BY <1>2, <3>1, <4>1, <4>4, <5>1 DEF WaitsForOne
        <5>3. \A i \in DOMAIN s2c : ~IsReply(s2c[i])
          BY <1>2, <3>1, <4>1, <4>4, <5>2 DEF WaitsForOne
        <5>4. noops' <= answered' + 1
          BY <1>2, <3>1, <5>2
        <5> QED
          BY <3>1, <3>2, <3>3, <3>5, <4>2, <5>2, <5>3, <5>4
          DEF Waits, WaitsForOne, IsReply, IsData
      <4> QED
        BY <4>3, <4>4
    <3> QED
      BY <3>4, <3>5
  <2>9. CASE \E f \in Faults : ServerAnswersNoop(f)
    BY <2>8, <2>9
  <2>10. CASE ServerPushes
    BY <2>8, <2>10
  <2> QED
    BY <1>5, <2>3, <2>4, <2>5, <2>6, <2>7, <2>9, <2>10, StepsWhenDone
<1> QED
  BY <1>1, <1>3, <1>4, <1>5 DEF TypeOK

-----------------------------------------------------------------------------
(* The theorems about Noop.                                                *)

LEMMA StreamInit == Init => StreamInv
<1> SUFFICES ASSUME Init PROVE StreamInv
  OBVIOUS
<1>1. \A j \in DOMAIN flights : Hello(flights[j]) = 0
  <2>1. CASE flights = << >>
    BY <2>1
  <2>2. ASSUME NEW n \in TicketCounts, flights = <<priorFlight(n)>>
        PROVE  \A j \in DOMAIN flights : Hello(flights[j]) = 0
    <3>1. DOMAIN flights = {1} /\ flights[1] = priorFlight(n)
      BY <2>2
    <3>2. priorFlight(n).tr[1] = Msg("ClientHello", 0, "ok")
      BY FlightShape DEF priorFlight
    <3> QED
      BY <3>1, <3>2 DEF Hello, Msg
  <2> QED
    BY <2>1, <2>2 DEF Init
<1>2. /\ c2s = << >> /\ s2c = << >> /\ pc = "idle" /\ srvState = "hello"
      /\ status = 0 /\ noops = 0 /\ answered = 0 /\ noopFailed = FALSE
  BY DEF Init
<1> QED
  BY <1>1, <1>2 DEF StreamInv, FinishComesLast, BeforeDone, BeatsInOrder,
     AnswersInOrder, Waits, WaitsForOne, HasTrafficKey

LEMMA StreamInvariant == Spec => [](Settled /\ StreamInv)
<1>1. Spec => []Settled
  BY Invariants, KeysAgree, PTL DEF Settled
<1>2. Settled /\ Settled' /\ StreamInv /\ [Next]_vars => StreamInv'
  BY FinishComesLastStep, BeforeDoneStep, BeatsInOrderStep, AnswersInOrderStep,
     WaitsStep DEF StreamInv
<1> QED
  BY <1>1, <1>2, StreamInit, PTL DEF Spec

LEMMA SucceedsOnReply ==
  ASSUME Settled, StreamInv, [Next]_vars, NoopSucceeds
  PROVE  ~noopFailed /\ answered = noops
<1>1. pc = "readNoop" /\ pc' = "idle" /\ res' = "ok"
  BY DEF NoopSucceeds
<1>2. ~ReadFails
  BY <1>1 DEF ReadFails, Return
<1>3. ReadNoop
  BY <1>1, <1>2, PcStep
<1>4. Decrypts(Head(s2c), session.appKey) /\ Parses(Head(s2c), "NoopResponse")
  BY <1>1, <1>3 DEF ReadNoop, Return
<1> QED
  BY <1>3, <1>4, AcceptedReply

(* Noop returns nil only when the server has answered every Noop so far,   *)
(* this one included.                                                      *)
THEOREM NoopsAnswered == Spec => NoopAnswered
<1>1. Settled /\ StreamInv /\ [Next]_vars
        => [NoopSucceeds => answered = noops]_vars
  BY SucceedsOnReply
<1> QED
  BY <1>1, StreamInvariant, PTL DEF Spec, NoopAnswered

(* After one Noop has failed none succeeds, whatever the server sends.     *)
THEOREM FailsForGood == Spec => FailStop
<1>1. Settled /\ StreamInv /\ [Next]_vars => [NoopSucceeds => ~noopFailed]_vars
  BY SucceedsOnReply
<1> QED
  BY <1>1, StreamInvariant, PTL DEF Spec, FailStop

-----------------------------------------------------------------------------
(***************************************************************************)
(* The long link implements SecureLink: a step of it is a step of          *)
(* SecureLink or leaves the variables of SecureLink, as the substitution   *)
(* of LongLink gives them, as they are.                                    *)
(***************************************************************************)

(* The substitution of the INSTANCE, named: the keys the server has        *)
(* offered and the key agreed on.                                          *)
Offered == [i \in DOMAIN flights |-> AppKey(flights[i].secret, flights[i].tr)]
Agreed  == IF status = 1 THEN session.appKey ELSE NoKey

LEMMA SameNoKey == Link!NoKey = NoKey
BY DEF Link!NoKey, Link!hkdfExpand, Link!NoSecret, NoKey, hkdfExpand, NoSecret

LEMMA SameKey == Link!Key = Key
BY DEF Link!Key, Link!Label, Link!Secret, Link!Transcript, Link!Message,
   Link!Kind, Link!Form, Key, Label, Secret, Transcript, Message, Kind, Form

OfferedOK ==
  /\ Offered \in Seq(Key)
  /\ Len(Offered) = Len(flights)
  /\ flights # << >> => Offered[Len(Offered)] = ServerAppKey

LEMMA OfferedType == TypeOK => OfferedOK
<1> SUFFICES ASSUME TypeOK PROVE OfferedOK
  OBVIOUS
<1>1. flights \in Seq(Flight) /\ Len(flights) \in Nat
  BY Queues
<1>2. \A i \in DOMAIN flights :
        AppKey(flights[i].secret, flights[i].tr) \in Key
  <2> TAKE i \in DOMAIN flights
  <2>1. flights[i].secret \in Secret /\ flights[i].tr \in Transcript
    BY FlightTypeOf DEF Flight
  <2> QED
    BY <2>1, NamedKeys
<1>3. DOMAIN flights = 1..Len(flights)
  BY <1>1
<1>4. Offered \in Seq(Key) /\ Len(Offered) = Len(flights)
  BY <1>1, <1>2, <1>3 DEF Offered
<1> QED
  BY <1>1, <1>3, <1>4 DEF OfferedOK, Offered, ServerAppKey, LastFlight

LEMMA OfferedTypeNext == TypeOK' => OfferedOK'
BY OfferedType, PTL

LEMMA LinkInit == Init => Link!Init
<1> SUFFICES ASSUME Init PROVE Link!Init
  OBVIOUS
<1>1. Offered \in Seq(Key)
  BY InitType, OfferedType DEF OfferedOK
<1>2. Agreed = NoKey /\ noops = 0 /\ answered = 0 /\ res = "none"
  BY DEF Init, Agreed
<1>3. (pc = "readNoop") = FALSE /\ noopFailed = FALSE
  BY DEF Init
<1> QED
  BY <1>1, <1>2, <1>3, SameKey, SameNoKey DEF Link!Init, Offered, Agreed

(* Agreed is NoKey exactly until the handshake is complete.                *)
LEMMA AgreedWhenDone ==
  ASSUME Settled
  PROVE  /\ status = 0 => Agreed = NoKey
         /\ status = 1 => Agreed = session.appKey /\ Agreed # NoKey
<1>1. status = 1 => session.appKey.label = "application"
  BY DEF Settled, NonceInv, AppKeyFresh
<1>2. NoKey.label = "none"
  BY DEF NoKey, hkdfExpand
<1> QED
  BY <1>1, <1>2 DEF Agreed

(* A step on which a handshake returns an error, and one that SecureLink   *)
(* does not see.                                                           *)
LEMMA HandshakeFailsStep ==
  ASSUME Settled, status = 0, res' = "err", pc # "readNoop", pc' # "readNoop",
         UNCHANGED <<flights, status, noops, answered, noopFailed>>
  PROVE  Link!HandshakeFails
<1>1. Agreed = NoKey /\ Agreed' = NoKey /\ Offered' = Offered
  BY AgreedWhenDone DEF Agreed, Offered
<1>2. (pc = "readNoop")' = (pc = "readNoop")
  OBVIOUS
<1> QED
  BY <1>1, <1>2, SameNoKey DEF Link!HandshakeFails, Agreed, Offered

LEMMA StutterStep ==
  ASSUME UNCHANGED <<flights, status, noops, answered, noopFailed, res>>,
         status = 0 \/ UNCHANGED session.appKey,
         pc' = "readNoop" <=> pc = "readNoop"
  PROVE  UNCHANGED Link!vars
<1>1. Agreed' = Agreed /\ Offered' = Offered
  BY DEF Agreed, Offered
<1>2. (pc = "readNoop")' = (pc = "readNoop")
  OBVIOUS
<1>3. UNCHANGED <<Offered, Agreed, noops, answered, (pc = "readNoop"),
                  noopFailed, res>>
  BY <1>1, <1>2
<1> QED
  BY <1>3 DEF Link!vars, Agreed, Offered

LEMMA OfferStep ==
  ASSUME Settled, Settled', NEW f \in Faults, NEW n \in TicketCounts,
         ServerAnswers(f, n)
  PROVE  Link!Offer
<1> DEFINE flight == FlightTo(c2s[1].body, Len(flights) + 1, f, n)
<1>1. status = 0 /\ flights' = Append(flights, flight)
  BY NewFlight DEF Settled
<1> HIDE DEF flight
<1>2. UNCHANGED <<status, session, noops, answered, noopFailed, res, pc>>
  BY Zenon DEF ServerAnswers, client, history
<1>3. Agreed = NoKey /\ Agreed' = Agreed
  BY <1>1, <1>2, AgreedWhenDone DEF Agreed
<1>4. Offered = SubSeq(Offered', 1, Len(Offered') - 1) /\ Offered' # << >>
  <2>1. flights \in Seq(Flight) /\ flights' \in Seq(Flight)
        /\ Len(flights') = Len(flights) + 1
        /\ \A i \in 1..Len(flights) : flights'[i] = flights[i]
    BY <1>1, Queues, AfterAppend DEF Settled, TypeOK
  <2>2. /\ Offered \in Seq(Key) /\ Offered' \in Seq(Key)
        /\ Len(Offered) = Len(flights) /\ Len(Offered') = Len(flights')
    BY OfferedType, OfferedTypeNext DEF Settled, OfferedOK
  <2>3. \A i \in 1..Len(flights) : Offered'[i] = Offered[i]
    BY <2>1 DEF Offered
  <2> HIDE DEF Offered
  <2> QED
    BY <2>1, <2>2, <2>3
<1>5. (pc = "readNoop")' = (pc = "readNoop")
  BY <1>2
<1> QED
  BY <1>2, <1>3, <1>4, <1>5, SameNoKey DEF Link!Offer, Agreed, Offered

LEMMA AgreeStep ==
  ASSUME Settled, Settled', [Next]_vars, SendClientFinish
  PROVE  Link!Agree \/ Link!HandshakeFails
<1>1. /\ pc = "sendClientFinish" /\ pc' = "idle" /\ status = 0
      /\ UNCHANGED <<flights, noops, answered, noopFailed>>
  BY DEF SendClientFinish, Return, server, Settled, NonceInv, StatusAndPc,
     Handshaking
<1>2. CASE res' = "err" /\ UNCHANGED status
  BY <1>1, <1>2, HandshakeFailsStep
<1>3. CASE status' = 1 /\ res' = "ok"
  <2>1. flights # << >> /\ Agreed' = ServerAppKey
    BY <1>1, <1>3 DEF Settled, KeyAgreement, Agreed, ServerAppKey, LastFlight
  <2>2. Offered # << >> /\ Agreed' = Offered[Len(Offered)] /\ Offered' = Offered
    BY <1>1, <2>1, OfferedType, Queues DEF Settled, OfferedOK, Offered
  <2>3. Agreed = NoKey
    BY <1>1, AgreedWhenDone
  <2>4. (pc = "readNoop")' = (pc = "readNoop")
    BY <1>1
  <2> QED
    BY <1>1, <1>3, <2>2, <2>3, <2>4, SameNoKey DEF Link!Agree, Agreed, Offered
<1> QED
  BY <1>2, <1>3 DEF SendClientFinish, Return

LEMMA BeatStep ==
  ASSUME Settled, SendNoop
  PROVE  Link!Beat \/ Link!BeatUnsent
<1>1. /\ pc = "idle" /\ status = 1 /\ noops' = noops + 1
      /\ UNCHANGED <<flights, status, session, answered>>
  BY DEF SendNoop, server
<1>2. Agreed # NoKey /\ Agreed' = Agreed /\ Offered' = Offered
  BY <1>1, AgreedWhenDone DEF Agreed, Offered
<1>3. (pc = "readNoop") = FALSE
  BY <1>1
<1>4. CASE pc' = "readNoop" /\ UNCHANGED <<res, noopFailed>>
  <2>1. (pc = "readNoop")' = TRUE
    BY <1>4
  <2> QED
    BY <1>1, <1>2, <1>3, <1>4, <2>1, SameNoKey DEF Link!Beat, Agreed, Offered
<1>5. CASE pc' = "idle" /\ res' = "err" /\ noopFailed' = TRUE
  <2>1. (pc = "readNoop")' = (pc = "readNoop")
    BY <1>1, <1>5
  <2> QED
    BY <1>1, <1>2, <1>3, <1>5, <2>1, SameNoKey
    DEF Link!BeatUnsent, Agreed, Offered
<1> QED
  BY <1>4, <1>5 DEF SendNoop, Return

LEMMA ReplyStep ==
  ASSUME Settled, StreamInv, StreamInv', [Next]_vars,
         NEW f \in Faults, ServerAnswersNoop(f)
  PROVE  Link!Reply
<1>1. /\ answered' = answered + 1
      /\ UNCHANGED <<status, session, flights, noops, noopFailed, pc>>
  BY DataStepShape
<1>2. UNCHANGED res
  BY DEF ServerAnswersNoop
<1>3. answered < noops
  <2>1. answered + 1 <= noops
    BY <1>1 DEF StreamInv, BeatsInOrder
  <2> QED
    BY <2>1 DEF Settled, TypeOK
<1>4. Agreed' = Agreed /\ Offered' = Offered
  BY <1>1 DEF Agreed, Offered
<1>5. (pc = "readNoop")' = (pc = "readNoop")
  BY <1>1
<1> QED
  BY <1>1, <1>2, <1>3, <1>4, <1>5 DEF Link!Reply, Agreed, Offered

(* The end of a Noop: ReadNoop, or a read that fails in it.                *)
LEMMA BeatEnds ==
  ASSUME Settled, StreamInv, ReadNoop \/ (ReadFails /\ pc = "readNoop")
  PROVE  Link!BeatSucceeds \/ Link!BeatFails
<1>1. /\ pc = "readNoop" /\ pc' = "idle"
      /\ UNCHANGED <<flights, status, session, noops, answered>>
  BY DEF ReadNoop, ReadFails, Receive, Return, client, server
<1>2. Agreed' = Agreed /\ Offered' = Offered
  BY <1>1 DEF Agreed, Offered
<1>3. (pc = "readNoop") = TRUE /\ (pc = "readNoop")' = FALSE
  BY <1>1
<1>4. CASE res' = "err" /\ noopFailed' = TRUE
  BY <1>1, <1>2, <1>3, <1>4 DEF Link!BeatFails, Agreed, Offered
<1>5. ASSUME ReadNoop, Decrypts(Head(s2c), session.appKey),
             Parses(Head(s2c), "NoopResponse"), res' = "ok",
             UNCHANGED noopFailed
      PROVE  Link!BeatSucceeds
  <2>1. ~noopFailed /\ answered = noops
    BY <1>5, AcceptedReply
  <2> QED
    BY <1>1, <1>2, <1>3, <1>5, <2>1 DEF Link!BeatSucceeds, Agreed, Offered
<1>6. CASE ReadFails
  <2>1. noopFailed' = (noopFailed \/ pc = "readNoop") /\ res' = "err"
    BY <1>6 DEF ReadFails, Return
  <2>2. noopFailed' = TRUE
    BY <1>1, <2>1
  <2> QED
    BY <1>4, <2>1, <2>2
<1>7. CASE ReadNoop
  BY <1>4, <1>5, <1>7 DEF ReadNoop, Return
<1> QED
  BY <1>6, <1>7

(* A step of the handshake either fails it or goes unseen.                 *)
LEMMA HandshakeStepSeen ==
  ASSUME Settled, [Next]_vars,
         \/ KeyGenFails \/ SendClientHello \/ ReadServerHello \/ ReadSignature
         \/ ReadNewSessionTicket \/ ReadServerFinish
         \/ ReadFails /\ pc # "readNoop"
  PROVE  Link!HandshakeFails \/ UNCHANGED Link!vars
<1>1. /\ pc \in Handshaking
      /\ UNCHANGED <<flights, status, noops, answered>>
      /\ pc' # "readNoop"
      /\ UNCHANGED res \/ res' = "err"
  <2> USE DEF Handshaking, server, client, history
  <2>1. CASE KeyGenFails
    BY <2>1 DEF KeyGenFails, Return
  <2>2. CASE SendClientHello
    BY <2>2 DEF SendClientHello, Return
  <2>3. CASE ReadServerHello
    BY <2>3, Zenon DEF ReadServerHello, Receive, Return
  <2>4. CASE ReadSignature
    BY <2>4, Zenon DEF ReadSignature, Receive, Accept, Return
  <2>5. CASE ReadNewSessionTicket
    BY <2>5, Zenon DEF ReadNewSessionTicket, Receive, Accept, Return
  <2>6. CASE ReadServerFinish
    BY <2>6, Zenon DEF ReadServerFinish, Receive, Return
  <2>7. CASE ReadFails /\ pc # "readNoop"
    BY <2>7 DEF ReadFails, Return, Reading
  <2> QED
    BY <2>1, <2>2, <2>3, <2>4, <2>5, <2>6, <2>7
<1>2. status = 0 /\ pc # "readNoop"
  BY <1>1 DEF Settled, NonceInv, StatusAndPc, Handshaking
<1>3. UNCHANGED noopFailed
  <2>1. CASE ReadFails
    <3>1. noopFailed' = (noopFailed \/ pc = "readNoop")
      BY <2>1 DEF ReadFails
    <3> QED
      BY <1>2, <3>1 DEF Settled, TypeOK
  <2>2. ~SendNoop /\ ~ReadNoop
    BY <1>2 DEF SendNoop, ReadNoop, Receive
  <2> QED
    BY <2>1, <2>2, WhoCounts
<1>4. CASE UNCHANGED res
  BY <1>1, <1>2, <1>3, <1>4, StutterStep
<1>5. CASE res' = "err"
  BY <1>1, <1>2, <1>3, <1>5, HandshakeFailsStep
<1> QED
  BY <1>1, <1>4, <1>5

LEMMA CallsSeen ==
  ASSUME Settled, [Next]_vars, Calls
  PROVE  [Link!Next]_Link!vars
<1> USE DEF client, server, history
<1>1. CASE Dial \/ Retry
  <2>1. pc' # "readNoop" /\ pc # "readNoop"
        /\ UNCHANGED <<flights, status, session, noops, answered, noopFailed, res>>
    BY <1>1 DEF Dial, Retry
  <2> QED
    BY <2>1, StutterStep
<1>2. CASE DialFails
  <2>1. /\ pc' # "readNoop" /\ pc # "readNoop" /\ res' = "err" /\ status = 0
        /\ UNCHANGED <<flights, status, noops, answered, noopFailed>>
    BY <1>2 DEF DialFails, Return, Settled, NonceInv, StatusAndPc
  <2> QED
    BY <2>1, HandshakeFailsStep DEF Link!Next
<1>3. CASE HandshakeAgain
  <2>1. /\ pc' = "idle" /\ pc = "idle" /\ res' = "ok" /\ status = 1
        /\ UNCHANGED <<flights, status, session, noops, answered, noopFailed>>
    BY <1>3 DEF HandshakeAgain, Return
  <2>2. Agreed # NoKey /\ Agreed' = Agreed /\ Offered' = Offered
    BY <2>1, AgreedWhenDone DEF Agreed, Offered
  <2>3. (pc = "readNoop") = FALSE /\ (pc = "readNoop")' = (pc = "readNoop")
    BY <2>1
  <2>4. Link!HandshakeAgain
    BY <2>1, <2>2, <2>3, SameNoKey DEF Link!HandshakeAgain, Agreed, Offered
  <2> QED
    BY <2>4 DEF Link!Next
<1>4. CASE SendNoop
  BY <1>4, BeatStep DEF Link!Next
<1> QED
  BY <1>1, <1>2, <1>3, <1>4 DEF Calls

LEMMA ServerSeen ==
  ASSUME Settled, Settled', StreamInv, StreamInv', [Next]_vars,
         ServerReacts \/ Environment \/ Close
  PROVE  [Link!Next]_Link!vars
<1>1. ASSUME NEW f \in Faults, NEW n \in TicketCounts, ServerAnswers(f, n)
      PROVE  Link!Next
  BY <1>1, OfferStep DEF Link!Next
<1>2. ASSUME NEW f \in Faults, ServerAnswersNoop(f) PROVE Link!Next
  BY <1>2, ReplyStep DEF Link!Next
<1>3. CASE ServerAcceptsFinish \/ ServerRejects \/ ServerPushes \/ LinkBreaks
           \/ Close
  <2>1. UNCHANGED <<flights, status, session, noops, answered, noopFailed, res,
                    pc>>
    BY <1>3, Zenon DEF ServerAcceptsFinish, ServerRejects, ServerPushes,
       LinkBreaks, Close, client, server, history
  <2> QED
    BY <2>1, StutterStep
<1> QED
  BY <1>1, <1>2, <1>3 DEF ServerReacts, Environment

(* Every step of the long link is a step of SecureLink, or leaves its      *)
(* variables as they are: the faults of the server, retries on a used      *)
(* connection, Close and broken links included.                            *)
THEOREM Implements == Spec => ImplementsSecureLink
<1>1. Settled /\ Settled' /\ StreamInv /\ StreamInv' /\ [Next]_vars
        => [Link!Next]_Link!vars
  <2> SUFFICES ASSUME Settled, Settled', StreamInv, StreamInv', [Next]_vars
               PROVE  [Link!Next]_Link!vars
    OBVIOUS
  <2>1. CASE UNCHANGED vars
    <3>1. UNCHANGED <<flights, status, session, noops, answered, noopFailed,
                      res, pc>>
      BY <2>1 DEF vars, client, server, history
    <3> QED
      BY <3>1, StutterStep
  <2>2. CASE SendClientFinish
    BY <2>2, AgreeStep DEF Link!Next
  <2>3. CASE ReadNoop \/ (ReadFails /\ pc = "readNoop")
    BY <2>3, BeatEnds DEF Link!Next
  <2>4. CASE Continues
    BY <2>2, <2>3, <2>4, HandshakeStepSeen DEF Continues, Link!Next
  <2> QED
    BY <2>1, <2>4, CallsSeen, ServerSeen DEF Next
<1> QED
  BY <1>1, LinkInit, StreamInvariant, PTL DEF Spec, ImplementsSecureLink,
     Link!Spec

-----------------------------------------------------------------------------
(* The sequence numbers: once a handshake has completed the two ends count *)
(* records alike (ClientCounts, ServerCounts), provided that no finish     *)
(* message failed to parse (FinishesParse), and while the server makes no  *)
(* mistake the client refuses nothing (CleanHandshake, CleanData).         *)

(* What the client has sent and the server not yet taken is numbered from  *)
(* the server's counter on; the finish message comes first, the rest is    *)
(* under the application key.                                              *)
ClientQueue ==
  /\ \A i \in DOMAIN c2s : c2s[i].seq = srvRecv + (i - 1)
  /\ conn = "open" => clientSeqNum = srvRecv + Len(c2s)
  /\ srvState = "finish" => c2s # << >> /\ GoodFinish(c2s[1])
  /\ \A i \in DOMAIN c2s :
       srvState = "data" \/ i # 1 => c2s[i].key = ServerAppKey

ClientCounts ==
  /\ pc \in HasTrafficKey \cup {"readServerHello"} => clientSeqNum = 1
  /\ srvState = "finish" /\ status = 0 => srvRecv = 1
  /\ status = 1 => srvState # "hello"
  /\ status = 1 /\ up => ClientQueue

LEMMA WhoTakes ==
  ASSUME Settled, [Next]_vars
  PROVE  /\ \/ UNCHANGED srvRecv
            \/ \E f \in Faults, n \in TicketCounts : ServerAnswers(f, n)
            \/ ServerAcceptsFinish
            \/ \E f \in Faults : ServerAnswersNoop(f)
         /\ up' => up \/ status = 0
<1> USE DEF vars, client, network, server, history
<1>1. CASE UNCHANGED vars
  BY <1>1
<1>2. CASE Calls
  <2>1. CASE Dial
    BY <2>1 DEF Dial, Settled, NonceInv, StatusAndPc
  <2>2. CASE SendNoop
    BY <2>2 DEF SendNoop, Deliver
  <2> QED
    BY <1>2, <2>1, <2>2 DEF Calls, DialFails, HandshakeAgain, Retry
<1>3. CASE Continues
  <2>1. UNCHANGED <<srvRecv, up>>
    BY <1>3 DEF Continues, KeyGenFails, SendClientHello, ReadServerHello,
       ReadSignature, ReadNewSessionTicket, ReadServerFinish, SendClientFinish,
       ReadFails, ReadNoop, Deliver, Consume
  <2> QED
    BY <2>1
<1>4. CASE Close
  BY <1>4 DEF Close
<1>5. CASE ServerReacts
  <2>1. ASSUME NEW f \in Faults, NEW n \in TicketCounts, ServerAnswers(f, n)
        PROVE  UNCHANGED up
    BY <2>1, Zenon DEF ServerAnswers
  <2>2. CASE ServerAcceptsFinish
    BY <2>2 DEF ServerAcceptsFinish
  <2>3. ASSUME NEW f \in Faults, ServerAnswersNoop(f) PROVE UNCHANGED up
    BY <2>3, Zenon DEF ServerAnswersNoop
  <2>4. CASE ServerRejects
    BY <2>4 DEF ServerRejects
  <2> QED
    BY <1>5, <2>1, <2>2, <2>3, <2>4 DEF ServerReacts
<1>6. CASE Environment
  BY <1>6 DEF Environment, ServerPushes, LinkBreaks
<1> QED
  BY <1>1, <1>2, <1>3, <1>4, <1>5, <1>6 DEF Next

LEMMA ClientSeqStep ==
  ASSUME [Next]_vars, pc' \in HasTrafficKey \cup {"readServerHello"}
  PROVE  \/ pc \in HasTrafficKey \cup {"readServerHello"} /\ UNCHANGED clientSeqNum
         \/ clientSeqNum' = 1
<1> USE DEF vars, client, HasTrafficKey
<1>1. CASE Calls
  BY <1>1 DEF Calls, Dial, DialFails, HandshakeAgain, Retry, SendNoop, Return
<1>2. CASE Continues
  <2>1. CASE KeyGenFails \/ SendClientFinish \/ ReadFails \/ ReadNoop
    BY <2>1 DEF KeyGenFails, SendClientFinish, ReadFails, ReadNoop, Return
  <2>2. CASE SendClientHello
    BY <2>2 DEF SendClientHello
  <2>3. CASE ReadServerHello
    BY <2>3, Zenon DEF ReadServerHello, Receive
  <2>4. CASE ReadSignature
    BY <2>4, Zenon DEF ReadSignature, Receive
  <2>5. CASE ReadNewSessionTicket
    BY <2>5, Zenon DEF ReadNewSessionTicket, Receive
  <2>6. CASE ReadServerFinish
    BY <2>6, Zenon DEF ReadServerFinish, Receive
  <2> QED
    BY <1>2, <2>1, <2>2, <2>3, <2>4, <2>5, <2>6 DEF Continues
<1>3. CASE Close \/ ServerReacts \/ Environment \/ UNCHANGED vars
  BY <1>3, OtherSteps
<1> QED
  BY <1>1, <1>2, <1>3 DEF Next

LEMMA ClientCountsStep ==
  Settled /\ Settled' /\ StreamInv /\ ClientCounts /\ [Next]_vars
    => ClientCounts'
<1> SUFFICES ASSUME Settled, Settled', StreamInv, ClientCounts, [Next]_vars
             PROVE  ClientCounts'
  OBVIOUS
<1> USE DEF vars, client, network, server, history
<1>1. TypeOK /\ TypeOK' /\ srvRecv \in Nat /\ clientSeqNum \in Nat
  BY DEF Settled, TypeOK
<1>2. pc' \in HasTrafficKey \cup {"readServerHello"} => clientSeqNum' = 1
  BY ClientSeqStep DEF ClientCounts
<1>3. srvState' = "finish" /\ status' = 0 => srvRecv' = 1
  <2> SUFFICES ASSUME srvState' = "finish", status' = 0 PROVE srvRecv' = 1
    OBVIOUS
  <2>1. CASE \E f \in Faults, n \in TicketCounts : ServerAnswers(f, n)
    BY <2>1 DEF ServerAnswers
  <2>2. CASE ServerAcceptsFinish
    BY <2>2 DEF ServerAcceptsFinish
  <2>3. status = 0
    BY StillUndone
  <2>4. CASE UNCHANGED <<srvState, srvRecv>>
    BY <2>3, <2>4 DEF ClientCounts
  <2> QED
    BY <2>1, <2>2, <2>3, <2>4, WhoChanges, WhoTakes, DataOnlyWhenDone
<1>4. ASSUME status = 0, status' = 1
      PROVE  srvState' # "hello" /\ (up' => ClientQueue')
  <2>1. SendClientFinish
    BY <1>4, WhoChanges
  <2>2. /\ pc = "sendClientFinish" /\ conn = "open"
        /\ clientSeqNum' = clientSeqNum + 1
        /\ up' => c2s' = Append(c2s, clientFinish)
        /\ UNCHANGED <<srvState, srvRecv, flights, up>>
    BY <1>4, <2>1 DEF SendClientFinish, Encrypt, NextClientSeq, Deliver,
       WriteWorks
  <2>3. /\ c2s = << >> /\ srvState = "finish"
        /\ srvRecv = 1 /\ clientSeqNum = 1
    BY <2>2, NoHelloLeft, CountersMeet DEF Settled, ClientCounts, HasTrafficKey
  <2>4. PICK j \in DOMAIN flights : /\ trafficKey = FlightKey(flights[j])
                                    /\ transcript = flights[j].tr
    BY <2>2 DEF Settled, AgreeInv, Progress
  <2>5. /\ trafficKey = FlightKey(LastFlight)
        /\ trafficKey.secret = LastFlight.secret
        /\ transcript = LastFlight.tr
    BY <2>2, <2>4, LastReached DEF Settled, HasTrafficKey, LastFlight,
       FlightKey, HandshakeKey, hkdfExpand
  <2>6. /\ clientFinish.key = ServerHandshakeKey
        /\ clientFinish.seq = 1
        /\ clientFinish.tag = ClientFinished(LastFlight.secret, LastFlight.tr)
    BY <2>3, <2>5 DEF clientFinish, Seal, ServerHandshakeKey
  <2>7. ASSUME up' PROVE ClientQueue'
    <3>1. c2s' = <<clientFinish>>
      BY <2>2, <2>3, <2>7
    <3>2. DOMAIN c2s' = {1} /\ c2s'[1] = clientFinish /\ Len(c2s') = 1
      BY <3>1
    <3>3. LastFlight' = LastFlight /\ ServerHandshakeKey' = ServerHandshakeKey
      BY <2>2 DEF LastFlight, ServerHandshakeKey, FlightKey, Hellos, HandshakeKey
    <3>4. GoodFinish(c2s[1])'
      BY <2>2, <2>3, <2>6, <3>2, <3>3 DEF GoodFinish, Opens
    <3> QED
      BY <2>2, <2>3, <2>6, <3>2, <3>4, <3>1 DEF ClientQueue
  <2> QED
    BY <2>2, <2>3, <2>7
<1>5. ASSUME status = 1 PROVE srvState' # "hello"
  BY <1>5, WhoCounts DEF ClientCounts
<1>6. ASSUME status = 1, up' PROVE ClientQueue'
  <2>1. up /\ ClientQueue /\ UNCHANGED <<flights, session>>
    <3>1. up
      <4>1. up \/ status = 0
        BY <1>6, WhoTakes, Zenon
      <4> QED
        BY <1>6, <4>1
    <3>2. ClientQueue
      BY <1>6, <3>1 DEF ClientCounts
    <3> QED
      BY <1>6, <3>1, <3>2, SettledWhenDone DEF Settled
  <2>2. LastFlight' = LastFlight /\ ServerHandshakeKey' = ServerHandshakeKey
        /\ ServerAppKey' = ServerAppKey /\ session.appKey = ServerAppKey
    BY <1>6, <2>1 DEF LastFlight, ServerHandshakeKey, FlightKey, Hellos,
       HandshakeKey, ServerAppKey, Settled, KeyAgreement
  <2>3. ASSUME UNCHANGED <<c2s, srvRecv, srvState>>,
               conn' = "open" => UNCHANGED <<conn, clientSeqNum>>
        PROVE  ClientQueue'
    BY <2>1, <2>2, <2>3 DEF ClientQueue, GoodFinish, Opens
  <2>4. CASE HandshakeAgain \/ ReadNoop \/ ReadFails \/ Close \/ ServerPushes
             \/ UNCHANGED vars
    BY <2>3, <2>4 DEF HandshakeAgain, ReadNoop, ReadFails, Close, ServerPushes,
       Consume
  <2>5. CASE SendNoop
    <3>1. UNCHANGED <<conn, srvRecv, srvState>>
          /\ clientSeqNum' = clientSeqNum + 1
      BY <2>5 DEF SendNoop, Encrypt, NextClientSeq
    <3>2. CASE conn = "open"
      <4>1. c2s' = Append(c2s, noopRequest)
        BY <1>6, <2>1, <2>5, <3>2 DEF SendNoop, Deliver, WriteFails
      <4>2. /\ DOMAIN c2s' = DOMAIN c2s \cup {Len(c2s) + 1}
            /\ Len(c2s') = Len(c2s) + 1 /\ Len(c2s) \in Nat
            /\ \A i \in DOMAIN c2s : c2s'[i] = c2s[i]
            /\ c2s'[Len(c2s) + 1] = noopRequest
            /\ c2s # << >> => 1 \in DOMAIN c2s
            /\ c2s' # << >>
        <5>1. c2s \in Seq(Record)
          BY <1>1, Queues
        <5>2. Len(c2s) \in Nat /\ (c2s # << >> => 1 \in DOMAIN c2s)
          BY <5>1
        <5> QED
          BY <4>1, <5>1, <5>2, AfterAppend
      <4>3. noopRequest.seq = srvRecv + Len(c2s)
            /\ noopRequest.key = ServerAppKey
        BY <2>1, <2>2, <3>2 DEF ClientQueue, noopRequest, Seal
      <4>4. \A i \in DOMAIN c2s' : c2s'[i].seq = srvRecv' + (i - 1)
        <5>1. srvRecv + Len(c2s) = srvRecv + ((Len(c2s) + 1) - 1)
          BY <1>1, <4>2
        <5> QED
          BY <2>1, <3>1, <4>2, <4>3, <5>1 DEF ClientQueue
      <4>5. clientSeqNum' = srvRecv' + Len(c2s')
        BY <1>1, <2>1, <3>1, <3>2, <4>2 DEF ClientQueue
      <4>6. srvState' = "finish" => c2s' # << >> /\ GoodFinish(c2s[1])'
        BY <2>1, <2>2, <3>1, <4>2 DEF ClientQueue, GoodFinish, Opens
      <4>7. \A i \in DOMAIN c2s' :
              srvState' = "data" \/ i # 1 => c2s'[i].key = ServerAppKey'
        BY <2>1, <2>2, <3>1, <4>2, <4>3 DEF ClientQueue
      <4> QED
        BY <4>4, <4>5, <4>6, <4>7 DEF ClientQueue
    <3>3. CASE conn # "open"
      <4>1. UNCHANGED c2s
        BY <2>5, <3>3 DEF SendNoop, WriteWorks
      <4> QED
        BY <2>3, <3>1, <3>3, <4>1
    <3> QED
      BY <3>2, <3>3
  <2>6. ASSUME c2s # << >>, c2s' = Tail(c2s), srvRecv' = srvRecv + 1,
               UNCHANGED <<conn, clientSeqNum>>, srvState' = "data"
        PROVE  ClientQueue'
    <3>1. /\ Len(c2s') = Len(c2s) - 1 /\ Len(c2s) \in Nat
          /\ \A i \in DOMAIN c2s' : /\ i + 1 \in DOMAIN c2s /\ i + 1 # 1
                                    /\ i \in Nat
                                    /\ c2s'[i] = c2s[i + 1]
      BY <1>1, <2>6, Queues, AfterTail
    <3>2. \A i \in DOMAIN c2s' : c2s'[i].seq = srvRecv' + (i - 1)
      <4> TAKE i \in DOMAIN c2s'
      <4>1. c2s[i + 1].seq = srvRecv + ((i + 1) - 1) /\ i \in Nat
        BY <2>1, <3>1 DEF ClientQueue
      <4>2. srvRecv + ((i + 1) - 1) = (srvRecv + 1) + (i - 1)
        BY <1>1, <4>1
      <4> QED
        BY <2>6, <3>1, <4>1, <4>2
    <3>3. conn' = "open" => clientSeqNum' = srvRecv' + Len(c2s')
      <4> SUFFICES ASSUME conn' = "open"
                   PROVE  clientSeqNum' = srvRecv' + Len(c2s')
        OBVIOUS
      <4>1. clientSeqNum = srvRecv + Len(c2s)
        BY <2>1, <2>6 DEF ClientQueue
      <4>2. srvRecv + Len(c2s) = (srvRecv + 1) + (Len(c2s) - 1)
        BY <1>1, <3>1
      <4> QED
        BY <2>6, <3>1, <4>1, <4>2
    <3>4. \A i \in DOMAIN c2s' : c2s'[i].key = ServerAppKey'
      BY <2>1, <2>2, <3>1 DEF ClientQueue
    <3> QED
      BY <2>6, <3>2, <3>3, <3>4 DEF ClientQueue
  <2>7. CASE ServerAcceptsFinish
    BY <2>6, <2>7 DEF ServerAcceptsFinish
  <2>8. ASSUME NEW f \in Faults, ServerAnswersNoop(f) PROVE ClientQueue'
    <3>1. /\ c2s # << >> /\ c2s' = Tail(c2s) /\ srvRecv' = srvRecv + 1
          /\ UNCHANGED <<conn, clientSeqNum, srvState>> /\ srvState = "data"
      BY <2>8, Zenon DEF ServerAnswersNoop, GoodNoop
    <3> QED
      BY <2>6, <3>1
  <2>9. CASE ServerRejects \/ LinkBreaks
    BY <1>6, <2>9 DEF ServerRejects, LinkBreaks
  <2> QED
    BY <1>6, <2>4, <2>5, <2>7, <2>8, <2>9, StepsWhenDone
<1>7. status \in {0, 1}
  BY <1>1 DEF TypeOK
<1> QED
  BY <1>2, <1>3, <1>4, <1>5, <1>6, <1>7 DEF ClientCounts

(* No finish message that does not parse has been sent: either the server  *)
(* never sends one, or it has made no mistake so far.                      *)
Exact == clean \/ "finish" \notin Faults

FinishesParse ==
  Exact =>
    \A i \in DOMAIN s2c :
      s2c[i].key.label = "handshake" /\ s2c[i].seq = 3
        => Parses(s2c[i], "ServerFinish")

(* Then what the server has sent and the client not yet taken is numbered  *)
(* from the client's counter on, until a Noop fails.                       *)
ServerQueue ==
  /\ \A i \in DOMAIN s2c : s2c[i].seq = serverSeqNum + (i - 1)
  /\ up => srvSend = serverSeqNum + Len(s2c)

ServerCounts ==
  Exact => /\ pc = "sendClientFinish" => serverSeqNum = 4
           /\ status = 1 /\ ~noopFailed => ServerQueue

LEMMA CleanBefore ==
  ASSUME [Next]_vars, clean'
  PROVE  /\ clean
         /\ \A f \in Faults, n \in TicketCounts : ServerAnswers(f, n) => f = "none"
         /\ \A f \in Faults : ServerAnswersNoop(f) => f = "none"
         /\ ~ServerPushes
<1> USE DEF vars, client, network, server, history
<1>1. \A f \in Faults, n \in TicketCounts :
        ServerAnswers(f, n) => clean /\ f = "none"
  BY Zenon DEF ServerAnswers
<1>2. \A f \in Faults : ServerAnswersNoop(f) => clean /\ f = "none"
  BY Zenon DEF ServerAnswersNoop
<1>3. ~ServerPushes
  BY Zenon DEF ServerPushes
<1>4. ASSUME UNCHANGED vars PROVE clean
  <2>1. UNCHANGED clean
    BY <1>4
  <2> QED
    BY <2>1, Zenon
<1>5. ASSUME Calls \/ Continues \/ Close PROVE clean
  <2>1. ASSUME Calls \/ Close PROVE UNCHANGED clean
    BY <2>1 DEF Calls, Dial, DialFails, HandshakeAgain, Retry, SendNoop, Close
  <2>2. ASSUME Continues PROVE UNCHANGED clean
    BY <2>2 DEF Continues, KeyGenFails, SendClientHello, ReadServerHello,
       ReadSignature, ReadNewSessionTicket, ReadServerFinish, SendClientFinish,
       ReadNoop, ReadFails
  <2>3. UNCHANGED clean
    BY <1>5, <2>1, <2>2
  <2> QED
    BY <2>3, Zenon
<1>6. ASSUME ServerAcceptsFinish \/ ServerRejects \/ LinkBreaks PROVE clean
  <2>1. UNCHANGED clean
    BY <1>6 DEF ServerAcceptsFinish, ServerRejects, LinkBreaks
  <2> QED
    BY <2>1, Zenon
<1>7. clean
  BY <1>1, <1>2, <1>3, <1>4, <1>5, <1>6 DEF Next, ServerReacts, Environment
<1> QED
  BY <1>1, <1>2, <1>3, <1>7

LEMMA ExactStep ==
  ASSUME [Next]_vars, Exact'
  PROVE  /\ Exact
         /\ \A f \in Faults, n \in TicketCounts : ServerAnswers(f, n) => f # "finish"
<1>1. CASE "finish" \notin Faults
  BY <1>1 DEF Exact
<1>2. CASE clean'
  BY <1>2, CleanBefore DEF Exact
<1> QED
  BY <1>1, <1>2 DEF Exact

LEMMA FinishesParseStep ==
  Settled /\ StreamInv /\ FinishesParse /\ [Next]_vars => FinishesParse'
<1> SUFFICES ASSUME Settled, StreamInv, FinishesParse, [Next]_vars, Exact',
                    NEW i \in DOMAIN s2c',
                    s2c'[i].key.label = "handshake", s2c'[i].seq = 3
             PROVE  Parses(s2c'[i], "ServerFinish")
  BY DEF FinishesParse, Parses
<1>1. TypeOK /\ AgreeInv /\ Exact
  BY ExactStep DEF Settled
<1>2. ASSUME NEW k \in DOMAIN s2c, s2c'[i] = s2c[k]
      PROVE  Parses(s2c'[i], "ServerFinish")
  BY <1>1, <1>2 DEF FinishesParse
<1>3. CASE UNCHANGED s2c
  BY <1>2, <1>3
<1>4. CASE s2c # << >> /\ s2c' = Tail(s2c)
  BY <1>1, <1>2, <1>4, Queues, AfterTail
<1>5. CASE LinkBreaks
  <2>1. PICK n \in 0..Len(s2c) : s2c' = SubSeq(s2c, 1, n)
    BY <1>5 DEF LinkBreaks
  <2> QED
    BY <1>1, <1>2, <2>1, Queues, AfterLoss
<1>6. ASSUME NEW kind \in {"NoopResponse", "Push"},
             \/ \E f \in Faults : ServerAnswersNoop(f) /\ kind = "NoopResponse"
             \/ ServerPushes /\ kind = "Push"
      PROVE  Parses(s2c'[i], "ServerFinish")
  <2>1. status = 1 /\ DataSent(kind)
    BY <1>6, DataStepShape
  <2>2. session.appKey.label = "application"
    BY <2>1 DEF Settled, NonceInv, AppKeyFresh
  <2>3. PICK rec : s2c' = Append(s2c, rec) /\ rec.key = session.appKey
    BY <2>1 DEF DataSent, Seal
  <2>4. (i \in DOMAIN s2c /\ s2c'[i] = s2c[i]) \/ s2c'[i] = rec
    BY <1>1, <2>3, Queues, AfterAppend
  <2> QED
    BY <1>2, <2>2, <2>3, <2>4
<1>7. ASSUME NEW f \in Faults, NEW n \in TicketCounts, ServerAnswers(f, n)
      PROVE  Parses(s2c'[i], "ServerFinish")
  <2> DEFINE flight == FlightTo(c2s[1].body, Len(flights) + 1, f, n)
             recs   == FlightRecords(flight, f)
  <2>1. s2c' = s2c \o recs /\ flight \in Flight /\ Len(flight.tr) = 4
    BY <1>1, <1>7, NewFlight
  <2>2. f # "finish"
    BY <1>7, ExactStep
  <2>3. /\ Len(recs) = 4 /\ recs \in Seq(Record)
        /\ recs[1].key = NoKey
        /\ recs[2].seq = 1 /\ recs[3].seq = 2
    <3>1. recs[1] = Plain(flight.tr[2]) /\ \A k \in 2..4 : recs[k].seq = k - 1
      BY FlightRecordShape
    <3>2. recs[1].key = NoKey
      BY <3>1 DEF Plain
    <3>3. recs \in Seq(Record) /\ Len(recs) = 4
      BY <2>1, FlightRecordTypes, FlightRecordShape
    <3> QED
      BY <3>1, <3>2, <3>3
  <2>4. Parses(recs[4], "ServerFinish")
    BY <2>2 DEF FlightRecords, Seal, Msg, Parses, Faulty
  <2> HIDE DEF flight, recs
  <2>5. ASSUME i - Len(s2c) \in DOMAIN recs, s2c'[i] = recs[i - Len(s2c)]
        PROVE  Parses(s2c'[i], "ServerFinish")
    <3>1. i - Len(s2c) \in 1..4
      BY <2>3, <2>5
    <3>2. NoKey.label = "none"
      BY DEF NoKey, hkdfExpand
    <3>3. i - Len(s2c) = 4
      BY <2>3, <2>5, <3>1, <3>2
    <3> QED
      BY <2>4, <2>5, <3>3
  <2> QED
    BY <1>1, <1>2, <2>1, <2>3, <2>5, Queues, AfterConcat
<1>8. CASE \E f \in Faults : ServerAnswersNoop(f)
  BY <1>6, <1>8
<1>9. CASE ServerPushes
  BY <1>6, <1>9
<1> QED
  BY <1>3, <1>4, <1>5, <1>7, <1>8, <1>9, WhoChanges

(* The finish message that ends a handshake has been counted.              *)
LEMMA FinishCounted ==
  ASSUME Settled, FinishesParse, ServerCounts, [Next]_vars, Exact',
         pc' = "sendClientFinish"
  PROVE  serverSeqNum' = 4
<1> USE DEF vars, client
<1>1. Exact /\ TypeOK
  BY ExactStep DEF Settled
<1>2. CASE ReadServerFinish
  <2>1. /\ pc = "readServerFinish" /\ s2c # << >>
        /\ Head(s2c).key = trafficKey /\ Head(s2c).seq = serverSeqNum
    BY <1>2, Zenon DEF ReadServerFinish, Receive, Consume, Return,
       FinishUnparsed, Decrypts, Opens
  <2>2. serverSeqNum = 3 /\ trafficKey.label = "handshake"
    BY <2>1 DEF Settled, NonceInv, TrafficKeyFresh, HasTrafficKey, AgreeInv,
       Progress
  <2>3. 1 \in DOMAIN s2c /\ s2c[1] = Head(s2c)
    BY <1>1, <2>1, Queues, AfterTail
  <2>4. Parses(Head(s2c), "ServerFinish")
    BY <1>1, <2>1, <2>2, <2>3 DEF FinishesParse
  <2>5. serverSeqNum' = NextServerSeq
    BY <1>2, <2>4, Zenon DEF ReadServerFinish, FinishUnparsed, Return
  <2> QED
    BY <2>2, <2>5 DEF NextServerSeq
<1>3. CASE UNCHANGED pc
  <2>1. CASE Calls
    BY <1>3, <2>1 DEF Calls, Dial, DialFails, HandshakeAgain, Retry, SendNoop
  <2>2. CASE Continues
    BY <1>3, <2>2 DEF Continues, KeyGenFails, SendClientHello, ReadServerHello,
       ReadSignature, ReadNewSessionTicket, ReadServerFinish, SendClientFinish,
       ReadNoop, ReadFails, Receive, Reading, Return
  <2>3. CASE Close \/ ServerReacts \/ Environment \/ UNCHANGED vars
    BY <1>1, <1>3, <2>3, OtherSteps DEF ServerCounts
  <2> QED
    BY <2>1, <2>2, <2>3 DEF Next
<1> QED
  BY <1>2, <1>3, PcStep

LEMMA ServerQueueStep ==
  ASSUME Settled, StreamInv, [Next]_vars, status = 1, ~noopFailed', ServerQueue
  PROVE  ServerQueue'
<1> USE DEF vars, client, network, server, history
<1>1. TypeOK /\ serverSeqNum \in Nat /\ srvSend \in Nat
  BY DEF Settled, TypeOK
<1>2. ASSUME UNCHANGED <<s2c, serverSeqNum, srvSend>>, up' => up
      PROVE  ServerQueue'
  BY <1>2 DEF ServerQueue
<1>3. CASE HandshakeAgain \/ ReadFails \/ Close \/ ServerAcceptsFinish
           \/ ServerRejects \/ SendNoop \/ UNCHANGED vars
  <2>1. UNCHANGED <<s2c, serverSeqNum, srvSend>> /\ (up' => up)
    BY <1>3 DEF HandshakeAgain, ReadFails, Close, ServerAcceptsFinish,
       ServerRejects, SendNoop, Deliver
  <2> QED
    BY <1>2, <2>1
<1>4. CASE ReadNoop
  <2>1. /\ serverSeqNum' = serverSeqNum + 1
        /\ s2c # << >> /\ s2c' = Tail(s2c) /\ UNCHANGED <<srvSend, up>>
    <3>1. s2c # << >> /\ s2c' = Tail(s2c) /\ UNCHANGED <<srvSend, up>>
      BY <1>4 DEF ReadNoop, Receive, Consume
    <3>2. serverSeqNum' = serverSeqNum + 1
      BY <1>4, Zenon DEF ReadNoop, NoopSeq, NextServerSeq
    <3> QED
      BY <3>1, <3>2
  <2>2. /\ Len(s2c') = Len(s2c) - 1 /\ Len(s2c) \in Nat
        /\ \A i \in DOMAIN s2c' : /\ i \in Nat /\ i + 1 \in DOMAIN s2c
                                  /\ s2c'[i] = s2c[i + 1]
    BY <1>1, <2>1, Queues, AfterTail
  <2>3. \A i \in DOMAIN s2c' : s2c'[i].seq = serverSeqNum' + (i - 1)
    <3> TAKE i \in DOMAIN s2c'
    <3>1. s2c[i + 1].seq = serverSeqNum + ((i + 1) - 1) /\ i \in Nat
      BY <2>2 DEF ServerQueue
    <3>2. serverSeqNum + ((i + 1) - 1) = (serverSeqNum + 1) + (i - 1)
      BY <1>1, <3>1
    <3> QED
      BY <2>1, <2>2, <3>1, <3>2
  <2>4. ASSUME up' PROVE srvSend' = serverSeqNum' + Len(s2c')
    <3>1. up
      BY <2>1, <2>4
    <3>2. srvSend = serverSeqNum + Len(s2c)
      BY <3>1 DEF ServerQueue
    <3>3. serverSeqNum + Len(s2c) = (serverSeqNum + 1) + (Len(s2c) - 1)
      BY <1>1, <2>2
    <3> QED
      BY <2>1, <2>2, <3>2, <3>3
  <2> QED
    BY <2>3, <2>4 DEF ServerQueue
<1>5. CASE LinkBreaks
  <2>1. ~up' /\ UNCHANGED serverSeqNum
    BY <1>5 DEF LinkBreaks
  <2>2. PICK n \in 0..Len(s2c) : s2c' = SubSeq(s2c, 1, n)
    BY <1>5 DEF LinkBreaks
  <2>3. \A i \in DOMAIN s2c' : i \in DOMAIN s2c /\ s2c'[i] = s2c[i]
    BY <1>1, <2>2, Queues, AfterLoss
  <2> QED
    BY <2>1, <2>3 DEF ServerQueue
<1>6. ASSUME NEW kind \in {"NoopResponse", "Push"},
             \/ \E f \in Faults : ServerAnswersNoop(f) /\ kind = "NoopResponse"
             \/ ServerPushes /\ kind = "Push"
      PROVE  ServerQueue'
  <2>1. /\ up /\ DataSent(kind) /\ srvSend' = srvSend + 1
        /\ UNCHANGED <<serverSeqNum, up>>
    BY <1>6, DataStepShape
  <2>2. PICK rec : s2c' = Append(s2c, rec) /\ rec.seq = srvSend
    BY <2>1 DEF DataSent, Seal
  <2>3. /\ DOMAIN s2c' = DOMAIN s2c \cup {Len(s2c) + 1}
        /\ Len(s2c') = Len(s2c) + 1 /\ Len(s2c) \in Nat
        /\ \A i \in DOMAIN s2c : s2c'[i] = s2c[i]
        /\ s2c'[Len(s2c) + 1] = rec
    BY <1>1, <2>2, Queues, AfterAppend
  <2>4. rec.seq = serverSeqNum + ((Len(s2c) + 1) - 1)
    BY <1>1, <2>1, <2>2, <2>3 DEF ServerQueue
  <2>5. \A i \in DOMAIN s2c' : s2c'[i].seq = serverSeqNum' + (i - 1)
    BY <2>1, <2>3, <2>4 DEF ServerQueue
  <2>6. srvSend' = serverSeqNum' + Len(s2c')
    BY <1>1, <2>1, <2>3 DEF ServerQueue
  <2> QED
    BY <2>5, <2>6 DEF ServerQueue
<1>7. CASE \E f \in Faults : ServerAnswersNoop(f)
  BY <1>6, <1>7
<1>8. CASE ServerPushes
  BY <1>6, <1>8
<1> QED
  BY <1>3, <1>4, <1>5, <1>7, <1>8, StepsWhenDone

LEMMA ServerCountsStep ==
  Settled /\ StreamInv /\ FinishesParse /\ ServerCounts /\ [Next]_vars
    => ServerCounts'
<1> SUFFICES ASSUME Settled, StreamInv, FinishesParse, ServerCounts,
                    [Next]_vars, Exact', status' = 1, ~noopFailed'
             PROVE  ServerQueue'
  BY FinishCounted DEF ServerCounts
<1>1. Exact /\ TypeOK
  BY ExactStep DEF Settled
<1>2. CASE status = 0
  <2>1. SendClientFinish
    BY <1>2, WhoChanges
  <2>2. /\ pc = "sendClientFinish"
        /\ UNCHANGED <<s2c, serverSeqNum, srvSend>>
    BY <2>1 DEF SendClientFinish, Deliver, network, server
  <2>3. srvSend = 4 /\ s2c = << >> /\ serverSeqNum = 4
    BY <1>1, <2>2, CountersMeet DEF ServerCounts
  <2> QED
    BY <2>2, <2>3 DEF ServerQueue
<1>3. CASE status = 1
  <2>1. ~noopFailed
    <3>1. CASE SendNoop
      BY <3>1, Zenon DEF SendNoop
    <3>2. CASE ReadNoop
      BY <3>2, Zenon DEF ReadNoop
    <3>3. CASE ReadFails
      BY <3>3, Zenon DEF ReadFails
    <3>4. CASE UNCHANGED noopFailed
      BY <3>4, Zenon
    <3> QED
      BY <3>1, <3>2, <3>3, <3>4, WhoCounts
  <2>2. ServerQueue
    BY <1>1, <1>3, <2>1 DEF ServerCounts
  <2> QED
    BY <1>3, <2>2, ServerQueueStep
<1> QED
  BY <1>1, <1>2, <1>3 DEF TypeOK

LEMMA CountsInit == Init => ClientCounts /\ FinishesParse /\ ServerCounts
<1> SUFFICES ASSUME Init PROVE ClientCounts /\ FinishesParse /\ ServerCounts
  OBVIOUS
<1>1. pc = "idle" /\ status = 0 /\ srvState = "hello" /\ s2c = << >>
  BY DEF Init
<1> QED
  BY <1>1 DEF ClientCounts, FinishesParse, ServerCounts, HasTrafficKey

LEMMA CountsInvariant ==
  Spec => [](Settled /\ StreamInv /\ ClientCounts /\ FinishesParse /\ ServerCounts)
<1>1. /\ Settled /\ Settled' /\ StreamInv /\ ClientCounts /\ [Next]_vars
           => ClientCounts'
      /\ Settled /\ StreamInv /\ FinishesParse /\ [Next]_vars => FinishesParse'
      /\ Settled /\ StreamInv /\ FinishesParse /\ ServerCounts /\ [Next]_vars
           => ServerCounts'
  BY ClientCountsStep, FinishesParseStep, ServerCountsStep
<1> QED
  BY <1>1, StreamInvariant, CountsInit, PTL DEF Spec

(* The server never has cause to refuse what a client whose handshake is   *)
(* complete has sent it.                                                   *)
LEMMA ServerTakesAll ==
  ASSUME Settled, ClientCounts, status = 1, up, c2s # << >>
  PROVE  GoodFinish(Head(c2s)) \/ GoodNoop(Head(c2s))
<1>1. ClientQueue /\ srvState \in {"finish", "data"} /\ srvRecv \in Nat
  BY DEF ClientCounts, Settled, TypeOK
<1>2. 1 \in DOMAIN c2s /\ Head(c2s) = c2s[1]
  BY Queues, AfterTail DEF Settled
<1>3. CASE srvState = "finish"
  BY <1>1, <1>2, <1>3 DEF ClientQueue
<1>4. CASE srvState = "data"
  <2>1. c2s[1].key = ServerAppKey /\ c2s[1].seq = srvRecv + (1 - 1)
    BY <1>1, <1>2, <1>4 DEF ClientQueue
  <2>2. c2s[1].seq = srvRecv
    BY <1>1, <2>1
  <2> QED
    BY <1>2, <1>4, <2>1, <2>2 DEF GoodNoop, Opens
<1> QED
  BY <1>1, <1>3, <1>4

LEMMA NextRecordOpens ==
  ASSUME Settled, StreamInv, ServerCounts, Exact, status = 1, ~noopFailed,
         s2c # << >>
  PROVE  Opens(Head(s2c), session.appKey, serverSeqNum)
<1>1. ServerQueue /\ AnswersInOrder /\ serverSeqNum \in Nat
  BY DEF ServerCounts, StreamInv, Settled, TypeOK
<1>2. 1 \in DOMAIN s2c /\ Head(s2c) = s2c[1]
  BY Queues, AfterTail DEF Settled
<1>3. s2c[1].seq = serverSeqNum + (1 - 1) /\ s2c[1].key = session.appKey
  BY <1>1, <1>2 DEF ServerQueue, AnswersInOrder
<1>4. s2c[1].seq = serverSeqNum
  BY <1>1, <1>3
<1> QED
  BY <1>2, <1>3, <1>4 DEF Opens

(* After Handshake has returned nil the two ends count records alike, if   *)
(* the server never sends a finish message that does not parse.  With one  *)
(* the client counts one record too few: see FinishUnparsed of LongLink.   *)
THEOREM CountsAgree ==
  ASSUME "finish" \notin Faults
  PROVE  Spec => []InStep
<1>1. Settled /\ StreamInv /\ ClientCounts /\ ServerCounts => InStep
  <2>1. Exact
    BY DEF Exact
  <2> QED
    BY <2>1, ServerTakesAll, NextRecordOpens DEF InStep
<1> QED
  BY <1>1, CountsInvariant, PTL

(* Without that hypothesis: what the client sends is always accepted, and  *)
(* what it is sent opens as long as the server has made no mistake.        *)
THEOREM CleanCountsAgree ==
  Spec => [](status = 1 =>
               /\ up /\ c2s # << >> => GoodFinish(Head(c2s)) \/ GoodNoop(Head(c2s))
               /\ clean /\ ~noopFailed /\ s2c # << >> =>
                    Opens(Head(s2c), session.appKey, serverSeqNum))
<1>1. Settled /\ StreamInv /\ ClientCounts /\ ServerCounts =>
        (status = 1 =>
           /\ up /\ c2s # << >> => GoodFinish(Head(c2s)) \/ GoodNoop(Head(c2s))
           /\ clean /\ ~noopFailed /\ s2c # << >> =>
                Opens(Head(s2c), session.appKey, serverSeqNum))
  BY ServerTakesAll, NextRecordOpens DEF Exact
<1> QED
  BY <1>1, CountsInvariant, PTL

-----------------------------------------------------------------------------
(* While the server makes no mistake.                                      *)

(* What is lost with the link does not come back.                          *)
NothingLeft == ~up => c2s = << >>

(* The messages of the last flight are as they should be.                  *)
GoodFlight ==
  /\ flights # << >>
  /\ LastFlight.tr[2].kind = "ServerHello" /\ LastFlight.tr[2].form = "ok"
  /\ LastFlight.tr[2].id = Len(flights)
  /\ LastFlight.tr[3].kind = "Signature" /\ LastFlight.tr[3].form = "ok"
  /\ LastFlight.tr[4].kind = "NewSessionTicket" /\ LastFlight.tr[4].form = "ok"

(* The records to read are those of the last flight from the client's      *)
(* counter on.                                                             *)
RestOfFlight ==
  \A i \in DOMAIN s2c :
    /\ serverSeqNum + i <= 4
    /\ s2c[i] = FlightRecords(LastFlight, "none")[serverSeqNum + i]

(* The server answers one hello, and the answer is to the hello sent last: *)
(* a handshake that fails has seen the link down and nothing is left.      *)
CleanHandshake ==
  clean /\ conn # "closed" /\ status = 0 =>
    /\ pc \in {"idle", "sendClientHello"} => c2s = << >> /\ s2c = << >>
    /\ pc = "readServerHello" =>
         /\ transcript[1].id = attempt
         /\ c2s # << >> => c2s = <<Plain(transcript[1])>> /\ s2c = << >>
         /\ s2c # << >> => LastFlight.tr[1] = transcript[1]
    /\ pc \in HasTrafficKey => c2s = << >>
    /\ pc = "readSignature" =>
         /\ trafficKey = FlightKey(LastFlight)
         /\ transcript = Hellos(LastFlight)
    /\ pc \in Reading /\ s2c # << >> => GoodFlight /\ RestOfFlight

(* Then all that is sent is good answers to Noops.                         *)
CleanData ==
  clean /\ conn # "closed" /\ status = 1 =>
    /\ \A i \in DOMAIN s2c : IsReply(s2c[i]) /\ s2c[i].body.form = "ok"
    /\ noopFailed => ~up /\ s2c = << >>

LEMMA NothingLeftStep ==
  TypeOK /\ NothingLeft /\ [Next]_vars => NothingLeft'
<1> SUFFICES ASSUME TypeOK, NothingLeft, [Next]_vars, ~up' PROVE c2s' = << >>
  BY DEF NothingLeft
<1> USE DEF vars, client, network, server, history
<1>1. CASE ServerRejects \/ LinkBreaks
  BY <1>1 DEF ServerRejects, LinkBreaks
<1>2. ASSUME UNCHANGED <<up, c2s>> PROVE c2s' = << >>
  BY <1>2 DEF NothingLeft
<1>3. ASSUME NEW rec, Deliver(rec) PROVE c2s' = << >>
  BY <1>3 DEF Deliver, NothingLeft
<1>4. CASE Calls
  <2>1. CASE SendNoop
    BY <1>2, <1>3, <2>1 DEF SendNoop
  <2>2. CASE Dial
    BY <2>2 DEF Dial
  <2> QED
    BY <1>2, <1>4, <2>1, <2>2 DEF Calls, DialFails, HandshakeAgain, Retry
<1>5. CASE Continues
  <2>1. CASE SendClientHello
    BY <1>2, <1>3, <2>1 DEF SendClientHello
  <2>2. CASE SendClientFinish
    BY <1>2, <1>3, <2>2 DEF SendClientFinish
  <2>3. CASE ~SendClientHello /\ ~SendClientFinish
    <3>1. UNCHANGED <<up, c2s>>
      BY <1>5, <2>3 DEF Continues, KeyGenFails, ReadServerHello, ReadSignature,
         ReadNewSessionTicket, ReadServerFinish, ReadNoop, ReadFails, Consume
    <3> QED
      BY <1>2, <3>1
  <2> QED
    BY <2>1, <2>2, <2>3
<1>6. CASE Close \/ ServerPushes \/ UNCHANGED vars
  BY <1>2, <1>6 DEF Close, ServerPushes
<1>7. ASSUME NEW f \in Faults, NEW n \in TicketCounts, ServerAnswers(f, n)
      PROVE  up'
  BY <1>7, Zenon DEF ServerAnswers
<1>8. ASSUME NEW f \in Faults, ServerAnswersNoop(f) PROVE up'
  BY <1>8, Zenon DEF ServerAnswersNoop
<1>9. ASSUME ServerAcceptsFinish PROVE up'
  <2>1. up /\ UNCHANGED up
    BY <1>9 DEF ServerAcceptsFinish
  <2> QED
    BY <2>1, Zenon
<1> QED
  BY <1>1, <1>4, <1>5, <1>6, <1>7, <1>8, <1>9
  DEF Next, ServerReacts, Environment

(* A closed connection stays closed.                                       *)
LEMMA StillOpen ==
  ASSUME [Next]_vars, conn' # "closed"
  PROVE  conn # "closed"
<1> USE DEF vars
<1>1. CASE Calls \/ Close
  BY <1>1 DEF Calls, Dial, DialFails, HandshakeAgain, Retry, SendNoop, Close
<1>2. CASE Continues
  BY <1>2 DEF Continues, KeyGenFails, SendClientHello, ReadServerHello,
     ReadSignature, ReadNewSessionTicket, ReadServerFinish, SendClientFinish,
     ReadNoop, ReadFails
<1>3. CASE ServerReacts
  <2>1. UNCHANGED conn
    <3>1. ASSUME NEW f \in Faults, NEW n \in TicketCounts, ServerAnswers(f, n)
          PROVE  UNCHANGED conn
      BY <3>1, Zenon DEF ServerAnswers
    <3>2. ASSUME NEW f \in Faults, ServerAnswersNoop(f) PROVE UNCHANGED conn
      BY <3>2, Zenon DEF ServerAnswersNoop
    <3> QED
      BY <1>3, <3>1, <3>2 DEF ServerReacts, ServerAcceptsFinish, ServerRejects
  <2> QED
    BY <2>1
<1>4. CASE Environment \/ UNCHANGED vars
  BY <1>4 DEF Environment, ServerPushes, LinkBreaks
<1> QED
  BY <1>1, <1>2, <1>3, <1>4 DEF Next

LEMMA LastFlightKept ==
  ASSUME UNCHANGED flights
  PROVE  /\ LastFlight' = LastFlight
         /\ GoodFlight => GoodFlight'
         /\ \A k : FlightRecords(LastFlight', "none")[k]
                     = FlightRecords(LastFlight, "none")[k]
         /\ FlightKey(LastFlight') = FlightKey(LastFlight)
         /\ Hellos(LastFlight') = Hellos(LastFlight)
<1>1. LastFlight' = LastFlight
  BY DEF LastFlight
<1> QED
  BY <1>1 DEF GoodFlight

(* The next record is taken and counted.                                   *)
LEMMA RestAfterRead ==
  ASSUME TypeOK, GoodFlight, RestOfFlight, UNCHANGED flights,
         s2c # << >>, s2c' = Tail(s2c), serverSeqNum' = serverSeqNum + 1
  PROVE  GoodFlight' /\ RestOfFlight'
<1>1. serverSeqNum \in Nat
  BY DEF TypeOK
<1>2. \A i \in DOMAIN s2c' : /\ i \in Nat /\ i + 1 \in DOMAIN s2c
                             /\ s2c'[i] = s2c[i + 1]
  BY Queues, AfterTail
<1>3. ASSUME NEW i \in DOMAIN s2c'
      PROVE  /\ serverSeqNum' + i <= 4
             /\ s2c'[i] = FlightRecords(LastFlight', "none")[serverSeqNum' + i]
  <2>1. serverSeqNum + (i + 1) = (serverSeqNum + 1) + i
    BY <1>1, <1>2
  <2>2. /\ serverSeqNum + (i + 1) <= 4
        /\ s2c[i + 1] = FlightRecords(LastFlight, "none")[serverSeqNum + (i + 1)]
    BY <1>2 DEF RestOfFlight
  <2> QED
    BY <1>2, <2>1, <2>2, LastFlightKept
<1> QED
  BY <1>3, LastFlightKept DEF RestOfFlight

(* The next record is the one the client's counter says.                   *)
LEMMA NextOfFlight ==
  ASSUME TypeOK, RestOfFlight, s2c # << >>
  PROVE  /\ Head(s2c) = FlightRecords(LastFlight, "none")[serverSeqNum + 1]
         /\ serverSeqNum \in 0..3
<1>1. 1 \in DOMAIN s2c /\ Head(s2c) = s2c[1] /\ serverSeqNum \in Nat
  BY Queues, AfterTail DEF TypeOK
<1> QED
  BY <1>1 DEF RestOfFlight

(* A step that only takes from the queues.                                 *)
LEMMA CleanWhenLost ==
  ASSUME TypeOK, CleanHandshake, clean, conn # "closed", status = 0,
         UNCHANGED <<pc, transcript, serverSeqNum, trafficKey, attempt, flights>>,
         \/ UNCHANGED c2s
         \/ c2s' = << >>
         \/ c2s # << >> /\ c2s' = Tail(c2s),
         \/ UNCHANGED s2c
         \/ \E n \in 0..Len(s2c) : s2c' = SubSeq(s2c, 1, n)
  PROVE  CleanHandshake'
<1>1. /\ DOMAIN s2c' \subseteq DOMAIN s2c
      /\ \A i \in DOMAIN s2c' : s2c'[i] = s2c[i]
      /\ s2c = << >> => s2c' = << >>
  <2>1. CASE UNCHANGED s2c
    BY <2>1
  <2>2. ASSUME NEW n \in 0..Len(s2c), s2c' = SubSeq(s2c, 1, n)
        PROVE  /\ DOMAIN s2c' \subseteq DOMAIN s2c
               /\ \A i \in DOMAIN s2c' : s2c'[i] = s2c[i]
               /\ s2c = << >> => s2c' = << >>
    BY <2>2, Queues, AfterLoss
  <2> QED
    BY <2>1, <2>2
<1>2. c2s = << >> => c2s' = << >>
  OBVIOUS
<1>3. pc = "readServerHello" /\ c2s # << >> /\ c2s' # << >> => UNCHANGED c2s
  <2> SUFFICES ASSUME pc = "readServerHello", c2s # << >>, c2s' # << >>
               PROVE  UNCHANGED c2s
    OBVIOUS
  <2>1. c2s = <<Plain(transcript[1])>>
    BY DEF CleanHandshake
  <2>2. Tail(c2s) = << >>
    BY <2>1
  <2> QED
    BY <2>2
<1>4. pc \in Reading /\ s2c' # << >> => GoodFlight' /\ RestOfFlight'
  BY <1>1, LastFlightKept DEF CleanHandshake, RestOfFlight
<1> QED
  BY <1>1, <1>2, <1>3, <1>4, LastFlightKept DEF CleanHandshake

LEMMA CleanAnswer ==
  ASSUME TypeOK, NonceInv, AgreeInv, CleanHandshake,
         clean, conn # "closed", NEW n \in TicketCounts, "none" \in Faults,
         ServerAnswers("none", n)
  PROVE  CleanHandshake'
<1> DEFINE flight == FlightTo(c2s[1].body, Len(flights) + 1, "none", n)
           recs   == FlightRecords(flight, "none")
<1>1. /\ status = 0 /\ c2s # << >> /\ c2s' = Tail(c2s)
      /\ s2c' = s2c \o recs
      /\ flights' = Append(flights, flight)
      /\ flight \in Flight /\ Len(flight.tr) = 4
  BY NewFlight
<1>2. UNCHANGED <<conn, status, pc, transcript, serverSeqNum, trafficKey, attempt>>
  BY Zenon DEF ServerAnswers, client, history
<1>3. /\ flight.tr[1] = c2s[1].body
      /\ flight.tr[2].kind = "ServerHello" /\ flight.tr[2].form = "ok"
      /\ flight.tr[2].id = Len(flights) + 1
      /\ flight.tr[3].kind = "Signature" /\ flight.tr[3].form = "ok"
      /\ flight.tr[4].kind = "NewSessionTicket" /\ flight.tr[4].form = "ok"
  BY DEF FlightTo, Msg, Faulty
<1>4. recs \in Seq(Record) /\ Len(recs) = 4
  BY <1>1, FlightRecordTypes, FlightRecordShape
<1> HIDE DEF flight
<1>5. LastFlight' = flight /\ Len(flights') = Len(flights) + 1 /\ flights' # << >>
  <2>1. /\ Len(flights') = Len(flights) + 1 /\ flights' # << >>
        /\ flights'[Len(flights) + 1] = flight
    BY <1>1, Queues, AfterAppend
  <2> QED
    BY <2>1 DEF LastFlight
<1>6. GoodFlight'
  BY <1>3, <1>5 DEF GoodFlight
<1> HIDE DEF recs
<1>7. CASE pc = "readServerHello"
  <2>1. c2s = <<Plain(transcript[1])>> /\ s2c = << >> /\ serverSeqNum = 0
    BY <1>1, <1>7 DEF CleanHandshake, AgreeInv, Progress
  <2>2. c2s' = << >> /\ s2c' = recs /\ c2s[1].body = transcript[1]
    BY <1>1, <1>4, <2>1 DEF Plain
  <2>3. RestOfFlight'
    <3>1. \A i \in DOMAIN recs : 0 + i <= 4 /\ recs[i] = recs[0 + i]
      BY <1>4
    <3> QED
      BY <1>2, <1>5, <2>1, <2>2, <3>1 DEF RestOfFlight, recs
  <2> QED
    BY <1>1, <1>2, <1>3, <1>5, <1>6, <1>7, <2>1, <2>2, <2>3
    DEF CleanHandshake, HasTrafficKey
<1>8. CASE pc # "readServerHello"
  <2>1. pc \notin HasTrafficKey /\ pc \notin {"idle", "sendClientHello"}
    BY <1>1 DEF CleanHandshake
  <2>2. pc \notin Reading
    BY <1>1, <1>8, <2>1 DEF Reading, HasTrafficKey, NonceInv, StatusAndPc
  <2> QED
    BY <1>2, <1>8, <2>1, <2>2 DEF CleanHandshake, HasTrafficKey
<1> QED
  BY <1>7, <1>8

(* The reads of the handshake, one by one.                                 *)
CleanReading == /\ TypeOK /\ NonceInv /\ AgreeInv /\ CleanHandshake
                /\ clean /\ conn = "open" /\ status = 0
                /\ pc \in Reading /\ s2c # << >>

LEMMA CleanHead ==
  ASSUME CleanReading
  PROVE  /\ GoodFlight /\ RestOfFlight /\ c2s = << >>
         /\ Head(s2c) = FlightRecords(LastFlight, "none")[serverSeqNum + 1]
         /\ serverSeqNum \in 0..3
         /\ LastFlight \in Flight /\ Len(LastFlight.tr) = 4
         /\ Len(flights) \in DOMAIN flights
<1>1. GoodFlight /\ RestOfFlight
  BY DEF CleanReading, CleanHandshake
<1>2. Len(flights) \in DOMAIN flights
  BY <1>1, Queues DEF GoodFlight, CleanReading
<1>3. LastFlight \in Flight /\ Len(LastFlight.tr) = 4
  BY <1>2, FlightTypeOf DEF CleanReading, LastFlight, AgreeInv, FlightsInOrder
<1>4. pc # "readNoop"
  BY DEF CleanReading, NonceInv, StatusAndPc
<1>5. c2s = << >>
  BY <1>4 DEF CleanReading, CleanHandshake, Reading, HasTrafficKey
<1> QED
  BY <1>1, <1>2, <1>3, <1>5, NextOfFlight DEF CleanReading

LEMMA KeyOfLast ==
  ASSUME CleanReading, pc \in HasTrafficKey
  PROVE  trafficKey = FlightKey(LastFlight)
<1>1. CASE pc = "readSignature"
  BY <1>1 DEF CleanReading, CleanHandshake
<1>2. CASE pc # "readSignature"
  <2>1. PICK j \in DOMAIN flights : trafficKey = FlightKey(flights[j])
    BY <1>2 DEF CleanReading, AgreeInv, Progress, HasTrafficKey
  <2> QED
    BY <2>1, LastReached DEF CleanReading, LastFlight
<1> QED
  BY <1>1, <1>2

LEMMA CleanServerHello ==
  ASSUME CleanReading, ReadServerHello
  PROVE  pc' = "readSignature" /\ CleanHandshake'
<1>1. /\ pc = "readServerHello" /\ s2c # << >> /\ s2c' = Tail(s2c)
      /\ UNCHANGED <<c2s, flights, clean, conn, status>>
  BY DEF ReadServerHello, Receive, Consume, server
<1>2. /\ serverSeqNum = 0 /\ Len(transcript) = 1 /\ transcript \in Seq(Message)
      /\ transcript[1].id = attempt /\ LastFlight.tr[1] = transcript[1]
  BY <1>1 DEF CleanReading, AgreeInv, Progress, CleanHandshake, TypeOK, Transcript
<1>3. Head(s2c) = Plain(LastFlight.tr[2])
  BY <1>2, CleanHead, FlightRecordShape
<1>4. Head(s2c).key = NoKey /\ Head(s2c).body = LastFlight.tr[2]
  BY <1>3 DEF Plain
<1>5. /\ Head(s2c).body.kind = "ServerHello" /\ Head(s2c).body.form = "ok"
      /\ Head(s2c).body.id = Len(flights)
  BY <1>4, CleanHead DEF GoodFlight
<1>6. /\ pc' = "readSignature"
      /\ transcript' = Append(transcript, Head(s2c).body)
      /\ serverSeqNum' = NextServerSeq
      /\ trafficKey' = HandshakeKey(
           computeEphemeralSecret(attempt, Head(s2c).body.id), transcript')
  BY <1>4, <1>5, Zenon DEF ReadServerHello
<1>7. transcript' = Hellos(LastFlight)
  <2>2. Hellos(LastFlight) = Append(<<LastFlight.tr[1]>>, LastFlight.tr[2])
    BY CleanHead, TranscriptParts
  <2>3. transcript = <<transcript[1]>>
    BY <1>2
  <2>4. transcript' = Append(<<transcript[1]>>, LastFlight.tr[2])
    BY <1>4, <1>6, <2>3
  <2> QED
    BY <1>2, <2>2, <2>4
<1>8. trafficKey' = FlightKey(LastFlight)
  <2>1. LastFlight.secret = <<LastFlight.tr[1].id, Len(flights)>>
    BY CleanHead DEF CleanReading, AgreeInv, FlightsInOrder, LastFlight, Hello
  <2> QED
    BY <1>2, <1>5, <1>6, <1>7, <2>1 DEF FlightKey, computeEphemeralSecret
<1>9. GoodFlight' /\ RestOfFlight'
  BY <1>1, <1>6, CleanHead, RestAfterRead DEF NextServerSeq, CleanReading
<1> QED
  BY <1>1, <1>6, <1>7, <1>8, <1>9, CleanHead, LastFlightKept
  DEF CleanHandshake, HasTrafficKey

LEMMA CleanSignature ==
  ASSUME CleanReading, ReadSignature
  PROVE  pc' = "readNewSessionTicket" /\ CleanHandshake'
<1>1. /\ pc = "readSignature" /\ s2c # << >> /\ s2c' = Tail(s2c)
      /\ UNCHANGED <<c2s, flights, clean, conn, status>>
  BY DEF ReadSignature, Receive, Consume, server
<1>2. /\ serverSeqNum = 1
      /\ trafficKey = FlightKey(LastFlight) /\ transcript = Hellos(LastFlight)
  BY <1>1 DEF CleanReading, AgreeInv, Progress, CleanHandshake
<1>3. Head(s2c) = Seal(FlightKey(LastFlight), 1, LastFlight.tr[3],
                       EcdsaSignature(Hellos(LastFlight)))
  BY <1>2, CleanHead DEF FlightRecords
<1>4. /\ Decrypts(Head(s2c), trafficKey)
      /\ Parses(Head(s2c), "Signature")
      /\ verifyEcdsa(Head(s2c))
  BY <1>2, <1>3, CleanHead DEF Decrypts, Opens, Parses, verifyEcdsa, Seal, GoodFlight
<1>5. pc' = "readNewSessionTicket" /\ serverSeqNum' = NextServerSeq
  BY <1>4, Zenon DEF ReadSignature, Accept
<1>6. GoodFlight' /\ RestOfFlight'
  BY <1>1, <1>5, CleanHead, RestAfterRead DEF NextServerSeq, CleanReading
<1> QED
  BY <1>1, <1>5, <1>6, CleanHead DEF CleanHandshake, HasTrafficKey

LEMMA CleanTicket ==
  ASSUME CleanReading, ReadNewSessionTicket
  PROVE  pc' = "readServerFinish" /\ CleanHandshake'
<1>1. /\ pc = "readNewSessionTicket" /\ s2c # << >> /\ s2c' = Tail(s2c)
      /\ UNCHANGED <<c2s, flights, clean, conn, status>>
  BY DEF ReadNewSessionTicket, Receive, Consume, server
<1>2. serverSeqNum = 2 /\ trafficKey = FlightKey(LastFlight)
  BY <1>1, KeyOfLast DEF CleanReading, AgreeInv, Progress, HasTrafficKey
<1>3. Head(s2c) = Seal(FlightKey(LastFlight), 2, LastFlight.tr[4], NoKey)
  BY <1>2, CleanHead DEF FlightRecords
<1>4. Decrypts(Head(s2c), trafficKey) /\ Parses(Head(s2c), "NewSessionTicket")
  BY <1>2, <1>3, CleanHead DEF Decrypts, Opens, Parses, Seal, GoodFlight
<1>5. pc' = "readServerFinish" /\ serverSeqNum' = NextServerSeq
  BY <1>4, Zenon DEF ReadNewSessionTicket, Accept
<1>6. GoodFlight' /\ RestOfFlight'
  BY <1>1, <1>5, CleanHead, RestAfterRead DEF NextServerSeq, CleanReading
<1> QED
  BY <1>1, <1>5, <1>6, CleanHead DEF CleanHandshake, HasTrafficKey

LEMMA CleanFinish ==
  ASSUME CleanReading, ReadServerFinish
  PROVE  pc' = "sendClientFinish" /\ CleanHandshake'
<1>1. /\ pc = "readServerFinish" /\ UNCHANGED <<c2s, clean, conn, status>>
  BY DEF ReadServerFinish, Receive, Consume, server
<1>2. PICK j \in DOMAIN flights : /\ trafficKey = FlightKey(flights[j])
                                  /\ transcript = flights[j].tr
  BY <1>1 DEF CleanReading, AgreeInv, Progress
<1>3. /\ serverSeqNum = 3 /\ trafficKey = FlightKey(LastFlight)
      /\ transcript = LastFlight.tr
  BY <1>1, <1>2, LastReached DEF CleanReading, AgreeInv, Progress, HasTrafficKey,
     LastFlight
<1>4. /\ Head(s2c).key = trafficKey /\ Head(s2c).seq = 3
      /\ Head(s2c).body.kind = "ServerFinish" /\ Head(s2c).body.form = "ok"
      /\ Head(s2c).tag = ServerFinished(LastFlight.secret, LastFlight.tr)
  BY <1>3, CleanHead DEF FlightRecords, Seal, Msg, Faulty
<1>5. trafficKey.secret = LastFlight.secret
  BY <1>3 DEF FlightKey, HandshakeKey, hkdfExpand
<1>6. /\ Decrypts(Head(s2c), trafficKey)
      /\ Parses(Head(s2c), "ServerFinish")
      /\ serverFinishMatches(Head(s2c))
  BY <1>3, <1>4, <1>5 DEF Decrypts, Opens, Parses, serverFinishMatches
<1>7. pc' = "sendClientFinish"
  BY <1>6, Zenon DEF ReadServerFinish
<1> QED
  BY <1>1, <1>7, CleanHead DEF CleanHandshake, HasTrafficKey, Reading

LEMMA CleanHandshakeStep ==
  Settled /\ StreamInv /\ NothingLeft /\ CleanHandshake /\ [Next]_vars
    => CleanHandshake'
<1> SUFFICES ASSUME Settled, StreamInv, NothingLeft, CleanHandshake,
                    [Next]_vars, clean', conn' # "closed", status' = 0
             PROVE  CleanHandshake'
  BY DEF CleanHandshake
<1> USE DEF vars, client, network, server, history
<1>1. /\ clean /\ conn # "closed" /\ status = 0
      /\ TypeOK /\ NonceInv /\ AgreeInv
  BY CleanBefore, StillOpen, StillUndone DEF Settled
<1>2. CASE Dial \/ DialFails \/ HandshakeAgain \/ Retry \/ KeyGenFails
  <2>1. /\ UNCHANGED <<c2s, s2c>>
        /\ pc \in {"idle", "sendClientHello"}
        /\ pc' \in {"idle", "sendClientHello"}
    BY <1>2 DEF Dial, DialFails, HandshakeAgain, Retry, KeyGenFails, Return
  <2> QED
    BY <1>1, <2>1 DEF CleanHandshake, HasTrafficKey, Reading
<1>3. CASE SendClientHello
  <2>1. /\ c2s = << >> /\ s2c = << >> /\ UNCHANGED s2c
        /\ attempt' = attempt + 1 /\ transcript' = <<newHello>>
    BY <1>1, <1>3 DEF SendClientHello, CleanHandshake, Deliver
  <2>2. CASE pc' = "idle"
    <3>1. UNCHANGED c2s
      BY <1>3, <2>2 DEF SendClientHello
    <3> QED
      BY <2>1, <2>2, <3>1 DEF CleanHandshake, HasTrafficKey, Reading
  <2>3. CASE pc' = "readServerHello"
    <3>1. Deliver(Plain(newHello))
      BY <1>3, <2>3, Zenon DEF SendClientHello, Return
    <3>2. c2s' = << >> \/ c2s' = <<Plain(newHello)>>
      BY <2>1, <3>1 DEF Deliver
    <3>3. transcript'[1] = newHello /\ newHello.id = attempt + 1
      BY <2>1 DEF newHello, Msg
    <3> QED
      BY <2>1, <2>3, <3>2, <3>3 DEF CleanHandshake, HasTrafficKey, Reading
  <2> QED
    BY <1>3, <2>2, <2>3 DEF SendClientHello, Return
<1>4. CASE ReadServerHello \/ ReadSignature \/ ReadNewSessionTicket
           \/ ReadServerFinish
  <2>1. conn = "open" /\ pc \in Reading /\ s2c # << >>
    BY <1>4 DEF ReadServerHello, ReadSignature, ReadNewSessionTicket,
       ReadServerFinish, Receive, Reading
  <2>2. CleanReading
    BY <1>1, <2>1 DEF CleanReading
  <2> QED
    BY <1>4, <2>2, CleanServerHello, CleanSignature, CleanTicket, CleanFinish
<1>5. CASE SendClientFinish
  <2>1. pc = "sendClientFinish" /\ UNCHANGED <<c2s, s2c>> /\ pc' = "idle"
    <3>1. pc = "sendClientFinish" /\ pc' = "idle"
      BY <1>5 DEF SendClientFinish, Return
    <3>2. UNCHANGED network
      BY <1>5 DEF SendClientFinish
    <3> QED
      BY <3>1, <3>2
  <2>2. c2s = << >> /\ s2c = << >>
    BY <1>1, <2>1, NoHelloLeft DEF StreamInv, BeforeDone
  <2> QED
    BY <2>1, <2>2 DEF CleanHandshake, HasTrafficKey, Reading
<1>6. CASE ReadFails
  <2>1. s2c = << >> /\ ~up /\ UNCHANGED <<s2c, c2s>> /\ pc' = "idle"
    BY <1>1, <1>6 DEF ReadFails, Return
  <2>2. c2s = << >>
    BY <2>1 DEF NothingLeft
  <2> QED
    BY <2>1, <2>2 DEF CleanHandshake, HasTrafficKey, Reading
<1>7. CASE SendNoop \/ ReadNoop
  BY <1>1, <1>7 DEF SendNoop, ReadNoop, Receive, NonceInv, StatusAndPc
<1>8. CASE Close
  BY <1>8 DEF Close
<1>9. ASSUME UNCHANGED <<conn, status, pc, transcript, serverSeqNum, trafficKey,
                         attempt, flights>>,
             \/ UNCHANGED c2s
             \/ c2s' = << >>
             \/ c2s # << >> /\ c2s' = Tail(c2s),
             \/ UNCHANGED s2c
             \/ \E n \in 0..Len(s2c) : s2c' = SubSeq(s2c, 1, n)
      PROVE  CleanHandshake'
  BY <1>1, <1>9, CleanWhenLost
<1>10. CASE ServerAcceptsFinish \/ ServerRejects \/ LinkBreaks \/ UNCHANGED vars
  <2>1. CASE ServerAcceptsFinish
    BY <1>9, <2>1 DEF ServerAcceptsFinish
  <2>2. CASE ServerRejects
    BY <1>9, <2>2 DEF ServerRejects
  <2>3. CASE LinkBreaks
    BY <1>9, <2>3 DEF LinkBreaks
  <2>4. CASE UNCHANGED vars
    BY <1>9, <2>4
  <2> QED
    BY <1>10, <2>1, <2>2, <2>3, <2>4
<1>11. ASSUME NEW f \in Faults, NEW n \in TicketCounts, ServerAnswers(f, n)
       PROVE  CleanHandshake'
  <2>1. f = "none"
    BY <1>11, CleanBefore
  <2> QED
    BY <1>1, <1>11, <2>1, CleanAnswer
<1>12. ~ServerPushes /\ ~\E f \in Faults : ServerAnswersNoop(f)
  BY <1>1, DataOnlyWhenDone
<1> QED
  BY <1>2, <1>3, <1>4, <1>5, <1>6, <1>7, <1>8, <1>10, <1>11, <1>12
  DEF Next, Calls, Continues, ServerReacts, Environment

LEMMA CleanDataStep ==
  Settled /\ StreamInv /\ NothingLeft /\ ServerCounts /\ CleanData /\ [Next]_vars
    => CleanData'
<1> SUFFICES ASSUME Settled, StreamInv, NothingLeft, ServerCounts, CleanData,
                    [Next]_vars, clean', conn' # "closed", status' = 1
             PROVE  /\ \A i \in DOMAIN s2c' :
                         IsReply(s2c'[i]) /\ s2c'[i].body.form = "ok"
                    /\ noopFailed' => ~up' /\ s2c' = << >>
  BY DEF CleanData, IsReply, IsData
<1> USE DEF vars, client, network, server, history
<1>1. /\ clean /\ conn # "closed"
      /\ TypeOK /\ NonceInv /\ AgreeInv
  BY CleanBefore, StillOpen DEF Settled
<1>2. CASE status = 0
  <2>1. SendClientFinish
    BY <1>2, WhoChanges
  <2>2. s2c' = << >>
    BY <1>1, <2>1 DEF SendClientFinish, StreamInv, BeforeDone, Deliver
  <2>3. ~noopFailed /\ UNCHANGED noopFailed
    BY <1>2, <2>1 DEF SendClientFinish, StreamInv, BeforeDone
  <2>4. ~noopFailed'
    BY <2>3, Zenon
  <2> QED
    BY <2>2, <2>4
<1>3. CASE status = 1
  <2>1. /\ \A i \in DOMAIN s2c : IsReply(s2c[i]) /\ s2c[i].body.form = "ok"
        /\ noopFailed => ~up /\ s2c = << >>
    BY <1>1, <1>3 DEF CleanData
  <2>2. CASE HandshakeAgain \/ Close \/ ServerAcceptsFinish \/ UNCHANGED vars
    <3>1. UNCHANGED <<s2c, up, noopFailed>>
      BY <2>2 DEF HandshakeAgain, Close, ServerAcceptsFinish
    <3>2. noopFailed' => ~up' /\ s2c' = << >>
      <4>1. noopFailed' => noopFailed
        BY <3>1, Zenon
      <4>2. ~up => ~up'
        BY <3>1, Zenon
      <4> QED
        BY <2>1, <3>1, <4>1, <4>2
    <3> QED
      BY <2>1, <3>1, <3>2
  <2>3. CASE ServerRejects
    <3>1. UNCHANGED <<s2c, noopFailed>> /\ ~up'
      BY <2>3 DEF ServerRejects
    <3>2. noopFailed' => noopFailed
      BY <3>1, Zenon
    <3> QED
      BY <2>1, <3>1, <3>2
  <2>4. CASE SendNoop
    <3>1. UNCHANGED s2c /\ UNCHANGED up /\ pc = "idle"
      BY <2>4 DEF SendNoop, Deliver
    <3>2. CASE WriteFails /\ noopFailed' = TRUE
      <4>1. ~up
        BY <1>1, <3>2 DEF WriteFails
      <4>2. ~noopFailed => \A i \in DOMAIN s2c : ~IsReply(s2c[i])
        BY <3>1 DEF StreamInv, Waits, WaitsForOne
      <4>3. ~noopFailed => DOMAIN s2c = {}
        BY <2>1, <4>2
      <4>4. s2c = << >>
        BY <1>1, <2>1, <4>3, Queues, EmptyQueue
      <4>5. ~up'
        BY <3>1, <4>1, Zenon
      <4> QED
        BY <3>1, <4>4, <4>5
    <3>3. CASE UNCHANGED noopFailed
      <4>1. noopFailed' => noopFailed
        BY <3>3, Zenon
      <4>2. ~up => ~up'
        BY <3>1, Zenon
      <4> QED
        BY <2>1, <3>1, <4>1, <4>2
    <3> QED
      BY <2>4, <3>2, <3>3, Zenon DEF SendNoop
  <2>5. CASE ReadFails
    <3>1. s2c = << >> /\ ~up /\ UNCHANGED <<s2c, up>>
      BY <1>1, <2>5 DEF ReadFails
    <3>2. ~up'
      BY <3>1, Zenon
    <3> QED
      BY <3>1, <3>2
  <2>6. CASE ReadNoop
    <3>1. /\ pc = "readNoop" /\ s2c # << >> /\ s2c' = Tail(s2c)
      BY <2>6 DEF ReadNoop, Receive, Consume
    <3>2. ~noopFailed
      BY <2>1, <3>1
    <3>3. 1 \in DOMAIN s2c /\ Head(s2c) = s2c[1]
      BY <1>1, <3>1, Queues, AfterTail
    <3>4. Decrypts(Head(s2c), session.appKey)
      BY <1>1, <1>3, <3>1, <3>2, NextRecordOpens DEF Exact, Decrypts
    <3>5. Parses(Head(s2c), "NoopResponse")
      BY <2>1, <3>3 DEF IsReply, Parses
    <3>6. UNCHANGED noopFailed
      BY <2>6, <3>4, <3>5, Zenon DEF ReadNoop
    <3>7. ~noopFailed'
      BY <3>2, <3>6, Zenon
    <3>8. \A i \in DOMAIN s2c' : i + 1 \in DOMAIN s2c /\ s2c'[i] = s2c[i + 1]
      BY <1>1, <3>1, Queues, AfterTail
    <3> QED
      BY <2>1, <3>7, <3>8
  <2>7. CASE LinkBreaks
    <3>1. PICK n \in 0..Len(s2c) : s2c' = SubSeq(s2c, 1, n)
      BY <2>7 DEF LinkBreaks
    <3>2. /\ \A i \in DOMAIN s2c' : i \in DOMAIN s2c /\ s2c'[i] = s2c[i]
          /\ s2c = << >> => s2c' = << >>
      BY <1>1, <3>1, Queues, AfterLoss
    <3>3. UNCHANGED noopFailed /\ ~up'
      BY <2>7 DEF LinkBreaks
    <3>4. noopFailed' => noopFailed
      BY <3>3, Zenon
    <3> QED
      BY <2>1, <3>2, <3>3, <3>4
  <2>8. ~ServerPushes
    BY CleanBefore
  <2>9. ASSUME NEW f \in Faults, ServerAnswersNoop(f)
        PROVE  /\ \A i \in DOMAIN s2c' :
                    IsReply(s2c'[i]) /\ s2c'[i].body.form = "ok"
               /\ noopFailed' => ~up' /\ s2c' = << >>
    <3>1. f = "none" /\ up
      BY <2>9, CleanBefore DEF ServerAnswersNoop
    <3>2. UNCHANGED noopFailed
      BY <2>9, Zenon DEF ServerAnswersNoop
    <3>3. ~noopFailed'
      BY <2>1, <3>1, <3>2, Zenon
    <3> DEFINE rec == Seal(ServerAppKey, srvSend,
                           Msg("NoopResponse", answered + 1, "ok"), NoKey)
    <3>4. s2c' = Append(s2c, rec)
      <4>1. Faulty(f, "noop") = "ok"
        BY <3>1 DEF Faulty
      <4> QED
        BY <2>9, <4>1, Zenon DEF ServerAnswersNoop
    <3>5. ServerAppKey.label = "application"
      BY DEF ServerAppKey, AppKey, hkdfExpand
    <3>6. IsReply(rec) /\ rec.body.form = "ok"
      BY <3>5 DEF IsReply, IsData, Seal, Msg
    <3> HIDE DEF rec
    <3>7. /\ DOMAIN s2c' = DOMAIN s2c \cup {Len(s2c) + 1}
          /\ \A i \in DOMAIN s2c : s2c'[i] = s2c[i]
          /\ s2c'[Len(s2c) + 1] = rec
      BY <1>1, <3>4, Queues, AfterAppend
    <3> QED
      BY <2>1, <3>3, <3>6, <3>7
  <2> QED
    BY <1>1, <1>3, <2>2, <2>3, <2>4, <2>5, <2>6, <2>7, <2>8, <2>9, StepsWhenDone
<1> QED
  BY <1>1, <1>2, <1>3 DEF TypeOK

LEMMA CleanInvariant ==
  Spec => [](Settled /\ StreamInv /\ ServerCounts /\ CleanHandshake /\ CleanData)
<1>1. Init => NothingLeft /\ CleanHandshake /\ CleanData
  <2> SUFFICES ASSUME Init PROVE NothingLeft /\ CleanHandshake /\ CleanData
    OBVIOUS
  <2>1. pc = "idle" /\ status = 0 /\ c2s = << >> /\ s2c = << >>
    BY DEF Init
  <2> QED
    BY <2>1 DEF NothingLeft, CleanHandshake, CleanData, HasTrafficKey, Reading
<1>2. /\ Settled /\ StreamInv /\ ServerCounts /\ NothingLeft /\ CleanHandshake
         /\ CleanData /\ [Next]_vars
      => NothingLeft' /\ CleanHandshake' /\ CleanData'
  BY NothingLeftStep, CleanHandshakeStep, CleanDataStep DEF Settled
<1> QED
  BY <1>1, <1>2, CountsInvariant, PTL DEF Spec

LEMMA ReadAccepted ==
  ASSUME Settled, StreamInv, ServerCounts, CleanHandshake, CleanData, [Next]_vars,
         clean, pc \in Reading, s2c # << >>, s2c' = Tail(s2c), pc' = "idle"
  PROVE  res' = "ok"
<1>1. TypeOK /\ NonceInv /\ AgreeInv
  BY DEF Settled
<1>2. Len(s2c') = Len(s2c) - 1 /\ Len(s2c) \in Nat
  BY <1>1, Queues, AfterTail
<1>3. s2c' # s2c
  <2>1. PICK n \in Nat : Len(s2c) = n /\ Len(s2c') = n - 1
    BY <1>2
  <2>2. n - 1 # n
    OBVIOUS
  <2> QED
    BY <2>1, <2>2
<1>4. ReadServerHello \/ ReadSignature \/ ReadNewSessionTicket
      \/ ReadServerFinish \/ ReadNoop
  <2>1. ~(Close \/ ServerReacts \/ Environment \/ UNCHANGED vars)
    BY OtherSteps DEF Reading
  <2>2. ~Calls
    BY DEF Calls, Dial, DialFails, HandshakeAgain, Retry, SendNoop, Reading
  <2>3. ~KeyGenFails /\ ~SendClientHello /\ ~SendClientFinish
    BY DEF KeyGenFails, SendClientHello, SendClientFinish, Reading
  <2>4. ~ReadFails
    BY <1>3 DEF ReadFails, network
  <2> QED
    BY <2>1, <2>2, <2>3, <2>4 DEF Next, Continues
<1>5. conn = "open"
  BY <1>4 DEF ReadServerHello, ReadSignature, ReadNewSessionTicket,
     ReadServerFinish, ReadNoop, Receive
<1>6. CASE ~ReadNoop
  <2>1. status = 0
    BY <1>1, <1>4, <1>6 DEF ReadServerHello, ReadSignature, ReadNewSessionTicket,
       ReadServerFinish, Receive, NonceInv, StatusAndPc, Handshaking
  <2>2. CleanReading
    BY <1>1, <1>5, <2>1 DEF CleanReading
  <2> QED
    BY <1>4, <1>6, <2>2, CleanServerHello, CleanSignature, CleanTicket, CleanFinish
<1>7. CASE ReadNoop
  <2>1. status = 1
    BY <1>1, <1>7 DEF ReadNoop, Receive, NonceInv, StatusAndPc
  <2>2. 1 \in DOMAIN s2c /\ Head(s2c) = s2c[1]
    BY <1>1, Queues, AfterTail
  <2>3. /\ ~noopFailed
        /\ IsReply(s2c[1]) /\ s2c[1].body.form = "ok"
    BY <1>5, <2>1, <2>2 DEF CleanData
  <2>4. Decrypts(Head(s2c), session.appKey) /\ Parses(Head(s2c), "NoopResponse")
    BY <2>1, <2>2, <2>3, NextRecordOpens DEF Exact, Decrypts, IsReply, Parses
  <2> QED
    BY <1>7, <2>4, Zenon DEF ReadNoop, Return
<1> QED
  BY <1>6, <1>7

(* While the server has made no mistake and sent nothing unasked, no call  *)
(* that reads a record fails on it: every record is refused for cause.     *)
THEOREM RefusedForCause == Spec => CleanRecordsAccepted
<1>1. Settled /\ StreamInv /\ ServerCounts /\ CleanHandshake /\ CleanData
      /\ [Next]_vars
      => [clean /\ pc \in Reading /\ s2c # << >> /\ s2c' = Tail(s2c) /\ pc' = "idle"
            => res' = "ok"]_vars
  BY ReadAccepted
<1> QED
  BY <1>1, CleanInvariant, PTL DEF Spec, CleanRecordsAccepted

=============================================================================
