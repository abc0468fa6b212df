----------------------------- MODULE WireProofs -----------------------------
(***************************************************************************)
(* The types of the terms of Wire.                                         *)
(***************************************************************************)
EXTENDS Wire, TLAPS

LEMMA KeyTypes ==
  ASSUME NEW s \in Secret, NEW h \in Transcript, NEW l \in Label
  PROVE  hkdfExpand(l, s, h) \in Key
BY DEF hkdfExpand, Key

LEMMA NamedKeys ==
  ASSUME NEW s \in Secret, NEW h \in Transcript
  PROVE  /\ HandshakeKey(s, h) \in Key
         /\ AppKey(s, h) \in Key
         /\ Psk(s, h) \in Key
         /\ ServerFinished(s, h) \in Key
         /\ ClientFinished(s, h) \in Key
         /\ EcdsaSignature(h) \in Key
<1>1. NoSecret \in Secret
  BY DEF NoSecret, Secret
<1> QED
  BY <1>1, KeyTypes DEF HandshakeKey, AppKey, Psk, ServerFinished,
     ClientFinished, EcdsaSignature, Label

LEMMA Constants ==
  NoSecret \in Secret /\ NoKey \in Key /\ << >> \in Transcript
<1>1. NoSecret \in Secret /\ << >> \in Transcript
  BY DEF NoSecret, Secret, Transcript
<1> QED
  BY <1>1, KeyTypes DEF NoKey, Label

LEMMA RecordTypes ==
  ASSUME NEW b \in Message, NEW k \in Key, NEW q \in Nat, NEW t \in Key
  PROVE  Plain(b) \in Record /\ Seal(k, q, b, t) \in Record
BY Constants DEF Plain, Seal, Record

LEMMA MsgType ==
  ASSUME NEW k \in Kind, NEW i \in Nat, NEW f \in Form
  PROVE  Msg(k, i, f) \in Message
BY DEF Msg, Message

LEMMA FlightTypes ==
  ASSUME NEW hello \in Message, NEW id \in Nat, NEW n \in Nat, NEW f
  PROVE  /\ FlightTo(hello, id, f, n) \in Flight
         /\ Len(FlightTo(hello, id, f, n).tr) = 4
<1> DEFINE sh  == Msg("ServerHello", id,
                      IF f = "point" THEN "badpoint" ELSE Faulty(f, "hello"))
           sig == Msg("Signature", id, Faulty(f, "signature"))
           tk  == [Msg("NewSessionTicket", id, Faulty(f, "tickets"))
                     EXCEPT !.count = n]
<1>1. \A g : Faulty(f, g) \in Form
  BY DEF Faulty, Form
<1>2. sh \in Message /\ sig \in Message
  BY <1>1 DEF Msg, Message, Kind, Form
<1>3. tk \in Message
  BY <1>1 DEF Msg, Message, Kind
<1>4. <<hello, sh, sig, tk>> \in Transcript
  BY <1>2, <1>3 DEF Transcript
<1>5. computeEphemeralSecret(hello.id, id) \in Secret
  BY DEF computeEphemeralSecret, Secret, Message
<1> QED
  BY <1>4, <1>5 DEF FlightTo, Flight

LEMMA FlightKeyTypes ==
  ASSUME NEW flight \in Flight, Len(flight.tr) = 4
  PROVE  FlightPsk(flight) \in Key /\ FlightKey(flight) \in Key
<1>1. flight.secret \in Secret /\ flight.tr \in Seq(Message)
  BY DEF Flight, Transcript
<1>2. SubSeq(flight.tr, 1, 2) \in Transcript /\ SubSeq(flight.tr, 1, 3) \in Transcript
  BY <1>1 DEF Transcript
<1> QED
  BY <1>1, <1>2, NamedKeys DEF FlightPsk, FlightKey, Hellos, Signed

LEMMA FlightRecordTypes ==
  ASSUME NEW flight \in Flight, Len(flight.tr) = 4, NEW f
  PROVE  FlightRecords(flight, f) \in Seq(Record)
<1>1. flight.secret \in Secret /\ flight.tr \in Seq(Message)
  BY DEF Flight, Transcript
<1>2. /\ flight.tr[2] \in Message /\ flight.tr[3] \in Message
      /\ flight.tr[4] \in Message
  BY <1>1
<1>3. Hellos(flight) \in Transcript /\ flight.tr \in Transcript
  BY <1>1 DEF Hellos, Transcript
<1>4. Msg("ServerFinish", flight.tr[2].id, Faulty(f, "finish")) \in Message
  BY <1>2 DEF Msg, Message, Kind, Form, Faulty
<1>5. /\ (IF f = "forged" THEN NoKey ELSE EcdsaSignature(Hellos(flight))) \in Key
      /\ (IF f = "mac" THEN NoKey
          ELSE ServerFinished(flight.secret, flight.tr)) \in Key
  BY <1>1, <1>3, NamedKeys, Constants
<1>6. FlightKey(flight) \in Key
  BY FlightKeyTypes
<1> QED
  BY <1>2, <1>4, <1>5, <1>6, RecordTypes, Constants DEF FlightRecords

(* What a flight is made of: the hello it answers, its number in every     *)
(* message of the server, and the count of tickets.                        *)
LEMMA FlightShape ==
  ASSUME NEW hello, NEW id, NEW f, NEW n
  PROVE  /\ FlightTo(hello, id, f, n).secret = <<hello.id, id>>
         /\ Len(FlightTo(hello, id, f, n).tr) = 4
         /\ FlightTo(hello, id, f, n).tr[1] = hello
         /\ FlightTo(hello, id, f, n).tr[2].id = id
         /\ FlightTo(hello, id, f, n).tr[4].id = id
         /\ FlightTo(hello, id, f, n).tr[4].count = n
BY DEF FlightTo, computeEphemeralSecret, Msg

(* The four records of a flight: the hello in the clear, the rest under    *)
(* the handshake key, numbered from 1.                                     *)
LEMMA FlightRecordShape ==
  ASSUME NEW flight, NEW f
  PROVE  /\ Len(FlightRecords(flight, f)) = 4
         /\ FlightRecords(flight, f)[1] = Plain(flight.tr[2])
         /\ \A i \in 2..4 : /\ FlightRecords(flight, f)[i].key = FlightKey(flight)
                            /\ FlightRecords(flight, f)[i].seq = i - 1
         /\ FlightRecords(flight, f)[2].body = flight.tr[3]
         /\ FlightRecords(flight, f)[3].body = flight.tr[4]
BY DEF FlightRecords, Seal

LEMMA FlightFinishShape ==
  ASSUME NEW flight, NEW f
  PROVE  LET finish == FlightRecords(flight, f)[4]
         IN  /\ finish.body = Msg("ServerFinish", flight.tr[2].id,
                                  Faulty(f, "finish"))
             /\ finish.tag = IF f = "mac" THEN NoKey
                             ELSE ServerFinished(flight.secret, flight.tr)
BY DEF FlightRecords, Seal

(* The transcript grows by one message from Hellos to Signed and to the    *)
(* whole of it.                                                            *)
LEMMA TranscriptParts ==
  ASSUME NEW flight \in Flight, Len(flight.tr) = 4
  PROVE  /\ Append(<<flight.tr[1]>>, flight.tr[2]) = Hellos(flight)
         /\ Append(Hellos(flight), flight.tr[3]) = Signed(flight)
         /\ Append(Signed(flight), flight.tr[4]) = flight.tr
<1>1. flight.tr \in Seq(Message)
  BY DEF Flight, Transcript
<1>2. Append(SubSeq(flight.tr, 1, 2), flight.tr[3]) = SubSeq(flight.tr, 1, 3)
  BY <1>1
<1>3. Append(SubSeq(flight.tr, 1, 3), flight.tr[4]) = flight.tr
  BY <1>1
<1>4. ASSUME NEW s \in Seq(Message), Len(s) = 4
      PROVE  Append(<<s[1]>>, s[2]) = SubSeq(s, 1, 2)
  OBVIOUS
<1>5. Append(<<flight.tr[1]>>, flight.tr[2]) = SubSeq(flight.tr, 1, 2)
  BY <1>1, <1>4
<1> QED
  BY <1>2, <1>3, <1>5 DEF Hellos, Signed

LEMMA LoadedTypes ==
  ASSUME NEW n \in Nat
  PROVE  priorFlight(n) \in Flight /\ Loaded(n) \in SessionType
<1>1. Msg("ClientHello", 0, "ok") \in Message
  BY MsgType DEF Kind, Form
<1>2. priorFlight(n) \in Flight /\ Len(priorFlight(n).tr) = 4
  BY <1>1, FlightTypes DEF priorFlight
<1> QED
  BY <1>2, FlightKeyTypes, Constants DEF Loaded, SessionType

LEMMA NoSessionType == NoSession \in SessionType
BY Constants DEF NoSession, SessionType

-----------------------------------------------------------------------------
(* Queues of records: the indices and the elements after one record leaves *)
(* at the front, one joins at the end, several join, a tail is lost.       *)

LEMMA AfterTail ==
  ASSUME NEW S, NEW s \in Seq(S), s # << >>
  PROVE  /\ Tail(s) \in Seq(S)
         /\ Len(Tail(s)) = Len(s) - 1
         /\ 1 \in DOMAIN s /\ Head(s) = s[1]
         /\ \A i \in DOMAIN Tail(s) : /\ i \in Nat /\ 1 < i + 1
                                      /\ i + 1 \in DOMAIN s
                                      /\ Tail(s)[i] = s[i + 1]
         /\ \A i, k \in DOMAIN Tail(s) : i < k => i + 1 < k + 1
OBVIOUS

LEMMA AfterAppend ==
  ASSUME NEW S, NEW s \in Seq(S), NEW x
  PROVE  /\ DOMAIN Append(s, x) = DOMAIN s \cup {Len(s) + 1}
         /\ Len(Append(s, x)) = Len(s) + 1
         /\ \A i \in DOMAIN s : /\ Append(s, x)[i] = s[i]
                                /\ i < Len(s) + 1
                                /\ ~(Len(s) + 1 < i)
                                /\ i # Len(s) + 1
         /\ Append(s, x)[Len(s) + 1] = x
         /\ ~(Len(s) + 1 < Len(s) + 1)
         /\ Append(s, x) # << >>
OBVIOUS

LEMMA AfterConcat ==
  ASSUME NEW S, NEW s \in Seq(S), NEW t \in Seq(S)
  PROVE  /\ Len(s \o t) = Len(s) + Len(t)
         /\ \A i \in DOMAIN s : (s \o t)[i] = s[i]
         /\ \A i \in DOMAIN t : (s \o t)[Len(s) + i] = t[i]
         /\ \A i \in DOMAIN (s \o t) :
              \/ i \in DOMAIN s /\ (s \o t)[i] = s[i]
              \/ /\ i \notin DOMAIN s
                 /\ i - Len(s) \in DOMAIN t
                 /\ (s \o t)[i] = t[i - Len(s)]
OBVIOUS

LEMMA AfterLoss ==
  ASSUME NEW S, NEW s \in Seq(S), NEW n \in 0..Len(s)
  PROVE  /\ DOMAIN SubSeq(s, 1, n) \subseteq DOMAIN s
         /\ Len(SubSeq(s, 1, n)) = n
         /\ \A i \in DOMAIN SubSeq(s, 1, n) : SubSeq(s, 1, n)[i] = s[i]
OBVIOUS

LEMMA EmptyQueue ==
  ASSUME NEW S, NEW s \in Seq(S), DOMAIN s = {}
  PROVE  s = << >>
OBVIOUS

LEMMA SameSequence ==
  ASSUME NEW S, NEW s \in Seq(S), NEW t \in Seq(S), Len(s) = Len(t),
         \A i \in 1..Len(s) : s[i] = t[i]
  PROVE  s = t
OBVIOUS

LEMMA AppendToPair ==
  ASSUME NEW S, NEW a \in S, NEW b \in S, NEW c \in S
  PROVE  Append(<<a, b>>, c) = <<a, b, c>>
<1> DEFINE s == Append(<<a, b>>, c)
           t == <<a, b, c>>
<1>1. s \in Seq(S) /\ t \in Seq(S) /\ Len(s) = 3 /\ Len(t) = 3
  OBVIOUS
<1>2. t[1] = a /\ t[2] = b /\ t[3] = c
  OBVIOUS
<1>3. s[1] = a /\ s[2] = b /\ s[3] = c
  OBVIOUS
<1> HIDE DEF s, t
<1>4. \A i \in 1..3 : i = 1 \/ i = 2 \/ i = 3
  OBVIOUS
<1>5. \A i \in 1..3 : s[i] = t[i]
  BY <1>2, <1>3, <1>4
<1>6. s = t
  BY <1>1, <1>5, SameSequence
<1> QED
  BY <1>6 DEF s, t

=============================================================================
