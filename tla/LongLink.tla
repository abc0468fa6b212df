------------------------------ MODULE LongLink ------------------------------
(***************************************************************************)
(* The long-link client MMTLSClient (mmtls/mmtls.go): one TCP connection,  *)
(* a 1-RTT handshake on it, then Noop heartbeats.  The client is a         *)
(* sequential caller of Handshake and Noop; Close may come from another    *)
(* goroutine at any point.  A call is split at every read and write of the *)
(* connection.  The server and the network are external: they are modelled *)
(* from what the client sends and accepts.                                 *)
(***************************************************************************)
EXTENDS Wire, Integers

CONSTANTS
  MaxHandshakes,  (* bound on the handshake attempts of the client          *)
  MaxNoops,       (* bound on the calls of Noop                             *)
  MaxPushes,      (* bound on the records the server sends unasked          *)
  TicketCounts,   (* the numbers of tickets a NewSessionTicket may carry    *)
  Faults          (* what may be wrong with a server's answer; "none" too   *)

AllFaults == HandshakeFaults \cup {"noop"}

ASSUME MaxHandshakesAssumption == MaxHandshakes \in Nat
ASSUME MaxNoopsAssumption      == MaxNoops \in Nat
ASSUME MaxPushesAssumption     == MaxPushes \in Nat
ASSUME TicketCountsAssumption  == TicketCounts \subseteq Nat
ASSUME FaultsAssumption        == Faults \subseteq AllFaults

VARIABLES
  conn,          (* MMTLSClient.conn: "none", "open" or "closed"            *)
  status,        (* MMTLSClient.status: 1 once the handshake is complete    *)
  transcript,    (* what handshakeHasher has been fed since its last Reset  *)
  serverSeqNum,  (* sequence number of the next record to decrypt           *)
  clientSeqNum,  (* sequence number of the next record to encrypt           *)
  session,       (* MMTLSClient.Session                                     *)
  pc,            (* where the caller of Handshake or Noop stands            *)
  trafficKey,    (* the local variable of Handshake; its secret is comKey   *)
  res,           (* what the last call returned                             *)
  up,            (* the peer has neither closed nor lost the connection     *)
  c2s, s2c,      (* records in flight, each way                             *)
  srvState,      (* what the server waits for: a hello, a finish or data    *)
  srvSend,       (* server: sequence number of its next record              *)
  srvRecv,       (* server: sequence number of the next record to come      *)
  flights,       (* server: the handshakes it has answered, in order        *)
  attempt,       (* history: key pairs generated so far                     *)
  sealed,        (* history: the (key, sequence number) of each encrypt     *)
  noops,         (* history: calls of Noop                                  *)
  noopFailed,    (* history: a call of Noop has returned an error           *)
  answered,      (* history: noops the server has answered                  *)
  pushes,        (* history: records the server has sent unasked            *)
  clean          (* history: no answer of the server has had a fault, no    *)
                 (* record came unasked                                     *)

client  == <<status, transcript, serverSeqNum, clientSeqNum, session,
             trafficKey>>
network == <<up, c2s, s2c>>
server  == <<srvState, srvSend, srvRecv, flights, answered, pushes,
             clean>>
history == <<attempt, sealed, noops, noopFailed>>
vars    == <<conn, client, pc, res, network, server, history>>

Reading == {"readServerHello", "readSignature", "readNewSessionTicket",
            "readServerFinish", "readNoop"}

TypeOK ==
  /\ conn \in {"none", "open", "closed"}
  /\ status \in {0, 1}
  /\ transcript \in Transcript
  /\ serverSeqNum \in Nat
  /\ clientSeqNum \in Nat
  /\ session \in SessionType
  /\ pc \in Reading \cup {"idle", "sendClientHello", "sendClientFinish",
                        "panicked"}
  /\ trafficKey \in Key
  /\ res \in {"none", "ok", "err"}
  /\ up \in BOOLEAN
  /\ c2s \in Seq(Record)
  /\ s2c \in Seq(Record)
  /\ srvState \in {"hello", "finish", "data"}
  /\ srvSend \in Nat
  /\ srvRecv \in Nat
  /\ flights \in Seq(Flight)
  /\ attempt \in Nat
  /\ sealed \in Seq(Key \X Nat)
  /\ noops \in Nat
  /\ noopFailed \in BOOLEAN
  /\ answered \in Nat
  /\ pushes \in Nat
  /\ clean \in BOOLEAN

Init ==
  /\ conn = "none"
  /\ status = 0
  /\ transcript = << >>
  /\ serverSeqNum = 0
  /\ clientSeqNum = 0
  /\ \/ session = NoSession /\ flights = << >>
     \/ \E n \in TicketCounts : session = Loaded(n) /\ flights = <<priorFlight(n)>>
  /\ pc = "idle"
  /\ trafficKey = NoKey
  /\ res = "none"
  /\ up = FALSE
  /\ c2s = << >>
  /\ s2c = << >>
  /\ srvState = "hello"
  /\ srvSend = 0
  /\ srvRecv = 0
  /\ attempt = 0
  /\ sealed = << >>
  /\ noops = 0
  /\ noopFailed = FALSE
  /\ answered = 0
  /\ pushes = 0
  /\ clean = TRUE


-----------------------------------------------------------------------------
(* The client: Handshake.                                                  *)

(* conn.Write: a connection closed here refuses the record; one the peer   *)
(* has left may refuse it or swallow it.                                   *)
WriteWorks == conn = "open"
WriteFails == conn = "closed" \/ ~up

(* (mutant: a buffered writer that nobody flushes)                         *)
NeverFlushed(rec) == UNCHANGED network

Deliver(rec) ==
  /\ c2s' = IF up THEN Append(c2s, rec) ELSE c2s
  /\ UNCHANGED <<up, s2c>>

(* Every call ends here, with or without an error.                         *)
Return(r) == pc' = "idle" /\ res' = r

(* (mutants: the increments forgotten)                                     *)
SameClientSeq == clientSeqNum
SameServerSeq == serverSeqNum

NextClientSeq == clientSeqNum + 1
NextServerSeq == serverSeqNum + 1

(* record.encrypt seals with the key and the current sequence number; the  *)
(* counter moves whether or not the write that follows succeeds.           *)
Encrypt(key) ==
  /\ sealed' = Append(sealed, <<key, clientSeqNum>>)
  /\ clientSeqNum' = NextClientSeq

(* Handshake dials only while conn is nil: a connection that has failed is *)
(* kept, and every later Handshake goes on using it.                       *)
Dial ==
  /\ pc = "idle" /\ conn = "none" /\ attempt < MaxHandshakes
  /\ conn' = "open"
  /\ up' = TRUE
  /\ pc' = "sendClientHello"
  /\ UNCHANGED <<client, res, c2s, s2c, server, history>>

DialFails ==
  /\ pc = "idle" /\ conn = "none"
  /\ Return("err")
  /\ UNCHANGED <<conn, client, network, server, history>>

HandshakeAgain ==
  /\ pc = "idle" /\ conn # "none" /\ status = 1
  /\ Return("ok")
  /\ UNCHANGED <<conn, client, network, server, history>>

(* (mutant: handshakeComplete not asked)                                   *)
RetryRegardless ==
  /\ pc = "idle" /\ conn # "none" /\ attempt < MaxHandshakes
  /\ pc' = "sendClientHello"
  /\ UNCHANGED <<conn, client, res, network, server, history>>

Retry ==
  /\ pc = "idle" /\ conn # "none" /\ status = 0 /\ attempt < MaxHandshakes
  /\ pc' = "sendClientHello"
  /\ UNCHANGED <<conn, client, res, network, server, history>>

(* genKeyPairs fails after reset has cleared the hash and the counters.    *)
KeyGenFails ==
  /\ pc = "sendClientHello"
  /\ transcript' = << >>
  /\ serverSeqNum' = 0
  /\ clientSeqNum' = 0
  /\ Return("err")
  /\ UNCHANGED <<conn, status, session, trafficKey, network, server, history>>

(* The hello of a fresh key pair offers the second ticket of the session,  *)
(* the one bound to PSK_REFRESH, when there is one.                        *)
newHello ==
  [Msg("ClientHello", attempt + 1, "ok")
     EXCEPT !.ticket = IF session.tickets > 1 THEN session.issue ELSE 0]

SendClientHello ==
  /\ pc = "sendClientHello"
  /\ attempt' = attempt + 1
  /\ transcript' = <<newHello>>
  /\ serverSeqNum' = 0
  /\ clientSeqNum' = 1
  /\ \/ /\ WriteWorks
        /\ Deliver(Plain(newHello))
        /\ pc' = "readServerHello"
        /\ UNCHANGED res
     \/ /\ WriteFails
        /\ Return("err")
        /\ UNCHANGED network
  /\ UNCHANGED <<conn, status, session, trafficKey, server, sealed, noops,
                 noopFailed>>

(* Every read blocks, without a deadline, until a record or an error.      *)
Receive(at) == pc = at /\ conn = "open" /\ s2c # << >>

Consume ==
  /\ s2c' = Tail(s2c)
  /\ UNCHANGED <<up, c2s>>

ReadFails ==
  /\ pc \in Reading
  /\ conn = "closed" \/ (s2c = << >> /\ ~up)
  /\ Return("err")
  /\ noopFailed' = (noopFailed \/ pc = "readNoop")
  /\ UNCHANGED <<conn, client, network, server, attempt, sealed, noops>>

(* The ServerHello is hashed and counted before it is parsed.  A key share *)
(* off the curve parses, and computeEphemeralSecret panics on it.          *)
ReadServerHello ==
  /\ Receive("readServerHello")
  /\ Consume
  /\ LET rec    == Head(s2c)
         parsed == rec.key = NoKey /\ rec.body.kind = "ServerHello"
     IN  /\ transcript' = Append(transcript, rec.body)
         /\ serverSeqNum' = NextServerSeq
         /\ \/ /\ parsed /\ rec.body.form = "ok"
               /\ trafficKey' =
                    HandshakeKey(computeEphemeralSecret(attempt, rec.body.id),
                                 transcript')
               /\ pc' = "readSignature"
               /\ UNCHANGED res
            \/ /\ parsed /\ rec.body.form = "badpoint"
               /\ pc' = "panicked"
               /\ UNCHANGED <<trafficKey, res>>
            \/ /\ ~parsed \/ rec.body.form = "garbled"
               /\ Return("err")
               /\ UNCHANGED trafficKey
  /\ UNCHANGED <<conn, status, clientSeqNum, session, server, history>>

(* What a step of the handshake does with a record it accepts.             *)
Accept(rec, next) ==
  /\ transcript' = Append(transcript, rec.body)
  /\ serverSeqNum' = NextServerSeq
  /\ pc' = next
  /\ UNCHANGED res

(* decrypt and the message's parser succeed.                               *)
Decrypts(rec, key) == Opens(rec, key, serverSeqNum)

(* (mutant: the type of the message not looked at)                         *)
AnyKind(rec, kind) == rec.body.form = "ok"

Parses(rec, kind) == rec.body.kind = kind /\ rec.body.form = "ok"

verifyEcdsa(rec) == rec.tag = EcdsaSignature(transcript)

ReadSignature ==
  /\ Receive("readSignature")
  /\ Consume
  /\ LET rec == Head(s2c)
         good == /\ Decrypts(rec, trafficKey)
                 /\ Parses(rec, "Signature")
                 /\ verifyEcdsa(rec)
     IN  \/ good /\ Accept(rec, "readNewSessionTicket")
         \/ ~good /\ Return("err") /\ UNCHANGED <<transcript, serverSeqNum>>
  /\ UNCHANGED <<conn, status, clientSeqNum, session, trafficKey, server,
                 history>>

(* (mutants: the tickets counted one too low; the pre-shared keys derived  *)
(* from the transcript with the ticket message in it)                      *)
SessionOneTicketLess(rec) ==
  [issue |-> rec.body.id, tickets |-> rec.body.count - 1,
   psk |-> Psk(trafficKey.secret, transcript), appKey |-> NoKey]

SessionAfterHash(rec) ==
  [issue |-> rec.body.id, tickets |-> rec.body.count,
   psk |-> Psk(trafficKey.secret, Append(transcript, rec.body)),
   appKey |-> NoKey]

(* The pre-shared keys are derived before the ticket message is hashed.    *)
newSession(rec) ==
  [issue |-> rec.body.id, tickets |-> rec.body.count,
   psk |-> Psk(trafficKey.secret, transcript), appKey |-> NoKey]

(* The session in memory is replaced here, before the server has proved    *)
(* itself with its finish message.                                         *)
ReadNewSessionTicket ==
  /\ Receive("readNewSessionTicket")
  /\ Consume
  /\ LET rec == Head(s2c)
         good == Decrypts(rec, trafficKey) /\ Parses(rec, "NewSessionTicket")
     IN  \/ good /\ Accept(rec, "readServerFinish") /\ session' = newSession(rec)
         \/ /\ ~good
            /\ Return("err")
            /\ UNCHANGED <<transcript, serverSeqNum, session>>
  /\ UNCHANGED <<conn, status, clientSeqNum, trafficKey, server, history>>

serverFinishMatches(rec) ==
  rec.tag = ServerFinished(trafficKey.secret, transcript)

(* A finish message that does not parse is taken for a good one: the error *)
(* of ReadServerFinish is returned as nil, unverified and not counted.     *)
FinishUnparsed(rec) == Decrypts(rec, trafficKey) /\ ~Parses(rec, "ServerFinish")

ReadServerFinish ==
  /\ Receive("readServerFinish")
  /\ Consume
  /\ LET rec == Head(s2c)
         good == /\ Decrypts(rec, trafficKey)
                 /\ Parses(rec, "ServerFinish")
                 /\ serverFinishMatches(rec)
     IN  \/ /\ good
            /\ serverSeqNum' = NextServerSeq
            /\ pc' = "sendClientFinish"
            /\ UNCHANGED res
         \/ /\ FinishUnparsed(rec)
            /\ pc' = "sendClientFinish"
            /\ UNCHANGED <<serverSeqNum, res>>
         \/ /\ ~good /\ ~FinishUnparsed(rec)
            /\ Return("err")
            /\ UNCHANGED serverSeqNum
  /\ UNCHANGED <<conn, status, transcript, clientSeqNum, session, trafficKey,
                 server, history>>

clientFinish ==
  Seal(trafficKey, clientSeqNum, Msg("ClientFinish", attempt, "ok"),
       ClientFinished(trafficKey.secret, transcript))

(* (mutant: ClientFinish hashed before the application key is derived)     *)
KeyAfterFinish ==
  AppKey(trafficKey.secret, Append(transcript, clientFinish.body))

(* expandedSecret is HKDF of comKey over the transcript, and the           *)
(* application key HKDF of it over the same transcript: one term.          *)
applicationKey == AppKey(trafficKey.secret, transcript)

SendClientFinish ==
  /\ pc = "sendClientFinish"
  /\ Encrypt(trafficKey)
  /\ \/ /\ WriteWorks
        /\ Deliver(clientFinish)
        /\ session' = [session EXCEPT !.appKey = applicationKey]
        /\ status' = 1
        /\ Return("ok")
     \/ /\ WriteFails
        /\ Return("err")
        /\ UNCHANGED <<session, status, network>>
  /\ UNCHANGED <<conn, transcript, serverSeqNum, trafficKey, server, attempt,
                 noops, noopFailed>>

-----------------------------------------------------------------------------
(* The client: Noop and Close.                                             *)

noopRequest ==
  Seal(session.appKey, clientSeqNum, Msg("Noop", noops + 1, "ok"), NoKey)

(* Callers send a Noop only after Handshake has returned nil.              *)
SendNoop ==
  /\ pc = "idle" /\ status = 1 /\ noops < MaxNoops
  /\ noops' = noops + 1
  /\ Encrypt(session.appKey)
  /\ \/ /\ WriteWorks
        /\ Deliver(noopRequest)
        /\ pc' = "readNoop"
        /\ UNCHANGED <<res, noopFailed>>
     \/ /\ WriteFails
        /\ Return("err")
        /\ noopFailed' = TRUE
        /\ UNCHANGED network
  /\ UNCHANGED <<conn, status, transcript, serverSeqNum, session, trafficKey,
                 server, attempt>>

(* (mutant: every record read is counted)                                  *)
CountAlways(good) == NextServerSeq

(* A record that opens but is no noop response is an error that leaves the *)
(* counter where it was.                                                   *)
NoopSeq(good) == IF good THEN NextServerSeq ELSE serverSeqNum

ReadNoop ==
  /\ Receive("readNoop")
  /\ Consume
  /\ LET rec == Head(s2c)
         good == Decrypts(rec, session.appKey) /\ Parses(rec, "NoopResponse")
     IN  /\ serverSeqNum' = NoopSeq(good)
         /\ \/ good /\ Return("ok") /\ UNCHANGED noopFailed
            \/ ~good /\ Return("err") /\ noopFailed' = TRUE
  /\ UNCHANGED <<conn, status, transcript, clientSeqNum, session, trafficKey,
                 server, attempt, sealed, noops>>

(* Close leaves conn non-nil and status as it was.                         *)
Close ==
  /\ conn = "open" /\ pc # "panicked"
  /\ conn' = "closed"
  /\ UNCHANGED <<client, pc, res, network, server, history>>

-----------------------------------------------------------------------------
(* The server and the network, as far as the client can tell.              *)

LastFlight == flights[Len(flights)]

(* The server answers a hello, also one in the middle of a handshake.      *)
ServerAnswers(f, n) ==
  /\ up /\ c2s # << >>
  /\ Head(c2s).key = NoKey
  /\ c2s' = Tail(c2s)
  /\ LET flight == FlightTo(Head(c2s).body, Len(flights) + 1, f, n)
     IN  /\ s2c' = s2c \o FlightRecords(flight, f)
         /\ flights' = Append(flights, flight)
  /\ srvState' = "finish"
  /\ srvSend' = 4
  /\ srvRecv' = 1
  /\ clean' = (clean /\ f = "none")
  /\ UNCHANGED <<conn, client, pc, res, up, history, answered, pushes>>

(* The application key and the handshake key of the last flight.           *)
ServerAppKey == AppKey(LastFlight.secret, LastFlight.tr)
ServerHandshakeKey == FlightKey(LastFlight)

GoodFinish(rec) ==
  /\ srvState = "finish"
  /\ Opens(rec, ServerHandshakeKey, srvRecv)
  /\ rec.tag = ClientFinished(LastFlight.secret, LastFlight.tr)

GoodNoop(rec) == srvState = "data" /\ Opens(rec, ServerAppKey, srvRecv)

ServerAcceptsFinish ==
  /\ up /\ c2s # << >>
  /\ GoodFinish(Head(c2s))
  /\ c2s' = Tail(c2s)
  /\ srvState' = "data"
  /\ srvRecv' = srvRecv + 1
  /\ UNCHANGED <<conn, client, pc, res, up, s2c, srvSend, flights, answered,
                 pushes, clean, history>>

ServerAnswersNoop(f) ==
  /\ up /\ c2s # << >>
  /\ GoodNoop(Head(c2s))
  /\ c2s' = Tail(c2s)
  /\ s2c' = Append(s2c, Seal(ServerAppKey, srvSend,
                             Msg("NoopResponse", answered + 1,
                                 Faulty(f, "noop")), NoKey))
  /\ srvRecv' = srvRecv + 1
  /\ srvSend' = srvSend + 1
  /\ answered' = answered + 1
  /\ clean' = (clean /\ f = "none")
  /\ UNCHANGED <<conn, client, pc, res, up, srvState, flights, pushes, history>>

(* Data the server sends of its own accord, a notification.                *)
ServerPushes ==
  /\ up /\ srvState = "data" /\ pushes < MaxPushes
  /\ s2c' = Append(s2c, Seal(ServerAppKey, srvSend,
                             Msg("Push", pushes + 1, "ok"), NoKey))
  /\ srvSend' = srvSend + 1
  /\ pushes' = pushes + 1
  /\ clean' = FALSE
  /\ UNCHANGED <<conn, client, pc, res, up, c2s, srvState, srvRecv, flights,
                 answered, history>>

(* A record that makes no sense to the server ends the connection; so may  *)
(* a hello in the middle of another handshake.                             *)
ServerRejects ==
  /\ up /\ c2s # << >>
  /\ \/ Head(c2s).key = NoKey /\ srvState # "hello"
     \/ /\ Head(c2s).key # NoKey
        /\ ~GoodFinish(Head(c2s)) /\ ~GoodNoop(Head(c2s))
  /\ up' = FALSE
  /\ c2s' = << >>
  /\ UNCHANGED <<conn, client, pc, res, s2c, server, history>>

(* The peer leaves or the path breaks: what is on its way to the server is *)
(* lost, and so is any tail of what is on its way to the client.           *)
LinkBreaks ==
  /\ up
  /\ up' = FALSE
  /\ c2s' = << >>
  /\ \E n \in 0..Len(s2c) : s2c' = SubSeq(s2c, 1, n)
  /\ UNCHANGED <<conn, client, pc, res, server, history>>

-----------------------------------------------------------------------------
(* The specification.  Calls start when the caller likes and Close comes   *)
(* when it likes; a call that has started goes on, and the server deals    *)
(* with what it is sent.                                                   *)

Calls == Dial \/ DialFails \/ HandshakeAgain \/ Retry \/ SendNoop

Continues == \/ KeyGenFails \/ SendClientHello \/ ReadServerHello
             \/ ReadSignature \/ ReadNewSessionTicket \/ ReadServerFinish
             \/ SendClientFinish \/ ReadNoop \/ ReadFails

ServerReacts == \/ \E f \in Faults, n \in TicketCounts : ServerAnswers(f, n)
                \/ ServerAcceptsFinish
                \/ \E f \in Faults : ServerAnswersNoop(f)
                \/ ServerRejects

Environment == ServerPushes \/ LinkBreaks

Next == Calls \/ Continues \/ Close \/ ServerReacts \/ Environment

Spec == Init /\ [][Next]_vars

Fairness == WF_vars(Continues) /\ WF_vars(ServerReacts)

FairSpec == Spec /\ Fairness

-----------------------------------------------------------------------------
(* Properties.                                                             *)

(* When Handshake has returned nil, client and server hold the same        *)
(* application key, from the handshake the server answered last, and the   *)
(* client's tickets are of that handshake: no record left over from an     *)
(* earlier attempt on the same connection can complete a later one.        *)
KeyAgreement ==
  status = 1 =>
    /\ flights # << >>
    /\ session.appKey = ServerAppKey
    /\ session.issue = Len(flights)

(* When Handshake has returned nil the two ends count records alike: what  *)
(* the client has sent is what the server expects next, and until a Noop   *)
(* fails, what the server has sent opens at the client.                    *)
InStep ==
  status = 1 =>
    /\ up /\ c2s # << >> => GoodFinish(Head(c2s)) \/ GoodNoop(Head(c2s))
    /\ ~noopFailed /\ s2c # << >> =>
         Opens(Head(s2c), session.appKey, serverSeqNum)

(* AES-GCM must never seal twice with the same key and nonce: no two       *)
(* encrypts, of whatever attempt and after whatever failed write, share a  *)
(* key and a sequence number.                                              *)
NoNonceReuse ==
  \A i, j \in DOMAIN sealed : sealed[i] = sealed[j] => i = j

(* The session in memory is one the server issued, its pre-shared keys are *)
(* those the server derived and its tickets the ones sent with them, also  *)
(* after a handshake that failed once the session was replaced: the next   *)
(* handshake will offer them.                                              *)
SessionCoherent == session.issue > 0 => SessionOf(session, flights)

NoopSucceeds == pc = "readNoop" /\ pc' = "idle" /\ res' = "ok"

(* Noop returns nil only when the server has answered every Noop so far: a *)
(* push or an older answer is never taken for the answer.                  *)
NoopAnswered == [][NoopSucceeds => answered = noops]_vars

(* After one Noop has failed no other succeeds: a client cannot read past  *)
(* a record it has missed and go on.                                       *)
FailStop == [][NoopSucceeds => ~noopFailed]_vars

(* A record is refused only for cause: while the server has sent nothing   *)
(* wrong and nothing unasked, a call that reads a record does not fail.    *)
CleanRecordsAccepted ==
  [][clean /\ pc \in Reading /\ s2c # << >> /\ s2c' = Tail(s2c) /\ pc' = "idle"
       => res' = "ok"]_vars

(* A call that has started returns (or the process panics), if the peer    *)
(* deals with what it is sent: there is no state in which the client waits *)
(* for a record the server has no reason to send.  Reads have no deadline. *)
CallsReturn == (pc # "idle") ~> (pc \in {"idle", "panicked"})

-----------------------------------------------------------------------------
(* The long link implements SecureLink.                                    *)

Link == INSTANCE SecureLink WITH
  offered <- [i \in DOMAIN flights |-> AppKey(flights[i].secret, flights[i].tr)],
  agreed  <- IF status = 1 THEN session.appKey ELSE NoKey,
  beats   <- noops,
  replies <- answered,
  calling <- pc = "readNoop",
  broken  <- noopFailed,
  outcome <- res

(* Every behaviour of the long link, faulty answers, retries on a used     *)
(* connection, Close and broken links included, is one of SecureLink.      *)
ImplementsSecureLink == Link!Spec

=============================================================================
