----------------------------- MODULE ShortLink ------------------------------
(***************************************************************************)
(* The short-link client MMTLSClientShort (mmtls/mmtls_short.go): every    *)
(* exchange is one HTTP POST on a connection of its own.  Handshake posts  *)
(* an ECDHE hello and gets tickets; Request posts a hello with a ticket    *)
(* and early data, 0-RTT, after a handshake of its own when it has no      *)
(* session.  The response is read whole and then parsed record by record.  *)
(* The server and the network are external.                                *)
(***************************************************************************)
EXTENDS Wire, Integers

CONSTANTS
  MaxHandshakes,  (* bound on the handshakes the client posts               *)
  MaxRequests,    (* bound on the calls of Request                          *)
  TicketCounts,   (* the numbers of tickets a NewSessionTicket may carry    *)
  Faults          (* what may be wrong with a server's answer; "none" too   *)

ASSUME MaxHandshakesAssumption == MaxHandshakes \in Nat
ASSUME MaxRequestsAssumption   == MaxRequests \in Nat
ASSUME TicketCountsAssumption  == TicketCounts \subseteq Nat
ASSUME FaultsAssumption        == Faults \subseteq HandshakeFaults

VARIABLES
  status,        (* MMTLSClientShort.status: 1 once a handshake is complete *)
  transcript,    (* what handshakeHasher has been fed since its last Reset  *)
  serverSeqNum,  (* sequence number of the next record to decrypt           *)
  clientSeqNum,  (* sequence number of the next record to encrypt           *)
  session,       (* MMTLSClientShort.Session                                *)
  packetReader,  (* the records of the response not read yet                *)
  trafficKey,    (* the local variable of Handshake; its secret is comKey   *)
  dataRecord,    (* the local variable of Request: what the data answers    *)
  call,          (* the public call in progress, or the last one            *)
  pc,            (* where it stands                                         *)
  res,           (* what the last call returned                             *)
  conn,          (* the connection of the exchange: none, open or lost      *)
  post,          (* the body posted, until the server takes it              *)
  reply,         (* <<b>>: the body b of the response on its way; or << >>  *)
  issued,        (* server: the handshakes it has answered, in order        *)
  attempt,       (* history: key pairs generated so far                     *)
  requests,      (* history: calls of Request                               *)
  sealed,        (* history: the (key, sequence number) of each encrypt     *)
  served,        (* history: responses the server has sent                  *)
  last,          (* history: the body of the last one                       *)
  intact,        (* history: the response is the server's good answer       *)
  unproved       (* history: handshakes the server answered with a finish   *)
                 (* that proves nothing                                     *)

client  == <<status, transcript, serverSeqNum, clientSeqNum, session,
             trafficKey, dataRecord>>
network == <<conn, post, reply, intact>>
server  == <<issued, served, last, unproved>>
history == <<attempt, requests, sealed>>
vars    == <<client, packetReader, call, pc, res, network, server, history>>

InHandshake == {"readServerHello", "readSignature", "readNewSessionTicket",
                "readServerFinish"}
InRequest == {"readHello", "readFinish", "readData", "readAbort"}
Parsing == InHandshake \cup InRequest
Waiting == {"awaitHandshake", "awaitRequest"}

TypeOK ==
  /\ status \in {0, 1}
  /\ transcript \in Transcript
  /\ serverSeqNum \in Nat
  /\ clientSeqNum \in Nat
  /\ session \in SessionType
  /\ packetReader \in Seq(Record)
  /\ trafficKey \in Key
  /\ dataRecord \in Nat
  /\ call \in {"Handshake", "Request"}
  /\ pc \in Parsing \cup Waiting \cup {"idle", "sendHello", "sendRequest",
                                       "panicked"}
  /\ res \in {"none", "ok", "err"}
  /\ conn \in {"none", "open", "lost"}
  /\ post \in Seq(Record)
  /\ reply \in Seq(Seq(Record))
  /\ issued \in Seq(Flight)
  /\ attempt \in Nat
  /\ requests \in Nat
  /\ sealed \in Seq(Key \X Nat)
  /\ served \in Nat
  /\ last \in Seq(Record)
  /\ intact \in BOOLEAN
  /\ unproved \subseteq Nat

Init ==
  /\ status = 0
  /\ transcript = << >>
  /\ serverSeqNum = 0
  /\ clientSeqNum = 0
  /\ \/ session = NoSession /\ issued = << >>
     \/ \E n \in TicketCounts : session = Loaded(n) /\ issued = <<priorFlight(n)>>
  /\ packetReader = << >>
  /\ trafficKey = NoKey
  /\ dataRecord = 0
  /\ call = "Handshake"
  /\ pc = "idle"
  /\ res = "none"
  /\ conn = "none"
  /\ post = << >>
  /\ reply = << >>
  /\ attempt = 0
  /\ requests = 0
  /\ sealed = << >>
  /\ served = 0
  /\ last = << >>
  /\ intact = FALSE
  /\ unproved = {}

-----------------------------------------------------------------------------
(* The public calls.                                                       *)

Return(r) == pc' = "idle" /\ res' = r

CallHandshake ==
  /\ pc = "idle"
  /\ call' = "Handshake"
  /\ \/ status = 1 /\ Return("ok")
     \/ /\ status = 0 /\ attempt < MaxHandshakes
        /\ pc' = "sendHello"
        /\ UNCHANGED res
  /\ UNCHANGED <<client, packetReader, network, server, history>>

(* (mutant: the long link's test for the second ticket)                    *)
HasTwoTickets == session.tickets > 1 /\ session.psk # NoKey

(* ensureSession's test: a session with a ticket and a pre-shared key will *)
(* do, whatever became of the handshake it is from.                        *)
HasSession == session.tickets > 0 /\ session.psk # NoKey

(* Without one Request calls Handshake, which does nothing when an earlier *)
(* handshake has completed.                                                *)
CallRequest ==
  /\ pc = "idle" /\ requests < MaxRequests
  /\ requests' = requests + 1
  /\ call' = "Request"
  /\ \/ /\ HasSession \/ status = 1
        /\ pc' = "sendRequest"
     \/ /\ ~HasSession /\ status = 0 /\ attempt < MaxHandshakes
        /\ pc' = "sendHello"
  /\ UNCHANGED <<client, packetReader, res, network, server, attempt, sealed>>

-----------------------------------------------------------------------------
(* One exchange: dial, post, and read the response.                        *)

Posts(body, next) ==
  /\ conn' = "open"
  /\ post' = body
  /\ reply' = << >>
  /\ intact' = FALSE
  /\ pc' = next
  /\ UNCHANGED res

(* (mutants: no deferred Close; no Close after a failed write)             *)
EndWithoutClose(r) == Return(r) /\ UNCHANGED conn

WriteFailsOpen ==
  Return("err") /\ conn' = "open" /\ UNCHANGED <<post, reply, intact>>

(* The deferred conn.Close of Request.                                     *)
EndRequest(r) == Return(r) /\ conn' = "none"

(* Handshake draws the random name of the URL, dials and writes.  Without  *)
(* a connection there is none to close; one whose write has failed is      *)
(* closed by hand.                                                         *)
NotDialled == Return("err") /\ UNCHANGED network

WriteFails ==
  Return("err") /\ conn' = "none" /\ UNCHANGED <<post, reply, intact>>

(* Request has dialled before it packs and writes.                         *)
PostFails == EndRequest("err") /\ UNCHANGED <<post, reply, intact>>

(* parseResponse: whatever part of the body has come is taken for it.      *)
ReadResponse ==
  /\ pc \in Waiting /\ reply # << >>
  /\ packetReader' = reply[1]
  /\ conn' = IF pc = "awaitHandshake" THEN "none" ELSE conn
  /\ pc' = IF pc = "awaitHandshake" THEN "readServerHello" ELSE "readHello"
  /\ reply' = << >>
  /\ UNCHANGED <<client, call, res, post, intact, server, history>>

(* (mutant: an error of the read is looked at only when data has come)     *)
FailsWithData ==
  /\ pc \in Waiting /\ conn = "lost" /\ reply # << >>
  /\ Return("err")
  /\ conn' = "none"
  /\ UNCHANGED <<client, packetReader, call, post, reply, intact, server,
                 history>>

ResponseFails ==
  /\ pc \in Waiting /\ conn = "lost"
  /\ Return("err")
  /\ conn' = "none"
  /\ UNCHANGED <<client, packetReader, call, post, reply, intact, server,
                 history>>

(* readRecord at the end of the body.                                      *)
BodyEnds ==
  /\ pc \in Parsing /\ packetReader = << >>
  /\ EndRequest("err")
  /\ UNCHANGED <<client, packetReader, call, post, reply, intact, server,
                 history>>

Take(at) ==
  /\ pc = at /\ packetReader # << >>
  /\ packetReader' = Tail(packetReader)
  /\ UNCHANGED <<status, clientSeqNum, call, post, reply, intact, server,
                 history>>

rec == Head(packetReader)

(* (mutant: the error of decrypt ignored)                                  *)
Unchecked(key) == TRUE

Decrypts(key) == Opens(rec, key, serverSeqNum)

Parses(kind) == rec.body.kind = kind /\ rec.body.form = "ok"

(* (mutant: a record left out of the transcript)                           *)
NotHashed == UNCHANGED transcript

(* A record is hashed, except the last ones of a request, and counted.     *)
Hash  == transcript' = Append(transcript, rec.body)
Count == serverSeqNum' = serverSeqNum + 1

-----------------------------------------------------------------------------
(* Handshake.                                                              *)

clientHello == Msg("ClientHello", attempt + 1, "ok")

KeyGenFails ==
  /\ pc = "sendHello"
  /\ transcript' = << >>
  /\ serverSeqNum' = 0
  /\ clientSeqNum' = 0
  /\ Return("err")
  /\ UNCHANGED <<status, session, trafficKey, dataRecord, packetReader, call,
                 network, server, history>>

SendHello ==
  /\ pc = "sendHello"
  /\ attempt' = attempt + 1
  /\ transcript' = <<clientHello>>
  /\ serverSeqNum' = 0
  /\ clientSeqNum' = 1
  /\ \/ Posts(<<Plain(clientHello)>>, "awaitHandshake")
     \/ NotDialled
     \/ WriteFails
  /\ UNCHANGED <<status, session, trafficKey, dataRecord, packetReader, call,
                 server, requests, sealed>>

(* The connection is closed already: an error only returns.                *)
Fails == Return("err") /\ UNCHANGED <<transcript, serverSeqNum>>

ReadServerHello ==
  /\ Take("readServerHello")
  /\ Hash /\ Count
  /\ LET parsed == rec.key = NoKey /\ rec.body.kind = "ServerHello"
     IN  \/ /\ parsed /\ rec.body.form = "ok"
            /\ trafficKey' =
                 HandshakeKey(computeEphemeralSecret(attempt, rec.body.id),
                              transcript')
            /\ pc' = "readSignature"
            /\ UNCHANGED res
         \/ /\ parsed /\ rec.body.form = "badpoint"
            /\ pc' = "panicked"
            /\ UNCHANGED <<trafficKey, res>>
         \/ /\ ~parsed \/ rec.body.form = "garbled"
            /\ Return("err")
            /\ UNCHANGED trafficKey
  /\ UNCHANGED <<session, dataRecord, conn>>

verifyEcdsaSignature == rec.tag = EcdsaSignature(transcript)

ReadSignature ==
  /\ Take("readSignature")
  /\ LET good == /\ Decrypts(trafficKey)
                 /\ Parses("Signature")
                 /\ verifyEcdsaSignature
     IN  \/ good /\ Hash /\ Count /\ pc' = "readNewSessionTicket" /\ UNCHANGED res
         \/ ~good /\ Fails
  /\ UNCHANGED <<session, trafficKey, dataRecord, conn>>

(* (mutants: the tickets counted one too low; the pre-shared keys derived  *)
(* from the transcript with the ticket message in it)                      *)
SessionOneTicketLess ==
  [issue |-> rec.body.id, tickets |-> rec.body.count - 1,
   psk |-> Psk(trafficKey.secret, transcript), appKey |-> NoKey]

SessionAfterHash ==
  [issue |-> rec.body.id, tickets |-> rec.body.count,
   psk |-> Psk(trafficKey.secret, Append(transcript, rec.body)),
   appKey |-> NoKey]

newSession ==
  [issue |-> rec.body.id, tickets |-> rec.body.count,
   psk |-> Psk(trafficKey.secret, transcript), appKey |-> NoKey]

(* The session is replaced before the server has proved itself.            *)
ReadNewSessionTicket ==
  /\ Take("readNewSessionTicket")
  /\ LET good == Decrypts(trafficKey) /\ Parses("NewSessionTicket")
     IN  \/ /\ good /\ Hash /\ Count
            /\ session' = newSession
            /\ pc' = "readServerFinish"
            /\ UNCHANGED res
         \/ ~good /\ Fails /\ UNCHANGED session
  /\ UNCHANGED <<trafficKey, dataRecord, conn>>

(* (mutant: the finish not verified, as in Request)                        *)
AnyFinish == TRUE

serverFinishMatches == rec.tag = ServerFinished(trafficKey.secret, transcript)

(* Called by Request, Handshake returns to it.                             *)
ReadServerFinish ==
  /\ packetReader # << >>
  /\ pc = "readServerFinish"
  /\ packetReader' = Tail(packetReader)
  /\ LET good == /\ Decrypts(trafficKey)
                 /\ Parses("ServerFinish")
                 /\ serverFinishMatches
     IN  \/ /\ good /\ Count
            /\ status' = 1
            /\ \/ call = "Handshake" /\ Return("ok")
               \/ call = "Request" /\ pc' = "sendRequest" /\ UNCHANGED res
            /\ UNCHANGED transcript
         \/ ~good /\ Fails /\ UNCHANGED status
  /\ UNCHANGED <<clientSeqNum, session, trafficKey, dataRecord, call, network,
                 server, history>>

-----------------------------------------------------------------------------
(* Request.                                                                *)

(* (mutant: one hello, built once, for every request)                      *)
CachedHello == [Msg("ClientHello", 1, "ok") EXCEPT !.ticket = session.issue]

pskHello == [Msg("ClientHello", requests, "ok") EXCEPT !.ticket = session.issue]
extensions == Msg("Extensions", requests, "ok")

(* Keys expanded from a pre-shared key and the transcript of the request.  *)
EarlyKey(psk, hash)   == hkdfExpand("early data", psk.secret, psk.hash \o hash)
RequestKey(psk, hash) == hkdfExpand("request", psk.secret, psk.hash \o hash)

(* packHttp: the hello in the clear, then extensions, data and abort, each *)
(* sealed with the early key of the hello alone and with the number of     *)
(* records counted before it, from seqNum on.                              *)
EarlyBody(psk, hello, ext, seqNum) ==
  LET key == EarlyKey(psk, <<hello>>)
  IN  <<Plain(hello),
        Seal(key, seqNum + 1, ext, NoKey),
        Seal(key, seqNum + 2, Msg("Data", hello.id, "ok"), NoKey),
        Seal(key, seqNum + 3, Msg("Abort", hello.id, "ok"), NoKey)>>

(* The keys and sequence numbers of the sealed records of a body.          *)
Seals(body) == [i \in 1..Len(body) - 1 |-> <<body[i + 1].key, body[i + 1].seq>>]

(* Request resets both counters before it packs.                           *)
earlyData == EarlyBody(session.psk, pskHello, extensions, 0)

(* The connection is there, or the dial fails before anything is reset.    *)
DialFails ==
  /\ pc = "sendRequest"
  /\ Return("err")
  /\ UNCHANGED <<client, packetReader, call, network, server, history>>

(* tickets[0] of a session without tickets panics.                         *)
NoTicket ==
  /\ pc = "sendRequest" /\ session.tickets = 0
  /\ pc' = "panicked"
  /\ transcript' = << >>
  /\ serverSeqNum' = 0
  /\ clientSeqNum' = 0
  /\ UNCHANGED <<status, session, trafficKey, dataRecord, packetReader, call,
                 res, network, server, history>>

SendRequest ==
  /\ pc = "sendRequest" /\ session.tickets > 0
  /\ transcript' = <<pskHello, extensions>>
  /\ serverSeqNum' = 0
  /\ clientSeqNum' = Len(earlyData)
  /\ sealed' = sealed \o Seals(earlyData)
  /\ Posts(earlyData, "awaitRequest") \/ PostFails
  /\ UNCHANGED <<status, session, trafficKey, dataRecord, packetReader, call,
                 server, attempt, requests>>

(* The ServerHello is hashed, not parsed; the key of the response comes    *)
(* from pskAccess and the transcript.                                      *)
ReadHello ==
  /\ Take("readHello")
  /\ Hash /\ Count
  /\ session' = [session EXCEPT !.appKey = RequestKey(session.psk, transcript')]
  /\ pc' = "readFinish"
  /\ UNCHANGED <<trafficKey, dataRecord, res, conn>>

(* A record of the response: it opens, or the call fails.                  *)
Opened(next) ==
  \/ /\ Decrypts(session.appKey) /\ Count
     /\ pc' = next
     /\ UNCHANGED <<res, conn>>
  \/ /\ ~Decrypts(session.appKey)
     /\ EndRequest("err")
     /\ UNCHANGED serverSeqNum

(* The finish of the server is opened, and not verified.                   *)
ReadFinish ==
  /\ Take("readFinish")
  /\ Opened("readData")
  /\ UNCHANGED <<transcript, session, trafficKey, dataRecord>>

ReadData ==
  /\ Take("readData")
  /\ Opened("readAbort")
  /\ dataRecord' = IF Decrypts(session.appKey) THEN rec.body.id ELSE dataRecord
  /\ UNCHANGED <<transcript, session, trafficKey>>

ReadAbort ==
  /\ Take("readAbort")
  /\ \/ Decrypts(session.appKey) /\ Count /\ EndRequest("ok")
     \/ ~Decrypts(session.appKey) /\ EndRequest("err") /\ UNCHANGED serverSeqNum
  /\ UNCHANGED <<transcript, session, trafficKey, dataRecord>>

-----------------------------------------------------------------------------
(* The server and the network, as far as the client can tell.              *)

Replies(body, good) ==
  /\ post' = << >>
  /\ reply' = <<body>>
  /\ served' = served + 1
  /\ last' = body
  /\ intact' = good
  /\ UNCHANGED <<client, packetReader, call, pc, res, conn, history>>

ServerAnswersHello(f, n) ==
  /\ Len(post) = 1
  /\ LET id     == Len(issued) + 1
         flight == FlightTo(post[1].body, id, f, n)
     IN  /\ Replies(FlightRecords(flight, f), f = "none")
         /\ issued' = Append(issued, flight)
         /\ unproved' = IF f \in {"finish", "mac"} THEN unproved \cup {id}
                        ELSE unproved

(* The server knows the pre-shared key of a ticket it issued, and takes    *)
(* early data that is what that key makes of the hello.                    *)
ServerAnswersRequest ==
  /\ Len(post) > 1
  /\ LET hello == post[1].body
         psk   == FlightPsk(issued[hello.ticket])
         ext   == post[2].body
         sh    == [Msg("ServerHello", served + 1, "ok")
                     EXCEPT !.ticket = hello.ticket]
         key   == RequestKey(psk, <<hello, ext, sh>>)
     IN  /\ hello.ticket \in DOMAIN issued
         /\ post = EarlyBody(psk, hello, ext, 0)
         /\ Replies(<<Plain(sh),
                      Seal(key, 1, Msg("ServerFinish", hello.id, "ok"), NoKey),
                      Seal(key, 2, Msg("Data", hello.id, "ok"), NoKey),
                      Seal(key, 3, Msg("Abort", hello.id, "ok"), NoKey)>>,
                    TRUE)
  /\ UNCHANGED <<issued, unproved>>

(* An alert in place of an answer: to a ticket no longer good, or to any   *)
(* post at all.                                                            *)
ServerRejects ==
  /\ post # << >>
  /\ Replies(<<Plain(Msg("Alert", 0, "ok"))>>, FALSE)
  /\ UNCHANGED <<issued, unproved>>

ConnectionLost ==
  /\ conn = "open" /\ pc \in Waiting
  /\ conn' = "lost"
  /\ post' = << >>
  /\ reply' = << >>
  /\ UNCHANGED <<client, packetReader, call, pc, res, intact, server, history>>

(* A connection lost in the middle of the body goes unnoticed: the last    *)
(* record is cut short, and reads as if zeros followed.  A ServerHello     *)
(* that still has its length then parses, with a point off the curve.  One *)
(* thing goes wrong with a response at a time: only a good answer is cut.  *)
Cut(r) ==
  {Plain([r.body EXCEPT !.form = form]) :
     form \in {"garbled"} \cup
              IF r.body.kind = "ServerHello" THEN {"badpoint"} ELSE {}}

ResponseCut ==
  /\ reply # << >> /\ intact
  /\ LET b == reply[1]
     IN  \E k \in 0..Len(b) - 1 :
           \/ reply' = <<SubSeq(b, 1, k)>>
           \/ \E r \in Cut(b[k + 1]) : reply' = <<Append(SubSeq(b, 1, k), r)>>
  /\ intact' = FALSE
  /\ UNCHANGED <<client, packetReader, call, pc, res, conn, post, server,
                 history>>

(* Something on the path answers with the response before.                 *)
StaleResponse ==
  /\ post # << >> /\ served > 0
  /\ reply' = <<last>>
  /\ post' = << >>
  /\ UNCHANGED <<client, packetReader, call, pc, res, conn, intact, server,
                 history>>

-----------------------------------------------------------------------------
(* The specification.                                                      *)

Calls == CallHandshake \/ CallRequest

Continues ==
  \/ KeyGenFails \/ SendHello \/ ReadServerHello \/ ReadSignature
  \/ ReadNewSessionTicket \/ ReadServerFinish
  \/ DialFails \/ NoTicket \/ SendRequest
  \/ ReadHello \/ ReadFinish \/ ReadData \/ ReadAbort
  \/ ReadResponse \/ ResponseFails \/ BodyEnds

ServerReacts == \/ \E f \in Faults, n \in TicketCounts : ServerAnswersHello(f, n)
                \/ ServerAnswersRequest
                \/ ServerRejects

Environment == ConnectionLost \/ ResponseCut \/ StaleResponse

Next == Calls \/ Continues \/ ServerReacts \/ Environment

Spec == Init /\ [][Next]_vars

Fairness == WF_vars(Continues) /\ WF_vars(ServerReacts)

FairSpec == Spec /\ Fairness

-----------------------------------------------------------------------------
(* Properties.                                                             *)

(* Request returns the server's data for this very request, whatever part  *)
(* of whichever response the network delivers.                             *)
ResponseMatches ==
  call = "Request" /\ pc = "idle" /\ res = "ok" => dataRecord = requests

(* No two encrypts share a key and a sequence number, although every       *)
(* request starts counting again with the same pre-shared key.             *)
NoNonceReuse ==
  \A i, j \in DOMAIN sealed : sealed[i] = sealed[j] => i = j

(* The session in memory is one the server issued, with the pre-shared key *)
(* the server derived, also after a handshake that failed once the session *)
(* was replaced: the next Request will use it.                             *)
SessionCoherent == session.issue > 0 => SessionOf(session, issued)

(* A handshake is complete only with a session whose server has proved     *)
(* itself.                                                                 *)
VerifiedStatus == status = 1 => session.issue \notin unproved

(* A Request sends early data only under a session whose server has proved *)
(* itself: a handshake that fails its last check leaves none to use.       *)
VerifiedSession == pc = "sendRequest" => session.issue \notin unproved

(* When Request comes to send, it has a ticket to offer: without one       *)
(* ensureSession has made a handshake.                                     *)
TicketToSend == pc = "sendRequest" => session.tickets > 0

(* No call panics: a response that is lost, cut, stale or refused is an    *)
(* error, as long as the server sends points of the curve.                 *)
NoPanic == pc # "panicked"

(* The server's whole and faultless answer is never refused.               *)
IntactAccepted ==
  [][intact /\ pc \in Parsing /\ pc' = "idle" => res' = "ok"]_vars

(* A Request keeps the session it has, whatever the server made of its     *)
(* ticket: only a Handshake that is called replaces it.                    *)
RequestKeepsSession ==
  [][call = "Request" /\ session.tickets > 0 => session'.issue = session.issue]_vars

(* Every exchange has its own connection, and no connection outlives it.   *)
ConnectionsClosed == pc \in {"idle", "sendHello", "sendRequest"} => conn = "none"

-----------------------------------------------------------------------------
(* The short link implements SecureRequest.                                *)

ServerHasAnswered ==
  call = "Request" /\ Len(last) = 4 /\ last[3].body.kind = "Data" /\ last[3].body.id = requests

Outcome ==
  CASE pc # "idle" -> << >>
    [] pc = "idle" /\ call = "Request" /\ res = "ok" -> <<"ok", dataRecord>>
    [] OTHER -> <<res>>

Abstract ==
  INSTANCE SecureRequest WITH
    issued   <- Len(issued),
    session  <- session.issue,
    complete <- status = 1,
    calling  <- CASE pc = "idle" -> "none" [] pc = "panicked" -> "gone"
                  [] OTHER -> call,
    asked    <- requests,
    answered <- ServerHasAnswered,
    outcome  <- Outcome

(* Whatever is lost, cut, stale or refused, a call of the short link has   *)
(* an outcome SecureRequest allows: the server's answer to this Request    *)
(* under a session it issued, or an error, and the session in memory only  *)
(* ever moves to the one issued last.                                      *)
ImplementsSecureRequest == Abstract!Spec

(* A call that has started returns or panics, if the server answers or the *)
(* connection is lost.                                                     *)
CallsReturn == (pc # "idle") ~> (pc \in {"idle", "panicked"})

=============================================================================
