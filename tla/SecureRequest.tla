--------------------------- MODULE SecureRequest ----------------------------
(***************************************************************************)
(* What the short link promises its caller, without records, keys, bodies  *)
(* or connections.  The server issues sessions; a handshake adopts the one *)
(* issued last, and completes at most once.  A Request returns the answer  *)
(* the server has given to this very Request, under a session it issued,   *)
(* or an error; no call returns anything else, and what an earlier call    *)
(* has asked or been answered never becomes the outcome of a later one.    *)
(***************************************************************************)
EXTENDS Naturals

VARIABLES
  issued,    (* how many sessions the server has issued                     *)
  session,   (* which of them the client has, 0 for none                    *)
  complete,  (* a handshake has completed                                   *)
  calling,   (* the call in progress, "none", or "gone" after a panic       *)
  asked,     (* Requests called so far                                      *)
  answered,  (* the last call is a Request, and the server has answered it  *)
  outcome    (* what the last call returned; empty while a call runs        *)

vars == <<issued, session, complete, calling, asked, answered, outcome>>

(* The client may have a session from an earlier process.                  *)
Init ==
  /\ issued \in {0, 1}
  /\ session = issued
  /\ complete = FALSE
  /\ calling = "none"
  /\ asked = 0
  /\ answered = FALSE
  /\ outcome = <<"none">>

CallHandshake ==
  /\ calling = "none" /\ ~complete
  /\ calling' = "Handshake"
  /\ answered' = FALSE
  /\ outcome' = << >>
  /\ UNCHANGED <<issued, session, complete, asked>>

CallRequest ==
  /\ calling = "none"
  /\ calling' = "Request"
  /\ asked' = asked + 1
  /\ answered' = FALSE
  /\ outcome' = << >>
  /\ UNCHANGED <<issued, session, complete>>

(* A handshake after a complete one does nothing.                          *)
HandshakeAgain ==
  /\ calling = "none" /\ complete
  /\ answered' = FALSE
  /\ outcome' = <<"ok">>
  /\ UNCHANGED <<issued, session, complete, calling, asked>>

Returns(with) == calling' = "none" /\ outcome' = with

Issue ==
  /\ calling \in {"Handshake", "Request"} /\ ~complete /\ ~answered
  /\ issued' = issued + 1
  /\ UNCHANGED <<session, complete, calling, asked, answered, outcome>>

(* Before the handshake is complete, and even if it never is.              *)
Adopt ==
  /\ calling \in {"Handshake", "Request"} /\ ~complete /\ session < issued
  /\ session' = issued
  /\ UNCHANGED <<issued, complete, calling, asked, answered, outcome>>

Complete ==
  /\ calling \in {"Handshake", "Request"} /\ ~complete
  /\ session = issued /\ issued > 0
  /\ complete' = TRUE
  /\ \/ calling = "Handshake" /\ Returns(<<"ok">>)
     \/ calling = "Request" /\ UNCHANGED <<calling, outcome>>
  /\ UNCHANGED <<issued, session, asked, answered>>

Answer ==
  /\ calling = "Request" /\ session > 0 /\ ~answered
  /\ answered' = TRUE
  /\ UNCHANGED <<issued, session, complete, calling, asked, outcome>>

Succeed ==
  /\ calling = "Request" /\ answered
  /\ Returns(<<"ok", asked>>)
  /\ UNCHANGED <<issued, session, complete, asked, answered>>

Fail ==
  /\ calling \in {"Handshake", "Request"}
  /\ Returns(<<"err">>)
  /\ UNCHANGED <<issued, session, complete, asked, answered>>

Panic ==
  /\ calling \in {"Handshake", "Request"}
  /\ calling' = "gone"
  /\ UNCHANGED <<issued, session, complete, asked, answered, outcome>>

Next == \/ CallHandshake \/ CallRequest \/ HandshakeAgain
        \/ Issue \/ Adopt \/ Complete \/ Answer \/ Succeed \/ Fail \/ Panic

Spec == Init /\ [][Next]_vars

=============================================================================
