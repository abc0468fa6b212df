----------------------------- MODULE SecureLink -----------------------------
(***************************************************************************)
(* What the long link promises its caller, without records, counters or    *)
(* transcripts.  The server offers keys; a handshake that returns nil has  *)
(* agreed on the key offered last, and after it none is offered.  A beat   *)
(* (Noop) succeeds only when the server has answered every beat so far,    *)
(* and after one beat has failed none succeeds.                            *)
(***************************************************************************)
EXTENDS Wire

VARIABLES
  offered,  (* the application keys the server has derived, in order        *)
  agreed,   (* the key client and server share, NoKey before                *)
  beats,    (* beats sent                                                   *)
  replies,  (* beats the server has answered                                *)
  calling,  (* a beat waits for its answer                                  *)
  broken,   (* a beat has failed                                            *)
  outcome   (* what the last call returned                                  *)

vars == <<offered, agreed, beats, replies, calling, broken, outcome>>

(* The server may know keys of earlier connections.                        *)
Init ==
  /\ offered \in Seq(Key)
  /\ agreed = NoKey
  /\ beats = 0
  /\ replies = 0
  /\ calling = FALSE
  /\ broken = FALSE
  /\ outcome = "none"

Offer ==
  /\ agreed = NoKey
  /\ offered' # << >>
  /\ offered = SubSeq(offered', 1, Len(offered') - 1)
  /\ UNCHANGED <<agreed, beats, replies, calling, broken, outcome>>

Agree ==
  /\ agreed = NoKey /\ offered # << >>
  /\ agreed' = offered[Len(offered)]
  /\ outcome' = "ok"
  /\ UNCHANGED <<offered, beats, replies, calling, broken>>

HandshakeFails ==
  /\ agreed = NoKey
  /\ outcome' = "err"
  /\ UNCHANGED <<offered, agreed, beats, replies, calling, broken>>

HandshakeAgain ==
  /\ agreed # NoKey /\ ~calling
  /\ outcome' = "ok"
  /\ UNCHANGED <<offered, agreed, beats, replies, calling, broken>>

Beat ==
  /\ agreed # NoKey /\ ~calling
  /\ beats' = beats + 1
  /\ calling' = TRUE
  /\ UNCHANGED <<offered, agreed, replies, broken, outcome>>

BeatUnsent ==
  /\ agreed # NoKey /\ ~calling
  /\ beats' = beats + 1
  /\ broken' = TRUE
  /\ outcome' = "err"
  /\ UNCHANGED <<offered, agreed, replies, calling>>

Reply ==
  /\ replies < beats
  /\ replies' = replies + 1
  /\ UNCHANGED <<offered, agreed, beats, calling, broken, outcome>>

BeatSucceeds ==
  /\ calling /\ ~broken /\ replies = beats
  /\ calling' = FALSE
  /\ outcome' = "ok"
  /\ UNCHANGED <<offered, agreed, beats, replies, broken>>

BeatFails ==
  /\ calling
  /\ calling' = FALSE
  /\ broken' = TRUE
  /\ outcome' = "err"
  /\ UNCHANGED <<offered, agreed, beats, replies>>

Next == \/ Offer \/ Agree \/ HandshakeFails \/ HandshakeAgain
        \/ Beat \/ BeatUnsent \/ Reply \/ BeatSucceeds \/ BeatFails

Spec == Init /\ [][Next]_vars

=============================================================================
