------------------------------- MODULE MCApp --------------------------------
(***************************************************************************)
(* Instances of App for TLC.                                               *)
(***************************************************************************)
EXTENDS App

(* The short link's server issues one ticket, so that a cut hits the one   *)
(* that is offered, or none at all.                                        *)
Tickets == [l \in Links |-> IF l = "long" THEN {2} ELSE {0, 1}]

=============================================================================
