---------------------------- MODULE MCShortLink -----------------------------
(***************************************************************************)
(* Instances of ShortLink for TLC.                                         *)
(***************************************************************************)
EXTENDS ShortLink

(* Every fault of the server but a key share that is no point of the       *)
(* curve, which makes the client panic.                                    *)
OnCurve == HandshakeFaults \ {"point"}

=============================================================================
