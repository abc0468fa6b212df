----------------------------- MODULE MCLongLink -----------------------------
(***************************************************************************)
(* Instances of LongLink for TLC.                                          *)
(***************************************************************************)
EXTENDS LongLink

(* Every fault of the server but a ServerFinish that does not parse, which *)
(* the client takes for a good one.                                        *)
FinishParses == AllFaults \ {"finish"}

=============================================================================
