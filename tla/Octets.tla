------------------------------- MODULE Octets --------------------------------
(***************************************************************************)
(* The session file of a machine whose bytes have 256 values, as those of  *)
(* the program do; TLC also runs the records with smaller bytes.           *)
(***************************************************************************)
EXTENDS SessionFile

ASSUME ByteAssumption == Base = 256

=============================================================================
