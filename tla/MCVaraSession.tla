--------------------------- MODULE MCVaraSession ---------------------------
(* Instances of uucpd's VARA session for model checking.                   *)
EXTENDS VaraSession

=============================================================================
