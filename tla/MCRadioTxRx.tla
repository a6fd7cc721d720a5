---------------------------- MODULE MCRadioTxRx ----------------------------
(* Instances of the radio's switching for model checking.                  *)
EXTENDS RadioTxRx

=============================================================================
