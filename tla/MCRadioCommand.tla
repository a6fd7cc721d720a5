--------------------------- MODULE MCRadioCommand ---------------------------
(* Instances of the controller's command channel for model checking.       *)
EXTENDS RadioCommand

=============================================================================
