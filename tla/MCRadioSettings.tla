-------------------------- MODULE MCRadioSettings --------------------------
(* Instances of the radio's settings for model checking.                   *)
EXTENDS RadioSettings

=============================================================================
