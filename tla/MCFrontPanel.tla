---------------------------- MODULE MCFrontPanel ----------------------------
(* Instances of the front panel for model checking.                        *)
EXTENDS FrontPanel

(* Settings at the start: a level less than a step from its end.           *)
MCStart == [tuning |-> 4, volume |-> 99]

MCMaxEvents == [key |-> 5, tuning |-> 3, volume |-> 2]

=============================================================================
