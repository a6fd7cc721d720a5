---------------------------- MODULE MCModemData ----------------------------
(* Instances of the data path to the modem for model checking.             *)
EXTENDS ModemData

(* VARA reports every change; a second report may come before the first is *)
(* read.  ARDOP is asked for one at a time.                                *)
Unread == [m \in Modems |-> IF m = "vara" THEN 2 ELSE 1]

=============================================================================
