-------------------------- MODULE MCUucicoSession --------------------------
(* Instances of uucico's sessions for model checking.                      *)
EXTENDS UucicoSession

(* One byte from the first child, which the second may find in in_buffer,  *)
(* and as many from the second as make its reader wait for room.           *)
MCMaxOutput == <<1, 3>>

=============================================================================
