-------------------------- MODULE MCCircularBuffer --------------------------
(* Instances of the byte ring for model checking.                          *)
EXTENDS CircularBuffer

=============================================================================
