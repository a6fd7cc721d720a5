--------------------------- MODULE MCAudioPipeline ---------------------------
(* Instances of the sound path for model checking.                         *)
EXTENDS AudioPipeline

=============================================================================
