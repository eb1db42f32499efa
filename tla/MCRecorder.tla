----------------------------- MODULE MCRecorder -----------------------------
(* The recorder has no parameters: its instance is the whole model.        *)
EXTENDS Recorder
=============================================================================
