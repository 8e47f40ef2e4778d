---------------------------- MODULE MCStepEvents ----------------------------
(* StepEvents with the constants the configurations give it.               *)
EXTENDS StepEvents
=============================================================================
