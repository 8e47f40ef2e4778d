--------------------------- MODULE MCCodexDriver ---------------------------
(* CodexDriver with the constants the configurations give it.              *)
EXTENDS CodexDriver
=============================================================================
