---------------------------- MODULE MCEvolveLock ----------------------------
(***************************************************************************)
(* EvolveLock for model checking: the turns and the file contents are      *)
(* model values, given in MCEvolveLock.cfg.  No symmetry set: the run      *)
(* checks liveness.                                                        *)
(***************************************************************************)
EXTENDS EvolveLock
=============================================================================
