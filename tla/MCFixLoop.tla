------------------------------ MODULE MCFixLoop ------------------------------
(***************************************************************************)
(* FixLoop with the program's three fix rounds and two files, which are    *)
(* interchangeable.                                                        *)
(***************************************************************************)
EXTENDS FixLoop, TLC

FileSymmetry == Permutations(Files)
=============================================================================
