--------------------------- MODULE MCTaskProgress ---------------------------
(***************************************************************************)
(* Requests of one session are interchangeable.                            *)
(***************************************************************************)
EXTENDS TaskProgress, TLC

RequestSymmetry == Permutations(Requests)
=============================================================================
