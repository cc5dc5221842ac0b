----------------------------- MODULE MCTaskGraph -----------------------------
(* A small instance of TaskGraph for TLC.                                      *)
EXTENDS TaskGraph, TLC

Symmetry == Permutations(TaskIds)
=============================================================================
