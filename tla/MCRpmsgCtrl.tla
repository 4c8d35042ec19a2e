---------------------------- MODULE MCRpmsgCtrl ----------------------------
(***************************************************************************)
(* Model-checking instances of RpmsgCtrl.                                  *)
(***************************************************************************)
EXTENDS RpmsgCtrl, TLC

\* Callers, groups and notify objects are interchangeable
Symmetry == Permutations(Threads) \cup Permutations(Groups) \cup Permutations(Nodes)
=============================================================================
