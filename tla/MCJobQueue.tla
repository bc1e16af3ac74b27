---------------------------- MODULE MCJobQueue ----------------------------
(* Model-checking instances of JobQueue: one job through a long history of   *)
(* attempts, and a family of an anchor (j1) and one chunk of it (j2) next to *)
(* a job of its own (j3) whose row cannot be decoded.                        *)
EXTENDS JobQueue, TLC

CONSTANTS j1, j2, j3

FamilyParents == (j1 :> None) @@ (j2 :> j1) @@ (j3 :> None)

LoneParent == j1 :> None

WorkerSymmetry == Permutations(Workers)
===========================================================================
