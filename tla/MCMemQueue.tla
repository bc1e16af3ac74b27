---------------------------- MODULE MCMemQueue ----------------------------
(* A family of an anchor (j1) and one chunk of it (j2).                      *)
EXTENDS MemQueue, TLC

CONSTANTS j1, j2

FamilyParents == (j1 :> None) @@ (j2 :> j1)

RenderedToo == {{"pending", "rendered"}, {"rendered"}}

WorkerSymmetry == Permutations(Workers)
===========================================================================
