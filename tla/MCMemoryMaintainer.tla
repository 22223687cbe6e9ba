------------------------ MODULE MCMemoryMaintainer ------------------------
(* Instances of MemoryMaintainer for TLC. *)
EXTENDS MemoryMaintainer, TLC

CONSTANTS w1, w2, s1, s2

OneSession == <<s1>>
WorkerSymmetry == Permutations(Workers)
=============================================================================
