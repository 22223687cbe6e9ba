------------------------ MODULE MCInterviewSession ------------------------
(* Instances of InterviewSession for TLC. *)
EXTENDS InterviewSession, TLC

(* Payloads are only compared for equality. *)
ContentSymmetry == Permutations(Contents)
=============================================================================
