------------------------- MODULE MCQuestionRuntime -------------------------
(* Instances of QuestionRuntime for TLC. *)
EXTENDS QuestionRuntime

CONSTANTS m1, o1
=============================================================================
