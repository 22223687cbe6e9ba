--------------------------- MODULE MCAudioDelivery ---------------------------
(* Instances of AudioDelivery for TLC.  Pages are interchangeable. *)
EXTENDS AudioDelivery, TLC

PageSymmetry == Permutations(Pages)
=============================================================================
