--------------------------- MODULE MCCaptureStore ---------------------------
(***************************************************************************)
(* Bounds for TLC: two uploads that race each other for one capture, with  *)
(* different bodies or the same; a second capture, for which the store has *)
(* room only once the first is past its retention.                         *)
(***************************************************************************)
EXTENDS CaptureStore, TLC

Symmetry == Permutations(Capture) \cup Permutations(Upload) \cup Permutations(Content)
=============================================================================
