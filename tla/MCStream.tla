------------------------------- MODULE MCStream -------------------------------
(* An instance of ProgressStream for TLC: two projectors that overtake each   *)
(* other, and three rows, so that one can be missing between two others.      *)
EXTENDS ProgressStream
=============================================================================
