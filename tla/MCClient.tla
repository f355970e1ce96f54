------------------------------- MODULE MCClient -------------------------------
(***************************************************************************)
(* A client of two searches, one after the other.  The first alone meets   *)
(* faults, a resume and presses enough for an answer to arrive after what  *)
(* overtook it; beside the second, or after a reset, one of them.          *)
(***************************************************************************)
EXTENDS SearchClient

CONSTANTS x1, x2

Bounded ==
  /\ x2 \in sent.create => x1 \in sent.create
  /\ x2 \in sent.create \/ spent.resets > 0
       => spent.faults + spent.resumes + spent.cancels <= 1
=============================================================================
