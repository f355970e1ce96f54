----------------------------- MODULE MCLifecycle -----------------------------
(***************************************************************************)
(* Small instances of SearchLifecycle for TLC.  Ceiling is one or two      *)
(* showtimes, so that a second match overflows it; Reserve is one more, so *)
(* that reconciliation returns capacity.                                   *)
(***************************************************************************)
EXTENDS SearchLifecycle, TLC

Symmetry == Permutations(Searches)

\* Bound of the two-search instance: deadlines do not pass and a pass that lost its
\* revision or declined is cut; the one-search instances explore both.
SharedBound == \A s \in Searches : ~expired[s] /\ claim[s] \in {"none", "reading"}
=============================================================================
