--------------------------- MODULE LifecycleClaims ---------------------------
(***************************************************************************)
(* What comments of the code say of a search's end, and the transition     *)
(* system of SearchLifecycle does not keep.                                *)
(***************************************************************************)
EXTENDS SearchLifecycle

\* packages/durability/src/boundaries.ts:1889: falling through to COMPLETE with a failed
\* schedule key "would claim knowledge of the failed theatre-date".  A schedule job that
\* fails past the deadline leaves schedule_outcome NULL and its state is not tested.
CompleteMeansNoScheduleFailed ==
  \A s \in Searches : status[s] = "COMPLETE" /\ seed[s] = 0 =>
    \A k \in ScheduleKeys : job[s][k] # "FAILED"

\* packages/durability/src/boundaries.ts:1863: status and cause are derived "so ADR 0003's
\* answer matrix is structurally enforceable".  A search with a deferred batch whose every
\* fetch failed derives HALTED with BATCH_DEFERRED, a pair the matrix has no row for: each
\* terminalization throws and rolls back, past the deadline too.
DerivedStateHasAnswer ==
  \A s \in Searches : Live(s) /\ Subscribed(s) # {} /\ Terminable(s) => HasAnswer(s)
=============================================================================
