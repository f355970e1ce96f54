------------------------------ MODULE RunClaims -------------------------------
(* What comments and invariants of the repository say of provider runs and    *)
(* the code does not keep.                                                     *)
EXTENDS MCRuns

\* Every recheck_outcome row's provider_run is DONE or FAILED (invariants.ts,
\* recheck_outcome_run_is_terminal).
OutcomeIsTerminal ==
  \A r \in Runs : outcome[r] # "NONE" => runState[r] \in {"DONE", "FAILED"}
=============================================================================
