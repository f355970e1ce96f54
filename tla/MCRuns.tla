-------------------------------- MODULE MCRuns --------------------------------
(* An instance of ProviderRuns for TLC: a run of a schedule, or a recheck.    *)
EXTENDS ProviderRuns, TLC

CONSTANTS shared, recheck, sharedKey, recheckKey

KeyOfRuns == shared :> sharedKey @@ recheck :> recheckKey
KindOfKeys == [k \in Keys |-> IF k = sharedKey THEN "SCHEDULE" ELSE "RECHECK"]

\* Bound: searches are idle in a behaviour with a recheck, whose key is nobody else's.
RecheckAlone == runState[recheck] = "ABSENT" \/ (rows = {} /\ ended = {})
=============================================================================
