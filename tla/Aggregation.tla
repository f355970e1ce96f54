------------------------------ MODULE Aggregation ------------------------------
(***************************************************************************)
(* How the facts of one search become its events, its served aggregate and *)
(* its one final result.                                                   *)
(*                                                                         *)
(* Acceptances and failures append an event and ask for a new aggregate.   *)
(* A pass of the AGGREGATE handler claims the search, reads evidence and   *)
(* counts in statements of their own, tries to end the search, and         *)
(* otherwise publishes what it read.  A cancellation needs no claim and    *)
(* answers from facts it reads before its transaction.                     *)
(*                                                                         *)
(* Abstractions.  A fact is its number: a read sees the facts committed by *)
(* then.  agg_generation is kept as whose claim it is.  A pass publishes   *)
(* one event for all its groups and skeleton flips.                        *)
(***************************************************************************)
EXTENDS Naturals, Sequences

CONSTANTS
  Passes,    \* AGGREGATE handlers that can run at once
  MaxFacts,  \* bound: acceptances and failures of the search
  MaxFaults  \* bound: dead or overtaken passes

ASSUME BoundsAssumption == MaxFacts \in Nat /\ MaxFaults \in Nat

VARIABLES
  status,     \* "LIVE" (PENDING_SCHEDULE or RUNNING), "ENDED" or "CANCELLED"
  log,        \* search_event, by seq: its type
  requested,  \* agg_requested_rev, which counts the facts
  processed,  \* agg_processed_rev
  leased,     \* agg_lease_expires > now()
  due,        \* the deadline passed or a scope of the search is halted
  aggregate,  \* search_aggregate: its revision and the facts in its payload
  result,     \* search_result_version: the facts it counted and those in its evidence
  pass,       \* what each pass is doing
  mine,       \* agg_generation is the one this pass claimed
  revision,   \* agg_requested_rev when it claimed
  seen,       \* facts in the evidence it read
  counted,    \* facts it counted
  cancel,     \* the cancellation: what it has read, see CancelSteps
  faults

searchVars == <<status, log, requested, processed, leased, due, aggregate, result>>
passVars == <<pass, mine, revision, seen, counted>>
aggVars == <<searchVars, passVars, cancel, faults>>

\* "lost": the terminalization was fenced out.  "committed": only B7_RELEASE is left.
PassSteps == {"idle", "claimed", "assembled", "ready", "lost", "committed"}
CancelSteps == {"none", "counted", "frozen", "ready", "over"}
Upto == 0 .. MaxFacts
NoResult == [counted |-> 0, seen |-> 0, skewed |-> FALSE]

\* One pass at most has the claim, and it is running.
AggTypeOK ==
  /\ status \in {"LIVE", "ENDED", "CANCELLED"}
  /\ log \in Seq({"fact", "group", "SEARCH_TERMINAL"})
  /\ requested \in Upto /\ processed \in Upto
  /\ leased \in BOOLEAN /\ due \in BOOLEAN
  /\ aggregate \in [revision : Upto, seen : Upto]
  /\ result \in [counted : Upto, seen : Upto, skewed : BOOLEAN]
  /\ pass \in [Passes -> PassSteps]
  /\ mine \in [Passes -> BOOLEAN]
  /\ revision \in [Passes -> Upto]
  /\ seen \in [Passes -> Upto] /\ counted \in [Passes -> Upto]
  /\ cancel \in [step : CancelSteps, counted : Upto, revision : Upto, seen : Upto,
                 skewed : BOOLEAN]
  /\ faults \in 0 .. MaxFaults
  /\ \A a, b \in Passes : mine[a] /\ mine[b] => a = b
  /\ \A a \in Passes : mine[a] => pass[a] # "idle"

AggInit ==
  /\ status = "LIVE" /\ log = <<>>
  /\ requested = 0 /\ processed = 0
  /\ leased = FALSE /\ due = FALSE
  /\ aggregate = [revision |-> 0, seen |-> 0]
  /\ result = NoResult
  /\ pass = [a \in Passes |-> "idle"]
  /\ mine = [a \in Passes |-> FALSE]
  /\ revision = [a \in Passes |-> 0]
  /\ seen = [a \in Passes |-> 0]
  /\ counted = [a \in Passes |-> 0]
  /\ cancel = [step |-> "none", counted |-> 0, revision |-> 0, seen |-> 0, skewed |-> FALSE]
  /\ faults = 0

-----------------------------------------------------------------------------
Live == status = "LIVE"
Fault == faults < MaxFaults /\ faults' = faults + 1
Step(a, to) == pass' = [pass EXCEPT ![a] = to]

\* The pass is over; what it read is forgotten.
Stop(a) ==
  /\ Step(a, "idle")
  /\ mine' = [mine EXCEPT ![a] = FALSE]
  /\ revision' = [revision EXCEPT ![a] = 0]
  /\ seen' = [seen EXCEPT ![a] = 0]
  /\ counted' = [counted EXCEPT ![a] = 0]

-----------------------------------------------------------------------------
(* What happens to the search *)

\* B5_FANIN, B5_ADOPT_SEARCH_EVENT or B5F_EFFECTS: next_seq and agg_requested_rev move
\* with the event.
Fact ==
  /\ Live /\ requested < MaxFacts
  /\ requested' = requested + 1
  /\ log' = Append(log, "fact")
  /\ UNCHANGED <<status, processed, leased, due, aggregate, result, passVars, cancel, faults>>

\* The deadline passes, or a scope is halted.
FallDue ==
  /\ Live /\ ~due
  /\ due' = TRUE
  /\ UNCHANGED <<status, log, requested, processed, leased, aggregate, result, passVars,
                 cancel, faults>>

\* The end of a search, with its result and its last event, in one transaction.
End(how, what) ==
  /\ status' = how
  /\ result' = what
  /\ log' = Append(log, "SEARCH_TERMINAL")

-----------------------------------------------------------------------------
(* A pass of the AGGREGATE handler *)

\* Fault: the deadline is no reason to claim.
ClaimableForWork == Live /\ ~leased /\ processed < requested

\* Fault: only the deadline is.
ClaimableWhenDue == Live /\ ~leased /\ due

\* The guard of B7_CLAIM.
Claimable == Live /\ ~leased /\ (processed < requested \/ due)

\* agg_generation + 1: every other claim is fenced out.
TakeClaim(a) == mine' = [b \in Passes |-> b = a]

\* B7_CLAIM.
Claim(a) ==
  /\ pass[a] = "idle" /\ Claimable
  /\ leased' = TRUE
  /\ TakeClaim(a)
  /\ revision' = [revision EXCEPT ![a] = requested]
  /\ Step(a, "claimed")
  /\ UNCHANGED <<status, log, requested, processed, due, aggregate, result, seen, counted,
                 cancel, faults>>

\* The snapshots, hence the groups, the evidence and the totals.
Assemble(a) ==
  /\ pass[a] = "claimed"
  /\ seen' = [seen EXCEPT ![a] = requested]
  /\ Step(a, "assembled")
  /\ UNCHANGED <<searchVars, mine, revision, counted, cancel, faults>>

\* readAggregateFetchFacts, statements later.
Count(a) ==
  /\ pass[a] = "assembled"
  /\ counted' = [counted EXCEPT ![a] = requested]
  /\ Step(a, "ready")
  /\ UNCHANGED <<searchVars, mine, revision, seen, cancel, faults>>

\* Fault: terminalization fenced by the claim alone.
TerminalizableByClaim(a) == Live /\ mine[a] /\ (due \/ requested = MaxFacts)

\* The guard of B8_TERMINALIZE.  A search has nothing left to do once every fact is in.
Terminalizable(a) ==
  Live /\ mine[a] /\ requested = revision[a] /\ (due \/ requested = MaxFacts)

\* terminalizeClaimed wins.
Terminalize(a) ==
  /\ pass[a] = "ready" /\ Terminalizable(a)
  /\ End("ENDED", [counted |-> counted[a], seen |-> seen[a], skewed |-> FALSE])
  /\ Step(a, "committed")
  /\ UNCHANGED <<requested, processed, leased, due, aggregate, mine, revision, seen, counted,
                 cancel, faults>>

\* It is fenced out, and the search is read again: nothing is left to do if it has ended.
LoseTerminalization(a) ==
  /\ pass[a] = "ready" /\ ~Terminalizable(a)
  /\ IF Live THEN Step(a, "lost") /\ UNCHANGED <<mine, revision, seen, counted>> ELSE Stop(a)
  /\ UNCHANGED <<searchVars, cancel, faults>>

\* Fault: the events are written without looking at the status.
PublishableByRevision(a) == aggregate.revision <= revision[a]

\* The guards of B7_GROUP_EVENT and B7_UPSERT_AGGREGATE: the search is live, no newer
\* revision is there.  Neither looks at agg_generation.
Publishable(a) == Live /\ aggregate.revision <= revision[a]

\* One transaction: the group events and the aggregate, or neither.
Publish(a) ==
  /\ pass[a] = "lost"
  /\ IF Publishable(a)
       THEN /\ log' = IF seen[a] > 0 THEN Append(log, "group") ELSE log
            /\ aggregate' = [revision |-> revision[a], seen |-> seen[a]]
            /\ Step(a, "committed")
            /\ UNCHANGED <<mine, revision, seen, counted>>
       ELSE Stop(a) /\ UNCHANGED <<log, aggregate>>
  /\ UNCHANGED <<status, requested, processed, leased, due, result, cancel, faults>>

\* Fault: what was requested meanwhile counts as processed.
ReleaseAtRequested(a) ==
  /\ pass[a] = "committed"
  /\ processed' = IF mine[a] THEN requested ELSE processed
  /\ leased' = (leased /\ ~mine[a])
  /\ Stop(a)
  /\ UNCHANGED <<status, log, requested, due, aggregate, result, cancel, faults>>

\* B7_RELEASE, after the transaction.
Release(a) ==
  /\ pass[a] = "committed"
  /\ processed' = IF mine[a] THEN revision[a] ELSE processed
  /\ leased' = (leased /\ ~mine[a])
  /\ Stop(a)
  /\ UNCHANGED <<status, log, requested, due, aggregate, result, cancel, faults>>

\* The handler throws or its process dies; its claim stays until the lease expires.
PassDies(a) ==
  /\ pass[a] # "idle" /\ Fault
  /\ Stop(a)
  /\ UNCHANGED <<searchVars, cancel>>

\* A lease nobody will release, or, as a fault, that of a pass still running.
LeaseExpires ==
  /\ leased
  /\ IF \A a \in Passes : ~mine[a] THEN UNCHANGED faults ELSE Fault
  /\ leased' = FALSE
  /\ UNCHANGED <<status, log, requested, processed, due, aggregate, result, passVars, cancel>>

-----------------------------------------------------------------------------
(* searches.cancel: readCancelFrozenFacts, then stageSearchCancellation *)

\* The search is not over; the accepted fetches are counted.
CancelCounts ==
  /\ cancel.step = "none" /\ Live
  /\ cancel' = [cancel EXCEPT !.step = "counted", !.counted = requested]
  /\ UNCHANGED <<searchVars, passVars, faults>>

\* The latest aggregate is read.
CancelFreezes ==
  /\ cancel.step = "counted"
  /\ cancel' = [cancel EXCEPT !.step = "frozen", !.revision = aggregate.revision,
                              !.seen = aggregate.seen]
  /\ UNCHANGED <<searchVars, passVars, faults>>

\* Fault: the aggregate is taken for the latest.
NeverSkewed == FALSE

\* agg_requested_rev is read last, and compared with the aggregate's revision.
Skew == requested > cancel.revision

CancelCompares ==
  /\ cancel.step = "frozen"
  /\ cancel' = [cancel EXCEPT !.step = "ready", !.skewed = Skew]
  /\ UNCHANGED <<searchVars, passVars, faults>>

\* B8_CANCEL_SEARCH is fenced by the status alone; on zero rows nothing is written.
Cancel ==
  /\ cancel.step = "ready"
  /\ cancel' = [cancel EXCEPT !.step = "over"]
  /\ IF Live
       THEN End("CANCELLED", [counted |-> cancel.counted, seen |-> cancel.seen,
                              skewed |-> cancel.skewed])
       ELSE UNCHANGED <<status, log, result>>
  /\ UNCHANGED <<requested, processed, leased, due, aggregate, passVars, faults>>

-----------------------------------------------------------------------------
PassStep(a) ==
  \/ Assemble(a) \/ Count(a) \/ Terminalize(a) \/ LoseTerminalization(a)
  \/ Publish(a) \/ Release(a)

AggNext ==
  \/ Fact \/ FallDue \/ LeaseExpires
  \/ \E a \in Passes : Claim(a) \/ PassStep(a) \/ PassDies(a)
  \/ CancelCounts \/ CancelFreezes \/ CancelCompares \/ Cancel

\* Hints for a search that has work recur (publishAggregateHints), a pass that does not die
\* goes on, and time passes for a lease nobody will release.
AggFairness ==
  /\ WF_aggVars(\E a \in Passes : Claim(a))
  /\ \A a \in Passes : WF_aggVars(PassStep(a))
  /\ WF_aggVars((\A a \in Passes : ~mine[a]) /\ LeaseExpires)

AggSpec == AggInit /\ [][AggNext]_aggVars
AggFairSpec == AggSpec /\ AggFairness

-----------------------------------------------------------------------------
(* Properties *)

\* The result of a search that ended is derived from every fact it ever had, in its
\* evidence and in its counts, although they were read one after the other.
FinalResultIsWhole ==
  status = "ENDED" => result.counted = requested /\ result.seen = requested

\* What is marked processed is in the aggregate that is served, whichever pass wrote last:
\* a fenced pass that overwrites a newer one of its own revision loses no request.
ProcessedIsServed == processed <= aggregate.seen \/ status = "ENDED"

\* A cancellation that trusts its counts has evidence about each fetch it counted, so that
\* EMPTY:NO_SHAPE_MATCH is never said of a fetch nobody evaluated (S60.6).
CancelAnswerIsEarned ==
  status = "CANCELLED" /\ ~result.skewed => result.counted <= result.seen

\* Its log is one readers can rely on: nothing follows SEARCH_TERMINAL, whatever passes and
\* cancellations race with the end.
Log == INSTANCE SearchLog WITH Types <- {"fact", "group"}
LogIsReliable == Log!LogSpec

\* A search that fell due ends, and what is requested is served or overtaken by the end.
DueSearchEnds == due ~> ~Live
RequestsAreServed == processed < requested ~> processed = requested \/ ~Live
=============================================================================
