--------------------------- MODULE SearchLifecycle ---------------------------
(***************************************************************************)
(* The durable life of seat searches, from creation to a terminal answer.  *)
(*                                                                         *)
(* The state is the one PostgreSQL keeps (packages/durability): the search *)
(* row, its run subscriptions and jobs, its admission reservation, the     *)
(* provider's admission counters, the provider control scopes, and the     *)
(* aggregation claim.  One action is one transaction of the program, or    *)
(* one statement the program commits by itself.                            *)
(*                                                                         *)
(* Abstractions.  A run key is a value of ScheduleKeys (a theatre and day, *)
(* or a movie, anchor theatre and day for MovieKeys) or of FetchKeys (one  *)
(* showtime).  A provider run is one Boolean per key, "a PENDING or LEASED *)
(* run exists": leases, generations and attempts of runs are not here.     *)
(* A lease may expire at any moment, and any PENDING job may be delivered  *)
(* (hints are re-sent by the sweeper).  The aggregation revisions          *)
(* agg_requested_rev and agg_processed_rev are kept as what their          *)
(* comparisons decide: dirty (processed < requested) and whether the       *)
(* revision the claim holder read is still the requested one.              *)
(***************************************************************************)
EXTENDS Naturals, Integers, FiniteSets

CONSTANTS
  Searches,         \* search ids
  ScheduleKeys,     \* keys of kind SCHEDULE_RESOLUTION or MOVIE_SCHEDULE_RESOLUTION
  MovieKeys,        \* those of kind MOVIE_SCHEDULE_RESOLUTION
  FetchKeys,        \* keys of kind SHOWTIME_FETCH
  Ceiling,          \* the literal 200 of the acceptance gate and of B6
  Reserve,          \* maxResolvedShowtimes, what a cold search reserves
  BatchSize,        \* the literal 20 of batch admission
  CostLimit,        \* provider_admission.pending_cost_limit
  UnresolvedLimit,  \* provider_admission.unresolved_limit
  MaxAttempts,      \* job attempts before the sweeper fails the job
  Scopes            \* control scopes that may close: "" (halt) and route classes

ASSUME KeysAssumption ==
  /\ MovieKeys \subseteq ScheduleKeys
  /\ ScheduleKeys \cap FetchKeys = {}
  /\ IsFiniteSet(Searches) /\ IsFiniteSet(ScheduleKeys) /\ IsFiniteSet(FetchKeys)
ASSUME BoundsAssumption ==
  /\ Ceiling \in Nat /\ Reserve \in Nat /\ BatchSize \in Nat
  /\ CostLimit \in Nat /\ UnresolvedLimit \in Nat /\ MaxAttempts \in Nat \ {0}
\* The reservation of a cold search covers what the acceptance gate lets it grow to.
ASSUME ReserveCoversCeiling == BatchSize <= Ceiling /\ Ceiling <= Reserve
ASSUME ScopesAssumption == Scopes \subseteq {"", "seat", "schedule", "movie-schedule"}

Keys == ScheduleKeys \cup FetchKeys

LiveStatuses == {"PENDING_SCHEDULE", "RUNNING"}
TerminalStatuses == {"COMPLETE", "PARTIAL", "HALTED", "CANCELLED"}
Causes == {"CAPACITY", "PROVIDER_HALTED", "TOO_FEW_SHOWTIMES",
           "PARTIAL_SCHEDULE", "BATCH_DEFERRED"}
SubStates == {"NONE", "LIVE", "SATISFIED", "CANCELLED", "EXPIRED"}
JobStates == {"NONE", "PENDING", "LEASED", "DONE", "FAILED", "CANCELLED"}
Outcomes == {"NULL", "RESOLVED", "EMPTY_RESOLVED", "FAILED"}
OpenJob == {"PENDING", "LEASED"}

VARIABLES
  status,       \* search.status, "NONE" before the search exists
  cause,        \* search.terminal_cause
  denied,       \* search.capacity_denied_at IS NOT NULL
  deferred,     \* search.batch_deferred_count > 0
  expired,      \* deadline_at <= now(), the search's and its subscriptions'
  sub,          \* run_subscription.state per key, "NONE" without a row
  outcome,      \* run_subscription.schedule_outcome
  counted,      \* schedule keys whose schedule_match_count IS NOT NULL
  matches,      \* sum of the schedule_match_count values
  job,          \* search_job.state per key, "NONE" without a row
  attempt,      \* search_job.attempt
  fenced,       \* keys whose leased job moved on under its holder's generation
  seed,         \* admission_reservation.fresh_match_seed
  total,        \* admission_reservation.reserved_total
  remaining,    \* admission_reservation.reserved_remaining
  slot,         \* admission_reservation.schedule_slot_held
  reconciled,   \* admission_reservation.schedule_reconciled
  released,     \* admission_reservation.released
  pendingCost,  \* provider_admission.pending_cost
  unresolved,   \* provider_admission.unresolved_schedules
  dirty,        \* search.agg_processed_rev < search.agg_requested_rev
  claim,        \* the aggregation claim, see ClaimStates
  run,          \* a PENDING or LEASED provider_run exists for the key
  snapshot,     \* a snapshot younger than the adoption TTL exists for the key
  closed        \* control scopes that are not OPEN: "" HALTED, a route class PAUSED

searchVars == <<status, cause, denied, deferred, expired>>
subVars == <<sub, outcome, counted, matches>>
jobVars == <<job, attempt, fenced>>
reservationVars == <<seed, total, remaining, slot, reconciled, released>>
admissionVars == <<pendingCost, unresolved>>
aggregationVars == <<dirty, claim>>
providerVars == <<run, snapshot, closed>>
vars == <<searchVars, subVars, jobVars, reservationVars, admissionVars,
          aggregationVars, providerVars>>

\* "none": no lease.  "reading": the holder read the requested revision.
\* "declined": its terminalization attempt returned zero rows, its release is due.
\* "stale": a newer revision was requested since the holder read its own.
ClaimStates == {"none", "reading", "declined", "stale"}

TypeOK ==
  /\ status \in [Searches -> {"NONE"} \cup LiveStatuses \cup TerminalStatuses]
  /\ cause \in [Searches -> {"NULL"} \cup Causes]
  /\ denied \in [Searches -> BOOLEAN]
  /\ deferred \in [Searches -> BOOLEAN]
  /\ expired \in [Searches -> BOOLEAN]
  /\ sub \in [Searches -> [Keys -> SubStates]]
  /\ outcome \in [Searches -> [ScheduleKeys -> Outcomes]]
  /\ counted \in [Searches -> SUBSET ScheduleKeys]
  /\ matches \in [Searches -> Nat]
  /\ job \in [Searches -> [Keys -> JobStates]]
  /\ attempt \in [Searches -> [Keys -> Nat]]
  /\ fenced \in [Searches -> SUBSET Keys]
  /\ seed \in [Searches -> Nat]
  /\ total \in [Searches -> Nat]
  /\ remaining \in [Searches -> Int]
  /\ slot \in [Searches -> BOOLEAN]
  /\ reconciled \in [Searches -> BOOLEAN]
  /\ released \in [Searches -> BOOLEAN]
  /\ pendingCost \in Int
  /\ unresolved \in Int
  /\ dirty \in [Searches -> BOOLEAN]
  /\ claim \in [Searches -> ClaimStates]
  /\ run \in [Keys -> BOOLEAN]
  /\ snapshot \in [FetchKeys -> BOOLEAN]
  /\ closed \in SUBSET Scopes

Init ==
  /\ status = [s \in Searches |-> "NONE"]
  /\ cause = [s \in Searches |-> "NULL"]
  /\ denied = [s \in Searches |-> FALSE]
  /\ deferred = [s \in Searches |-> FALSE]
  /\ expired = [s \in Searches |-> FALSE]
  /\ sub = [s \in Searches |-> [k \in Keys |-> "NONE"]]
  /\ outcome = [s \in Searches |-> [k \in ScheduleKeys |-> "NULL"]]
  /\ counted = [s \in Searches |-> {}]
  /\ matches = [s \in Searches |-> 0]
  /\ job = [s \in Searches |-> [k \in Keys |-> "NONE"]]
  /\ attempt = [s \in Searches |-> [k \in Keys |-> 0]]
  /\ fenced = [s \in Searches |-> {}]
  /\ seed = [s \in Searches |-> 0]
  /\ total = [s \in Searches |-> 0]
  /\ remaining = [s \in Searches |-> 0]
  /\ slot = [s \in Searches |-> FALSE]
  /\ reconciled = [s \in Searches |-> FALSE]
  /\ released = [s \in Searches |-> FALSE]
  /\ pendingCost = 0
  /\ unresolved = 0
  /\ dirty = [s \in Searches |-> FALSE]
  /\ claim = [s \in Searches |-> "none"]
  /\ run = [k \in Keys |-> FALSE]
  /\ snapshot = [k \in FetchKeys |-> FALSE]
  /\ closed = {}

-----------------------------------------------------------------------------
Live(s) == status[s] \in LiveStatuses
Subscribed(s) == {k \in Keys : sub[s][k] # "NONE"}
Route(k) == CASE k \in FetchKeys -> "seat"
              [] k \in MovieKeys -> "movie-schedule"
              [] OTHER -> "schedule"

\* B5(b)'s predicate: neither the provider nor the key's route class is closed.
Open(k) == closed \cap {"", Route(k)} = {}

\* Only the provider-wide scope is ever HALTED; route classes are PAUSED.
Halted(s) == "" \in closed /\ Subscribed(s) # {}

\* Fault: a search still PENDING_SCHEDULE is not counted as live.
RunningSubscribers(k) ==
  {s \in Searches : sub[s][k] = "LIVE" /\ ~expired[s] /\ status[s] = "RUNNING"}

\* The searches one acceptance or failure of a run of k applies to.
Subscribers(k) ==
  {s \in Searches : sub[s][k] = "LIVE" /\ ~expired[s] /\ Live(s)}

\* Fault: a bump does not overtake the revision the claim holder read.
RequestAggregationUnfenced(S) ==
  /\ dirty' = [s \in Searches |-> dirty[s] \/ s \in S]
  /\ UNCHANGED claim

\* agg_requested_rev + 1: the revision a current claim holder read is overtaken.
RequestAggregation(S) ==
  /\ dirty' = [s \in Searches |-> dirty[s] \/ s \in S]
  /\ claim' = [s \in Searches |->
       IF s \in S /\ claim[s] # "none" THEN "stale" ELSE claim[s]]

\* Fault: only the provider's counter moves.
DrawDownProviderOnly(S) ==
  /\ pendingCost' = pendingCost - Cardinality(S)
  /\ UNCHANGED <<remaining, unresolved>>

\* Fault: only the reservation moves.
DrawDownReservationOnly(S) ==
  /\ remaining' = [s \in Searches |->
       IF s \in S /\ remaining[s] > 0 THEN remaining[s] - 1 ELSE remaining[s]]
  /\ UNCHANGED admissionVars

\* The fetch-only capacity release of a set S of subscribers.
DrawDown(S) ==
  /\ pendingCost' = pendingCost - Cardinality(S)
  /\ remaining' = [s \in Searches |->
       IF s \in S /\ remaining[s] > 0 THEN remaining[s] - 1 ELSE remaining[s]]
  /\ UNCHANGED unresolved

-----------------------------------------------------------------------------
(* B1: search creation *)

\* Fault: the limit is tested before the reservation is added to the counter.
Stage1AdmitsLate(reserve, cold) ==
  /\ pendingCost <= CostLimit
  /\ cold => unresolved <= UnresolvedLimit

\* The gate of B1_STAGE1_ADMISSION.
Stage1Admits(reserve, cold) ==
  /\ pendingCost + reserve <= CostLimit
  /\ cold => unresolved + 1 <= UnresolvedLimit

(***************************************************************************)
(* Stage-1 admission, the reservation, and one subscription with its job   *)
(* per schedule key and per admitted showtime, in one transaction.         *)
(* matched are the showtimes of the fresh dates, admitted its best ones.   *)
(***************************************************************************)
CreateSearch(s, scheduled, matched, admitted) ==
  LET cold == scheduled # {}
      reserve == IF cold THEN Reserve ELSE Cardinality(matched)
      subscribed == scheduled \cup admitted
  IN
  /\ status[s] = "NONE"
  /\ Cardinality(matched) <= Ceiling
  /\ Cardinality(admitted) =
       IF Cardinality(matched) < BatchSize THEN Cardinality(matched) ELSE BatchSize
  /\ Stage1Admits(reserve, cold)
  /\ status' = [status EXCEPT ![s] = IF cold THEN "PENDING_SCHEDULE" ELSE "RUNNING"]
  /\ deferred' = [deferred EXCEPT ![s] = admitted # matched]
  /\ seed' = [seed EXCEPT ![s] = Cardinality(matched)]
  /\ total' = [total EXCEPT ![s] = reserve]
  /\ remaining' = [remaining EXCEPT ![s] = reserve]
  /\ slot' = [slot EXCEPT ![s] = cold]
  /\ pendingCost' = pendingCost + reserve
  /\ unresolved' = IF cold THEN unresolved + 1 ELSE unresolved
  /\ sub' = [sub EXCEPT ![s] = [k \in Keys |-> IF k \in subscribed THEN "LIVE" ELSE "NONE"]]
  /\ job' = [job EXCEPT ![s] = [k \in Keys |-> IF k \in subscribed THEN "PENDING" ELSE "NONE"]]
  /\ UNCHANGED <<cause, denied, expired, outcome, counted, matches, attempt, fenced,
                 reconciled, released, aggregationVars, providerVars>>

\* deadline_at <= now(): time passing, not a transaction.
DeadlinePasses(s) ==
  /\ Live(s) /\ ~expired[s]
  /\ expired' = [expired EXCEPT ![s] = TRUE]
  /\ UNCHANGED <<status, cause, denied, deferred, subVars, jobVars, reservationVars,
                 admissionVars, aggregationVars, providerVars>>

-----------------------------------------------------------------------------
(* B2: job delivery and admission *)

LeaseJob(s, k) ==
  /\ job[s][k] = "PENDING"
  /\ job' = [job EXCEPT ![s][k] = "LEASED"]
  /\ attempt' = [attempt EXCEPT ![s][k] = @ + 1]
  /\ UNCHANGED <<searchVars, subVars, fenced, reservationVars, admissionVars,
                 aggregationVars, providerVars>>

\* B2_ADMISSION_FENCE; a job whose generation moved, or whose lease lapsed, is dropped.
Admissible(s, k) == job[s][k] = "LEASED" /\ k \notin fenced[s] /\ Live(s)

\* Find or create the key's run.  A schedule job does not look at the control scopes.
AdmitJob(s, k) ==
  /\ Admissible(s, k)
  /\ k \in FetchKeys => Open(k) /\ ~snapshot[k]
  /\ ~run[k]
  /\ run' = [run EXCEPT ![k] = TRUE]
  /\ UNCHANGED <<searchVars, subVars, jobVars, reservationVars, admissionVars,
                 aggregationVars, snapshot, closed>>

\* A capacity preview or an on-demand refresh: the key's run without a search behind it.
RequestScheduleRun(k) ==
  /\ ~run[k]
  /\ run' = [run EXCEPT ![k] = TRUE]
  /\ UNCHANGED <<searchVars, subVars, jobVars, reservationVars, admissionVars,
                 aggregationVars, snapshot, closed>>

\* A fetch job adopts a recent snapshot instead; it does not look at the deadline.
AdoptSnapshot(s, k) ==
  /\ Admissible(s, k)
  /\ Open(k) /\ snapshot[k]
  /\ job' = [job EXCEPT ![s][k] = "DONE"]
  /\ sub' = [sub EXCEPT ![s][k] = IF @ = "LIVE" THEN "SATISFIED" ELSE @]
  /\ remaining' = [remaining EXCEPT ![s] = IF @ > 0 THEN @ - 1 ELSE 0]
  /\ pendingCost' = IF remaining[s] > 0 THEN pendingCost - 1 ELSE pendingCost
  /\ RequestAggregation({s})
  /\ UNCHANGED <<searchVars, outcome, counted, matches, attempt, fenced, seed, total,
                 slot, reconciled, released, unresolved, providerVars>>

\* A snapshot leaves the adoption TTL.
SnapshotAges(k) ==
  /\ snapshot[k]
  /\ snapshot' = [snapshot EXCEPT ![k] = FALSE]
  /\ UNCHANGED <<searchVars, subVars, jobVars, reservationVars, admissionVars,
                 aggregationVars, run, closed>>

-----------------------------------------------------------------------------
(* B5: acceptance of a fetch run, and its fan-in *)

CloseJob(S, k, to) ==
  job' = [s \in Searches |-> [job[s] EXCEPT ![k] =
            IF s \in S /\ @ \in OpenJob THEN to ELSE @]]

AcceptFetch(k) ==
  LET S == Subscribers(k) IN
  /\ run[k] /\ Open(k)
  /\ run' = [run EXCEPT ![k] = FALSE]
  /\ snapshot' = [snapshot EXCEPT ![k] = TRUE]
  /\ sub' = [s \in Searches |-> [sub[s] EXCEPT ![k] = IF s \in S THEN "SATISFIED" ELSE @]]
  /\ CloseJob(S, k, "DONE")
  /\ DrawDown(S)
  /\ RequestAggregation(S)
  /\ UNCHANGED <<searchVars, outcome, counted, matches, attempt, fenced, seed, total,
                 slot, reconciled, released, closed>>

-----------------------------------------------------------------------------
(* B6: schedule counts, search-wide reconciliation and denial *)

\* Fault: off by one at the ceiling.
FitsBelow(s, m) ==
  /\ seed[s] + m < Ceiling
  /\ pendingCost + (seed[s] + m - total[s]) <= CostLimit

\* The acceptance gate and B6's own, for a search whose counts sum to m.
Fits(s, m) ==
  /\ seed[s] + m <= Ceiling
  /\ pendingCost + (seed[s] + m - total[s]) <= CostLimit

\* Fault: the first count settles the search.
SettlingEarly(s, subs, counts) == slot[s] /\ ~reconciled[s] /\ counts[s] # {}

\* Every schedule subscription in subs[s] has a count: B6 may settle the search.
Settling(s, subs, counts) ==
  /\ slot[s] /\ ~reconciled[s]
  /\ \A k \in ScheduleKeys : subs[s][k] # "NONE" => k \in counts[s]

\* B6_RECONCILE_SEARCH_WIDE for each search of R, m[s] the sum of its counts.
Reconcile(R, m) ==
  LET durable == [s \in Searches |-> seed[s] + m[s]] IN
  /\ total' = [s \in Searches |-> IF s \in R THEN durable[s] ELSE total[s]]
  /\ remaining' = [s \in Searches |->
       IF s \in R THEN durable[s] - (total[s] - remaining[s]) ELSE remaining[s]]
  /\ reconciled' = [s \in Searches |-> reconciled[s] \/ s \in R]
  /\ pendingCost' = pendingCost
       - Cardinality({u \in R \X (1 .. Reserve) : durable[u[1]] < u[2] /\ u[2] <= total[u[1]]})
       + Cardinality({u \in R \X (1 .. Ceiling) : total[u[1]] < u[2] /\ u[2] <= durable[u[1]]})
  /\ unresolved' = unresolved - Cardinality(R)
  /\ UNCHANGED <<seed, slot, released>>

\* Fault: a leased job is left to its holder.
CancelPendingJobs(jobs) ==
  [k \in Keys |-> IF jobs[k] = "PENDING" THEN "CANCELLED" ELSE jobs[k]]

\* Fault: jobs get the word that belongs to subscriptions.
ExpireJobs(jobs) ==
  [k \in Keys |-> IF jobs[k] \in OpenJob THEN "EXPIRED" ELSE jobs[k]]

\* B8_CANCEL_JOBS on the jobs of one search.
CancelJobs(jobs) ==
  [k \in Keys |-> IF jobs[k] \in OpenJob THEN "CANCELLED" ELSE jobs[k]]

\* Fault: schedule subscriptions are left as they are.
ExpireFetchSubscriptions(subs) ==
  [k \in Keys |-> IF subs[k] = "LIVE" /\ k \in FetchKeys THEN "EXPIRED" ELSE subs[k]]

\* B8_EXPIRE_SUBSCRIPTIONS on the subscriptions of one search.
ExpireSubscriptions(subs) ==
  [k \in Keys |-> IF subs[k] = "LIVE" THEN "EXPIRED" ELSE subs[k]]

\* B6_DENY_CAPACITY and cancelOrphanedWorkOnDenial for each search of D, after the
\* other writes of the transaction left the subscriptions subs and the jobs jobs.
Deny(D, subs, jobs) ==
  /\ denied' = [s \in Searches |-> denied[s] \/ s \in D]
  /\ sub' = [s \in Searches |-> IF s \in D THEN ExpireSubscriptions(subs[s]) ELSE subs[s]]
  /\ job' = [s \in Searches |-> IF s \in D THEN CancelJobs(jobs[s]) ELSE jobs[s]]

\* B6_SET_SCHEDULE_MATCH_COUNT: the first writer's count stands.
Count(S, k, n) ==
  /\ counted' = [s \in Searches |-> IF s \in S THEN counted[s] \cup {k} ELSE counted[s]]
  /\ matches' = [s \in Searches |->
       IF s \in S /\ k \notin counted[s] THEN matches[s] + n[s] ELSE matches[s]]

\* What every path that records a count of zero or more ends with: reconcile the
\* searches of S that settled, deny those whose aggregate does not fit.
SettleOrDeny(S, D, subs, jobs) ==
  LET settling == {s \in S : Settling(s, subs, counted')}
      fit == {s \in settling : Fits(s, matches'[s])}
  IN
  /\ Reconcile(fit, matches')
  /\ Deny(D \cup (settling \ fit), subs, jobs)

(***************************************************************************)
(* Acceptance of a schedule run.  observed: the payload lists a showtime.  *)
(* match[s] are the showtimes the subscriber's own filter keeps,           *)
(* fallback[s] the theatre-days a movie payload did not cover.             *)
(***************************************************************************)
AcceptSchedule(k, observed, match, fallback) ==
  LET S == Subscribers(k)
      n == [s \in Searches |-> Cardinality(match[s])]
      overflowing == {s \in S : ~Fits(s, matches[s] + n[s])}
      expanding == S \ overflowing
      found == [s \in Searches |->
        IF s \in expanding THEN (match[s] \cup fallback[s]) \ Subscribed(s) ELSE {}]
      subs == [s \in Searches |-> [j \in Keys |->
        IF j \in found[s] THEN "LIVE" ELSE IF s \in S /\ j = k THEN "SATISFIED" ELSE sub[s][j]]]
      jobs == [s \in Searches |-> [j \in Keys |->
        IF j \in found[s] THEN "PENDING"
        ELSE IF s \in S /\ j = k /\ job[s][j] \in OpenJob THEN "DONE" ELSE job[s][j]]]
  IN
  /\ run[k] /\ Open(k)
  /\ \A s \in Searches : ~observed => match[s] = {}
  /\ run' = [run EXCEPT ![k] = FALSE]
  /\ Count(S, k, n)
  /\ SettleOrDeny(expanding, overflowing, subs, jobs)
  /\ outcome' = [s \in Searches |-> [outcome[s] EXCEPT ![k] =
       IF s \in S THEN IF observed THEN "RESOLVED" ELSE "EMPTY_RESOLVED" ELSE @]]
  /\ status' = [s \in Searches |->
       IF s \in S /\ observed THEN "RUNNING" ELSE status[s]]
  /\ RequestAggregation(S)
  /\ UNCHANGED <<cause, deferred, expired, attempt, fenced, snapshot, closed>>

-----------------------------------------------------------------------------
(* B5F: failure of a run, and of a single job *)

\* The effects shared by B5F_EFFECTS and SWEEP_JOB_FAIL_EFFECTS on a fetch key.
FailFetchSubscriptions(S, k) ==
  /\ sub' = [s \in Searches |-> [sub[s] EXCEPT ![k] = IF s \in S THEN "CANCELLED" ELSE @]]
  /\ DrawDown(S)
  /\ UNCHANGED <<denied, outcome, counted, matches, total, reconciled>>

\* ... and on a schedule key, where the searches of C record a zero count.
FailScheduleSubscriptions(S, C, k, jobs) ==
  LET subs == [s \in Searches |-> [sub[s] EXCEPT ![k] = IF s \in S THEN "CANCELLED" ELSE @]] IN
  /\ Count(C, k, [s \in Searches |-> 0])
  /\ outcome' = [s \in Searches |-> [outcome[s] EXCEPT ![k] = IF s \in S THEN "FAILED" ELSE @]]
  /\ SettleOrDeny(C, {}, subs, jobs)

FailRun(k) ==
  LET S == Subscribers(k)
      jobs == [s \in Searches |-> [job[s] EXCEPT ![k] =
                 IF s \in S /\ @ \in OpenJob THEN "FAILED" ELSE @]]
  IN
  /\ run[k]
  /\ run' = [run EXCEPT ![k] = FALSE]
  /\ IF k \in FetchKeys
       THEN FailFetchSubscriptions(S, k) /\ job' = jobs
       ELSE FailScheduleSubscriptions(S, S, k, jobs)
  /\ RequestAggregation(S)
  /\ UNCHANGED <<status, cause, deferred, expired, attempt, fenced, seed, slot, released,
                 snapshot, closed>>

\* Fault: off by one in the attempt budget.
HasAttempt(s, k) == attempt[s][k] <= MaxAttempts

\* The attempt budget the sweeper reads, < and >= of the same bound.
HasAttemptLeft(s, k) == attempt[s][k] < MaxAttempts

\* Fault: the job is left LEASED under a generation nobody holds.
ReclaimLeftLeased(s, k) ==
  /\ job[s][k] = "LEASED" /\ HasAttemptLeft(s, k)
  /\ fenced' = [fenced EXCEPT ![s] = @ \cup {k}]
  /\ UNCHANGED <<searchVars, subVars, job, attempt, reservationVars, admissionVars,
                 aggregationVars, providerVars>>

\* Sweeper: an expired lease with attempts left goes back to PENDING.
ReclaimJob(s, k) ==
  /\ job[s][k] = "LEASED" /\ HasAttemptLeft(s, k)
  /\ job' = [job EXCEPT ![s][k] = "PENDING"]
  /\ fenced' = [fenced EXCEPT ![s] = @ \ {k}]
  /\ UNCHANGED <<searchVars, subVars, attempt, reservationVars, admissionVars,
                 aggregationVars, providerVars>>

\* Sweeper: an expired lease with no attempt left fails this search's job.  The
\* subscription fails only inside its deadline; a schedule count is recorded anyway.
FailExhaustedJob(s, k) ==
  LET S == Subscribers(k) \cap {s}
      jobs == [job EXCEPT ![s][k] = "FAILED"]
  IN
  /\ job[s][k] = "LEASED" /\ ~HasAttemptLeft(s, k)
  /\ IF k \in FetchKeys
       THEN FailFetchSubscriptions(S, k) /\ job' = jobs
       ELSE FailScheduleSubscriptions(S, {s}, k, jobs)
  /\ RequestAggregation(S \cup {t \in {s} : denied'[t] /\ ~denied[t]})
  /\ UNCHANGED <<status, cause, deferred, expired, attempt, fenced, seed, slot, released,
                 providerVars>>

-----------------------------------------------------------------------------
(* B7 and B8: aggregation and terminalization *)

ScheduleOutcomes(s) == {outcome[s][k] : k \in ScheduleKeys \cap Subscribed(s)}
FetchJobs(s) == {job[s][k] : k \in FetchKeys \cap Subscribed(s)}
\* A run_application of a fetch run is written with its subscription's SATISFIED.
FetchApplied(s) == \E k \in FetchKeys : sub[s][k] = "SATISFIED"

\* Fault: fresh coverage does not defeat a failed schedule.
AllSchedulesFailedAnySeed(s) == ScheduleOutcomes(s) = {"FAILED"}

AllSchedulesFailed(s) == ScheduleOutcomes(s) = {"FAILED"} /\ seed[s] = 0
SomeScheduleFailed(s) == "FAILED" \in ScheduleOutcomes(s) /\ ScheduleOutcomes(s) # {"FAILED"}
AllSchedulesEmpty(s) == ScheduleOutcomes(s) = {"EMPTY_RESOLVED"} /\ seed[s] = 0

\* Fault: a job waiting for redelivery is not unfinished work.
LeasedJob(s) == \E k \in Keys : job[s][k] = "LEASED"

UnfinishedJob(s) == \E k \in Keys : job[s][k] \in OpenJob

\* Every schedule key has its count and every fetch job is over.
WorkDone(s) ==
  /\ ScheduleKeys \cap Subscribed(s) \subseteq counted[s]
  /\ FetchJobs(s) \cap OpenJob = {}

\* The guard of B8_TERMINALIZE apart from its fence.
Terminable(s) == WorkDone(s) \/ Halted(s) \/ denied[s] \/ expired[s]

DerivedStatus(s) ==
  IF Halted(s) \/ denied[s] \/ AllSchedulesFailed(s) THEN "HALTED"
  ELSE IF SomeScheduleFailed(s) \/ UnfinishedJob(s) THEN "PARTIAL"
  ELSE IF FetchJobs(s) # {} /\ (~FetchApplied(s) \/ FetchJobs(s) = {"FAILED"}) THEN "HALTED"
  ELSE IF deferred[s] THEN "PARTIAL"
  ELSE "COMPLETE"

DerivedCause(s) ==
  IF denied[s] THEN "CAPACITY"
  ELSE IF Halted(s) THEN "PROVIDER_HALTED"
  ELSE IF AllSchedulesEmpty(s) THEN "TOO_FEW_SHOWTIMES"
  ELSE IF SomeScheduleFailed(s) THEN "PARTIAL_SCHEDULE"
  ELSE IF deferred[s] THEN "BATCH_DEFERRED"
  ELSE "NULL"

\* The rows of deriveRankedAnswer's matrix.  The schedule outcome it also tests is the
\* one the cause was derived from: nothing changes it without a newer revision.
HasAnswer(s) ==
  /\ DerivedCause(s) \in {"CAPACITY", "PROVIDER_HALTED"} => DerivedStatus(s) = "HALTED"
  /\ DerivedCause(s) = "TOO_FEW_SHOWTIMES" => DerivedStatus(s) = "COMPLETE"
  /\ DerivedCause(s) \in {"PARTIAL_SCHEDULE", "BATCH_DEFERRED"} => DerivedStatus(s) = "PARTIAL"

\* Fault: the deadline, which bumps no counter, does not make a search claimable.
ClaimableByRevision(s) == dirty[s] \/ Halted(s)

\* The disjunction of B7_CLAIM.
Claimable(s) == dirty[s] \/ expired[s] \/ Halted(s)

\* B7_CLAIM.  A held lease may have expired; its holder is fenced by the generation.
ClaimAggregation(s) ==
  /\ Live(s) /\ Claimable(s)
  /\ claim' = [claim EXCEPT ![s] = "reading"]
  /\ UNCHANGED <<searchVars, subVars, jobVars, reservationVars, admissionVars, dirty,
                 providerVars>>

\* Fault: the runs of the search's keys are its own.
TouchedRuns(s, subs) == Subscribed(s)

\* B8_CANCEL_ORPHANED_RUNS: keys of the search no subscription of subs is live on.
OrphanedRuns(s, subs) ==
  {k \in Subscribed(s) : \A t \in Searches : subs[t][k] # "LIVE"}

\* The common tail of B8: jobs, subscriptions, reservation, slot, orphaned runs.
EndSearch(s) ==
  LET subs == [sub EXCEPT ![s] = ExpireSubscriptions(@)] IN
  /\ job' = [job EXCEPT ![s] = CancelJobs(@)]
  /\ sub' = subs
  /\ pendingCost' = IF released[s] THEN pendingCost ELSE pendingCost - remaining[s]
  /\ unresolved' = IF ~released[s] /\ slot[s] /\ ~reconciled[s] THEN unresolved - 1
                   ELSE unresolved
  /\ remaining' = [remaining EXCEPT ![s] = IF released[s] THEN @ ELSE 0]
  /\ slot' = [slot EXCEPT ![s] = IF released[s] THEN @ ELSE FALSE]
  /\ released' = [released EXCEPT ![s] = TRUE]
  /\ run' = [k \in Keys |-> run[k] /\ k \notin OrphanedRuns(s, subs)]
  /\ UNCHANGED <<denied, deferred, expired, outcome, counted, matches, attempt, fenced,
                 seed, total, reconciled, snapshot, closed>>

\* B8_TERMINALIZE under the claim's fence, then B7_RELEASE.  The payload is derived in
\* the same transaction: without an answer it throws, and nothing was written.
Terminalize(s) ==
  /\ claim[s] = "reading" /\ Live(s) /\ Terminable(s) /\ HasAnswer(s)
  /\ status' = [status EXCEPT ![s] = DerivedStatus(s)]
  /\ cause' = [cause EXCEPT ![s] = DerivedCause(s)]
  /\ EndSearch(s)
  /\ claim' = [claim EXCEPT ![s] = "none"]
  /\ dirty' = [dirty EXCEPT ![s] = FALSE]

\* B8_TERMINALIZE returned zero rows: the pass goes on to publish an aggregate.
DeclineTerminalization(s) ==
  /\ claim[s] = "reading" /\ Live(s) /\ ~Terminable(s)
  /\ claim' = [claim EXCEPT ![s] = "declined"]
  /\ UNCHANGED <<searchVars, subVars, jobVars, reservationVars, admissionVars, dirty,
                 providerVars>>

\* B7_RELEASE, a statement after the pass: agg_processed_rev is the revision read.
ReleaseClaim(s) ==
  /\ claim[s] \in {"declined", "stale"}
  /\ claim' = [claim EXCEPT ![s] = "none"]
  /\ dirty' = [dirty EXCEPT ![s] = claim[s] = "stale"]
  /\ UNCHANGED <<searchVars, subVars, jobVars, reservationVars, admissionVars,
                 providerVars>>

\* The explicit cancel: no guard and no claim.
CancelSearch(s) ==
  /\ Live(s)
  /\ status' = [status EXCEPT ![s] = "CANCELLED"]
  /\ EndSearch(s)
  /\ UNCHANGED <<cause, aggregationVars>>

-----------------------------------------------------------------------------
(* B9: provider control *)

\* The transition halts the provider or pauses a route class, moves the generation of
\* every leased job on, and requests aggregation of every search with live work.
ApplyControlTransition(c) ==
  /\ closed' = closed \cup {c}
  /\ fenced' = [s \in Searches |-> fenced[s] \cup {k \in Keys : job[s][k] = "LEASED"}]
  /\ RequestAggregation({s \in Searches : Live(s) /\ \E k \in Keys : sub[s][k] = "LIVE"})
  /\ UNCHANGED <<searchVars, subVars, job, attempt, reservationVars, admissionVars,
                 run, snapshot>>

\* A manual reopen, or a pause whose not_before passed.
ReopenScope(c) ==
  /\ c \in closed
  /\ closed' = closed \ {c}
  /\ UNCHANGED <<searchVars, subVars, jobVars, reservationVars, admissionVars,
                 aggregationVars, run, snapshot>>

-----------------------------------------------------------------------------
Create(s) ==
  \E scheduled \in SUBSET ScheduleKeys, matched \in SUBSET FetchKeys :
    \E admitted \in SUBSET matched : CreateSearch(s, scheduled, matched, admitted)

\* Only a movie payload falls back, to theatre-days of its own, and an empty one does.
AcceptAnySchedule(k) ==
  \E observed \in BOOLEAN, match \in [Searches -> SUBSET FetchKeys] :
    \E fallback \in [Searches -> SUBSET (ScheduleKeys \ MovieKeys)] :
      /\ \A s \in Searches \ Subscribers(k) : match[s] = {} /\ fallback[s] = {}
      /\ k \notin MovieKeys => \A s \in Searches : fallback[s] = {}
      /\ k \in MovieKeys /\ ~observed => \A s \in Subscribers(k) : fallback[s] # {}
      /\ AcceptSchedule(k, observed, match, fallback)

Next ==
  \/ \E s \in Searches :
       \/ Create(s)
       \/ DeadlinePasses(s)
       \/ ClaimAggregation(s)
       \/ Terminalize(s)
       \/ DeclineTerminalization(s)
       \/ ReleaseClaim(s)
       \/ CancelSearch(s)
       \/ \E k \in Keys :
            LeaseJob(s, k) \/ AdmitJob(s, k) \/ ReclaimJob(s, k) \/ FailExhaustedJob(s, k)
       \/ \E k \in FetchKeys : AdoptSnapshot(s, k)
  \/ \E k \in FetchKeys : AcceptFetch(k) \/ SnapshotAges(k)
  \/ \E k \in ScheduleKeys : AcceptAnySchedule(k)
  \/ \E k \in ScheduleKeys \ MovieKeys : RequestScheduleRun(k)
  \/ \E k \in Keys : FailRun(k)
  \/ \E c \in Scopes : ApplyControlTransition(c) \/ ReopenScope(c)

Spec == Init /\ [][Next]_vars

\* The sweeper hints every search with unprocessed revisions or past its deadline; a
\* delivered hint runs the pass to its end.  Nothing obliges work itself to finish.
Hinted(s) == dirty[s] \/ expired[s]
Fairness ==
  \A s \in Searches :
    /\ WF_vars(Hinted(s) /\ ClaimAggregation(s))
    /\ SF_vars(Terminalize(s))
    /\ WF_vars(DeclineTerminalization(s))
    /\ WF_vars(ReleaseClaim(s))
FairSpec == Spec /\ Fairness

\* What FencedJobIsSettled assumes beyond: a holder that was overtaken renews no lease, so
\* the lease of its job expires and the sweeper finds it; a PENDING job is delivered.
SweepFairness ==
  \A s \in Searches, k \in Keys :
    /\ WF_vars(k \in fenced[s] /\ (ReclaimJob(s, k) \/ FailExhaustedJob(s, k)))
    /\ WF_vars(LeaseJob(s, k))

-----------------------------------------------------------------------------
(* Safety *)

Terminal(s) == status[s] \in TerminalStatuses
FetchSubscriptions(s, states) == {k \in FetchKeys : sub[s][k] \in states}

\* The provider's counters are exactly what its unreleased reservations hold
\* (invariants.ts, admission_conservation): creation, every draw-down, reconciliation
\* and both ends of a search move the two in step.
AdmissionConservation ==
  /\ pendingCost = Cardinality({u \in Searches \X (1 .. Reserve) :
                                  ~released[u[1]] /\ u[2] <= remaining[u[1]]})
  /\ unresolved = Cardinality({s \in Searches : slot[s] /\ ~reconciled[s] /\ ~released[s]})

\* Committed admission stays within both capacity limits and never goes negative
\* (admission_within_limits, admission_non_negative).
AdmissionWithinLimits ==
  /\ pendingCost \in 0 .. CostLimit
  /\ unresolved \in 0 .. UnresolvedLimit

\* While a reservation stands, it has been drawn down exactly once for every fetch
\* subscription that was satisfied or failed, by whichever path ended it: fan-in,
\* adoption of a snapshot, failure of the run, failure of the job alone.
DrawnDownOnce ==
  \A s \in Searches : Live(s) =>
    total[s] - remaining[s] = Cardinality(FetchSubscriptions(s, {"SATISFIED", "CANCELLED"}))

\* Search-wide accounting (search_window_accounting): after reconciliation the
\* reservation is the durable aggregate, it covers every fetch subscription, and a
\* slot is held only by an unreleased reservation.
WindowAccounting ==
  \A s \in Searches :
    /\ reconciled[s] => total[s] = seed[s] + matches[s] /\ total[s] <= Ceiling
    /\ Live(s) => Cardinality(FetchSubscriptions(s, SubStates \ {"NONE"})) <= total[s]
    /\ slot[s] => ~released[s]

\* A terminal search left nothing behind (terminal_has_no_live_children): no live
\* subscription, no open job, no unit of capacity.
TerminalIsQuiet ==
  \A s \in Searches : Terminal(s) =>
    /\ \A k \in Keys : sub[s][k] # "LIVE" /\ job[s][k] \notin OpenJob
    /\ released[s] /\ remaining[s] = 0

\* A live subscription inside its deadline is still being worked for: its own job is
\* open, and no outcome or count was recorded for it.
LiveSubscriptionIsDriven ==
  \A s \in Searches, k \in Keys :
    Live(s) /\ sub[s][k] = "LIVE" /\ ~expired[s] =>
      /\ job[s][k] \in OpenJob
      /\ k \in ScheduleKeys => outcome[s][k] = "NULL" /\ k \notin counted[s]

\* No lost wakeup: a search whose work is over, or that was denied, has an unprocessed
\* revision that makes it claimable, whatever a pass that read an older one released.
NoLostWakeup ==
  \A s \in Searches :
    Live(s) /\ Subscribed(s) # {} /\ (WorkDone(s) \/ denied[s]) => dirty[s] \/ expired[s]

\* A halt with no recorded cause means that nothing came back: it never hides the seats
\* of an accepted fetch.
HaltedIsEmptyHanded ==
  \A s \in Searches : status[s] = "HALTED" /\ cause[s] = "NULL" =>
    FetchSubscriptions(s, {"SATISFIED"}) = {}

\* A capacity denial is earned: the matched showtimes did exceed the ceiling.
DenialIsEarned ==
  \A s \in Searches :
    denied[s] \/ cause[s] = "CAPACITY" => seed[s] + matches[s] > Ceiling

\* COMPLETE abandoned nothing: no job of the search was cancelled, no showtime was left
\* to a later batch, and if anything was fetched for then something was accepted.
CompleteAbandonsNothing ==
  \A s \in Searches : status[s] = "COMPLETE" =>
    /\ \A k \in Keys : job[s][k] # "CANCELLED"
    /\ ~deferred[s]
    /\ FetchSubscriptions(s, SubStates \ {"NONE"}) # {} => FetchSubscriptions(s, {"SATISFIED"}) # {}

\* The sweeper fails a job, instead of reclaiming it, once its attempts are used: a job
\* waiting for delivery always has one left.
AttemptsAreBounded ==
  \A s \in Searches, k \in Keys :
    /\ attempt[s][k] <= MaxAttempts
    /\ job[s][k] = "PENDING" => attempt[s][k] < MaxAttempts

\* A shared run ends only when no other subscriber inside its deadline still waits on
\* it: neither a terminalization nor a cancel takes it from another search.
SharedRunSurvives ==
  [][\A k \in Keys : run[k] /\ ~run'[k] =>
       \A s \in Searches : sub'[s][k] = "LIVE" => expired[s]]_vars

\* An answer is final: a terminal search, its cause, subscriptions, jobs and counts are
\* never written again, by late acceptances, sweeps, denials or control transitions.
TerminalIsFinal ==
  [][\A s \in Searches : Terminal(s) =>
       /\ status'[s] = status[s] /\ cause'[s] = cause[s]
       /\ sub'[s] = sub[s] /\ job'[s] = job[s]
       /\ outcome'[s] = outcome[s] /\ matches'[s] = matches[s]]_vars

-----------------------------------------------------------------------------
(* Liveness *)

\* A search whose work is over or that was denied is answered, without waiting for its
\* deadline.  Not one with a deferred batch, see LifecycleClaims.
FinishedSearchIsAnswered ==
  \A s \in Searches :
    (Live(s) /\ Subscribed(s) # {} /\ ~deferred[s] /\ (WorkDone(s) \/ denied[s]))
      ~> Terminal(s)

\* A search past its deadline, without a deferred batch, is answered, whatever its
\* workers do.
DeadlineIsAnswered ==
  \A s \in Searches : (Live(s) /\ expired[s] /\ ~deferred[s]) ~> Terminal(s)

\* A job that a control transition took from its holder is not lost between the two: it is
\* leased again under a generation its new holder has, or it closes, as long as the sweeper
\* and the broker go on (B9_FENCE_JOBS, SWEEP_RECLAIM_JOBS).
FencedJobIsSettled ==
  SweepFairness =>
    \A s \in Searches, k \in Keys :
      job[s][k] = "LEASED" /\ k \in fenced[s] ~>
        job[s][k] \notin OpenJob \/ (job[s][k] = "LEASED" /\ k \notin fenced[s])
=============================================================================
