# Formal models of seatfirst

seatfirst answers a *search* ("good seats for N people, these theatres, these
days") by resolving theatre schedules, fetching seat maps from a provider through
one browser, and publishing progress until an immutable answer is written. What is
hard about it is durable concurrency: searches share provider runs, every step is a
PostgreSQL transaction of some process, deliveries are lost or repeated, leases
expire, and the answer must be written once, from facts that no longer move, and
reach a client whose own calls come back late or not at all.

This directory holds TLA+ models of that core, TLC configurations that check them
on small instances, and TLAPS proofs of the main safety properties for every value
of the constants.

## Inventory

| Component | State | Operations | What makes it correct | Module |
|---|---|---|---|---|
| Search lifecycle (`packages/durability`: `boundaries.ts`, `transactions.ts`, `lifecycle.ts`) | search row, subscriptions, jobs, reservation, provider counters, control scopes, aggregation claim | create, lease, admit, adopt, accept, fail, reconcile, deny, claim, terminalize, cancel, halt, pause, reopen, sweep | capacity is conserved, an answer is final and earned, no wakeup is lost, every search is answered | `SearchLifecycle` |
| Provider fetch actor and run leases (`dispatch/handlers/provider-fetch-actor.ts`, `durability/redis.ts`) | run lease, generation, epoch, attempts, cost ledger, semaphore, cached control state | lease, gate, acquire, defer, dispatch, navigate, heartbeat, accept or fail, close a scope, release | a zombie never writes back, a halt fences what is in flight, every run somebody waits for ends | `ProviderRuns` |
| Outbox and relay (`relay`, `queue/client.ts`), dispatch consumer | outbox rows, broker records, leases | claim, clear, add, mark, retry; receive, lease, acknowledge; reclaim, re-arm | what stays pending is leased in the end | `OutboxRelay`, `Delivery` |
| Aggregate answer assembler, cancel route | claim, revisions, served aggregate, final result, event log | claim, read, terminalize or publish, release; count, freeze, compare, cancel | the final result has every fact, no request is lost, the log ends with the end | `Aggregation`, `SearchLog` |
| Event projection and progress stream (`sweeper/duties.ts`, `streaming`) | watermark, Redis stream, reader, connection | append, advance; catch up, block, merge, reconnect | every event once, in order, up to the last | `ProgressStream` |
| Mobile web client (`apps/mobile-web`: `useSearchSubscription.ts`, `searchSlice.ts`, `flowSlice.ts`, `polling.ts`, `cancelSearch.ts`) | the store's view of a search, callbacks in flight | start, reconcile, subscribe, poll, resume, cancel, reset | an end on screen is the search's own and comes with its answer | `SearchClient` |
| Sweeper (`sweeper/sweeper.ts`) | none | ten duties per tick | nothing is stranded, nothing is done twice | spread over the modules above |
| Recheck and nonces (`routes/showtimes`, `session/nonce*.ts`) | consumed nonces, recheck outcome | verify, stage, poll | a nonce stages one run, its verdict is its run's | run and outcome in `ProviderRuns` |
| Browser runtime (`packages/browser-runtime`) | process tree, readiness | launch, clean up, recycle, shut down | one live tree | not modelled |
| Session limiter, token buckets, place lookup | Redis windows, local tokens | check, charge; acquire | bounded use | not modelled |
| Crawls (catalogue, movies, TMDB) | cursor, completion | pass, advance, complete | a restart resumes, a pass ends | not modelled |
| Answer matrix and seat algorithms (`packages/core`) | none | rank, group, recover | equal to their definitions | not modelled |
| AMC provider, contracts, telemetry | none | parsing, schemas, I/O | | not modelled |

They interact through the database: a creation writes jobs and outbox rows, the
relay publishes them, the consumer leases a job and makes a run, the fetch actor
ends the run and fans its result in to every live subscriber, each fan-in bumps the
search's requested revision and appends an event, the sweeper's hint makes the
assembler claim the search, and the assembler terminalizes it or publishes an
aggregate and releases. The sweeper copies events to a Redis stream, a subscription
merges stream and table, and the client's view follows it. Control transitions
(halts, pauses) cut across all of it.

How the modules fit: `SearchLifecycle` sees a run as one Boolean per key and a
delivery as always possible. `ProviderRuns` is what is behind the Boolean,
`OutboxRelay` shows when a delivery is possible (its abstract specification is
`Delivery`), `Aggregation` opens up the pass that `SearchLifecycle` takes as a
claim, a terminalization and a release, and promises the log (`SearchLog`) that
`ProgressStream` and `SearchClient` start from: rows in order, the last one
terminal. `PROJECT.json` lists the hazards found in this code at their lines, with
the properties that cover each.

The operators commented "Fault:" are faulty forms of the definition below each of
them (a dropped guard, an off-by-one, a counter left alone). No behaviour uses
them: `PROJECT.json` pairs each with the property that must notice it.

## SearchLifecycle

The durable life of searches. Each variable is a column or what a comparison of
columns decides; one action is one transaction, or one statement that commits by
itself:

| Action | Code |
|---|---|
| `CreateSearch` | `stageSearchCreation`, with `B1_STAGE1_ADMISSION` and the batch admission of `create.ts` |
| `DeadlinePasses` | `deadline_at <= now()` becoming true |
| `LeaseJob`, `AdmitJob`, `AdoptSnapshot` | `B2_LEASE_JOB`, the admission handler, the snapshot adoption |
| `RequestScheduleRun` | the capacity preview and the on-demand refresh |
| `AcceptFetch` | `stageFetchAcceptance` with `B5_FANIN` |
| `AcceptSchedule` | `stageScheduleAcceptance` and `stageMovieScheduleAcceptance`: count, gate, fan-out, reconcile or deny |
| `FailRun` | `failRun` with `B5F_EFFECTS` |
| `ReclaimJob`, `FailExhaustedJob` | the sweeper's job duties |
| `ClaimAggregation`, `Terminalize`, `DeclineTerminalization`, `ReleaseClaim` | `B7_CLAIM`, `B8_TERMINALIZE` and its tail, the pass that goes on, `B7_RELEASE` |
| `CancelSearch` | `stageSearchCancellation` |
| `ApplyControlTransition`, `ReopenScope` | B9 and the reopen, or an elapsed pause |

The route classes are those of the three kinds of keys (seat, schedule,
movie-schedule), so that a pause of one leaves the others open. `fenced` holds the
jobs whose generation B9 moved on under their holder.

Abstractions. Keys are model values of three kinds (schedule, movie schedule,
fetch). A schedule payload is the set of showtimes each subscriber's filter keeps,
and for a movie payload the theatre-days it falls back to. Time is one Boolean per
search; a lease may expire at any step. The revisions `agg_requested_rev` and
`agg_processed_rev` are kept as what is compared, so no counter needs a bound.

Two assumptions are named in the module. `ReserveCoversCeiling`: the configured
reservation of a cold search is at least the 200 that the code writes as a literal
in the acceptance gate and in B6; the default configuration sets both to 200, and
with a smaller setting the conservation of capacity fails. `BoundsAssumption`: the
attempt budget is positive.

## ProviderRuns

A run from its creation to its end, and the workers that carry it. Every await of
`runProviderFetch` is a step of its own, so that another worker, the sweep, a halt
or a crash can come between any two:

| Action | Code |
|---|---|
| `CreateRun`, `Subscribe`, `DropSubscription`, `EndSearch` | `RUN_CREATE`; `SUBSCRIPTION_CREATE` with `COST_ABUSE_JOIN`; `SWEEP_JOB_FAIL_EFFECTS`; `B8_CANCEL_ORPHANED_RUNS` |
| `Deliver`, `ReadHandle` | `B2_LEASE_RUN`, the second read of `dispatchRunMessage`, whose generation the handler uses |
| `Refuse`, `Acquire`, `Defer` | the control read before the semaphore; `SEMAPHORE_ACQUIRE`; `RUN_DEFER_BUSY` |
| `GiveUpHeld`, `Dispatch`, `DispatchDenied` | the control read after it; `B4_PREDISPATCH` with its ledger rows |
| `Heartbeat`, `Abort` | `heartbeatTick`: both fences held, or one lost |
| `Accept`, `CompleteRecheck`, `AcceptanceRejected` | `B5A_FENCE`, `B5B_EPOCH_FENCE`, `RECHECK_COMPLETE`, or a rollback |
| `FailNavigation`, `AfterFailure` | `failRun`; the `RECHECK_FAIL` next to it and the pause that may follow |
| `CloseFromNavigation`, `CloseFromOutside`, `Reopen`, `PauseElapses` | B9 from a navigation's outcome or the kill switch; the reopen; `not_before` |
| `Release`, `Crash` | the end of the actor's `finally`; the process dies |
| `LeaseExpires`, `SemaphoreExpires`, `CacheLost` | the clock; Redis |
| `Reclaim`, `Discover`, `FailDoomed` | `SWEEP_RECLAIM_RUNS`; `SWEEP_DISCOVER_EXHAUSTED_RUNS`, then `failRun` of each candidate |

A generation is kept as what comparing it decides: a worker's handle is current or
overtaken. So is a run's epoch. `lapsed` and `overtaken` are history variables.
The actor's and the sweeper's attempt budgets are separate constants, as they are
separate settings.

`Rearmable` is the predicate of `SWEEP_REARM_RUNS`: a live search waits for the run, or
it is a schedule's and no search ever subscribed to its key. Only such runs are
promised a delivery, so only of them `WaitedRunsEnd` says that they end: a recheck, or
a run whose subscriptions have ended, may stay PENDING for ever (see the findings).

The semaphore's holder is a run and the value of a counter that Redis keeps beside the
entry. The model's holders are workers, who never recur: a full loss of Redis, which
takes the counter along, could give a later holder of a run the identity of an earlier
one. That loss is left out, and `SemaphoreExcludes` is claimed without it; the loss or
expiry of the entry alone is `SemaphoreExpires`.

## OutboxRelay and Delivery

Rows of the outbox, two kinds of publishers (`pollOnce` of the daemon, the sweeper's
republish duty), the broker's single record per target id, and consumers.
`LookUp`, `Remove`, `Add` and `Mark` are the awaits of `removeTerminalBrokerRecord`
and `processRow`; `Receive`, `Lease`, `Defer` and `Acknowledge` are the consumer's;
`Reclaim` and `Rearm` the sweeper's. The broker (BullMQ on Redis) is external and
modelled from how the code uses it: adding under an id that has a record does
nothing, an active record cannot be removed, a dead consumer's record is found
stalled and given out again or failed, and Redis may lose a record.
`Delivery` is the promise: a job or run that stays PENDING is leased, and a lease is
taken from PENDING only. `DeliveryPromise` is the refinement, fairness included.

## Aggregation and SearchLog

The pass of `createAggregateAnswerHandler` as its statements: `Claim` (`B7_CLAIM`),
`Assemble` (the evidence), `Count` (the counts, statements later), `Terminalize` or
`LoseTerminalization` (`B8_TERMINALIZE` fenced by claim and revision), `Publish`
(group events and `B7_UPSERT_AGGREGATE`, neither of which looks at the claim) and
`Release` (`B7_RELEASE`, outside that transaction); `PassDies` and `LeaseExpires` let a second
pass take over. `CancelCounts`, `CancelFreezes`, `CancelCompares` and `Cancel` are
the statements of the cancel route in their order. A fact is its number, so "the
payload saw" is a number too. `SearchLog` is the log readers rely on: it grows by
one event at a time and ends with SEARCH_TERMINAL.

## ProgressStream

`Discover`, `Add`, `Check`, `Advance` are the steps of `projectEvent` for one row;
`Connect`, `CatchUp`, `Serve`, `Read`, `Merge` those of `streamSearchEvents`;
`Receive` and `Disconnect` the connection. Faults: `AddFails` (the call failed,
whether or not the entry is there), `ProjectorDies`, `Lose` (Redis lost the tail or
all of the stream), `Garble` (an entry that does not parse) and `Disconnect`.

## SearchClient

The store's view of a search and every callback in flight, with the generation it was
made under. `operationGeneration` is a number as in the code: `Start` and the presses
of cancel bump it, `Reset` (`resetSearch`, and the flow slice's `backToSearch`,
`changeFormat`, `widenWindow`, `showPlayingHere`, `restart`) takes it back to 0 and
leaves what is in flight, so that a generation comes round again. `Own` is the fence
of a callback, `Ignored` what a callback of another generation does. The cancel's
continuations are not fenced in the code and are a variable of their own; a failure
shown meanwhile clears `isCanceling`, so that two cancels may be in flight. A get
answers with any state of the server between its call and its delivery.

`Start`, `CreateReply`, `CreateFails` are `startSearch`: a start may find another create
in flight, replays the pending key of a create that failed, or updates the search on
view in place, and then a failure gives the answer back. `Again`, `Resume`,
`Reconciled`, `ReconcileFails` are the two reconciliations; `SubEvent`, `SubFails`,
`Settle` the feed and `handleTerminal`; `PollReply`, `PollFails` the poller;
`PressCancel` to `ProbeFails` are `cancelCurrentSearch`. Left out: the branch for
IDEMPOTENCY_KEY_CONFLICT, which needs one key under two specs, while
`getOrCreatePendingKey` reuses a key for the hash of the spec that the server compares
too; a second instance of the hook; unmounting.

`Spec` lets the user do anything at any moment. `CalmSpec` is a user who returns to the
foreground when no create is in flight, starts when no cancel is, and resets when
nothing is in flight or subscribed. With more than one search the properties of what
is shown hold under it only, and each of its three conditions is needed: without the
first, finding `claim_shown_end`; without the second, the unfenced answer of a cancel
ends the next search's view; without the third, a recurring generation lets a callback
of the search before through (both below, among what has no run of its own). With one
search and no reset every step is calm, whatever the user does (`SoleIsCalm`).

## Runs

| Run | Instance | What it shows |
|---|---|---|
| `batch` | one search, a theatre-day, a movie key, two showtimes, batch 1, ceiling 2, reserve 3 | counts and reconciliation; no lost wakeup; units drawn once; denials earned; what HALTED and COMPLETE claim |
| `shared` | two searches, one theatre-day, one showtime, limits that refuse a third reservation | capacity conserved and within limits; shared runs survive the end of one subscriber |
| `control` | one search, halts and seat pauses, two attempts per job | attempts bounded; live subscriptions driven although control fences their jobs; terminal searches quiet and final; finished and expired searches are answered; a job fenced under its holder is leased again or closed |
| `runs` | two workers, budgets of two, a schedule run with one search that joins, leaves and ends, or a recheck | semaphore, fences, charges, budgets; a recheck is done exactly with its verdict; a run ends or rests with nobody waiting |
| `outbox` | one target, two rows, two publishers, two consumers, one fault | the refinement of `Delivery` |
| `stream` | two projectors, three rows, one fault | in order and once; no gap behind the watermark; every row arrives |
| `aggregation` | two passes, two facts, one fault | whole results, served requests, honest cancels, a reliable log; due searches end |
| `client` | two searches, two rows before the end, two starts, under `CalmFairSpec`; the first alone: three faults, one resume, two presses of cancel; beside the second or after a reset: one of them | what is shown is true of the search on view, has its answer, is awaited by something, and is shown at last |
| `claim_*` | the smallest instance that shows it | statements of the code's comments and invariants that the code does not keep (below) |

Why these bounds are enough. In `SearchLifecycle` what an action does to a search
depends on other searches only through the provider's two counters and the shared
runs, so one search explores its own interleavings completely and two show what
competition and sharing add. A ceiling of two with as many showtimes reaches both
sides of every gate, a reservation above the ceiling makes reconciliation return
capacity, and a batch smaller than the matches defers one. Two attempts distinguish
reclaim from exhaustion, for jobs and for runs, and a deferral that returns an
attempt from one that does not. `shared` is cut by `SharedBound` (deadlines do not
pass, and a pass that lost its revision stops): the other runs explore both. It uses
symmetry in the search names, with safety properties only.

In `runs` one run is created in a behaviour (`RunLimit`): the semaphore, the scopes
and the workers' steps do not ask whose run a worker has, and the overlaps of a
holder, a waiter and a lapsed holder all come from one run whose lease or generation
moved on under its first worker. A schedule run and a recheck differ in every branch
of the actor that asks for the kind; beside a recheck, whose key is nobody else's, the
search stays idle (`RecheckAlone`). In `client` a second search and a second start are
the least that let one overtake another, and a reset between them the least that
brings a generation round. `Bounded` takes the searches in order, and gives the first
alone all faults, resumes and presses, so that an answer may arrive after everything
that overtook it, and one of them once a second search or a reset has come. The calm
user loses nothing of the first search: until a reset, its every step is calm.
A second row of a target is what lets an old publisher
act on a newer delivery. Three rows of a stream are the least that have one missing
between two others, and two projectors overtake each other. Two facts let one land
between a pass's two reads and one after its claim. Deadlock is not checked: in every model all work may be
over (or its bounds used up), and then nothing has to happen.

Fairness. `control`: the sweeper publishes a hint for every live search with an
unprocessed revision or past its deadline on every tick, and a delivered hint runs
the pass to its end: weak fairness of claim, decline and release, strong fairness of
the terminalization, whose enabling an acceptance may interrupt; nothing obliges
jobs, runs or the provider. `FencedJobIsSettled` alone assumes more, as a hypothesis of
its own (`SweepFairness`): the lease of a holder that was overtaken expires and the
sweeper finds it, and PENDING jobs are delivered (the re-arm of jobs asks only for a live
search). `runs`: a worker that
does not crash goes on, runs that the sweeper keeps re-arming (`Rearmable`) are
delivered and no other is, leases nobody renews and semaphores of the dead expire, the
sweeps recur (strong fairness of failing a discovered run, which a halt may
interrupt by moving its generation). `outbox`: publishers, consumers and the broker
go on, the sweeper's ticks recur. `stream`: subscription and receiver go on; no
projector has to. `aggregation`: hints recur, passes go on, leases of the dead
expire. `client`: the event loop runs what is ready; users and server owe nothing.
No fairness is given to a fault. `FinishedSearchIsAnswered` and
`DeadlineIsAnswered` leave out searches with a deferred batch, which the code can
leave unanswered for ever (second finding).

## Findings

1. `claim_schedule_failed`: a schedule job that exhausts its attempts after the
   deadline leaves `schedule_outcome` NULL and its job FAILED, and the search ends
   COMPLETE, which the comment above that branch of `B8_TERMINALIZE` rules out.
2. `claim_has_answer`: a deferred batch whose every admitted fetch failed derives
   HALTED with BATCH_DEFERRED. The answer matrix throws, every terminalization
   rolls back, and the search stays open past its deadline until it is cancelled
   or the provider halts.
3. `claim_recheck_outcome`: `failRunWithRecheckOutcome` is documented as one
   transaction. `failRun` ends that transaction and does nothing on an early
   attempt, and `RECHECK_FAIL` then commits UNAVAILABLE for a run that is still
   leased and will be retried, against `recheck_outcome_run_is_terminal`.
4. `claim_shown_end`: a return to the foreground while a second search is being
   created reopens the first one under the new generation, and its end is shown as
   the second search's. The comment on the fence is about callbacks made before the
   newer start; this one is made after it with the older id, which defeats the fence.

Seen while modelling, without a run of their own:

- Who connects without a cursor after the end is served the whole log:
  `streamSearchEvents` drains the table from the cursor (`reader.ts:157`) before it looks
  at `alreadyTerminal`. Two comments say otherwise: `reader.ts:46-53` ("a subscriber who
  resumes after terminalization is owed no pre-terminal replay, so the stream closes
  immediately instead of entering the loop") and `onProgress.ts:138-141` ("a cursor-less
  reconnect replays nothing"). `EveryEventArrives` states what the code does, and a
  client that subscribes as the search ends needs it; the comments are what is wrong.
- The row that `RUN_DEFER_BUSY` inserts may be published while the delivery that defers
  is still the broker's active record: it is deduplicated and marked published. The
  re-arm stages another for a run somebody waits for, but not for a recheck, nor for a
  preview whose key has an ended subscription: that run stays PENDING, and later work
  coalesces onto it. `provider-fetch-actor.ts:437-440` calls the row "the replacement
  delivery", and `publisher.ts:51-56` expects it delivered.
- The resets of the store take `operationGeneration` back to 0 (`searchSlice.ts:131`, by
  `resetSearch` at 267 and `flowSlice.ts:83-189`), so the next start has a generation
  that was used before, and a re-read still in flight from the search before passes its
  fence: its end is put on the view of the search being created.
  `useSearchSubscription.ts:237-238` says that a newer start keeps it from running.
- A comment says COMPLETE requires every fetch accepted
  (`result-contracts.ts:119`); `B8_TERMINALIZE` asks for one.
- A lease renewed between the sweeper's discovery and its `failRun` does not save
  the run: the fence compares generation, state and attempt. The comment above
  `SWEEP_DISCOVER_EXHAUSTED_RUNS` says it does.
- The comment above `B4_PREDISPATCH` says every dispatch gains its ledger rows; an
  attempt number that a deferral returned and another delivery reuses finds them
  there already.
- A cached HALTED or PAUSED is never refreshed: after a reopen it stays until
  Redis loses it or its TTL passes.
- A cancel's answer is not fenced by the generation: with a second search started, or
  the store reset, meanwhile its end is put on the view that is there.
- Two overlapping reconciliations leave a subscription that no ref points to; a
  stale nonterminal get sets the status RUNNING under a terminal phase; a failed
  cancel leaves the feed fenced until the app returns to the foreground.
- `searches.create` refuses the replay of a search that is over, and `searches.get`
  answers a CANCELLED search with an internal error.
- A search's terminal event is surfaced to no projector by itself: only live
  searches are. Its subscribers read it from the table.

## Proofs

The runs check small instances; the theorems below hold for every value of the
constants that meets the named assumptions. Each proof module states an inductive
invariant, shows that it holds initially and that every action keeps it (one lemma
per part or per action, one step per action), and draws the properties from it.

| Module | Theorems about | Inductive invariant |
|---|---|---|
| `SearchLifecycleProofs` | `TypeOK` | `TypeOK` by itself: no action needs a counter to be positive for it to stay an integer |
| | `AttemptsAreBounded`, `TerminalIsQuiet`, `LiveSubscriptionIsDriven`, `TerminalIsFinal` | `SafetyInv` |
| `SearchWakeupProofs` | `NoLostWakeup`, `SharedRunSurvives` | `WakeupInv` (for the second, `SafetyInv`) |
| `SearchCapacityProofs` | `AdmissionConservation`, `AdmissionWithinLimits`, `DrawnDownOnce`, `WindowAccounting`, `DenialIsEarned`, `OnlyCreationTakes` | `CapacityInv` |
| | `HaltedIsEmptyHanded`, `CompleteAbandonsNothing` | `OutcomeInv` |
| `SearchClientProofs` | `TypeOK`, `WaitingViewIsDriven`, under `Spec` | `ClientInv` |
| | `ShownEndIsTrue`, `EndComesWithAnswer` under `CalmSpec`, for any number of searches and resets | `TruthInv` with `ClientInv` |
| | the same two under `Spec`, for one search and no reset (`Single`) | `SoleInv` with both |
| `ProviderRunsProofs` | `TypeOK`, `SemaphoreExcludes`, `InFlightIsPermitted`, `ChargedForWork`, `AttemptsWithinBudget`, `VerdictIsTerminal` | `RunsInv` |
| `OutboxProofs` | `TypeOK`, the safety half of `DeliveryPromise` | `BusyInv` |
| `StreamProofs` | `ReceivedInOrder`, `ProjectionIsContiguous` | `StreamInv` |
| `AggregationProofs` | `FinalResultIsWhole`, `ProcessedIsServed`, `CancelAnswerIsEarned`, `LogIsReliable` | `AggInv` |

Why the properties are not inductive as they stand, and what is added:

- `SafetyInv`. A fan-out subscribes a key that had no subscription as if it were new,
  which is only right if a key without one is blank (`UnsubscribedIsBlank`); a
  creation does the same for every key (`UnbornIsUnsubscribed`). That a terminal
  search holds no capacity needs that its reservation was not released before
  (`ReleasedAtTheEnd`), or `EndSearch` would leave its remainder alone. The proof of
  finality needs the other parts: a late acceptance finds no live subscription
  because the search is quiet.
- `WakeupInv`. The sweeper fails a job and requests an aggregation through its live
  subscription: without `OpenJobIsWanted` a job without one would finish the search
  silently. A pass that declined releases later and marks its revision processed,
  which is right only while the search is as unfinished as the pass saw it
  (`DeclinedIsUnfinished`): whatever finishes it overtakes the claim. A new search
  is not denied already (`UnbornIsNotDenied`). The argument is one lemma
  (`RequestWakes`): a transaction that requests aggregation for every search whose
  work it changes loses nothing. `SharedRunSurvives` is a property of single steps:
  who is live on the key without being counted among its subscribers is past its
  deadline.
- `CapacityInv`. Each search is accounted for by itself (`Accounted`): what was drawn
  is the number of showtimes that ended (`Balanced`), what is wanted is covered by
  what was reserved and by what was matched, and until every schedule key is counted
  the cold reservation stands untouched (`Scheduled`). The provider's counters are
  the sizes of two sets, the units and the slots that unreleased reservations hold
  (`Units`, `Slots`). A transaction that moves several searches is one class of step
  (`Draws`, an end, a reconciliation), and for each the units it returns are put in
  bijection with what the counter is lowered by (`OneUnitEach`, `UnitsOfOneSearch`,
  `ShiftedUnits`, `ReconcileCounters`). The clamps at zero in the code never bite:
  whoever waits for a showtime still holds its unit (`BalanceBounds`). While the cold
  reservation stands it is `Reserve`, which covers the ceiling, so that a
  reconciliation never takes capacity: that is why only creation has to look at the
  limits (`OnlyCreationTakes`), and why an aggregate that does not fit is over the
  ceiling, which makes the denial earned (`MisfitsExceed`).
- `OutcomeInv`. The columns of a live search agree (`Consistent`): a match came with a
  resolved schedule, a satisfied showtime with a finished job, a cancelled job with a
  denial. Together with the accounts this makes the status honest when B8 derives it
  (`TerminalizeIsHonest`); that it stays so is finality, from `SafetyInv`.
- `ClientInv`. A re-read that settles a view carries an end (`Backed`), a terminal
  status is on screen, and a canceling view has a cancel in flight (`Flagged`): all for
  any number of searches and resets. `TruthInv` adds that every callback the fence lets
  run, and every cancel in flight, is about the search on view, that what a re-read
  carries is true of it, that a create is alone, and that an end that is shown has the
  answer of the search on view. Generations come round again in
  this proof: no callback has a generation above the store's, so that the next start
  makes a new one, because a calm user resets when nothing is left. `SoleInv` does
  without calm: with one search and no reset, a create is in flight only before the
  search is on view (`NotAgain`), so every step is one of `CalmNext` (`SoleIsCalm`).
- `RunsInv`. A deferral gives an attempt back, so that it stays a natural number
  needs the budget, and the budget that a run is leased before it defers (`Placed`,
  `UnbornIsUnused`). A scope that closed while a worker navigated is harmless because
  that worker's handle is then behind the fences of acceptance (`OvertakenIsLate`),
  and a charge is for work because a navigation begins with its ledger row
  (`NavigationIsWork`).
- `BusyInv`. A publisher between two awaits has a row in hand, a consumer is busy
  exactly if it has a message. The steps then map to leases, returns and ends of
  `Delivery`, or to nothing.
- `StreamInv`. A projector moves the watermark only over an entry it added or found,
  and works at the watermark's next row or behind (`ProjectorHand`); entries are
  rows (`EntriesAreRows`); the subscription's cursor is the number of what was
  received and what is on the wire, plus one (`ReaderPlace`). The merge takes the
  least entry of a set: `LeastIsMember` proves that there is one.
- `AggInv`. What a pass read lies between the revision it claimed and the facts there
  are (`ReadsFollowClaim`), so that B8's comparison of revisions makes both of its
  reads complete. A fenced pass may still publish: what is served is never older
  than what is marked or about to be (`ServedRevision`). The cancel counts before it
  freezes (`CancelReads`), and the log is closed exactly when the search is over
  (`LogEndsWithSearch`), which is what makes it implement `SearchLog`.

Assumptions used: `KeysAssumption` and `BoundsAssumption` (kinds of keys are
disjoint, sets finite, limits natural), `ReserveCoversCeiling` (the configured
reservation of a cold search is at least the literal ceiling of the acceptance gate,
as the defaults are; the code does not check it), `AttemptsAssumption` and
`NamesAssumption` (budgets positive, markers are not names), `NobodyAssumption` and
`FaultsAssumption`, `StreamAssumption`, `BoundsAssumption` of `Aggregation`,
`ClientAssumption`; and, for what the client shows, `CalmSpec` or `Single`, which say
what the user does and are not kept by the code.

Every invariant that a passing run checks, and every action property, is stated by a
theorem; the type invariants of `Aggregation` and `OutboxRelay`, which no run checks
any more, are proved and used by the invariants above.
Only model-checked, because fairness and ENABLED are out of the prover's reach: the
liveness properties (`FinishedSearchIsAnswered`, `DeadlineIsAnswered`,
`FencedJobIsSettled`, `WaitedRunsEnd`, `EveryEventArrives`, `DueSearchEnds`,
`RequestsAreServed`, `EndIsShown`) and the fairness half of `DeliveryPromise`; and the findings, which are
counterexamples. `ShownEndIsTrue` for several searches outside `CalmSpec`
is not proved because it does not hold.

## Plan

1. Proofs: what an abstract specification of the search's capacity promises (a pool
   from which a creation takes and every other step returns), implemented by
   `SearchLifecycle`; safety between the components where they share a fact.
2. `ProviderRuns` as an implementation of the Boolean of `SearchLifecycle`, and
   `Aggregation` of its claim: both keep their own variables today.
3. The recheck's nonce and its poll; the supervisor together with its three callers.
4. Pure algorithms of `packages/core` (the recovery ladder, seat groups) against
   reference definitions.

## Not modelled

- Browser runtime. The supervisor alone is sequential. What is hard is that the run
  actor and two crawls share one Chrome and may clean up at once, which needs those
  callers in the model.
- Session limiter, token buckets, place lookup: each is one Redis script or one
  bounded map; the limiter's overshoot is documented.
- Crawls: single-writer loops over a durable cursor, apart from the searches.
- Answer matrix, recovery ladder, seat groups, ranking: pure functions with
  property-based tests in the repository. Only the pair of status and cause that the
  matrix refuses is modelled (`HasAnswer`).
- `assertRevealContract` of the stream reader: a payload that fails its schema aborts
  the stream, and payloads are left out.
- A full loss of Redis, after which the semaphore's generations recur.
- The snapshot projection and purges of the sweeper; backoff, priorities and batch
  sizes of the relay; the form, facets and rendering of the client.
- Parsing of provider pages, schemas, calendar arithmetic on strings, hashing,
  migrations, telemetry. They hold no shared state. A third of the repository's
  lines is one generated table of postal codes and time zones
  (`postal-timezone-table.generated.ts`), and most of the rest is user interface
  and validation: the models map the part that is concurrent, a small share of all.
