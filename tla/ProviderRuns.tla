----------------------------- MODULE ProviderRuns -----------------------------
(***************************************************************************)
(* Provider runs: the leased, fenced, metered navigations behind every     *)
(* search, and the workers that carry them out.                            *)
(*                                                                         *)
(* A run is created for a run key, leased by the worker its delivery       *)
(* reaches, held back by a capacity-one semaphore in Redis, permitted by   *)
(* B4 in PostgreSQL, navigated under heartbeats, and accepted or failed    *)
(* under the generation of its lease.  The sweeper reclaims expired        *)
(* leases, an operator or the outcome of a navigation closes control       *)
(* scopes, and the end of a search cancels the runs nobody waits for.      *)
(*                                                                         *)
(* Abstractions.  A generation is kept as what comparing it decides: a     *)
(* worker's handle is current while its generation is the run's, and once  *)
(* overtaken it never is again.  So is a run's provider_epoch: it equals   *)
(* the fence's or it does not.  Any PENDING run may be delivered, any      *)
(* lease or semaphore entry may expire at any moment.  A holder of the     *)
(* semaphore is known by its run and the value of a counter in Redis: a    *)
(* loss of that counter, after which identities recur, is left out.        *)
(***************************************************************************)
EXTENDS Naturals, FiniteSets

CONSTANTS
  Runs,           \* run ids
  NoRun,          \* none of them
  RunLimit,       \* bound: how many of them may be created
  KeyOf,          \* the run key of each run
  Kind,           \* the kind of each key, see Kinds
  Searches,       \* searches that may subscribe to keys
  Workers,        \* fetch workers, across processes
  ActorAttempts,  \* RUN_MAX_ATTEMPTS, from which the actor's failRun fails the run
  SweepAttempts,  \* SWEEP_MAX_ATTEMPTS, from which the sweeper does
  Scopes          \* control scopes that may close: "" (halt) and route classes

Kinds == {"FETCH", "SCHEDULE", "MOVIE", "RECHECK"}
Keys == {KeyOf[r] : r \in Runs}

ASSUME RunsAssumption == Kind \in [Keys -> Kinds]
ASSUME AttemptsAssumption ==
  ActorAttempts \in Nat \ {0} /\ SweepAttempts \in Nat \ {0} /\ RunLimit \in Nat
ASSUME ScopesAssumption == Scopes \subseteq {"", "seat", "schedule", "movie-schedule"}
ASSUME NamesAssumption == {"free", "ghost"} \cap Workers = {} /\ NoRun \notin Runs

VARIABLES
  runState,   \* provider_run.state, "ABSENT" before the row exists
  attempt,    \* provider_run.attempt
  leased,     \* the run is LEASED and lease_expires_at > now()
  epoch,      \* the run is live and its provider_epoch is the fence's epoch
  live,       \* LIVE run_subscription rows, <<search, key>>
  rows,       \* every run_subscription row, LIVE or not
  ended,      \* searches that are over
  outcome,    \* recheck_outcome of the run: "NONE", "UNAVAILABLE" or "VERDICT"
  worked,     \* attempts of the run with a PROVIDER_WORK cost event
  charged,    \* <<attempt, search>> with an ABUSE_WEIGHTED cost event
  closed,     \* control scopes that are not OPEN in PostgreSQL
  cached,     \* what Redis says of a route class: "MISSING", "OPEN" or "CLOSED"
  semaphore,  \* the worker holding it, "free", or "ghost": held for a dead worker
  pc,         \* what each worker is doing, see Steps
  at,         \* the run each worker was delivered, NoRun when idle
  current,    \* the worker's handle has the run's generation
  doomed,     \* runs the sweeper found exhausted, while their generation lasts
  lapsed,     \* history: workers whose semaphore entry expired under them
  overtaken   \* history: workers navigating when a scope of their route closed

runVars == <<runState, attempt, leased, epoch>>
subVars == <<live, rows, ended>>
ledgerVars == <<outcome, worked, charged>>
controlVars == <<closed, cached>>
workerVars == <<pc, at, current>>
historyVars == <<lapsed, overtaken>>
vars == <<runVars, subVars, ledgerVars, controlVars, semaphore, workerVars, doomed,
          historyVars>>

LiveStates == {"PENDING", "LEASED"}
OverStates == {"DONE", "FAILED", "CANCELLED"}
Routes == {"seat", "schedule", "movie-schedule"}

\* "leased": B2 succeeded, the row is about to be read again.  "handed": the handler has
\* its handle.  "held": the semaphore is taken.  "failed": failRun ran, what follows it
\* did not.  "pausing": a parser-schema failure is about to pause its route.  "cleanup":
\* the semaphore is about to be released.
Steps == {"idle", "leased", "handed", "held", "navigating", "failed", "pausing",
          "cleanup"}

TypeOK ==
  /\ runState \in [Runs -> {"ABSENT"} \cup LiveStates \cup OverStates]
  /\ attempt \in [Runs -> Nat]
  /\ leased \in [Runs -> BOOLEAN]
  /\ epoch \in [Runs -> BOOLEAN]
  /\ live \subseteq rows
  /\ rows \subseteq Searches \X Keys
  /\ ended \subseteq Searches
  /\ outcome \in [Runs -> {"NONE", "UNAVAILABLE", "VERDICT"}]
  /\ worked \in [Runs -> SUBSET Nat]
  /\ charged \in [Runs -> SUBSET (Nat \X Searches)]
  /\ closed \in SUBSET Scopes
  /\ cached \in [Routes -> {"MISSING", "OPEN", "CLOSED"}]
  /\ semaphore \in Workers \cup {"free", "ghost"}
  /\ pc \in [Workers -> Steps]
  /\ at \in [Workers -> Runs \cup {NoRun}]
  /\ current \in [Workers -> BOOLEAN]
  /\ doomed \in SUBSET Runs
  /\ lapsed \in SUBSET Workers
  /\ overtaken \in SUBSET Workers

Init ==
  /\ runState = [r \in Runs |-> "ABSENT"]
  /\ attempt = [r \in Runs |-> 0]
  /\ leased = [r \in Runs |-> FALSE]
  /\ epoch = [r \in Runs |-> FALSE]
  /\ live = {}
  /\ rows = {}
  /\ ended = {}
  /\ outcome = [r \in Runs |-> "NONE"]
  /\ worked = [r \in Runs |-> {}]
  /\ charged = [r \in Runs |-> {}]
  /\ closed = {}
  /\ cached = [c \in Routes |-> "MISSING"]
  /\ semaphore = "free"
  /\ pc = [w \in Workers |-> "idle"]
  /\ at = [w \in Workers |-> NoRun]
  /\ current = [w \in Workers |-> FALSE]
  /\ doomed = {}
  /\ lapsed = {}
  /\ overtaken = {}

-----------------------------------------------------------------------------
RouteOfKind == [FETCH |-> "seat", SCHEDULE |-> "schedule", MOVIE |-> "movie-schedule",
                RECHECK |-> "seat"]
Route(r) == RouteOfKind[Kind[KeyOf[r]]]
Open(r) == closed \cap {"", Route(r)} = {}
SubscribersOf(r) == {s \in Searches : <<s, KeyOf[r]>> \in live}

\* The fence of every write a worker makes to its run.
Authorized(w) == current[w] /\ runState[at[w]] = "LEASED"

\* generation + 1 on the runs of R: every handle on them is overtaken.
Overtake(R) ==
  /\ current' = [w \in Workers |-> current[w] /\ at[w] \notin R]
  /\ doomed' = doomed \ R

\* The runs of R end.  Nothing reads the lease or the epoch of a run that is over.
Finish(R, end) ==
  /\ runState' = [r \in Runs |-> IF r \in R THEN end ELSE runState[r]]
  /\ leased' = [r \in Runs |-> leased[r] /\ r \notin R]
  /\ epoch' = [r \in Runs |-> epoch[r] /\ r \notin R]
  /\ UNCHANGED attempt

Goto(w, step) == pc' = [pc EXCEPT ![w] = step]

\* The delivery is over: acknowledged, failed, or lost with its process.
Leave(w) ==
  /\ Goto(w, "idle")
  /\ at' = [at EXCEPT ![w] = NoRun]
  /\ current' = [current EXCEPT ![w] = FALSE]
  /\ lapsed' = lapsed \ {w}
  /\ overtaken' = overtaken \ {w}

-----------------------------------------------------------------------------
(* Creation and subscription *)

\* RUN_CREATE: the insert wins only without a live run of the key.  A job admits the run
\* of a key it subscribes to; previews and refreshes, of schedules only, and rechecks
\* need no subscriber.
CreateRun(r) ==
  /\ runState[r] = "ABSENT"
  /\ Cardinality({q \in Runs : runState[q] # "ABSENT"}) < RunLimit
  /\ \A q \in Runs : KeyOf[q] = KeyOf[r] => runState[q] \notin LiveStates
  /\ Kind[KeyOf[r]] \in {"FETCH", "MOVIE"} => SubscribersOf(r) # {}
  /\ runState' = [runState EXCEPT ![r] = "PENDING"]
  /\ epoch' = [epoch EXCEPT ![r] = TRUE]
  /\ UNCHANGED <<attempt, leased, subVars, ledgerVars, controlVars, semaphore, workerVars,
                 doomed, historyVars>>

\* Fault: a run that is leased counts as dispatched.
OwedOnLease(r) == runState[r] = "LEASED" /\ leased[r] /\ epoch[r] /\ Open(r)

\* COST_ABUSE_JOIN: what a joiner owes a run that is dispatched and still live.
OwedOnJoin(r) ==
  /\ runState[r] = "LEASED" /\ leased[r] /\ epoch[r] /\ Open(r)
  /\ attempt[r] \in worked[r]

\* SUBSCRIPTION_CREATE of a search on one key, once for all (ON CONFLICT DO NOTHING), then
\* COST_ABUSE_JOIN.
Subscribe(s, k) ==
  /\ Kind[k] # "RECHECK"
  /\ s \notin ended /\ <<s, k>> \notin rows
  /\ live' = live \cup {<<s, k>>}
  /\ rows' = rows \cup {<<s, k>>}
  /\ charged' = [r \in Runs |->
       IF KeyOf[r] = k /\ OwedOnJoin(r) THEN charged[r] \cup {<<attempt[r], s>>}
       ELSE charged[r]]
  /\ UNCHANGED <<runVars, ended, outcome, worked, controlVars, semaphore, workerVars, doomed,
                 historyVars>>

\* A subscription ends and its run goes on: its job failed or completed by adoption, or the
\* work of its search was denied.
DropSubscription(s, k) ==
  /\ <<s, k>> \in live
  /\ live' = live \ {<<s, k>>}
  /\ UNCHANGED <<runVars, rows, ended, ledgerVars, controlVars, semaphore, workerVars, doomed,
                 historyVars>>

\* B8: the search's subscriptions expire, and the live runs of its keys, of a subscription
\* in any state, are cancelled if nobody waits for them.
EndSearch(s) ==
  LET kept == {p \in live : p[1] # s}
      orphaned == {r \in Runs : <<s, KeyOf[r]>> \in rows /\ runState[r] \in LiveStates
                                /\ \A p \in kept : p[2] # KeyOf[r]}
  IN
  /\ s \notin ended
  /\ ended' = ended \cup {s}
  /\ live' = kept
  /\ Finish(orphaned, "CANCELLED")
  /\ Overtake(orphaned)
  /\ UNCHANGED <<rows, ledgerVars, controlVars, semaphore, pc, at, historyVars>>

-----------------------------------------------------------------------------
(* Delivery: dispatchRunMessage *)

\* Fault: the lease does not count an attempt.
DeliverUncounted(w, r) ==
  /\ pc[w] = "idle" /\ runState[r] = "PENDING"
  /\ runState' = [runState EXCEPT ![r] = "LEASED"]
  /\ leased' = [leased EXCEPT ![r] = TRUE]
  /\ Overtake({r})
  /\ at' = [at EXCEPT ![w] = r]
  /\ Goto(w, "leased")
  /\ UNCHANGED <<attempt, epoch, subVars, ledgerVars, controlVars, semaphore, historyVars>>

\* B2_LEASE_RUN.
Deliver(w, r) ==
  /\ pc[w] = "idle" /\ runState[r] = "PENDING"
  /\ runState' = [runState EXCEPT ![r] = "LEASED"]
  /\ attempt' = [attempt EXCEPT ![r] = @ + 1]
  /\ leased' = [leased EXCEPT ![r] = TRUE]
  /\ Overtake({r})
  /\ at' = [at EXCEPT ![w] = r]
  /\ Goto(w, "leased")
  /\ UNCHANGED <<epoch, subVars, ledgerVars, controlVars, semaphore, historyVars>>

\* The row is read again and the handler's generation comes from that read: it is the
\* run's, whoever moved it since B2.
ReadHandle(w) ==
  /\ pc[w] = "leased"
  /\ current' = [current EXCEPT ![w] = TRUE]
  /\ Goto(w, "handed")
  /\ UNCHANGED <<runVars, subVars, ledgerVars, controlVars, semaphore, at, doomed, historyVars>>

-----------------------------------------------------------------------------
(* The fetch actor: control reads, semaphore, permission *)

\* readProviderControlState: the cached value, or a read-through on a miss.
Control(c) ==
  IF cached[c] # "MISSING" THEN cached[c]
  ELSE IF closed \cap {"", c} = {} THEN "OPEN" ELSE "CLOSED"

\* Every read of the control state leaves what it saw in the cache.
ReadsControl(w, seen) ==
  LET c == Route(at[w]) IN
  /\ Control(c) = seen
  /\ cached' = [cached EXCEPT ![c] = seen]

\* The read before acquisition is not OPEN: the delivery ends, the run stays LEASED.
Refuse(w) ==
  /\ pc[w] = "handed" /\ ReadsControl(w, "CLOSED")
  /\ Leave(w)
  /\ UNCHANGED <<runVars, subVars, ledgerVars, closed, semaphore, doomed>>

\* The read is OPEN and SEMAPHORE_ACQUIRE wins.  Nothing read is used after this step.
Acquire(w) ==
  /\ pc[w] = "handed" /\ ReadsControl(w, "OPEN") /\ semaphore = "free"
  /\ semaphore' = w
  /\ Goto(w, "held")
  /\ UNCHANGED <<runVars, subVars, ledgerVars, closed, at, current, doomed, historyVars>>

\* Fault: the attempt B2 counted stays counted.
ReturnCounted(r) ==
  /\ runState' = [runState EXCEPT ![r] = "PENDING"]
  /\ leased' = [leased EXCEPT ![r] = FALSE]
  /\ UNCHANGED <<attempt, epoch>>

\* RUN_DEFER_BUSY's update: no navigation took place, so the attempt is given back.
ReturnToPending(r) ==
  /\ runState' = [runState EXCEPT ![r] = "PENDING"]
  /\ leased' = [leased EXCEPT ![r] = FALSE]
  /\ attempt' = [attempt EXCEPT ![r] = @ - 1]
  /\ UNCHANGED epoch

\* SEMAPHORE_ACQUIRE finds it held: the run goes back unless its lease was lost.
Defer(w) ==
  /\ pc[w] = "handed" /\ ReadsControl(w, "OPEN") /\ semaphore # "free"
  /\ IF Authorized(w) THEN ReturnToPending(at[w]) ELSE UNCHANGED runVars
  /\ Leave(w)
  /\ UNCHANGED <<subVars, ledgerVars, closed, semaphore, doomed>>

\* The read after acquisition, not OPEN.
GiveUpHeld(w) ==
  /\ pc[w] = "held" /\ ReadsControl(w, "CLOSED")
  /\ Goto(w, "cleanup")
  /\ UNCHANGED <<runVars, subVars, ledgerVars, closed, semaphore, at, current, doomed,
                 historyVars>>

\* The guard of B4_PREDISPATCH.
Permitted(w) == Authorized(w) /\ Open(at[w])

\* B4_PREDISPATCH: the epoch is refreshed and the ledger rows of this attempt inserted,
\* with one charge per subscriber live now.  An attempt already in the ledger stays.
Dispatch(w) ==
  LET r == at[w] IN
  /\ pc[w] = "held" /\ ReadsControl(w, "OPEN") /\ Permitted(w)
  /\ epoch' = [epoch EXCEPT ![r] = TRUE]
  /\ worked' = [worked EXCEPT ![r] = @ \cup {attempt[r]}]
  /\ charged' = [charged EXCEPT ![r] = @ \cup ({attempt[r]} \X SubscribersOf(r))]
  /\ Goto(w, "navigating")
  /\ UNCHANGED <<runState, attempt, leased, subVars, outcome, closed, semaphore, at, current,
                 doomed, historyVars>>

\* B4_PREDISPATCH returned zero rows.
DispatchDenied(w) ==
  /\ pc[w] = "held" /\ ReadsControl(w, "OPEN") /\ ~Permitted(w)
  /\ Goto(w, "cleanup")
  /\ UNCHANGED <<runVars, subVars, ledgerVars, closed, semaphore, at, current, doomed,
                 historyVars>>

-----------------------------------------------------------------------------
(* Navigation, heartbeats and the mapping of outcomes *)

\* One heartbeatTick whose two fences hold.
Heartbeat(w) ==
  /\ pc[w] = "navigating" /\ Authorized(w) /\ semaphore = w
  /\ leased' = [leased EXCEPT ![at[w]] = TRUE]
  /\ UNCHANGED <<runState, attempt, epoch, subVars, ledgerVars, controlVars, semaphore,
                 workerVars, doomed, historyVars>>

\* A tick that lost a fence, or failed, aborts the navigation: CANCELLED, no transition.
\* The lease is renewed before the semaphore is found lost.
Abort(w) ==
  /\ pc[w] = "navigating"
  /\ leased' \in {leased, [leased EXCEPT ![at[w]] = @ \/ Authorized(w)]}
  /\ Goto(w, "cleanup")
  /\ UNCHANGED <<runState, attempt, epoch, subVars, ledgerVars, controlVars, semaphore, at,
                 current, doomed, historyVars>>

\* B5A_FENCE with B5B_EPOCH_FENCE; a recheck has only RECHECK_COMPLETE's generation fence.
Acceptable(w) ==
  /\ Authorized(w)
  /\ Kind[KeyOf[at[w]]] # "RECHECK" => epoch[at[w]] /\ Open(at[w])

\* acceptFetch or schedule acceptance: the run is DONE and its subscribers are served.
Accept(w) ==
  LET r == at[w] IN
  /\ pc[w] = "navigating" /\ Kind[KeyOf[r]] # "RECHECK" /\ Acceptable(w)
  /\ Finish({r}, "DONE")
  /\ live' = {p \in live : p[2] # KeyOf[r]}
  /\ Goto(w, "cleanup")
  /\ UNCHANGED <<rows, ended, ledgerVars, controlVars, semaphore, at, current, doomed, historyVars>>

\* Fault: the outcome is written whether or not the transition is won.
CompleteUnfenced(w) ==
  LET r == at[w] IN
  /\ pc[w] = "navigating" /\ Kind[KeyOf[r]] = "RECHECK"
  /\ outcome[r] = "NONE"
  /\ Finish({q \in {r} : Acceptable(w)}, "DONE")
  /\ outcome' = [outcome EXCEPT ![r] = "VERDICT"]
  /\ Goto(w, "cleanup")
  /\ UNCHANGED <<subVars, worked, charged, controlVars, semaphore, at, current, doomed,
                 historyVars>>

\* RECHECK_COMPLETE: the transition and the outcome are one statement, which throws on an
\* outcome that is already there.
CompleteRecheck(w) ==
  LET r == at[w] IN
  /\ pc[w] = "navigating" /\ Kind[KeyOf[r]] = "RECHECK" /\ Acceptable(w)
  /\ outcome[r] = "NONE"
  /\ Finish({r}, "DONE")
  /\ outcome' = [outcome EXCEPT ![r] = "VERDICT"]
  /\ Goto(w, "cleanup")
  /\ UNCHANGED <<subVars, worked, charged, controlVars, semaphore, at, current, doomed,
                 historyVars>>

\* The acceptance throws or returns zero rows: rolled back, nothing written.
AcceptanceRejected(w) ==
  /\ pc[w] = "navigating"
  /\ ~Acceptable(w) \/ outcome[at[w]] # "NONE"
  /\ Goto(w, "cleanup")
  /\ UNCHANGED <<runVars, subVars, ledgerVars, controlVars, semaphore, at, current, doomed,
                 historyVars>>

\* failRun of run r once its fence is won: its live subscribers fail with it.
FailSubscribers(r) ==
  /\ Finish({r}, "FAILED")
  /\ live' = {p \in live : p[2] # KeyOf[r]}

\* A failed navigation: failRun fails the run from the last attempt on, and otherwise
\* returns null with the run still LEASED.
FailNavigation(w) ==
  LET r == at[w] IN
  /\ pc[w] = "navigating"
  /\ IF Authorized(w) /\ attempt[r] >= ActorAttempts THEN FailSubscribers(r)
     ELSE UNCHANGED <<runVars, live>>
  /\ Goto(w, "failed")
  /\ UNCHANGED <<rows, ended, ledgerVars, controlVars, semaphore, at, current, doomed, historyVars>>

\* failRun ended the enclosing transaction, so RECHECK_FAIL commits by itself, whatever
\* failRun returned.  A second outcome throws, and nothing follows it.
AfterFailure(w) ==
  LET r == at[w] IN
  /\ pc[w] = "failed"
  /\ outcome' = IF Kind[KeyOf[r]] = "RECHECK" /\ outcome[r] = "NONE"
                THEN [outcome EXCEPT ![r] = "UNAVAILABLE"] ELSE outcome
  /\ \E next \in {"cleanup", "pausing"} :
       /\ next = "pausing" => /\ Kind[KeyOf[r]] # "RECHECK" \/ outcome[r] = "NONE"
                              /\ Route(r) \in Scopes
       /\ Goto(w, next)
  /\ UNCHANGED <<runVars, subVars, worked, charged, controlVars, semaphore, at, current, doomed,
                 historyVars>>

\* Fault: whoever holds it, the semaphore is freed.
ReleaseAnyHolder(w) ==
  /\ pc[w] = "cleanup"
  /\ semaphore' = "free"
  /\ Leave(w)
  /\ UNCHANGED <<runVars, subVars, ledgerVars, controlVars, doomed>>

\* The end of the actor's finally: the page is closed, the semaphore released if the
\* holder and its generation are still this worker's.
Release(w) ==
  /\ pc[w] = "cleanup"
  /\ semaphore' = IF semaphore = w THEN "free" ELSE semaphore
  /\ Leave(w)
  /\ UNCHANGED <<runVars, subVars, ledgerVars, controlVars, doomed>>

-----------------------------------------------------------------------------
(* B9: provider control *)

\* Fault: only the fence epoch moves, leased runs keep their generation.
CloseUnfenced(c) ==
  /\ closed' = closed \cup {c}
  /\ epoch' = [r \in Runs |-> FALSE]
  /\ overtaken' = overtaken \cup
       {w \in Workers : pc[w] = "navigating" /\ c \in {"", Route(at[w])}}
  /\ UNCHANGED <<runState, attempt, leased, subVars, ledgerVars, cached, semaphore, at, current,
                 doomed, lapsed>>

\* stageProviderControlTransition: fence, status, and the generation of every leased run.
\* Nothing writes the cached copies.
Close(c) ==
  /\ closed' = closed \cup {c}
  /\ epoch' = [r \in Runs |-> FALSE]
  /\ Overtake({r \in Runs : runState[r] = "LEASED"})
  /\ overtaken' = overtaken \cup
       {w \in Workers : pc[w] = "navigating" /\ c \in {"", Route(at[w])}}
  /\ UNCHANGED <<runState, attempt, leased, subVars, ledgerVars, cached, semaphore, at, lapsed>>

\* A navigation that met a queue, a challenge, a block or a rate limit closes a scope, and
\* so does a parser-schema failure after failRun.
CloseFromNavigation(w, c) ==
  /\ \/ pc[w] = "navigating" /\ c \in {"", Route(at[w])}
     \/ pc[w] = "pausing" /\ c = Route(at[w])
  /\ Close(c)
  /\ Goto(w, "cleanup")

\* The legal kill switch, from outside the workers.
CloseFromOutside(c) == c = "" /\ Close(c) /\ UNCHANGED pc

\* reopenProviderScope: the epoch moves, the generations do not.
Reopen(c) ==
  /\ c \in closed
  /\ closed' = closed \ {c}
  /\ epoch' = [r \in Runs |-> FALSE]
  /\ UNCHANGED <<runState, attempt, leased, subVars, ledgerVars, cached, semaphore, workerVars,
                 doomed, historyVars>>

\* The not_before of a pause passes.
PauseElapses(c) ==
  /\ c \in closed \ {""}
  /\ closed' = closed \ {c}
  /\ UNCHANGED <<runVars, subVars, ledgerVars, cached, semaphore, workerVars, doomed, historyVars>>

-----------------------------------------------------------------------------
(* Time, faults and the sweeper *)

LeaseExpires(r) ==
  /\ leased[r] /\ runState[r] = "LEASED"
  /\ leased' = [leased EXCEPT ![r] = FALSE]
  /\ UNCHANGED <<runState, attempt, epoch, subVars, ledgerVars, controlVars, semaphore,
                 workerVars, doomed, historyVars>>

\* The TTL of the semaphore's entry passes.
SemaphoreExpires ==
  /\ semaphore # "free"
  /\ semaphore' = "free"
  /\ lapsed' = lapsed \cup ({semaphore} \cap Workers)
  /\ UNCHANGED <<runVars, subVars, ledgerVars, controlVars, workerVars, doomed, overtaken>>

\* Redis lost its copies of the control state.
CacheLost ==
  /\ cached' = [c \in Routes |-> "MISSING"]
  /\ cached' # cached
  /\ UNCHANGED <<runVars, subVars, ledgerVars, closed, semaphore, workerVars, doomed, historyVars>>

\* A worker's process dies with its delivery.
Crash(w) ==
  /\ pc[w] # "idle"
  /\ Leave(w)
  /\ semaphore' = IF semaphore = w THEN "ghost" ELSE semaphore
  /\ UNCHANGED <<runVars, subVars, ledgerVars, controlVars, doomed>>

\* SWEEP_RECLAIM_RUNS.
Reclaim(r) ==
  /\ runState[r] = "LEASED" /\ ~leased[r] /\ attempt[r] < SweepAttempts
  /\ runState' = [runState EXCEPT ![r] = "PENDING"]
  /\ Overtake({r})
  /\ UNCHANGED <<attempt, leased, epoch, subVars, ledgerVars, controlVars, semaphore, pc, at,
                 historyVars>>

\* Fault: a run that has used up its attempts is not exhausted yet.
DiscoverLate ==
  /\ doomed' = {r \in Runs : runState[r] = "LEASED" /\ ~leased[r]
                             /\ attempt[r] > SweepAttempts}
  /\ doomed' # doomed
  /\ UNCHANGED <<runVars, subVars, ledgerVars, controlVars, semaphore, workerVars, historyVars>>

\* SWEEP_DISCOVER_EXHAUSTED_RUNS.
Discover ==
  /\ doomed' = {r \in Runs : runState[r] = "LEASED" /\ ~leased[r]
                             /\ attempt[r] >= SweepAttempts}
  /\ doomed' # doomed
  /\ UNCHANGED <<runVars, subVars, ledgerVars, controlVars, semaphore, workerVars, historyVars>>

\* failRun of a discovered candidate: its fence compares the generation, the state and the
\* attempt, not the lease.
FailDoomed(r) ==
  /\ r \in doomed
  /\ doomed' = doomed \ {r}
  /\ IF runState[r] = "LEASED" THEN FailSubscribers(r) ELSE UNCHANGED <<runVars, live>>
  /\ UNCHANGED <<rows, ended, ledgerVars, controlVars, semaphore, workerVars, historyVars>>

-----------------------------------------------------------------------------
WorkerStep(w) ==
  \/ ReadHandle(w) \/ Refuse(w)
  \/ Acquire(w) \/ Defer(w) \/ GiveUpHeld(w)
  \/ Dispatch(w) \/ DispatchDenied(w)
  \/ Accept(w) \/ CompleteRecheck(w) \/ AcceptanceRejected(w) \/ Abort(w)
  \/ FailNavigation(w) \/ AfterFailure(w)
  \/ \E c \in Scopes : CloseFromNavigation(w, c)
  \/ Release(w)

Next ==
  \/ \E w \in Workers :
       WorkerStep(w) \/ Heartbeat(w) \/ Crash(w) \/ \E r \in Runs : Deliver(w, r)
  \/ \E r \in Runs :
       CreateRun(r) \/ LeaseExpires(r) \/ Reclaim(r) \/ FailDoomed(r)
  \/ Discover \/ SemaphoreExpires \/ CacheLost
  \/ \E c \in Scopes : CloseFromOutside(c) \/ Reopen(c) \/ PauseElapses(c)
  \/ \E s \in Searches :
       EndSearch(s) \/ \E k \in Keys : Subscribe(s, k) \/ DropSubscription(s, k)

Spec == Init /\ [][Next]_vars

\* Nobody will renew the lease of r.
Abandoned(r) == \A w \in Workers : at[w] = r => ~current[w]

\* SWEEP_REARM_RUNS: the PENDING runs whose delivery is staged again and again.  A live
\* search waits for them, or they are of a schedule no search ever subscribed to.
Rearmable(r) ==
  \/ SubscribersOf(r) # {}
  \/ Kind[KeyOf[r]] = "SCHEDULE" /\ \A p \in rows : p[2] # KeyOf[r]

\* A worker that does not crash goes on; a run the sweeper keeps re-arming is delivered, any
\* other may wait for ever; time passes for a lease nobody renews and for a semaphore entry
\* of the dead; the sweeper's duties recur, and not every one of its passes is cut in two by
\* another halt.
Fairness ==
  /\ \A w \in Workers : WF_vars(WorkerStep(w))
  /\ WF_vars(\E w \in Workers, r \in Runs : Rearmable(r) /\ Deliver(w, r))
  /\ WF_vars(\E r \in Runs : Abandoned(r) /\ LeaseExpires(r))
  /\ WF_vars(\E r \in Runs : Reclaim(r))
  /\ WF_vars(Discover)
  /\ SF_vars(\E r \in Runs : FailDoomed(r))
  /\ WF_vars(semaphore = "ghost" /\ SemaphoreExpires)
FairSpec == Spec /\ Fairness

-----------------------------------------------------------------------------
(* Safety *)

\* Steps taken while the semaphore is, or was, this worker's.
Holding == {"held", "navigating", "failed", "pausing", "cleanup"}

\* Capacity one: a worker between its acquisition and its release is the holder, unless
\* its own entry expired under it.  A late release of an expired holder never frees the
\* semaphore of the worker that took it since.
SemaphoreExcludes ==
  \A w \in Workers : pc[w] \in Holding /\ w \notin lapsed => semaphore = w

\* A navigation whose writes would still be taken is one B4 would permit now: its route is
\* open, and no scope of it closed since it was dispatched, even if it reopened.
InFlightIsPermitted ==
  \A w \in Workers : pc[w] = "navigating" /\ Authorized(w) =>
    Open(at[w]) /\ w \notin overtaken

\* Nobody is charged for an attempt that did no provider work, not even a search that
\* joins a leased run late (COST_ABUSE_JOIN), and a dispatched attempt is in the ledger.
ChargedForWork ==
  \A r \in Runs :
    /\ \A c \in charged[r] : c[1] \in worked[r]
    /\ runState[r] = "DONE" => worked[r] # {}

\* Deferrals give an attempt back and leases take one: the count never goes below zero,
\* a waiting run has one left, and a leased run never exceeds the sweeper's budget.
AttemptsWithinBudget ==
  \A r \in Runs :
    /\ attempt[r] \in 0 .. SweepAttempts
    /\ runState[r] = "PENDING" => attempt[r] < SweepAttempts
    /\ runState[r] = "LEASED" => attempt[r] > 0

\* A verdict and the end of its recheck are one fact: DONE has the verdict, and a verdict
\* is never that of a run that failed or may run again.
VerdictIsTerminal ==
  \A r \in Runs : Kind[KeyOf[r]] = "RECHECK" =>
    (runState[r] = "DONE" <=> outcome[r] = "VERDICT")

-----------------------------------------------------------------------------
(* Liveness *)

\* A run ends, or it rests: PENDING, and nobody waits for it.  Whatever crashes, closes or
\* stays closed, no run stays with a worker, and none that somebody waits for stays behind:
\* a fail-closed delivery still uses an attempt, and the sweeper fails what has none left.
\* What rests may do so for ever: nothing re-arms it, and the broker may drop the delivery
\* that RUN_DEFER_BUSY stages.
WaitedRunsEnd ==
  \A r \in Runs :
    runState[r] \in LiveStates ~>
      runState[r] \in OverStates \/ (runState[r] = "PENDING" /\ ~Rearmable(r))
=============================================================================
