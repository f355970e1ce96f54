--------------------------- MODULE SearchWakeupProofs ---------------------------
(***************************************************************************)
(* Two properties that relate several searches or several transactions:    *)
(* that no search takes a run from another one, and that no revision is    *)
(* lost between a claim and its release.  The second rests on two facts    *)
(* more than SafetyInv: the open job of a live search has a live           *)
(* subscription, so that failing it requests an aggregation, and a pass    *)
(* that declined to end a search saw it unfinished.                        *)
(***************************************************************************)
EXTENDS SearchLifecycleProofs

USE DEF vars, searchVars, subVars, jobVars, reservationVars, admissionVars,
        aggregationVars, providerVars

\* What NoLostWakeup is about: nothing is left to do, or nothing will be done.
Over(s) == WorkDone(s) \/ denied[s]

OpenJobIsWanted ==
  \A s \in Searches, k \in Keys :
    Live(s) /\ job[s][k] \in OpenJob => sub[s][k] = "LIVE"

UnbornIsNotDenied == \A s \in Searches : status[s] = "NONE" => ~denied[s]

\* Whatever finishes a search after that overtakes the claim.
DeclinedIsUnfinished ==
  \A s \in Searches :
    Live(s) /\ Subscribed(s) # {} /\ claim[s] = "declined" /\ Over(s) => expired[s]

WakeupInv ==
  SafetyInv /\ OpenJobIsWanted /\ UnbornIsNotDenied /\ DeclinedIsUnfinished /\ NoLostWakeup

\* What SharedRunSurvives says of one step.
RunStep ==
  \A k \in Keys : run[k] /\ ~run'[k] =>
    \A s \in Searches : sub'[s][k] = "LIVE" => expired[s]

-----------------------------------------------------------------------------
(* SharedRunSurvives *)

\* Who is live on a key without being a subscriber is past its deadline.
LEMMA OthersAreExpired ==
  ASSUME SafetyInv, NEW k \in Keys, NEW s \in Searches, s \notin Subscribers(k),
         sub[s][k] = "LIVE"
  PROVE  expired[s]
<1>1. status[s] # "NONE" /\ ~Terminal(s)
  BY DEF SafetyInv, UnbornIsUnsubscribed, TerminalIsQuiet
<1>2. Live(s)
  BY <1>1 DEF SafetyInv, TypeOK, Live, Terminal
<1> QED
  BY <1>2 DEF Subscribers

\* The fan-in of a fetch run leaves nobody waiting on it.
LEMMA AcceptFetchRun ==
  ASSUME SafetyInv, NEW k \in FetchKeys, AcceptFetch(k)
  PROVE  RunStep
<1>1. k \in Keys
  BY DEF Keys
<1>2. ASSUME NEW s \in Searches, sub'[s][k] = "LIVE" PROVE expired[s]
  <2>1. sub'[s][k] = IF s \in Subscribers(k) THEN "SATISFIED" ELSE sub[s][k]
    BY <1>1 DEF SafetyInv, TypeOK, AcceptFetch
  <2> QED
    BY <1>1, <1>2, <2>1, OthersAreExpired
<1>3. \A j \in Keys : j # k => run'[j] = run[j]
  BY DEF AcceptFetch, SafetyInv, TypeOK
<1> QED
  BY <1>2, <1>3 DEF RunStep

\* Neither does that of a schedule run, whose fan-out and denials spare the run's key.
LEMMA AcceptScheduleRun ==
  ASSUME SafetyInv, NEW k \in ScheduleKeys, NEW observed \in BOOLEAN,
         NEW match \in [Searches -> SUBSET FetchKeys],
         NEW fallback \in [Searches -> SUBSET ScheduleKeys],
         AcceptSchedule(k, observed, match, fallback)
  PROVE  RunStep
<1> DEFINE S == Subscribers(k)
<1> DEFINE n == [s \in Searches |-> Cardinality(match[s])]
<1> DEFINE overflowing == {s \in S : ~Fits(s, matches[s] + n[s])}
<1> DEFINE expanding == S \ overflowing
<1> DEFINE found == [s \in Searches |->
        IF s \in expanding THEN (match[s] \cup fallback[s]) \ Subscribed(s) ELSE {}]
<1> DEFINE subs == [s \in Searches |-> [j \in Keys |->
        IF j \in found[s] THEN "LIVE" ELSE IF s \in S /\ j = k THEN "SATISFIED" ELSE sub[s][j]]]
<1> DEFINE jobs == [s \in Searches |-> [j \in Keys |->
        IF j \in found[s] THEN "PENDING"
        ELSE IF s \in S /\ j = k /\ job[s][j] \in OpenJob THEN "DONE" ELSE job[s][j]]]
<1>1. k \in Keys
  BY DEF Keys
<1>2. subs \in [Searches -> [Keys -> SubStates]] /\ jobs \in [Searches -> [Keys -> JobStates]]
  BY DEF SafetyInv, TypeOK, SubStates, JobStates
<1>3. expanding \in SUBSET Searches /\ overflowing \in SUBSET Searches
  BY DEF Subscribers
<1>4. SettleOrDeny(expanding, overflowing, subs, jobs)
  BY DEF AcceptSchedule
<1>5. \A s \in Searches : s \in S => k \notin found[s]
  BY <1>1 DEF Subscribed, Subscribers
<1>6. \A s \in Searches : s \notin S => found[s] = {}
  OBVIOUS
<1>7. \A s \in Searches : subs[s][k] = IF s \in S THEN "SATISFIED" ELSE sub[s][k]
  BY <1>1, <1>5, <1>6
<1> HIDE DEF subs, jobs, expanding, overflowing, found, n
<1>8. \A s \in Searches : sub'[s] = subs[s] \/ sub'[s] = ExpireSubscriptions(subs[s])
  <2>1. subs \in [Searches -> [Keys -> SubStates]]
    BY <1>2
  <2>2. jobs \in [Searches -> [Keys -> JobStates]]
    BY <1>2
  <2>3. /\ \A s \in Searches :
             \/ sub'[s] = subs[s] /\ job'[s] = jobs[s]
             \/ /\ s \in expanding \cup overflowing
                /\ sub'[s] = ExpireSubscriptions(subs[s]) /\ job'[s] = CancelJobs(jobs[s])
        /\ \A s \in Searches \ expanding : remaining'[s] = remaining[s]
        /\ released' = released
    BY ONLY <1>3, <1>4, <2>1, <2>2, SettleOrDenyEffect
  <2> QED
    BY <2>3
<1>9. \A s \in Searches : sub'[s][k] = "LIVE" => subs[s][k] = "LIVE"
  BY <1>1, <1>2, <1>8, ExpiredSubscriptions
<1>10. \A s \in Searches : sub'[s][k] = "LIVE" => expired[s]
  BY <1>1, <1>7, <1>9, OthersAreExpired
<1>11. \A j \in Keys : j # k => run'[j] = run[j]
  BY DEF AcceptSchedule, SafetyInv, TypeOK
<1> QED
  BY <1>10, <1>11 DEF RunStep

\* A run that failed has failed for everybody who waited on it.
LEMMA FailRunRun ==
  ASSUME SafetyInv, NEW k \in Keys, FailRun(k)
  PROVE  RunStep
<1> DEFINE S == Subscribers(k)
<1> DEFINE jobs == [s \in Searches |-> [job[s] EXCEPT ![k] =
                     IF s \in S /\ @ \in OpenJob THEN "FAILED" ELSE @]]
<1> DEFINE subs ==
      [s \in Searches |-> [sub[s] EXCEPT ![k] = IF s \in S THEN "CANCELLED" ELSE @]]
<1>1. subs \in [Searches -> [Keys -> SubStates]] /\ jobs \in [Searches -> [Keys -> JobStates]]
  BY DEF SafetyInv, TypeOK, SubStates, JobStates
<1>2. S \in SUBSET Searches /\ {} \in SUBSET Searches
  BY SubscribersAreSearches
<1>3. \A s \in Searches : subs[s][k] = IF s \in S THEN "CANCELLED" ELSE sub[s][k]
  BY DEF SafetyInv, TypeOK
<1>4. sub' = subs \/ SettleOrDeny(S, {}, subs, jobs)
  BY DEF FailRun, FailFetchSubscriptions, FailScheduleSubscriptions
<1> HIDE DEF subs, jobs
<1>5. \A s \in Searches : sub'[s] = subs[s] \/ sub'[s] = ExpireSubscriptions(subs[s])
  <2>1. CASE sub' = subs
    BY <2>1
  <2>2. CASE SettleOrDeny(S, {}, subs, jobs)
    <3>1. \A s \in Searches :
            \/ sub'[s] = subs[s] /\ job'[s] = jobs[s]
            \/ /\ s \in S \cup {}
               /\ sub'[s] = ExpireSubscriptions(subs[s]) /\ job'[s] = CancelJobs(jobs[s])
      BY ONLY <1>1, <1>2, <2>2, SettleOrDenyEffect
    <3> QED
      BY <3>1
  <2> QED
    BY <1>4, <2>1, <2>2
<1>6. \A s \in Searches : sub'[s][k] = "LIVE" => subs[s][k] = "LIVE"
  BY <1>1, <1>5, ExpiredSubscriptions
<1>7. \A s \in Searches : sub'[s][k] = "LIVE" => expired[s]
  BY <1>3, <1>6, OthersAreExpired
<1>8. \A j \in Keys : j # k => run'[j] = run[j]
  BY DEF FailRun, SafetyInv, TypeOK
<1> QED
  BY <1>7, <1>8 DEF RunStep

\* The end of a search takes a run only if no other subscription is live on it.
LEMMA EndSearchRun ==
  ASSUME SafetyInv, NEW s \in Searches, EndSearch(s)
  PROVE  RunStep
<1>1. ASSUME NEW k \in Keys, run[k], ~run'[k] PROVE \A t \in Searches : sub'[t][k] # "LIVE"
  <2>1. k \in OrphanedRuns(s, sub')
    BY <1>1 DEF EndSearch
  <2> QED
    BY <2>1 DEF OrphanedRuns
<1> QED
  BY <1>1 DEF RunStep

\* No step takes a run from a search that still waits on it.
LEMMA StepKeepsRuns ==
  ASSUME SafetyInv, [Next]_vars
  PROVE  RunStep
<1>1. CASE \A k \in Keys : run[k] => run'[k]
  BY <1>1 DEF RunStep
<1>2. ASSUME NEW s \in Searches, Terminalize(s) \/ CancelSearch(s) PROVE RunStep
  BY <1>2, EndSearchRun DEF Terminalize, CancelSearch
<1>3. ASSUME NEW k \in FetchKeys, AcceptFetch(k) PROVE RunStep
  BY <1>3, AcceptFetchRun
<1>4. ASSUME NEW k \in ScheduleKeys, AcceptAnySchedule(k) PROVE RunStep
  <2>1. PICK observed \in BOOLEAN, match \in [Searches -> SUBSET FetchKeys],
             fallback \in [Searches -> SUBSET (ScheduleKeys \ MovieKeys)] :
          AcceptSchedule(k, observed, match, fallback)
    BY <1>4 DEF AcceptAnySchedule
  <2>2. fallback \in [Searches -> SUBSET ScheduleKeys]
    OBVIOUS
  <2> QED
    BY <2>1, <2>2, AcceptScheduleRun
<1>5. ASSUME NEW k \in Keys, FailRun(k) PROVE RunStep
  BY <1>5, FailRunRun
<1>6. ASSUME NEW s \in Searches, NEW k \in Keys, AdmitJob(s, k) PROVE RunStep
  BY <1>6 DEF AdmitJob, RunStep, SafetyInv, TypeOK
<1>7. ASSUME NEW k \in ScheduleKeys, RequestScheduleRun(k) PROVE RunStep
  BY <1>7 DEF RequestScheduleRun, RunStep, SafetyInv, TypeOK
<1>8. CASE UNCHANGED run
  BY <1>8 DEF RunStep
<1>9. ASSUME NEW s \in Searches,
             \/ Create(s) \/ DeadlinePasses(s) \/ ClaimAggregation(s)
             \/ DeclineTerminalization(s) \/ ReleaseClaim(s)
             \/ \E k \in Keys : LeaseJob(s, k) \/ ReclaimJob(s, k) \/ FailExhaustedJob(s, k)
             \/ \E k \in FetchKeys : AdoptSnapshot(s, k)
      PROVE  UNCHANGED run
  <2>1. CASE Create(s)
    BY <2>1 DEF Create, CreateSearch
  <2>2. CASE \/ DeadlinePasses(s) \/ ClaimAggregation(s)
             \/ DeclineTerminalization(s) \/ ReleaseClaim(s)
    BY <2>2 DEF DeadlinePasses, ClaimAggregation, DeclineTerminalization, ReleaseClaim
  <2>3. ASSUME NEW k \in Keys, LeaseJob(s, k) \/ ReclaimJob(s, k) \/ FailExhaustedJob(s, k)
        PROVE  UNCHANGED run
    BY <2>3 DEF LeaseJob, ReclaimJob, FailExhaustedJob
  <2>4. ASSUME NEW k \in FetchKeys, AdoptSnapshot(s, k) PROVE UNCHANGED run
    BY <2>4 DEF AdoptSnapshot
  <2> QED
    BY <1>9, <2>1, <2>2, <2>3, <2>4
<1>10. ASSUME \/ \E k \in FetchKeys : SnapshotAges(k)
              \/ \E c \in Scopes : ApplyControlTransition(c) \/ ReopenScope(c)
       PROVE  UNCHANGED run
  BY <1>10 DEF SnapshotAges, ApplyControlTransition, ReopenScope
<1>11. CASE Next
  BY <1>2, <1>3, <1>4, <1>5, <1>6, <1>7, <1>8, <1>9, <1>10, <1>11 DEF Next
<1>12. CASE UNCHANGED vars
  BY <1>8, <1>12
<1> QED
  BY <1>11, <1>12

\* A run that others share is not taken from them: it ends for all of them, or when none of
\* them is inside its deadline.
THEOREM SharedRunsSurvive == Spec => SharedRunSurvives
<1>1. SafetyInv /\ [Next]_vars => [RunStep]_vars
  BY StepKeepsRuns
<1>2. Spec => [][RunStep]_vars
  BY <1>1, SafetyInvariance, PTL DEF Spec
<1>3. RunStep <=> \A k \in Keys : run[k] /\ ~run'[k] =>
                    \A s \in Searches : sub'[s][k] = "LIVE" => expired[s]
  BY DEF RunStep
<1> QED
  BY <1>2, <1>3, PTL DEF SharedRunSurvives
-----------------------------------------------------------------------------
(* NoLostWakeup *)

\* The parts of WakeupInv that are not SafetyInv.
WakeupParts == OpenJobIsWanted /\ UnbornIsNotDenied /\ DeclinedIsUnfinished /\ NoLostWakeup

\* What Over depends on.
SameWork(s) ==
  /\ sub'[s] = sub[s] /\ counted'[s] = counted[s] /\ denied'[s] = denied[s]
  /\ \A k \in Keys : job'[s][k] \in OpenJob <=> job[s][k] \in OpenJob

\* A search whose work did not change is over if it was.
LEMMA SameWorkSameOver ==
  ASSUME NEW s \in Searches, SameWork(s)
  PROVE  Over(s)' <=> Over(s)
<1>1. Subscribed(s)' = Subscribed(s)
  BY DEF SameWork, Subscribed
<1>2. (FetchJobs(s) \cap OpenJob = {})' <=> FetchJobs(s) \cap OpenJob = {}
  <2>1. (FetchJobs(s) \cap OpenJob = {}) <=>
          \A k \in FetchKeys \cap Subscribed(s) : job[s][k] \notin OpenJob
    BY DEF FetchJobs
  <2>2. (FetchJobs(s) \cap OpenJob = {})' <=>
          \A k \in FetchKeys \cap Subscribed(s)' : job'[s][k] \notin OpenJob
    BY DEF FetchJobs, OpenJob
  <2> QED
    BY <1>1, <2>1, <2>2 DEF SameWork, Keys
<1> QED
  BY <1>1, <1>2 DEF SameWork, Over, WorkDone

\* A live search that exists stays as it was but for its work, or aggregation is requested
\* for it, or its deadline passed.
WorkIsSeen(R) ==
  \A s \in Searches : Live(s)' =>
    /\ Live(s) /\ (expired[s] => expired'[s])
    /\ s \in R \/ SameWork(s) \/ expired[s]

\* A transaction that requests aggregation for every search whose work it changes.
LEMMA RequestWakes ==
  ASSUME WakeupInv, NEW R \in SUBSET Searches, RequestAggregation(R), WorkIsSeen(R)
  PROVE  DeclinedIsUnfinished' /\ NoLostWakeup'
<1>1. \A s \in R : dirty'[s] /\ claim'[s] # "declined"
  BY DEF RequestAggregation
<1>2. \A s \in Searches \ R : dirty'[s] = dirty[s] /\ claim'[s] = claim[s]
  BY DEF RequestAggregation, WakeupInv, SafetyInv, TypeOK
<1>3. ASSUME NEW s \in Searches \ R,
             Live(s)', Subscribed(s)' # {}, Over(s)', ~expired'[s]
      PROVE  Live(s) /\ Subscribed(s) # {} /\ Over(s) /\ ~expired[s]
  <2>1. Live(s) /\ ~expired[s] /\ SameWork(s)
    BY <1>3 DEF WorkIsSeen
  <2>2. Subscribed(s)' = Subscribed(s)
    BY <2>1 DEF SameWork, Subscribed
  <2> QED
    BY <1>3, <2>1, <2>2, SameWorkSameOver
<1>4. DeclinedIsUnfinished'
  BY <1>1, <1>2, <1>3 DEF WakeupInv, DeclinedIsUnfinished
<1>5. NoLostWakeup'
  <2> SUFFICES ASSUME NEW s \in Searches, Live(s)', Subscribed(s)' # {}, Over(s)', ~expired'[s]
               PROVE  dirty'[s]
    BY DEF NoLostWakeup, Over
  <2> QED
    BY <1>1, <1>2, <1>3 DEF WakeupInv, NoLostWakeup, Over
<1> QED
  BY <1>4, <1>5

\* A step that leaves the aggregation alone and changes no live search's work.
LEMMA QuietStepWakes ==
  ASSUME WakeupInv, WorkIsSeen({}), UNCHANGED <<dirty, claim>>
  PROVE  DeclinedIsUnfinished' /\ NoLostWakeup'
<1>1. RequestAggregation({})
  BY DEF RequestAggregation, WakeupInv, SafetyInv, TypeOK
<1> QED
  BY <1>1, RequestWakes

\* Over without its denial: every subscribed schedule key has a count, and no subscribed
\* fetch key an open job.
LEMMA UnfinishedWork ==
  ASSUME NEW s \in Searches, NEW k \in Keys, sub[s][k] # "NONE", k \notin counted[s],
         job[s][k] \in OpenJob
  PROVE  ~WorkDone(s)
BY DEF WorkDone, FetchJobs, Subscribed, Keys

\* A step that changes what one search is waiting for.
LEMMA OneSearchWakes ==
  ASSUME WakeupInv, NEW s \in Searches,
         \A t \in Searches \ {s} :
           /\ Live(t)' => Live(t)
           /\ SameWork(t) /\ dirty'[t] = dirty[t] /\ claim'[t] = claim[t]
           /\ expired[t] => expired'[t],
         Live(s)' /\ Subscribed(s)' # {} /\ Over(s)' /\ ~expired'[s] =>
           dirty'[s] /\ claim'[s] # "declined"
  PROVE  DeclinedIsUnfinished' /\ NoLostWakeup'
<1>1. ASSUME NEW t \in Searches \ {s}, Live(t)', Subscribed(t)' # {}, Over(t)', ~expired'[t]
      PROVE  dirty'[t] /\ claim'[t] # "declined"
  <2>1. Subscribed(t)' = Subscribed(t)
    BY DEF SameWork, Subscribed
  <2>2. Live(t) /\ Subscribed(t) # {} /\ Over(t) /\ ~expired[t]
    BY <1>1, <2>1, SameWorkSameOver
  <2> QED
    BY <2>2 DEF WakeupInv, DeclinedIsUnfinished, NoLostWakeup, Over
<1> QED
  BY <1>1 DEF DeclinedIsUnfinished, NoLostWakeup, Over

\* A new search has work to do, if it has any.
LEMMA CreateSearchWakeup ==
  ASSUME WakeupInv, NEW s \in Searches, NEW scheduled \in SUBSET ScheduleKeys,
         NEW matched \in SUBSET FetchKeys, NEW admitted \in SUBSET matched,
         CreateSearch(s, scheduled, matched, admitted)
  PROVE  WakeupParts'
<1> USE DEF WakeupInv, SafetyInv
<1> DEFINE subscribed == scheduled \cup admitted
<1>1. /\ status[s] = "NONE" /\ ~denied[s]
      /\ \A k \in ScheduleKeys : k \notin counted[s]
  BY DEF CreateSearch, UnbornIsNotDenied, UnbornIsUnsubscribed, UnsubscribedIsBlank, Keys
<1>2. /\ \A k \in Keys : /\ sub'[s][k] = IF k \in subscribed THEN "LIVE" ELSE "NONE"
                         /\ job'[s][k] = IF k \in subscribed THEN "PENDING" ELSE "NONE"
      /\ \A t \in Searches \ {s} :
           status'[t] = status[t] /\ sub'[t] = sub[t] /\ job'[t] = job[t]
      /\ UNCHANGED <<expired, denied, counted, dirty, claim>>
      /\ status'[s] # "NONE"
  BY DEF CreateSearch, TypeOK
<1> HIDE DEF subscribed
<1>3. OpenJobIsWanted' /\ UnbornIsNotDenied'
  BY <1>2 DEF OpenJobIsWanted, UnbornIsNotDenied, OpenJob, Live
<1>4. ASSUME Subscribed(s)' # {} PROVE ~Over(s)'
  <2>1. PICK k \in Keys : sub'[s][k] # "NONE"
    BY <1>4 DEF Subscribed
  <2>2. sub'[s][k] = "LIVE" /\ job'[s][k] = "PENDING" /\ k \notin counted'[s]
    BY <1>1, <1>2, <2>1 DEF TypeOK
  <2>3. CASE k \in ScheduleKeys
    BY <1>1, <1>2, <2>1, <2>2, <2>3 DEF Over, WorkDone, Subscribed
  <2>4. CASE k \in FetchKeys
    <3>1. "PENDING" \in FetchJobs(s)' \cap OpenJob
      BY <2>1, <2>2, <2>4 DEF FetchJobs, Subscribed, OpenJob
    <3>2. ~WorkDone(s)'
      BY <3>1 DEF WorkDone, OpenJob
    <3> QED
      BY <1>1, <1>2, <3>2 DEF Over
  <2> QED
    BY <2>3, <2>4 DEF Keys
<1>5. DeclinedIsUnfinished' /\ NoLostWakeup'
  <2>1. \A t \in Searches \ {s} :
          /\ Live(t)' => Live(t)
          /\ SameWork(t) /\ dirty'[t] = dirty[t] /\ claim'[t] = claim[t]
          /\ expired[t] => expired'[t]
    BY <1>2 DEF SameWork, Live
  <2> HIDE DEF WakeupInv, SafetyInv
  <2> QED
    BY <1>4, <2>1, OneSearchWakes
<1> QED
  BY <1>3, <1>5 DEF WakeupParts

\* A lease, its return and a passing deadline leave the work where it is.
LEMMA SameWorkWakeup ==
  ASSUME WakeupInv, UNCHANGED <<status, sub, counted, denied, dirty, claim>>,
         \A s \in Searches : expired[s] => expired'[s],
         \A s \in Searches, k \in Keys : job'[s][k] \in OpenJob <=> job[s][k] \in OpenJob
  PROVE  WakeupParts'
<1>1. OpenJobIsWanted' /\ UnbornIsNotDenied'
  BY DEF WakeupInv, OpenJobIsWanted, UnbornIsNotDenied, Live
<1>2. WorkIsSeen({})
  BY DEF WorkIsSeen, SameWork, Live
<1> QED
  BY <1>1, <1>2, QuietStepWakes DEF WakeupParts

\* A pass claims, gives up a search it saw unfinished, and releases it.
LEMMA PassWakeup ==
  ASSUME WakeupInv, NEW s \in Searches,
         ClaimAggregation(s) \/ DeclineTerminalization(s) \/ ReleaseClaim(s)
  PROVE  WakeupParts'
<1>1. UNCHANGED <<status, sub, counted, denied, expired, job>>
  BY DEF ClaimAggregation, DeclineTerminalization, ReleaseClaim
<1>2. OpenJobIsWanted' /\ UnbornIsNotDenied'
  BY <1>1 DEF WakeupInv, OpenJobIsWanted, UnbornIsNotDenied, Live
<1>3. \A t \in Searches \ {s} : dirty'[t] = dirty[t] /\ claim'[t] = claim[t]
  BY DEF WakeupInv, SafetyInv, TypeOK, ClaimAggregation, DeclineTerminalization, ReleaseClaim
<1>4. \A t \in Searches \ {s} :
        /\ Live(t)' => Live(t)
        /\ SameWork(t) /\ dirty'[t] = dirty[t] /\ claim'[t] = claim[t]
        /\ expired[t] => expired'[t]
  BY <1>1, <1>3 DEF SameWork, Live
<1>5. ASSUME Live(s)', Subscribed(s)' # {}, Over(s)', ~expired'[s]
      PROVE  dirty'[s] /\ claim'[s] # "declined"
  <2>1. SameWork(s) /\ Live(s) /\ ~expired[s] /\ Subscribed(s) # {}
    BY <1>1, <1>5 DEF SameWork, Live, Subscribed
  <2>2. Over(s)
    BY <1>5, <2>1, SameWorkSameOver
  <2>3. dirty[s] /\ claim[s] # "declined"
    BY <2>1, <2>2 DEF WakeupInv, NoLostWakeup, DeclinedIsUnfinished, Over
  <2>4. CASE ClaimAggregation(s)
    BY <2>3, <2>4 DEF ClaimAggregation, WakeupInv, SafetyInv, TypeOK
  <2>5. CASE DeclineTerminalization(s)
    BY <2>2, <2>5 DEF DeclineTerminalization, Terminable, Over
  <2>6. CASE ReleaseClaim(s)
    BY <2>3, <2>6 DEF ReleaseClaim, WakeupInv, SafetyInv, TypeOK
  <2> QED
    BY <2>4, <2>5, <2>6
<1>6. DeclinedIsUnfinished' /\ NoLostWakeup'
  BY <1>4, <1>5, OneSearchWakes
<1> QED
  BY <1>2, <1>6 DEF WakeupParts

\* A search that ends waits for nothing.
LEMMA EndSearchWakeup ==
  ASSUME WakeupInv, NEW s \in Searches, EndSearch(s), NEW st \in TerminalStatuses,
         status' = [status EXCEPT ![s] = st],
         \A t \in Searches \ {s} : dirty'[t] = dirty[t] /\ claim'[t] = claim[t]
  PROVE  WakeupParts'
<1> USE DEF WakeupInv, SafetyInv
<1>1. ~Live(s)' /\ status'[s] # "NONE"
  BY DEF TypeOK, Live, LiveStatuses, TerminalStatuses
<1>2. \A t \in Searches \ {s} :
        status'[t] = status[t] /\ sub'[t] = sub[t] /\ job'[t] = job[t]
  BY DEF EndSearch, TypeOK
<1>3. UNCHANGED <<expired, denied, counted>>
  BY DEF EndSearch
<1>4. OpenJobIsWanted' /\ UnbornIsNotDenied'
  BY <1>1, <1>2, <1>3 DEF OpenJobIsWanted, UnbornIsNotDenied, Live
<1>5. \A t \in Searches \ {s} :
        /\ Live(t)' => Live(t)
        /\ SameWork(t) /\ dirty'[t] = dirty[t] /\ claim'[t] = claim[t]
        /\ expired[t] => expired'[t]
  BY <1>2, <1>3 DEF SameWork, Live
<1>6. DeclinedIsUnfinished' /\ NoLostWakeup'
  <2> HIDE DEF WakeupInv, SafetyInv
  <2> QED
    BY <1>1, <1>5, OneSearchWakes
<1> QED
  BY <1>4, <1>6 DEF WakeupParts

\* Either end.
LEMMA TerminalWakeup ==
  ASSUME WakeupInv, NEW s \in Searches, Terminalize(s) \/ CancelSearch(s)
  PROVE  WakeupParts'
<1>1. CASE Terminalize(s)
  <2>1. DerivedStatus(s) \in TerminalStatuses
    BY DEF DerivedStatus, TerminalStatuses
  <2>2. EndSearch(s) /\ status' = [status EXCEPT ![s] = DerivedStatus(s)]
        /\ \A t \in Searches \ {s} : dirty'[t] = dirty[t] /\ claim'[t] = claim[t]
    BY <1>1 DEF Terminalize, WakeupInv, SafetyInv, TypeOK
  <2> QED
    BY ONLY WakeupInv, s \in Searches, <2>1, <2>2, EndSearchWakeup
<1>2. CASE CancelSearch(s)
  <2>1. "CANCELLED" \in TerminalStatuses
    BY DEF TerminalStatuses
  <2>2. EndSearch(s) /\ status' = [status EXCEPT ![s] = "CANCELLED"]
        /\ \A t \in Searches \ {s} : dirty'[t] = dirty[t] /\ claim'[t] = claim[t]
    BY <1>2 DEF CancelSearch
  <2> QED
    BY ONLY WakeupInv, s \in Searches, <2>1, <2>2, EndSearchWakeup
<1> QED
  BY <1>1, <1>2

\* An adoption requests the aggregation of the search it served.
LEMMA AdoptSnapshotWakeup ==
  ASSUME WakeupInv, NEW s \in Searches, NEW k \in FetchKeys, AdoptSnapshot(s, k)
  PROVE  WakeupParts'
<1> USE DEF WakeupInv, SafetyInv
<1>1. k \in Keys
  BY DEF Keys
<1>2. /\ RequestAggregation({s})
      /\ \A t \in Searches \ {s} : sub'[t] = sub[t] /\ job'[t] = job[t]
      /\ job'[s][k] = "DONE"
      /\ \A j \in Keys \ {k} : sub'[s][j] = sub[s][j] /\ job'[s][j] = job[s][j]
      /\ UNCHANGED <<status, expired, denied, counted>>
  BY <1>1 DEF AdoptSnapshot, TypeOK
<1>3. OpenJobIsWanted' /\ UnbornIsNotDenied'
  BY <1>2 DEF OpenJobIsWanted, UnbornIsNotDenied, Live, OpenJob
<1>4. WorkIsSeen({s})
  BY <1>2 DEF WorkIsSeen, SameWork, Live
<1>5. DeclinedIsUnfinished' /\ NoLostWakeup'
  <2> HIDE DEF WakeupInv, SafetyInv
  <2>1. {s} \in SUBSET Searches
    OBVIOUS
  <2> QED
    BY <1>2, <1>4, <2>1, RequestWakes
<1> QED
  BY <1>3, <1>5 DEF WakeupParts

\* The fan-in of a fetch run requests that of its subscribers.
LEMMA AcceptFetchWakeup ==
  ASSUME WakeupInv, NEW k \in FetchKeys, AcceptFetch(k)
  PROVE  WakeupParts'
<1> DEFINE S == Subscribers(k)
<1> USE DEF WakeupInv, SafetyInv
<1>1. k \in Keys
  BY DEF Keys
<1>2. S \in SUBSET Searches
  BY DEF Subscribers
<1>3. /\ RequestAggregation(S)
      /\ \A s \in Searches, j \in Keys :
           /\ sub'[s][j] = IF s \in S /\ j = k THEN "SATISFIED" ELSE sub[s][j]
           /\ job'[s][j] = IF s \in S /\ j = k /\ job[s][j] \in OpenJob THEN "DONE"
                           ELSE job[s][j]
      /\ UNCHANGED <<status, expired, denied, counted>>
  BY <1>1 DEF AcceptFetch, CloseJob, TypeOK
<1>4. \A s \in Searches \ S : sub'[s] = sub[s] /\ job'[s] = job[s]
  BY <1>1 DEF AcceptFetch, CloseJob, TypeOK
<1> HIDE DEF S
<1>5. OpenJobIsWanted' /\ UnbornIsNotDenied'
  BY <1>3 DEF OpenJobIsWanted, UnbornIsNotDenied, Live, OpenJob
<1>6. WorkIsSeen(S)
  BY <1>3, <1>4 DEF WorkIsSeen, SameWork, Live
<1>7. DeclinedIsUnfinished' /\ NoLostWakeup'
  <2> HIDE DEF WakeupInv, SafetyInv
  <2> QED
    BY <1>2, <1>3, <1>6, RequestWakes
<1> QED
  BY <1>5, <1>7 DEF WakeupParts

\* SettleOrDeny denies searches of S and D only.
LEMMA DeniedEffect ==
  ASSUME TypeOK, NEW S \in SUBSET Searches, NEW D \in SUBSET Searches, NEW subs, NEW jobs,
         SettleOrDeny(S, D, subs, jobs)
  PROVE  \A s \in Searches : s \notin S \cup D => denied'[s] = denied[s]
<1> DEFINE settling == {s \in S : Settling(s, subs, counted')}
<1> DEFINE fit == {s \in settling : Fits(s, matches'[s])}
<1>1. denied' = [s \in Searches |-> denied[s] \/ s \in D \cup (settling \ fit)]
  BY DEF SettleOrDeny, Deny
<1>2. \A s \in settling : s \in S
  OBVIOUS
<1>3. denied \in [Searches -> BOOLEAN]
  BY TypeOK DEF TypeOK
<1> HIDE DEF fit, settling
<1> QED
  BY <1>1, <1>2, <1>3

\* That of a schedule run too, the searches it denies among them.
LEMMA AcceptScheduleWakeup ==
  ASSUME WakeupInv, TypeOK', NEW k \in ScheduleKeys, NEW observed \in BOOLEAN,
         NEW match \in [Searches -> SUBSET FetchKeys],
         NEW fallback \in [Searches -> SUBSET ScheduleKeys],
         AcceptSchedule(k, observed, match, fallback)
  PROVE  WakeupParts'
<1> DEFINE S == Subscribers(k)
<1> DEFINE n == [s \in Searches |-> Cardinality(match[s])]
<1> DEFINE overflowing == {s \in S : ~Fits(s, matches[s] + n[s])}
<1> DEFINE expanding == S \ overflowing
<1> DEFINE found == [s \in Searches |->
        IF s \in expanding THEN (match[s] \cup fallback[s]) \ Subscribed(s) ELSE {}]
<1> DEFINE subs == [s \in Searches |-> [j \in Keys |->
        IF j \in found[s] THEN "LIVE" ELSE IF s \in S /\ j = k THEN "SATISFIED" ELSE sub[s][j]]]
<1> DEFINE jobs == [s \in Searches |-> [j \in Keys |->
        IF j \in found[s] THEN "PENDING"
        ELSE IF s \in S /\ j = k /\ job[s][j] \in OpenJob THEN "DONE" ELSE job[s][j]]]
<1> USE DEF WakeupInv, SafetyInv
<1>1. subs \in [Searches -> [Keys -> SubStates]]
  BY DEF TypeOK, SubStates
<1>2. jobs \in [Searches -> [Keys -> JobStates]]
  BY DEF TypeOK, JobStates
<1>3. expanding \in SUBSET Searches /\ overflowing \in SUBSET Searches
      /\ expanding \cup overflowing = S /\ S \in SUBSET Searches
  BY DEF Subscribers
<1>4. SettleOrDeny(expanding, overflowing, subs, jobs)
  BY DEF AcceptSchedule
<1>5. /\ RequestAggregation(S)
      /\ counted' = [s \in Searches |-> IF s \in S THEN counted[s] \cup {k} ELSE counted[s]]
      /\ status' = [s \in Searches |-> IF s \in S /\ observed THEN "RUNNING" ELSE status[s]]
      /\ UNCHANGED expired
  BY DEF AcceptSchedule, Count
<1>6. \A s \in Searches : s \notin S => found[s] = {}
  OBVIOUS
<1>7. \A s \in S : Live(s) /\ status[s] # "NONE"
  BY LiveIsNotTerminal DEF Subscribers
<1>8. \A s \in Searches, j \in Keys :
        /\ subs[s][j] = IF j \in found[s] THEN "LIVE"
                        ELSE IF s \in S /\ j = k THEN "SATISFIED" ELSE sub[s][j]
        /\ jobs[s][j] = IF j \in found[s] THEN "PENDING"
                        ELSE IF s \in S /\ j = k /\ job[s][j] \in OpenJob THEN "DONE"
                        ELSE job[s][j]
  OBVIOUS
<1>9. \A s \in Searches : s \notin S => subs[s] = sub[s] /\ jobs[s] = job[s]
  BY <1>6 DEF TypeOK
<1>10. TypeOK /\ OpenJobIsWanted /\ UnbornIsNotDenied
  OBVIOUS
<1> HIDE DEF S, n, overflowing, expanding, found, subs, jobs, WakeupInv, SafetyInv
<1>11. /\ \A s \in Searches : s \notin S => counted'[s] = counted[s]
       /\ \A s \in Searches : status'[s] = status[s] \/ (s \in S /\ status'[s] = "RUNNING")
  BY <1>5
<1>12. ASSUME NEW s \in Searches, NEW j \in Keys, jobs[s][j] \in OpenJob
       PROVE  subs[s][j] = "LIVE" \/ (job[s][j] \in OpenJob /\ subs[s][j] = sub[s][j])
  <2>1. CASE j \in found[s]
    BY <1>8, <2>1
  <2>2. CASE j \notin found[s] /\ s \in S /\ j = k
    <3>1. jobs[s][j] = IF job[s][j] \in OpenJob THEN "DONE" ELSE job[s][j]
      BY <1>8, <2>2
    <3> QED
      BY <1>12, <3>1 DEF OpenJob
  <2>3. CASE j \notin found[s] /\ ~(s \in S /\ j = k)
    <3>1. jobs[s][j] = job[s][j] /\ subs[s][j] = sub[s][j]
      BY <1>8, <2>3
    <3> QED
      BY <1>12, <3>1
  <2> QED
    BY <2>1, <2>2, <2>3
<1>13. \A s \in Searches :
        \/ sub'[s] = subs[s] /\ job'[s] = jobs[s]
        \/ s \in S /\ sub'[s] = ExpireSubscriptions(subs[s]) /\ job'[s] = CancelJobs(jobs[s])
  <2>1. /\ \A s \in Searches :
             \/ sub'[s] = subs[s] /\ job'[s] = jobs[s]
             \/ /\ s \in expanding \cup overflowing
                /\ sub'[s] = ExpireSubscriptions(subs[s]) /\ job'[s] = CancelJobs(jobs[s])
        /\ \A s \in Searches \ expanding : remaining'[s] = remaining[s]
        /\ released' = released
    BY ONLY <1>1, <1>2, <1>3, <1>4, SettleOrDenyEffect
  <2> QED
    BY <1>3, <2>1
<1>14. \A s \in Searches : s \notin S => denied'[s] = denied[s]
  <2>1. \A s \in Searches : s \notin expanding \cup overflowing => denied'[s] = denied[s]
    BY ONLY <1>3, <1>4, <1>10, DeniedEffect
  <2> QED
    BY <1>3, <2>1
<1>15. \A s \in Searches : s \notin S => sub'[s] = sub[s] /\ job'[s] = job[s]
  BY <1>9, <1>13
<1>16. \A s \in Searches : Live(s)' => Live(s)
  BY <1>7, <1>11 DEF Live
<1>17. OpenJobIsWanted'
  <2> SUFFICES ASSUME NEW s \in Searches, NEW j \in Keys, Live(s)', job'[s][j] \in OpenJob
               PROVE  sub'[s][j] = "LIVE"
    BY DEF OpenJobIsWanted, OpenJob
  <2>1. sub'[s] = subs[s] /\ job'[s] = jobs[s]
    BY <1>2, <1>13, CancelledJobs
  <2> QED
    BY <1>10, <1>12, <1>16, <2>1 DEF OpenJobIsWanted
<1>18. UnbornIsNotDenied'
  BY <1>7, <1>10, <1>11, <1>14 DEF UnbornIsNotDenied
<1>19. WorkIsSeen(S)
  BY <1>5, <1>11, <1>14, <1>15, <1>16 DEF WorkIsSeen, SameWork
<1>20. DeclinedIsUnfinished' /\ NoLostWakeup'
  BY <1>3, <1>5, <1>19, RequestWakes
<1> QED
  BY <1>17, <1>18, <1>20 DEF WakeupParts

\* The failure of key k for the searches of C, see FailureSafety, requests the aggregation
\* of those that are inside their deadline.
LEMMA FailureWakeup ==
  ASSUME WakeupInv, NEW k \in Keys, NEW C \in SUBSET Searches,
         NEW jobs \in [Searches -> [Keys -> JobStates]],
         \A s \in C : sub[s][k] # "NONE" /\ jobs[s][k] \notin OpenJob,
         \A s \in Searches, j \in Keys : ~(s \in C /\ j = k) => jobs[s][j] = job[s][j],
         KeyFails(C, k, jobs),
         UNCHANGED <<status, expired>>,
         NEW R \in SUBSET Searches, RequestAggregation(R),
         \A s \in C : Live(s) /\ ~expired[s] => s \in R
  PROVE  WakeupParts'
<1> DEFINE S == Subscribers(k) \cap C
<1> DEFINE subs ==
      [s \in Searches |-> [sub[s] EXCEPT ![k] = IF s \in S THEN "CANCELLED" ELSE @]]
<1> USE DEF WakeupInv, SafetyInv
<1>1. subs \in [Searches -> [Keys -> SubStates]]
  BY DEF TypeOK, SubStates
<1>2. \A s \in Searches, j \in Keys :
        subs[s][j] = IF s \in S /\ j = k THEN "CANCELLED" ELSE sub[s][j]
  BY DEF TypeOK
<1>3. S \subseteq C /\ {} \in SUBSET Searches
  OBVIOUS
<1>4. \A s \in Searches \ C : subs[s] = sub[s] /\ jobs[s] = job[s]
  BY <1>3 DEF TypeOK
<1> HIDE DEF S, subs
<1>5. /\ \A s \in Searches :
           \/ sub'[s] = subs[s] /\ job'[s] = jobs[s]
           \/ s \in C /\ sub'[s] = ExpireSubscriptions(subs[s]) /\ job'[s] = CancelJobs(jobs[s])
      /\ \A s \in Searches \ C : denied'[s] = denied[s] /\ counted'[s] = counted[s]
  <2>1. CASE FailFetchSubscriptions(S, k) /\ job' = jobs
    BY <2>1 DEF FailFetchSubscriptions, subs
  <2>2. CASE k \in ScheduleKeys /\ FailScheduleSubscriptions(S, C, k, jobs)
    <3>1. SettleOrDeny(C, {}, subs, jobs)
      BY <2>2 DEF FailScheduleSubscriptions, subs
    <3>2. /\ \A s \in Searches :
               \/ sub'[s] = subs[s] /\ job'[s] = jobs[s]
               \/ /\ s \in C \cup {}
                  /\ sub'[s] = ExpireSubscriptions(subs[s]) /\ job'[s] = CancelJobs(jobs[s])
          /\ \A s \in Searches \ C : remaining'[s] = remaining[s]
          /\ released' = released
      BY ONLY <1>1, <1>3, <3>1, jobs \in [Searches -> [Keys -> JobStates]],
              C \in SUBSET Searches, SettleOrDenyEffect
    <3>3. \A s \in Searches : s \notin C \cup {} => denied'[s] = denied[s]
      <4>1. TypeOK
        OBVIOUS
      <4> QED
        BY ONLY <1>3, <3>1, <4>1, C \in SUBSET Searches, DeniedEffect
    <3>4. \A s \in Searches \ C : counted'[s] = counted[s]
      BY <2>2 DEF FailScheduleSubscriptions, Count, TypeOK
    <3> QED
      BY <3>2, <3>3, <3>4
  <2> QED
    BY <2>1, <2>2 DEF S, KeyFails
<1>6. \A s \in Searches \ C : sub'[s] = sub[s] /\ job'[s] = job[s]
  BY <1>4, <1>5
<1>7. OpenJobIsWanted'
  <2> SUFFICES ASSUME NEW s \in Searches, NEW j \in Keys, Live(s)', job'[s][j] \in OpenJob
               PROVE  sub'[s][j] = "LIVE"
    BY DEF OpenJobIsWanted, OpenJob
  <2>1. sub'[s] = subs[s] /\ job'[s] = jobs[s]
    BY <1>5, CancelledJobs
  <2>2. ~(s \in C /\ j = k) /\ job[s][j] \in OpenJob
    BY <2>1
  <2> QED
    BY <1>2, <1>3, <2>1, <2>2 DEF OpenJobIsWanted, Live
<1>8. UnbornIsNotDenied'
  BY <1>5 DEF UnbornIsNotDenied, UnbornIsUnsubscribed
<1>9. WorkIsSeen(R)
  BY <1>5, <1>6 DEF WorkIsSeen, SameWork, Live
<1>10. DeclinedIsUnfinished' /\ NoLostWakeup'
  <2> HIDE DEF WakeupInv, SafetyInv
  <2> QED
    BY <1>9, RequestWakes
<1> QED
  BY <1>7, <1>8, <1>10 DEF WakeupParts

\* A failed run requests that of its subscribers.
LEMMA FailRunWakeup ==
  ASSUME WakeupInv, NEW k \in Keys, FailRun(k)
  PROVE  WakeupParts'
<1> DEFINE S == Subscribers(k)
<1> DEFINE jobs == [s \in Searches |-> [job[s] EXCEPT ![k] =
                     IF s \in S /\ @ \in OpenJob THEN "FAILED" ELSE @]]
<1> USE DEF WakeupInv, SafetyInv
<1>1. S \in SUBSET Searches
  BY SubscribersAreSearches
<1>2. jobs \in [Searches -> [Keys -> JobStates]]
  BY DEF TypeOK, JobStates
<1>3. \A s \in S : sub[s][k] # "NONE" /\ jobs[s][k] \notin OpenJob
  BY DEF TypeOK, Subscribers, OpenJob
<1>4. \A s \in Searches, j \in Keys : ~(s \in S /\ j = k) => jobs[s][j] = job[s][j]
  BY DEF TypeOK
<1>5. KeyFails(S, k, jobs)
  <2>1. Subscribers(k) \cap S = S
    OBVIOUS
  <2> QED
    BY <2>1 DEF FailRun, Keys, KeyFails
<1>6. RequestAggregation(S)
  BY DEF FailRun
<1>7. UNCHANGED <<status, expired>>
  BY DEF FailRun
<1>8. \A s \in S : Live(s) /\ ~expired[s] => s \in S
  OBVIOUS
<1> HIDE DEF jobs, S, WakeupInv, SafetyInv
<1> QED
  BY ONLY WakeupInv, k \in Keys, <1>1, <1>2, <1>3, <1>4, <1>5, <1>6, <1>7, <1>8, FailureWakeup

\* A job the sweeper fails requests that of its search, inside the deadline: its
\* subscription is live, as a live search's open job has one.
LEMMA FailExhaustedJobWakeup ==
  ASSUME WakeupInv, NEW s \in Searches, NEW k \in Keys, FailExhaustedJob(s, k)
  PROVE  WakeupParts'
<1> DEFINE C == {s}
<1> DEFINE jobs == [job EXCEPT ![s][k] = "FAILED"]
<1> DEFINE R == (Subscribers(k) \cap {s}) \cup {t \in {s} : denied'[t] /\ ~denied[t]}
<1> USE DEF WakeupInv, SafetyInv
<1>1. C \in SUBSET Searches
  OBVIOUS
<1>2. R \in SUBSET Searches
  OBVIOUS
<1>3. jobs \in [Searches -> [Keys -> JobStates]]
  BY DEF TypeOK, JobStates
<1>4. \A t \in C : sub[t][k] # "NONE" /\ jobs[t][k] \notin OpenJob
  BY DEF FailExhaustedJob, TypeOK, UnsubscribedIsBlank, OpenJob
<1>5. \A t \in Searches, j \in Keys : ~(t \in C /\ j = k) => jobs[t][j] = job[t][j]
  BY DEF TypeOK
<1>6. KeyFails(C, k, jobs)
  BY DEF FailExhaustedJob, Keys, KeyFails
<1>7. RequestAggregation(R)
  BY DEF FailExhaustedJob
<1>8. UNCHANGED <<status, expired>>
  BY DEF FailExhaustedJob
<1>9. \A t \in C : Live(t) /\ ~expired[t] => t \in R
  BY DEF FailExhaustedJob, OpenJobIsWanted, OpenJob, Subscribers
<1> HIDE DEF jobs, C, R, WakeupInv, SafetyInv
<1> QED
  BY ONLY WakeupInv, k \in Keys, <1>1, <1>2, <1>3, <1>4, <1>5, <1>6, <1>7, <1>8, <1>9,
     FailureWakeup

\* A control transition requests the aggregation of whom it may halt.
LEMMA ControlWakeup ==
  ASSUME WakeupInv, NEW c \in Scopes, ApplyControlTransition(c)
  PROVE  WakeupParts'
<1> DEFINE R == {s \in Searches : Live(s) /\ \E k \in Keys : sub[s][k] = "LIVE"}
<1>1. RequestAggregation(R) /\ UNCHANGED <<status, sub, counted, denied, expired, job>>
  BY DEF ApplyControlTransition
<1>2. R \in SUBSET Searches
  OBVIOUS
<1> HIDE DEF R
<1>3. OpenJobIsWanted' /\ UnbornIsNotDenied'
  BY <1>1 DEF WakeupInv, OpenJobIsWanted, UnbornIsNotDenied, Live
<1>4. WorkIsSeen(R)
  BY <1>1 DEF WorkIsSeen, SameWork, Live
<1> QED
  BY <1>1, <1>2, <1>3, <1>4, RequestWakes DEF WakeupParts

\* Every transaction keeps what the wakeup rests on.
LEMMA StepWakeup ==
  ASSUME WakeupInv, [Next]_vars
  PROVE  WakeupParts'
<1>0. TypeOK'
  BY StepTypeOK DEF WakeupInv, SafetyInv
<1>1. ASSUME NEW s \in Searches, Create(s) PROVE WakeupParts'
  BY <1>1, CreateSearchWakeup DEF Create
<1>2. ASSUME NEW s \in Searches, DeadlinePasses(s) PROVE WakeupParts'
  <2>1. \A t \in Searches : expired[t] => expired'[t]
    BY <1>2 DEF DeadlinePasses, WakeupInv, SafetyInv, TypeOK
  <2> QED
    BY <1>2, <2>1, SameWorkWakeup DEF DeadlinePasses
<1>3. ASSUME NEW s \in Searches,
             ClaimAggregation(s) \/ DeclineTerminalization(s) \/ ReleaseClaim(s)
      PROVE  WakeupParts'
  BY <1>3, PassWakeup
<1>4. ASSUME NEW s \in Searches, Terminalize(s) \/ CancelSearch(s) PROVE WakeupParts'
  BY <1>4, TerminalWakeup
<1>5. ASSUME NEW s \in Searches, NEW k \in Keys, LeaseJob(s, k) \/ ReclaimJob(s, k)
      PROVE  WakeupParts'
  <2>1. \A t \in Searches, j \in Keys : job'[t][j] \in OpenJob <=> job[t][j] \in OpenJob
    <3>1. \E state \in OpenJob : job[s][k] \in OpenJob /\ job' = [job EXCEPT ![s][k] = state]
      BY <1>5 DEF LeaseJob, ReclaimJob, OpenJob
    <3>2. job \in [Searches -> [Keys -> JobStates]]
      BY DEF WakeupInv, SafetyInv, TypeOK
    <3> QED
      BY <3>1, <3>2
  <2>2. UNCHANGED <<status, sub, counted, denied, dirty, claim, expired>>
    BY <1>5 DEF LeaseJob, ReclaimJob
  <2> QED
    BY <2>1, <2>2, SameWorkWakeup
<1>6. ASSUME NEW s \in Searches, NEW k \in Keys, FailExhaustedJob(s, k) PROVE WakeupParts'
  BY <1>6, FailExhaustedJobWakeup
<1>7. ASSUME NEW s \in Searches, NEW k \in FetchKeys, AdoptSnapshot(s, k) PROVE WakeupParts'
  BY <1>7, AdoptSnapshotWakeup
<1>8. ASSUME NEW k \in FetchKeys, AcceptFetch(k) PROVE WakeupParts'
  BY <1>8, AcceptFetchWakeup
<1>9. ASSUME NEW k \in ScheduleKeys, AcceptAnySchedule(k) PROVE WakeupParts'
  <2>1. PICK observed \in BOOLEAN, match \in [Searches -> SUBSET FetchKeys],
             fallback \in [Searches -> SUBSET (ScheduleKeys \ MovieKeys)] :
          AcceptSchedule(k, observed, match, fallback)
    BY <1>9 DEF AcceptAnySchedule
  <2>2. fallback \in [Searches -> SUBSET ScheduleKeys]
    OBVIOUS
  <2> QED
    BY <1>0, <2>1, <2>2, AcceptScheduleWakeup
<1>10. ASSUME NEW k \in Keys, FailRun(k) PROVE WakeupParts'
  BY <1>10, FailRunWakeup
<1>11. ASSUME NEW c \in Scopes, ApplyControlTransition(c) PROVE WakeupParts'
  BY <1>11, ControlWakeup
<1>12. CASE UNCHANGED <<status, sub, counted, denied, dirty, claim, expired, job>>
  BY <1>12, SameWorkWakeup
<1>13. ASSUME \/ \E s \in Searches, k \in Keys : AdmitJob(s, k)
              \/ \E k \in FetchKeys : SnapshotAges(k)
              \/ \E k \in ScheduleKeys : RequestScheduleRun(k)
              \/ \E c \in Scopes : ReopenScope(c)
       PROVE  UNCHANGED <<status, sub, counted, denied, dirty, claim, expired, job>>
  BY <1>13 DEF AdmitJob, SnapshotAges, RequestScheduleRun, ReopenScope
<1>14. CASE Next
  BY ONLY <1>14, <1>1, <1>2, <1>3, <1>4, <1>5, <1>6, <1>7, <1>8, <1>9, <1>10, <1>11,
     <1>12, <1>13 DEF Next
<1>15. CASE UNCHANGED vars
  BY <1>12, <1>15
<1> QED
  BY <1>14, <1>15

\* WakeupInv holds in every reachable state.
THEOREM WakeupInvariance == Spec => []WakeupInv
<1>1. Init => WakeupInv
  <2> SUFFICES ASSUME Init PROVE WakeupInv
    OBVIOUS
  <2>1. \A s \in Searches : ~Live(s) /\ ~denied[s]
    BY DEF Init, Live, LiveStatuses
  <2> QED
    BY <2>1, InitSafetyInv
       DEF WakeupInv, OpenJobIsWanted, UnbornIsNotDenied, DeclinedIsUnfinished, NoLostWakeup
<1>2. WakeupInv /\ [Next]_vars => WakeupInv'
  BY StepTypeOK, StepSafety, StepWakeup
     DEF WakeupInv, WakeupParts, SafetyInv, SafeStep, SafetyParts
<1> QED
  BY <1>1, <1>2, PTL DEF Spec

\* A search whose work is over, or that was denied, is claimable until it ends, whichever
\* pass, having read an older revision, gave it up and released its claim meanwhile.
THEOREM NoWakeupIsLost == Spec => []NoLostWakeup
<1>1. WakeupInv => NoLostWakeup BY DEF WakeupInv
<1> QED BY <1>1, WakeupInvariance, PTL
=============================================================================
