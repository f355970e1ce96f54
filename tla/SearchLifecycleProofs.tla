------------------------ MODULE SearchLifecycleProofs ------------------------
(***************************************************************************)
(* Types and safety of SearchLifecycle for every value of the constants.   *)
(*                                                                         *)
(* TypeOK is inductive: it needs no other invariant, because no action     *)
(* relies on a counter being positive to keep it an integer.  One lemma    *)
(* per operator that several actions share, one per action that is more    *)
(* than a copy of them, StepTypeOK over Next, and the theorem.             *)
(*                                                                         *)
(* SafetyInv strengthens three invariants the runs check with what makes   *)
(* them inductive: a key nobody subscribed to is blank, and a reservation  *)
(* is released exactly when its search ends.                               *)
(***************************************************************************)
EXTENDS SearchLifecycle, FiniteSetTheorems, TLAPS

USE DEF vars, searchVars, subVars, jobVars, reservationVars, admissionVars,
        aggregationVars, providerVars

\* An empty database is well typed.
LEMMA InitTypeOK == Init => TypeOK
  BY DEF Init, TypeOK, LiveStatuses, TerminalStatuses, Causes, SubStates, JobStates,
     Outcomes, ClaimStates

\* Bumping the requested revision of any set of searches keeps the claim's type.
LEMMA RequestAggregationType ==
  ASSUME TypeOK, NEW S \in SUBSET Searches, RequestAggregation(S)
  PROVE  dirty' \in [Searches -> BOOLEAN] /\ claim' \in [Searches -> ClaimStates]
  BY DEF TypeOK, RequestAggregation, ClaimStates

\* Creation (B1 and its inserts) is well typed: the reservation is a natural number.
LEMMA CreateSearchType ==
  ASSUME TypeOK, NEW s \in Searches, NEW scheduled \in SUBSET ScheduleKeys,
         NEW matched \in SUBSET FetchKeys, NEW admitted \in SUBSET matched,
         CreateSearch(s, scheduled, matched, admitted)
  PROVE  TypeOK'
<1>1. Cardinality(matched) \in Nat
  BY FS_Subset, FS_CardinalityType, KeysAssumption
<1> QED
  BY <1>1, BoundsAssumption DEF TypeOK, CreateSearch, LiveStatuses, SubStates, JobStates

\* The lease of a job adds one attempt and is well typed.
LEMMA LeaseJobType ==
  ASSUME TypeOK, NEW s \in Searches, NEW k \in Keys, LeaseJob(s, k)
  PROVE  TypeOK'
  BY DEF TypeOK, LeaseJob, JobStates

\* The adoption of a recent snapshot is well typed.
LEMMA AdoptSnapshotType ==
  ASSUME TypeOK, NEW s \in Searches, NEW k \in FetchKeys, AdoptSnapshot(s, k)
  PROVE  TypeOK'
<1>1. k \in Keys BY DEF Keys
<1>2. RequestAggregation({s}) BY DEF AdoptSnapshot
<1>3. dirty' \in [Searches -> BOOLEAN] /\ claim' \in [Searches -> ClaimStates]
  BY <1>2, RequestAggregationType
<1>4. sub' \in [Searches -> [Keys -> SubStates]]
  BY <1>1 DEF TypeOK, AdoptSnapshot, SubStates
<1>5. job' \in [Searches -> [Keys -> JobStates]]
  BY <1>1 DEF TypeOK, AdoptSnapshot, JobStates
<1>6. remaining' \in [Searches -> Int] /\ pendingCost' \in Int
  BY DEF TypeOK, AdoptSnapshot
<1> QED
  BY <1>3, <1>4, <1>5, <1>6 DEF TypeOK, AdoptSnapshot

\* B8_EXPIRE_SUBSCRIPTIONS writes only states of a subscription.
LEMMA ExpireSubscriptionsType ==
  ASSUME NEW subs \in [Keys -> SubStates]
  PROVE  ExpireSubscriptions(subs) \in [Keys -> SubStates]
  BY DEF ExpireSubscriptions, SubStates

\* B8_CANCEL_JOBS writes only states of a job.
LEMMA CancelJobsType ==
  ASSUME NEW jobs \in [Keys -> JobStates]
  PROVE  CancelJobs(jobs) \in [Keys -> JobStates]
  BY DEF CancelJobs, JobStates

\* The rows an acceptance touches can be counted: searches are finitely many.
LEMMA SubsetOfSearchesCounts ==
  ASSUME NEW S \in SUBSET Searches
  PROVE  IsFiniteSet(S) /\ Cardinality(S) \in Nat
  BY FS_Subset, FS_CardinalityType, KeysAssumption

\* The fetch draw-down keeps the counters integers.
LEMMA DrawDownType ==
  ASSUME TypeOK, NEW S \in SUBSET Searches, DrawDown(S)
  PROVE  remaining' \in [Searches -> Int] /\ pendingCost' \in Int /\ unresolved' \in Int
  BY SubsetOfSearchesCounts DEF TypeOK, DrawDown

\* Recording a schedule count keeps the sum of counts a natural number.
LEMMA CountType ==
  ASSUME TypeOK, NEW S, NEW k \in ScheduleKeys, NEW n \in [Searches -> Nat], Count(S, k, n)
  PROVE  counted' \in [Searches -> SUBSET ScheduleKeys] /\ matches' \in [Searches -> Nat]
  BY DEF TypeOK, Count

\* The units of capacity of finitely many reservations can be counted.
LEMMA UnitsCount ==
  ASSUME NEW R \in SUBSET Searches, NEW n \in Nat, NEW U \in SUBSET (R \X (1 .. n))
  PROVE  Cardinality(U) \in Nat
<1>1. IsFiniteSet(R) /\ IsFiniteSet(1 .. n)
  BY SubsetOfSearchesCounts, FS_Interval
<1>2. IsFiniteSet(R \X (1 .. n))
  BY <1>1, FS_Product
<1> QED
  BY <1>2, FS_Subset, FS_CardinalityType

\* Search-wide reconciliation keeps totals natural and balances integer.
LEMMA ReconcileType ==
  ASSUME TypeOK, NEW R \in SUBSET Searches, NEW m \in [Searches -> Nat], Reconcile(R, m)
  PROVE  /\ total' \in [Searches -> Nat]
         /\ remaining' \in [Searches -> Int]
         /\ reconciled' \in [Searches -> BOOLEAN]
         /\ pendingCost' \in Int /\ unresolved' \in Int
         /\ seed' = seed /\ slot' = slot /\ released' = released
<1> DEFINE durable == [s \in Searches |-> seed[s] + m[s]]
<1> DEFINE Returned ==
      {u \in R \X (1 .. Reserve) : durable[u[1]] < u[2] /\ u[2] <= total[u[1]]}
<1> DEFINE Taken ==
      {u \in R \X (1 .. Ceiling) : total[u[1]] < u[2] /\ u[2] <= durable[u[1]]}
<1>1. durable \in [Searches -> Nat]
  BY DEF TypeOK
<1>2. Cardinality(Returned) \in Nat
  <2>1. Returned \in SUBSET (R \X (1 .. Reserve)) OBVIOUS
  <2> QED BY <2>1, UnitsCount, BoundsAssumption
<1>3. Cardinality(Taken) \in Nat
  <2>1. Taken \in SUBSET (R \X (1 .. Ceiling)) OBVIOUS
  <2> QED BY <2>1, UnitsCount, BoundsAssumption
<1>4. pendingCost' = pendingCost - Cardinality(Returned) + Cardinality(Taken)
  BY DEF Reconcile
<1>5. total' = [s \in Searches |-> IF s \in R THEN durable[s] ELSE total[s]]
  BY DEF Reconcile
<1>6. remaining' = [s \in Searches |->
        IF s \in R THEN durable[s] - (total[s] - remaining[s]) ELSE remaining[s]]
  BY DEF Reconcile
<1>7. pendingCost' \in Int
  BY <1>2, <1>3, <1>4 DEF TypeOK
<1> HIDE DEF durable
<1>8. total' \in [Searches -> Nat] /\ remaining' \in [Searches -> Int]
  BY <1>1, <1>5, <1>6 DEF TypeOK
<1>9. unresolved' \in Int
  BY SubsetOfSearchesCounts DEF TypeOK, Reconcile
<1>10. reconciled' \in [Searches -> BOOLEAN]
  BY DEF TypeOK, Reconcile
<1> QED
  BY <1>7, <1>8, <1>9, <1>10 DEF Reconcile

\* The capacity denial and its cancellation of work are well typed.
LEMMA DenyType ==
  ASSUME TypeOK, NEW D, NEW subs \in [Searches -> [Keys -> SubStates]],
         NEW jobs \in [Searches -> [Keys -> JobStates]], Deny(D, subs, jobs)
  PROVE  /\ denied' \in [Searches -> BOOLEAN]
         /\ sub' \in [Searches -> [Keys -> SubStates]]
         /\ job' \in [Searches -> [Keys -> JobStates]]
<1>1. denied' \in [Searches -> BOOLEAN]
  BY DEF TypeOK, Deny
<1>2. sub' \in [Searches -> [Keys -> SubStates]]
  BY ExpireSubscriptionsType DEF Deny
<1>3. job' \in [Searches -> [Keys -> JobStates]]
  BY CancelJobsType DEF Deny
<1> QED
  BY <1>1, <1>2, <1>3

\* Whichever way the search-wide aggregate is settled, types are kept.
LEMMA SettleOrDenyType ==
  ASSUME TypeOK, matches' \in [Searches -> Nat],
         NEW S \in SUBSET Searches, NEW D, NEW subs \in [Searches -> [Keys -> SubStates]],
         NEW jobs \in [Searches -> [Keys -> JobStates]], SettleOrDeny(S, D, subs, jobs)
  PROVE  /\ denied' \in [Searches -> BOOLEAN]
         /\ sub' \in [Searches -> [Keys -> SubStates]]
         /\ job' \in [Searches -> [Keys -> JobStates]]
         /\ total' \in [Searches -> Nat]
         /\ remaining' \in [Searches -> Int]
         /\ reconciled' \in [Searches -> BOOLEAN]
         /\ pendingCost' \in Int /\ unresolved' \in Int
         /\ seed' = seed /\ slot' = slot /\ released' = released
<1> DEFINE settling == {s \in S : Settling(s, subs, counted')}
<1> DEFINE fit == {s \in settling : Fits(s, matches'[s])}
<1>1. fit \in SUBSET Searches OBVIOUS
<1>2. Reconcile(fit, matches') BY DEF SettleOrDeny
<1>3. Deny(D \cup (settling \ fit), subs, jobs) BY DEF SettleOrDeny
<1> HIDE DEF fit, settling
<1>4. /\ denied' \in [Searches -> BOOLEAN]
      /\ sub' \in [Searches -> [Keys -> SubStates]]
      /\ job' \in [Searches -> [Keys -> JobStates]]
  BY <1>3, DenyType
<1> QED
  BY <1>1, <1>2, <1>4, ReconcileType

\* A run applies to searches only.
LEMMA SubscribersAreSearches ==
  \A k \in Keys : Subscribers(k) \in SUBSET Searches
  BY DEF Subscribers

\* The fan-in of a fetch run (B5) is well typed.
LEMMA AcceptFetchType ==
  ASSUME TypeOK, NEW k \in FetchKeys, AcceptFetch(k)
  PROVE  TypeOK'
<1> DEFINE S == Subscribers(k)
<1>1. k \in Keys BY DEF Keys
<1>2. S \in SUBSET Searches BY <1>1, SubscribersAreSearches
<1>3. DrawDown(S) /\ RequestAggregation(S) BY DEF AcceptFetch
<1> HIDE DEF S
<1>4. /\ remaining' \in [Searches -> Int] /\ pendingCost' \in Int /\ unresolved' \in Int
      /\ dirty' \in [Searches -> BOOLEAN] /\ claim' \in [Searches -> ClaimStates]
  BY <1>2, <1>3, DrawDownType, RequestAggregationType
<1>5. sub' \in [Searches -> [Keys -> SubStates]]
  BY <1>1 DEF TypeOK, AcceptFetch, SubStates
<1>6. job' \in [Searches -> [Keys -> JobStates]]
  BY <1>1 DEF TypeOK, AcceptFetch, CloseJob, JobStates
<1> QED
  BY <1>1, <1>4, <1>5, <1>6 DEF TypeOK, AcceptFetch

\* The acceptance of a schedule run, with its fan-out, is well typed.
LEMMA AcceptScheduleType ==
  ASSUME TypeOK, NEW k \in ScheduleKeys, NEW observed \in BOOLEAN,
         NEW match \in [Searches -> SUBSET FetchKeys],
         NEW fallback \in [Searches -> SUBSET ScheduleKeys],
         AcceptSchedule(k, observed, match, fallback)
  PROVE  TypeOK'
<1> DEFINE S == Subscribers(k)
<1> DEFINE n == [s \in Searches |-> Cardinality(match[s])]
<1> DEFINE overflowing == {s \in S : ~Fits(s, matches[s] + n[s])}
<1> DEFINE expanding == S \ overflowing
<1> DEFINE found == [s \in Searches |->
        IF s \in expanding THEN (match[s] \cup fallback[s]) \ Subscribed(s) ELSE {}]
<1> DEFINE subs == [s \in Searches |-> [j \in Keys |->
        IF j \in found[s] THEN "LIVE" ELSE IF s \in S /\ j = k THEN "SATISFIED" ELSE sub[s][j]]]
<1> DEFINE jobs == [s \in Searches |-> [j \in Keys |->
        IF j \in found[s] THEN "PENDING"
        ELSE IF s \in S /\ j = k /\ job[s][j] \in OpenJob THEN "DONE" ELSE job[s][j]]]
<1>1. k \in Keys BY DEF Keys
<1>2. S \in SUBSET Searches BY <1>1, SubscribersAreSearches
<1>3. n \in [Searches -> Nat]
  BY FS_Subset, FS_CardinalityType, KeysAssumption
<1>4. subs \in [Searches -> [Keys -> SubStates]] BY DEF TypeOK, SubStates
<1>5. jobs \in [Searches -> [Keys -> JobStates]] BY DEF TypeOK, JobStates
<1>6. Count(S, k, n) /\ RequestAggregation(S) BY DEF AcceptSchedule
<1>7. SettleOrDeny(expanding, overflowing, subs, jobs) BY DEF AcceptSchedule
<1>8. expanding \in SUBSET Searches BY <1>2
<1> HIDE DEF S, n, overflowing, expanding, subs, jobs
<1>9. counted' \in [Searches -> SUBSET ScheduleKeys] /\ matches' \in [Searches -> Nat]
  BY <1>3, <1>6, CountType
<1>10. /\ denied' \in [Searches -> BOOLEAN]
       /\ sub' \in [Searches -> [Keys -> SubStates]]
       /\ job' \in [Searches -> [Keys -> JobStates]]
       /\ total' \in [Searches -> Nat]
       /\ remaining' \in [Searches -> Int]
       /\ reconciled' \in [Searches -> BOOLEAN]
       /\ pendingCost' \in Int /\ unresolved' \in Int
       /\ seed' = seed /\ slot' = slot /\ released' = released
  BY <1>4, <1>5, <1>7, <1>8, <1>9, SettleOrDenyType
<1>11. dirty' \in [Searches -> BOOLEAN] /\ claim' \in [Searches -> ClaimStates]
  BY <1>2, <1>6, RequestAggregationType
<1>12. outcome' \in [Searches -> [ScheduleKeys -> Outcomes]]
  BY DEF TypeOK, AcceptSchedule, Outcomes
<1>13. status' \in [Searches -> {"NONE"} \cup LiveStatuses \cup TerminalStatuses]
  BY DEF TypeOK, AcceptSchedule, LiveStatuses
<1>14. run' \in [Keys -> BOOLEAN]
  BY DEF TypeOK, AcceptSchedule
<1> QED
  BY <1>9, <1>10, <1>11, <1>12, <1>13, <1>14 DEF TypeOK, AcceptSchedule

\* What the effects of a failure write, on either kind of key.
FailureTypes ==
  /\ denied' \in [Searches -> BOOLEAN]
  /\ sub' \in [Searches -> [Keys -> SubStates]]
  /\ outcome' \in [Searches -> [ScheduleKeys -> Outcomes]]
  /\ counted' \in [Searches -> SUBSET ScheduleKeys]
  /\ matches' \in [Searches -> Nat]
  /\ job' \in [Searches -> [Keys -> JobStates]]
  /\ total' \in [Searches -> Nat]
  /\ remaining' \in [Searches -> Int]
  /\ reconciled' \in [Searches -> BOOLEAN]
  /\ pendingCost' \in Int /\ unresolved' \in Int

\* The failure effects on a fetch key are well typed.
LEMMA FailFetchSubscriptionsType ==
  ASSUME TypeOK, NEW S \in SUBSET Searches, NEW k \in Keys,
         NEW jobs \in [Searches -> [Keys -> JobStates]],
         FailFetchSubscriptions(S, k) /\ job' = jobs
  PROVE  FailureTypes
<1>1. remaining' \in [Searches -> Int] /\ pendingCost' \in Int /\ unresolved' \in Int
  BY DrawDownType DEF FailFetchSubscriptions
<1>2. sub' \in [Searches -> [Keys -> SubStates]]
  BY DEF TypeOK, FailFetchSubscriptions, SubStates
<1> QED
  BY <1>1, <1>2 DEF TypeOK, FailFetchSubscriptions, FailureTypes

\* The failure effects on a schedule key are well typed.
LEMMA FailScheduleSubscriptionsType ==
  ASSUME TypeOK, NEW S \in SUBSET Searches, NEW C \in SUBSET Searches,
         NEW k \in ScheduleKeys, NEW jobs \in [Searches -> [Keys -> JobStates]],
         FailScheduleSubscriptions(S, C, k, jobs)
  PROVE  FailureTypes
<1> DEFINE subs ==
      [s \in Searches |-> [sub[s] EXCEPT ![k] = IF s \in S THEN "CANCELLED" ELSE @]]
<1> DEFINE zero == [s \in Searches |-> 0]
<1>1. subs \in [Searches -> [Keys -> SubStates]] BY DEF TypeOK, SubStates, Keys
<1>2. zero \in [Searches -> Nat] OBVIOUS
<1>3. Count(C, k, zero) /\ SettleOrDeny(C, {}, subs, jobs)
  BY DEF FailScheduleSubscriptions
<1> HIDE DEF subs, zero
<1>4. counted' \in [Searches -> SUBSET ScheduleKeys] /\ matches' \in [Searches -> Nat]
  BY <1>2, <1>3, CountType
<1>5. outcome' \in [Searches -> [ScheduleKeys -> Outcomes]]
  BY DEF TypeOK, FailScheduleSubscriptions, Outcomes
<1> QED
  BY <1>1, <1>3, <1>4, <1>5, SettleOrDenyType DEF FailureTypes

\* The failure of a run (B5F) is well typed.
LEMMA FailRunType ==
  ASSUME TypeOK, NEW k \in Keys, FailRun(k)
  PROVE  TypeOK'
<1> DEFINE S == Subscribers(k)
<1> DEFINE jobs == [s \in Searches |-> [job[s] EXCEPT ![k] =
                     IF s \in S /\ @ \in OpenJob THEN "FAILED" ELSE @]]
<1>1. S \in SUBSET Searches BY SubscribersAreSearches
<1>2. jobs \in [Searches -> [Keys -> JobStates]] BY DEF TypeOK, JobStates
<1>3. \/ k \in FetchKeys /\ FailFetchSubscriptions(S, k) /\ job' = jobs
      \/ k \in ScheduleKeys /\ FailScheduleSubscriptions(S, S, k, jobs)
  BY DEF FailRun, Keys
<1>4. RequestAggregation(S) BY DEF FailRun
<1> HIDE DEF S, jobs
<1>5. FailureTypes
  BY <1>1, <1>2, <1>3, FailFetchSubscriptionsType, FailScheduleSubscriptionsType
<1>6. dirty' \in [Searches -> BOOLEAN] /\ claim' \in [Searches -> ClaimStates]
  BY <1>1, <1>4, RequestAggregationType
<1> QED
  BY <1>5, <1>6 DEF TypeOK, FailRun, FailureTypes

\* The sweeper's failure of one job is well typed.
LEMMA FailExhaustedJobType ==
  ASSUME TypeOK, NEW s \in Searches, NEW k \in Keys, FailExhaustedJob(s, k)
  PROVE  TypeOK'
<1> DEFINE S == Subscribers(k) \cap {s}
<1> DEFINE R == S \cup {t \in {s} : denied'[t] /\ ~denied[t]}
<1> DEFINE jobs == [job EXCEPT ![s][k] = "FAILED"]
<1>1. S \in SUBSET Searches /\ R \in SUBSET Searches OBVIOUS
<1>2. jobs \in [Searches -> [Keys -> JobStates]] BY DEF TypeOK, JobStates
<1>3. \/ k \in FetchKeys /\ FailFetchSubscriptions(S, k) /\ job' = jobs
      \/ k \in ScheduleKeys /\ FailScheduleSubscriptions(S, {s}, k, jobs)
  BY DEF FailExhaustedJob, Keys
<1>4. RequestAggregation(R) BY DEF FailExhaustedJob
<1> HIDE DEF S, R, jobs
<1>5. FailureTypes
  BY <1>1, <1>2, <1>3, FailFetchSubscriptionsType, FailScheduleSubscriptionsType
<1>6. dirty' \in [Searches -> BOOLEAN] /\ claim' \in [Searches -> ClaimStates]
  BY <1>1, <1>4, RequestAggregationType
<1> QED
  BY <1>5, <1>6 DEF TypeOK, FailExhaustedJob, FailureTypes

\* The common tail of B8 is well typed.
LEMMA EndSearchType ==
  ASSUME TypeOK, NEW s \in Searches, EndSearch(s)
  PROVE  /\ job' \in [Searches -> [Keys -> JobStates]]
         /\ sub' \in [Searches -> [Keys -> SubStates]]
         /\ pendingCost' \in Int /\ unresolved' \in Int
         /\ remaining' \in [Searches -> Int]
         /\ slot' \in [Searches -> BOOLEAN]
         /\ released' \in [Searches -> BOOLEAN]
         /\ run' \in [Keys -> BOOLEAN]
<1>1. job' \in [Searches -> [Keys -> JobStates]]
  BY CancelJobsType DEF TypeOK, EndSearch
<1>2. sub' \in [Searches -> [Keys -> SubStates]]
  BY ExpireSubscriptionsType DEF TypeOK, EndSearch
<1>3. /\ pendingCost' \in Int /\ unresolved' \in Int
      /\ remaining' \in [Searches -> Int]
  BY DEF TypeOK, EndSearch
<1>4. /\ slot' \in [Searches -> BOOLEAN] /\ released' \in [Searches -> BOOLEAN]
      /\ run' \in [Keys -> BOOLEAN]
  BY DEF TypeOK, EndSearch
<1> QED
  BY <1>1, <1>2, <1>3, <1>4

\* B8_TERMINALIZE derives a terminal status and a known cause, whatever the facts are.
LEMMA TerminalizeType ==
  ASSUME TypeOK, NEW s \in Searches, Terminalize(s)
  PROVE  TypeOK'
<1>1. EndSearch(s) BY DEF Terminalize
<1>2. DerivedStatus(s) \in TerminalStatuses
  BY DEF DerivedStatus, TerminalStatuses
<1>3. DerivedCause(s) \in {"NULL"} \cup Causes
  BY DEF DerivedCause, Causes
<1>4. /\ status' \in [Searches -> {"NONE"} \cup LiveStatuses \cup TerminalStatuses]
      /\ cause' \in [Searches -> {"NULL"} \cup Causes]
  BY <1>2, <1>3 DEF TypeOK, Terminalize
<1>5. dirty' \in [Searches -> BOOLEAN] /\ claim' \in [Searches -> ClaimStates]
  BY DEF TypeOK, Terminalize, ClaimStates
<1> QED
  BY <1>1, <1>4, <1>5, EndSearchType DEF TypeOK, EndSearch

\* The explicit cancel is well typed.
LEMMA CancelSearchType ==
  ASSUME TypeOK, NEW s \in Searches, CancelSearch(s)
  PROVE  TypeOK'
<1>1. EndSearch(s) BY DEF CancelSearch
<1>2. status' \in [Searches -> {"NONE"} \cup LiveStatuses \cup TerminalStatuses]
  BY DEF TypeOK, CancelSearch, TerminalStatuses
<1> QED
  BY <1>1, <1>2, EndSearchType DEF TypeOK, EndSearch, CancelSearch

\* A provider control transition (B9) is well typed.
LEMMA ApplyControlTransitionType ==
  ASSUME TypeOK, NEW c \in Scopes, ApplyControlTransition(c)
  PROVE  TypeOK'
<1> DEFINE S == {s \in Searches : Live(s) /\ \E k \in Keys : sub[s][k] = "LIVE"}
<1>1. S \in SUBSET Searches /\ RequestAggregation(S)
  BY DEF ApplyControlTransition
<1> HIDE DEF S
<1>2. dirty' \in [Searches -> BOOLEAN] /\ claim' \in [Searches -> ClaimStates]
  BY <1>1, RequestAggregationType
<1>3. fenced' \in [Searches -> SUBSET Keys] /\ closed' \in SUBSET Scopes
  BY DEF TypeOK, ApplyControlTransition
<1> QED
  BY <1>2, <1>3 DEF TypeOK, ApplyControlTransition

\* No transaction of the program writes a value outside its column's domain.
LEMMA StepTypeOK == TypeOK /\ [Next]_vars => TypeOK'
<1> SUFFICES ASSUME TypeOK, [Next]_vars PROVE TypeOK' OBVIOUS
<1>1. ASSUME NEW s \in Searches, Create(s) PROVE TypeOK'
  BY <1>1, CreateSearchType DEF Create
<1>2. ASSUME NEW s \in Searches,
             \/ DeadlinePasses(s) \/ ClaimAggregation(s) \/ DeclineTerminalization(s)
             \/ ReleaseClaim(s)
      PROVE TypeOK'
  BY <1>2 DEF TypeOK, DeadlinePasses, ClaimAggregation, DeclineTerminalization,
     ReleaseClaim, ClaimStates
<1>3. ASSUME NEW s \in Searches, Terminalize(s) \/ CancelSearch(s) PROVE TypeOK'
  BY <1>3, TerminalizeType, CancelSearchType
<1>4. ASSUME NEW s \in Searches, NEW k \in Keys, LeaseJob(s, k) PROVE TypeOK'
  BY <1>4, LeaseJobType
<1>5. ASSUME NEW s \in Searches, NEW k \in Keys, AdmitJob(s, k) PROVE TypeOK'
  BY <1>5 DEF TypeOK, AdmitJob
<1>6. ASSUME NEW s \in Searches, NEW k \in Keys, ReclaimJob(s, k) PROVE TypeOK'
  BY <1>6 DEF TypeOK, ReclaimJob, JobStates
<1>7. ASSUME NEW s \in Searches, NEW k \in Keys, FailExhaustedJob(s, k) PROVE TypeOK'
  BY <1>7, FailExhaustedJobType
<1>8. ASSUME NEW s \in Searches, NEW k \in FetchKeys, AdoptSnapshot(s, k) PROVE TypeOK'
  BY <1>8, AdoptSnapshotType
<1>9. ASSUME NEW k \in FetchKeys, AcceptFetch(k) PROVE TypeOK'
  BY <1>9, AcceptFetchType
<1>10. ASSUME NEW k \in FetchKeys, SnapshotAges(k) PROVE TypeOK'
  BY <1>10 DEF TypeOK, SnapshotAges
<1>11. ASSUME NEW k \in ScheduleKeys, AcceptAnySchedule(k) PROVE TypeOK'
  <2>1. PICK observed \in BOOLEAN, match \in [Searches -> SUBSET FetchKeys],
             fallback \in [Searches -> SUBSET (ScheduleKeys \ MovieKeys)] :
          AcceptSchedule(k, observed, match, fallback)
    BY <1>11 DEF AcceptAnySchedule
  <2>2. fallback \in [Searches -> SUBSET ScheduleKeys] OBVIOUS
  <2> QED BY <2>1, <2>2, AcceptScheduleType
<1>12. ASSUME NEW k \in ScheduleKeys, RequestScheduleRun(k) PROVE TypeOK'
  BY <1>12 DEF TypeOK, RequestScheduleRun, Keys
<1>13. ASSUME NEW k \in Keys, FailRun(k) PROVE TypeOK'
  BY <1>13, FailRunType
<1>14. ASSUME NEW c \in Scopes, ApplyControlTransition(c) PROVE TypeOK'
  BY <1>14, ApplyControlTransitionType
<1>15. ASSUME NEW c \in Scopes, ReopenScope(c) PROVE TypeOK'
  BY <1>15 DEF TypeOK, ReopenScope
<1>16. CASE UNCHANGED vars
  BY <1>16 DEF TypeOK
<1> QED
  BY <1>1, <1>2, <1>3, <1>4, <1>5, <1>6, <1>7, <1>8, <1>9, <1>10, <1>11, <1>12, <1>13,
     <1>14, <1>15, <1>16 DEF Next

\* Every variable keeps its type in every reachable state.
THEOREM TypeCorrect == Spec => []TypeOK
  BY InitTypeOK, StepTypeOK, PTL DEF Spec

-----------------------------------------------------------------------------
(* Safety *)

\* A key without a subscription has no job, no attempt, no outcome and no count: the
\* fan-out may subscribe it as if it were new.
UnsubscribedIsBlank ==
  \A s \in Searches, k \in Keys : sub[s][k] = "NONE" =>
    /\ job[s][k] = "NONE" /\ attempt[s][k] = 0
    /\ k \in ScheduleKeys => outcome[s][k] = "NULL" /\ k \notin counted[s]

\* A search that does not exist has no subscription.
UnbornIsUnsubscribed ==
  \A s \in Searches : status[s] = "NONE" => \A k \in Keys : sub[s][k] = "NONE"

\* A reservation is released with the end of its search, never before or after.
ReleasedAtTheEnd == \A s \in Searches : released[s] <=> Terminal(s)

SafetyInv ==
  /\ TypeOK
  /\ UnsubscribedIsBlank
  /\ UnbornIsUnsubscribed
  /\ ReleasedAtTheEnd
  /\ AttemptsAreBounded
  /\ TerminalIsQuiet
  /\ LiveSubscriptionIsDriven

\* The part of SafetyInv that is not types.
SafetyParts ==
  /\ UnsubscribedIsBlank
  /\ UnbornIsUnsubscribed
  /\ ReleasedAtTheEnd
  /\ AttemptsAreBounded
  /\ TerminalIsQuiet
  /\ LiveSubscriptionIsDriven

\* What TerminalIsFinal says of one step.
FinalStep ==
  \A s \in Searches : Terminal(s) =>
    /\ status'[s] = status[s] /\ cause'[s] = cause[s]
    /\ sub'[s] = sub[s] /\ job'[s] = job[s]
    /\ outcome'[s] = outcome[s] /\ matches'[s] = matches[s]

\* One step keeps the invariant and rewrites no terminal search.
SafeStep == SafetyParts' /\ FinalStep

\* An empty database satisfies the invariant.
LEMMA InitSafetyInv == Init => SafetyInv
<1> SUFFICES ASSUME Init PROVE SafetyInv OBVIOUS
<1>1. UnsubscribedIsBlank /\ UnbornIsUnsubscribed
  <2>1. \A s \in Searches, k \in Keys : job[s][k] = "NONE" /\ attempt[s][k] = 0 /\ sub[s][k] = "NONE"
    BY DEF Init
  <2>2. \A s \in Searches, k \in ScheduleKeys : outcome[s][k] = "NULL" /\ k \notin counted[s]
    BY DEF Init
  <2> QED BY <2>1, <2>2 DEF UnsubscribedIsBlank, UnbornIsUnsubscribed
<1>2. ReleasedAtTheEnd /\ TerminalIsQuiet
  <2>1. \A s \in Searches : ~released[s] /\ ~Terminal(s)
    BY DEF Init, Terminal, TerminalStatuses
  <2> QED BY <2>1 DEF ReleasedAtTheEnd, TerminalIsQuiet
<1>3. AttemptsAreBounded
  BY BoundsAssumption DEF Init, AttemptsAreBounded
<1>4. LiveSubscriptionIsDriven
  BY DEF Init, LiveSubscriptionIsDriven, Live, LiveStatuses
<1> QED
  BY <1>1, <1>2, <1>3, <1>4, InitTypeOK DEF SafetyInv

\* A live search exists and has not ended.
LEMMA LiveIsNotTerminal ==
  \A s \in Searches : Live(s) => ~Terminal(s) /\ status[s] # "NONE"
  BY DEF Live, Terminal, LiveStatuses, TerminalStatuses

\* Creation subscribes keys that were blank, each with a fresh PENDING job.
LEMMA CreateSearchSafety ==
  ASSUME SafetyInv, NEW s \in Searches, NEW scheduled \in SUBSET ScheduleKeys,
         NEW matched \in SUBSET FetchKeys, NEW admitted \in SUBSET matched,
         CreateSearch(s, scheduled, matched, admitted)
  PROVE  SafeStep
<1> USE DEF SafetyInv
<1>1. \A k \in Keys : sub[s][k] = "NONE" /\ attempt[s][k] = 0
  BY DEF CreateSearch, UnsubscribedIsBlank, UnbornIsUnsubscribed
<1>2. \A k \in ScheduleKeys : outcome[s][k] = "NULL" /\ k \notin counted[s]
  BY <1>1 DEF UnsubscribedIsBlank, Keys
<1>3. UnsubscribedIsBlank'
  BY <1>1, <1>2 DEF TypeOK, CreateSearch, UnsubscribedIsBlank
<1>4. UnbornIsUnsubscribed'
  BY DEF TypeOK, CreateSearch, UnbornIsUnsubscribed
<1>5. ReleasedAtTheEnd'
  BY DEF TypeOK, CreateSearch, ReleasedAtTheEnd, Terminal, TerminalStatuses
<1>6. AttemptsAreBounded'
  BY <1>1, BoundsAssumption DEF TypeOK, CreateSearch, AttemptsAreBounded
<1>7. TerminalIsQuiet'
  BY DEF TypeOK, CreateSearch, TerminalIsQuiet, Terminal, TerminalStatuses
<1>8. LiveSubscriptionIsDriven'
  BY <1>1, <1>2 DEF TypeOK, CreateSearch, LiveSubscriptionIsDriven, Live, OpenJob, Keys
<1>9. FinalStep
  BY DEF TypeOK, CreateSearch, FinalStep, Terminal, TerminalStatuses
<1> QED
  BY <1>9, <1>3, <1>4, <1>5, <1>6, <1>7, <1>8 DEF SafeStep, SafetyParts

\* The lease uses an attempt the job still has.
LEMMA LeaseJobSafety ==
  ASSUME SafetyInv, NEW s \in Searches, NEW k \in Keys, LeaseJob(s, k)
  PROVE  SafeStep
<1> USE DEF SafetyInv
<1>1. ~Terminal(s) /\ sub[s][k] # "NONE"
  BY DEF LeaseJob, TerminalIsQuiet, OpenJob, UnsubscribedIsBlank
<1>2. UnsubscribedIsBlank' /\ UnbornIsUnsubscribed'
  BY <1>1 DEF TypeOK, LeaseJob, UnsubscribedIsBlank, UnbornIsUnsubscribed
<1>3. AttemptsAreBounded'
  BY BoundsAssumption DEF TypeOK, LeaseJob, AttemptsAreBounded
<1>4. ReleasedAtTheEnd' /\ TerminalIsQuiet'
  BY <1>1 DEF TypeOK, LeaseJob, ReleasedAtTheEnd, TerminalIsQuiet, Terminal
<1>5. LiveSubscriptionIsDriven'
  BY DEF TypeOK, LeaseJob, LiveSubscriptionIsDriven, Live, OpenJob, Keys
<1>6. FinalStep
  BY <1>1 DEF TypeOK, LeaseJob, FinalStep
<1> QED
  BY <1>6, <1>2, <1>3, <1>4, <1>5 DEF SafeStep, SafetyParts

\* The sweeper returns to PENDING only a job with an attempt left.
LEMMA ReclaimJobSafety ==
  ASSUME SafetyInv, NEW s \in Searches, NEW k \in Keys, ReclaimJob(s, k)
  PROVE  SafeStep
<1> USE DEF SafetyInv
<1>1. ~Terminal(s) /\ sub[s][k] # "NONE"
  BY DEF ReclaimJob, TerminalIsQuiet, OpenJob, UnsubscribedIsBlank
<1>2. UnsubscribedIsBlank' /\ UnbornIsUnsubscribed'
  BY <1>1 DEF TypeOK, ReclaimJob, UnsubscribedIsBlank, UnbornIsUnsubscribed
<1>3. AttemptsAreBounded'
  BY BoundsAssumption DEF TypeOK, ReclaimJob, HasAttemptLeft, AttemptsAreBounded
<1>4. ReleasedAtTheEnd' /\ TerminalIsQuiet'
  BY <1>1 DEF TypeOK, ReclaimJob, ReleasedAtTheEnd, TerminalIsQuiet, Terminal
<1>5. LiveSubscriptionIsDriven'
  BY DEF TypeOK, ReclaimJob, LiveSubscriptionIsDriven, Live, OpenJob, Keys
<1>6. FinalStep
  BY <1>1 DEF TypeOK, ReclaimJob, FinalStep
<1> QED
  BY <1>6, <1>2, <1>3, <1>4, <1>5 DEF SafeStep, SafetyParts

\* An adoption ends the subscription and its job together.
LEMMA AdoptSnapshotSafety ==
  ASSUME SafetyInv, NEW s \in Searches, NEW k \in FetchKeys, AdoptSnapshot(s, k)
  PROVE  SafeStep
<1> USE DEF SafetyInv
<1>1. k \in Keys BY DEF Keys
<1>2. ~Terminal(s) /\ sub[s][k] # "NONE"
  BY <1>1 DEF AdoptSnapshot, Admissible, TerminalIsQuiet, OpenJob, UnsubscribedIsBlank
<1>3. UnsubscribedIsBlank' /\ UnbornIsUnsubscribed'
  BY <1>1, <1>2 DEF TypeOK, AdoptSnapshot, UnsubscribedIsBlank, UnbornIsUnsubscribed
<1>4. AttemptsAreBounded'
  BY <1>1 DEF TypeOK, AdoptSnapshot, AttemptsAreBounded
<1>5. ReleasedAtTheEnd' /\ TerminalIsQuiet'
  BY <1>1, <1>2 DEF TypeOK, AdoptSnapshot, ReleasedAtTheEnd, TerminalIsQuiet, Terminal
<1>6. LiveSubscriptionIsDriven'
  BY <1>1 DEF TypeOK, AdoptSnapshot, LiveSubscriptionIsDriven, Live, Keys
<1>7. FinalStep
  BY <1>2 DEF TypeOK, AdoptSnapshot, FinalStep
<1> QED
  BY <1>7, <1>3, <1>4, <1>5, <1>6 DEF SafeStep, SafetyParts

\* The fan-in of a fetch run ends each subscription it applies to with its job.
LEMMA AcceptFetchSafety ==
  ASSUME SafetyInv, NEW k \in FetchKeys, AcceptFetch(k)
  PROVE  SafeStep
<1> USE DEF SafetyInv
<1> DEFINE S == Subscribers(k)
<1>1. k \in Keys BY DEF Keys
<1>2. \A s \in S : ~Terminal(s) /\ sub[s][k] = "LIVE"
  BY LiveIsNotTerminal DEF Subscribers
<1>3. /\ sub' = [s \in Searches |-> [sub[s] EXCEPT ![k] = IF s \in S THEN "SATISFIED" ELSE @]]
      /\ job' = [s \in Searches |-> [job[s] EXCEPT ![k] =
                   IF s \in S /\ @ \in OpenJob THEN "DONE" ELSE @]]
      /\ remaining' = [s \in Searches |->
                         IF s \in S /\ remaining[s] > 0 THEN remaining[s] - 1 ELSE remaining[s]]
      /\ UNCHANGED <<status, cause, expired, released, attempt, outcome, counted, matches>>
  BY DEF AcceptFetch, CloseJob, DrawDown
<1>4. \A s \in Searches : ~(s \in S) /\ Live(s) /\ ~expired[s] => sub[s][k] # "LIVE"
  BY DEF Subscribers
<1> HIDE DEF S
<1>5. UnsubscribedIsBlank' /\ UnbornIsUnsubscribed'
  BY <1>1, <1>2, <1>3 DEF TypeOK, UnsubscribedIsBlank, UnbornIsUnsubscribed, OpenJob
<1>6. AttemptsAreBounded'
  BY <1>1, <1>3 DEF TypeOK, AttemptsAreBounded
<1>7. ReleasedAtTheEnd' /\ TerminalIsQuiet'
  BY <1>1, <1>2, <1>3 DEF TypeOK, ReleasedAtTheEnd, TerminalIsQuiet, Terminal
<1>8. LiveSubscriptionIsDriven'
  BY <1>1, <1>3, <1>4 DEF TypeOK, LiveSubscriptionIsDriven, Live, Keys
<1>9. FinalStep
  BY <1>1, <1>2, <1>3 DEF TypeOK, FinalStep
<1> QED
  BY <1>9, <1>5, <1>6, <1>7, <1>8 DEF SafeStep, SafetyParts

\* Expiry leaves no subscription live and invents none.
LEMMA ExpiredSubscriptions ==
  ASSUME NEW subs \in [Keys -> SubStates], NEW k \in Keys
  PROVE  /\ ExpireSubscriptions(subs)[k] # "LIVE"
         /\ ExpireSubscriptions(subs)[k] = "NONE" <=> subs[k] = "NONE"
  BY DEF ExpireSubscriptions

\* Cancellation leaves no job open and invents none.
LEMMA CancelledJobs ==
  ASSUME NEW jobs \in [Keys -> JobStates], NEW k \in Keys
  PROVE  /\ CancelJobs(jobs)[k] \notin OpenJob
         /\ CancelJobs(jobs)[k] = "NONE" <=> jobs[k] = "NONE"
  BY DEF CancelJobs, OpenJob

\* SettleOrDeny leaves what the transaction wrote, or ends the work of the search; it
\* touches no search outside S and D.
LEMMA SettleOrDenyEffect ==
  ASSUME NEW S \in SUBSET Searches, NEW D \in SUBSET Searches,
         NEW subs \in [Searches -> [Keys -> SubStates]],
         NEW jobs \in [Searches -> [Keys -> JobStates]], SettleOrDeny(S, D, subs, jobs)
  PROVE  /\ \A s \in Searches :
              \/ sub'[s] = subs[s] /\ job'[s] = jobs[s]
              \/ /\ s \in S \cup D
                 /\ sub'[s] = ExpireSubscriptions(subs[s]) /\ job'[s] = CancelJobs(jobs[s])
         /\ \A s \in Searches \ S : remaining'[s] = remaining[s]
         /\ released' = released
<1> DEFINE settling == {s \in S : Settling(s, subs, counted')}
<1> DEFINE fit == {s \in settling : Fits(s, matches'[s])}
<1>1. Reconcile(fit, matches') /\ Deny(D \cup (settling \ fit), subs, jobs)
  BY DEF SettleOrDeny
<1>2. fit \subseteq S /\ settling \subseteq S
  OBVIOUS
<1> HIDE DEF fit, settling
<1>3. (\A s \in Searches \ S : remaining'[s] = remaining[s]) /\ released' = released
  BY <1>1, <1>2 DEF Reconcile
<1>4. \A s \in Searches :
        \/ sub'[s] = subs[s] /\ job'[s] = jobs[s]
        \/ /\ s \in S \cup D
           /\ sub'[s] = ExpireSubscriptions(subs[s]) /\ job'[s] = CancelJobs(jobs[s])
  BY <1>1, <1>2 DEF Deny
<1> QED
  BY <1>3, <1>4

\* A schedule acceptance ends the subscriptions it applies to, and the keys its fan-out
\* adds are blank before and driven after.
LEMMA AcceptScheduleSafety ==
  ASSUME SafetyInv, TypeOK', NEW k \in ScheduleKeys, NEW observed \in BOOLEAN,
         NEW match \in [Searches -> SUBSET FetchKeys],
         NEW fallback \in [Searches -> SUBSET ScheduleKeys],
         AcceptSchedule(k, observed, match, fallback)
  PROVE  SafeStep
<1> DEFINE S == Subscribers(k)
<1> DEFINE n == [s \in Searches |-> Cardinality(match[s])]
<1> DEFINE overflowing == {s \in S : ~Fits(s, matches[s] + n[s])}
<1> DEFINE expanding == S \ overflowing
<1> DEFINE found == [s \in Searches |->
        IF s \in expanding THEN (match[s] \cup fallback[s]) \ Subscribed(s) ELSE {}]
<1> DEFINE subs == [s \in Searches |-> [j \in Keys |->
        IF j \in found[s] THEN "LIVE" ELSE IF s \in S /\ j = k THEN "SATISFIED" ELSE sub[s][j]]]
<1> DEFINE jobs == [s \in Searches |-> [j \in Keys |->
        IF j \in found[s] THEN "PENDING"
        ELSE IF s \in S /\ j = k /\ job[s][j] \in OpenJob THEN "DONE" ELSE job[s][j]]]
<1> USE DEF SafetyInv
<1>1. k \in Keys BY DEF Keys
<1>2. \A s \in S : s \in Searches /\ ~Terminal(s) /\ status[s] # "NONE" /\ sub[s][k] = "LIVE"
  BY LiveIsNotTerminal DEF Subscribers
<1>3. \A s \in Searches : s \notin S /\ Live(s) /\ ~expired[s] => sub[s][k] # "LIVE"
  BY DEF Subscribers
<1>4. \A s \in Searches : s \notin S => found[s] = {}
  OBVIOUS
<1>5. \A s \in Searches, j \in Keys : j \in found[s] => sub[s][j] = "NONE"
  BY DEF Subscribed
<1>6. subs \in [Searches -> [Keys -> SubStates]] BY DEF TypeOK, SubStates
<1>7. jobs \in [Searches -> [Keys -> JobStates]] BY DEF TypeOK, JobStates
<1>8. SettleOrDeny(expanding, overflowing, subs, jobs) BY DEF AcceptSchedule
<1>9. expanding \subseteq S /\ overflowing \subseteq S /\ S \in SUBSET Searches BY <1>2
<1>10. \A s \in Searches, j \in Keys :
         /\ subs[s][j] = IF j \in found[s] THEN "LIVE"
                         ELSE IF s \in S /\ j = k THEN "SATISFIED" ELSE sub[s][j]
         /\ jobs[s][j] = IF j \in found[s] THEN "PENDING"
                         ELSE IF s \in S /\ j = k /\ job[s][j] \in OpenJob THEN "DONE"
                         ELSE job[s][j]
  OBVIOUS
<1>11. /\ counted' = [s \in Searches |-> IF s \in S THEN counted[s] \cup {k} ELSE counted[s]]
       /\ matches' = [s \in Searches |->
            IF s \in S /\ k \notin counted[s] THEN matches[s] + n[s] ELSE matches[s]]
       /\ outcome' = [s \in Searches |-> [outcome[s] EXCEPT ![k] =
            IF s \in S THEN IF observed THEN "RESOLVED" ELSE "EMPTY_RESOLVED" ELSE @]]
       /\ status' = [s \in Searches |-> IF s \in S /\ observed THEN "RUNNING" ELSE status[s]]
       /\ UNCHANGED <<cause, expired, attempt>>
  BY DEF AcceptSchedule, Count
<1>12. \A s \in Searches : s \notin S => subs[s] = sub[s] /\ jobs[s] = job[s]
  BY <1>4 DEF TypeOK
<1> HIDE DEF S, n, overflowing, expanding, found, subs, jobs
<1>13. expanding \in SUBSET Searches /\ overflowing \in SUBSET Searches
  BY <1>9
<1>14. /\ \A s \in Searches :
            \/ sub'[s] = subs[s] /\ job'[s] = jobs[s]
            \/ /\ s \in S
               /\ sub'[s] = ExpireSubscriptions(subs[s]) /\ job'[s] = CancelJobs(jobs[s])
       /\ \A s \in Searches \ S : remaining'[s] = remaining[s]
       /\ released' = released
  <2>1. /\ \A s \in Searches :
             \/ sub'[s] = subs[s] /\ job'[s] = jobs[s]
             \/ /\ s \in expanding \cup overflowing
                /\ sub'[s] = ExpireSubscriptions(subs[s]) /\ job'[s] = CancelJobs(jobs[s])
        /\ \A s \in Searches \ expanding : remaining'[s] = remaining[s]
        /\ released' = released
    BY ONLY <1>6, <1>7, <1>8, <1>13, SettleOrDenyEffect
  <2> QED BY <2>1, <1>9
<1>15. /\ \A s \in Searches : s \notin S => sub'[s] = sub[s] /\ job'[s] = job[s]
       /\ \A s \in Searches : status'[s] = status[s] \/ (s \in S /\ status'[s] = "RUNNING")
       /\ \A s \in Searches : s \notin S => matches'[s] = matches[s] /\ outcome'[s] = outcome[s]
       /\ \A s \in Searches, j \in ScheduleKeys : ~(s \in S /\ j = k) =>
            outcome'[s][j] = outcome[s][j] /\ (j \in counted'[s] <=> j \in counted[s])
  BY <1>11, <1>12, <1>14 DEF TypeOK
<1>16. \A s \in Searches, j \in Keys :
         \/ sub'[s][j] = subs[s][j] /\ job'[s][j] = jobs[s][j]
         \/ /\ s \in S /\ sub'[s][j] # "LIVE" /\ job'[s][j] \notin OpenJob
            /\ sub'[s][j] = "NONE" <=> subs[s][j] = "NONE"
            /\ job'[s][j] = "NONE" <=> jobs[s][j] = "NONE"
  <2> SUFFICES ASSUME NEW s \in Searches, NEW j \in Keys, s \in S,
                      sub'[s] = ExpireSubscriptions(subs[s]), job'[s] = CancelJobs(jobs[s])
               PROVE  /\ sub'[s][j] # "LIVE" /\ job'[s][j] \notin OpenJob
                      /\ sub'[s][j] = "NONE" <=> subs[s][j] = "NONE"
                      /\ job'[s][j] = "NONE" <=> jobs[s][j] = "NONE"
    BY <1>14
  <2> QED BY <1>6, <1>7, ExpiredSubscriptions, CancelledJobs
<1>17. /\ UnsubscribedIsBlank'
       /\ AttemptsAreBounded'
  <2> SUFFICES ASSUME NEW s \in Searches, NEW j \in Keys
               PROVE  /\ sub'[s][j] = "NONE" =>
                           /\ job'[s][j] = "NONE" /\ attempt'[s][j] = 0
                           /\ j \in ScheduleKeys => outcome'[s][j] = "NULL" /\ j \notin counted'[s]
                      /\ attempt'[s][j] <= MaxAttempts
                      /\ job'[s][j] = "PENDING" => attempt'[s][j] < MaxAttempts
    BY DEF UnsubscribedIsBlank, AttemptsAreBounded
  <2>1. attempt'[s][j] = attempt[s][j] BY <1>11
  <2>2. sub'[s][j] = "NONE" => subs[s][j] = "NONE" /\ (jobs[s][j] = "NONE" => job'[s][j] = "NONE")
    BY <1>16
  <2>3. subs[s][j] = "NONE" => sub[s][j] = "NONE" /\ jobs[s][j] = job[s][j] /\ ~(s \in S /\ j = k)
    BY <1>2, <1>10 DEF OpenJob, UnsubscribedIsBlank
  <2>4. job'[s][j] = "PENDING" => job[s][j] = "PENDING" \/ attempt[s][j] = 0
    BY <1>5, <1>10, <1>16 DEF OpenJob, UnsubscribedIsBlank
  <2>5. sub'[s][j] = "NONE" => job'[s][j] = "NONE" /\ attempt'[s][j] = 0
    BY <2>1, <2>2, <2>3 DEF UnsubscribedIsBlank
  <2>6. sub'[s][j] = "NONE" /\ j \in ScheduleKeys => outcome'[s][j] = "NULL" /\ j \notin counted'[s]
    BY <2>2, <2>3, <1>15 DEF UnsubscribedIsBlank
  <2>7. /\ attempt'[s][j] <= MaxAttempts
        /\ job'[s][j] = "PENDING" => attempt'[s][j] < MaxAttempts
    BY <2>1, <2>4, BoundsAssumption DEF AttemptsAreBounded
  <2> QED BY <2>5, <2>6, <2>7
<1>18. UnbornIsUnsubscribed'
  BY <1>2, <1>15 DEF UnbornIsUnsubscribed
<1>19. ReleasedAtTheEnd' /\ TerminalIsQuiet'
  BY <1>2, <1>14, <1>15 DEF ReleasedAtTheEnd, TerminalIsQuiet, Terminal, TerminalStatuses
<1>20. LiveSubscriptionIsDriven'
  <2> SUFFICES ASSUME NEW s \in Searches, NEW j \in Keys,
                      Live(s)', sub'[s][j] = "LIVE", ~expired'[s]
               PROVE  /\ job'[s][j] \in OpenJob
                      /\ j \in ScheduleKeys => outcome'[s][j] = "NULL" /\ j \notin counted'[s]
    BY DEF LiveSubscriptionIsDriven
  <2>1. sub'[s][j] = subs[s][j] /\ job'[s][j] = jobs[s][j]
    BY <1>16
  <2>2. CASE j \in found[s]
    <3>1. j # k BY <2>2, <1>1, <1>2, <1>4, <1>5
    <3> QED BY <2>1, <2>2, <3>1, <1>5, <1>10, <1>11 DEF TypeOK, UnsubscribedIsBlank, OpenJob
  <2>3. CASE j \notin found[s]
    <3>1. sub[s][j] = "LIVE" /\ ~(s \in S /\ j = k)
      BY <2>1, <2>3, <1>10
    <3>2. Live(s) /\ ~expired[s]
      BY <1>2, <1>11 DEF TypeOK, Live, Subscribers, S
    <3>3. j # k BY <3>1, <3>2, <1>3
    <3> QED BY <2>1, <2>3, <3>1, <3>2, <3>3, <1>10, <1>11 DEF TypeOK, LiveSubscriptionIsDriven
  <2> QED BY <2>2, <2>3
<1>21. FinalStep
  BY <1>2, <1>11, <1>15 DEF FinalStep
<1> QED
  BY <1>17, <1>18, <1>19, <1>20, <1>21 DEF SafeStep, SafetyParts

\* What a failure of key k for the searches of C writes of subscriptions and jobs.
KeyFails(C, k, jobs) ==
  \/ FailFetchSubscriptions(Subscribers(k) \cap C, k) /\ job' = jobs
  \/ k \in ScheduleKeys /\ FailScheduleSubscriptions(Subscribers(k) \cap C, C, k, jobs)

\* The failure of key k for the searches of C, by its run or by their own jobs: the
\* subscribers of C lose their subscription, and the jobs are as jobs says.
LEMMA FailureSafety ==
  ASSUME SafetyInv, NEW k \in Keys, NEW C \in SUBSET Searches,
         NEW jobs \in [Searches -> [Keys -> JobStates]],
         \A s \in C : ~Terminal(s) /\ sub[s][k] # "NONE" /\ jobs[s][k] # "PENDING",
         \A s \in Searches, j \in Keys : ~(s \in C /\ j = k) => jobs[s][j] = job[s][j],
         KeyFails(C, k, jobs),
         UNCHANGED <<status, cause, expired, attempt, released>>
  PROVE  SafeStep
<1> DEFINE S == Subscribers(k) \cap C
<1> DEFINE subs ==
      [s \in Searches |-> [sub[s] EXCEPT ![k] = IF s \in S THEN "CANCELLED" ELSE @]]
<1> USE DEF SafetyInv
<1>1. \A s \in Searches : s \notin S /\ s \in C /\ Live(s) /\ ~expired[s] => sub[s][k] # "LIVE"
  BY DEF Subscribers
<1>2. subs \in [Searches -> [Keys -> SubStates]] BY DEF TypeOK, SubStates
<1>3. \A s \in Searches, j \in Keys :
        subs[s][j] = IF s \in S /\ j = k THEN "CANCELLED" ELSE sub[s][j]
  BY DEF TypeOK
<1>4. S \subseteq C OBVIOUS
<1>5. \A s \in Searches \ C : subs[s] = sub[s] /\ jobs[s] = job[s]
  BY <1>4 DEF TypeOK
<1> HIDE DEF S, subs
<1>6. /\ \A s \in Searches :
           \/ sub'[s] = subs[s] /\ job'[s] = jobs[s]
           \/ s \in C /\ sub'[s] = ExpireSubscriptions(subs[s]) /\ job'[s] = CancelJobs(jobs[s])
      /\ \A s \in Searches \ C : /\ remaining'[s] = remaining[s]
                                /\ outcome'[s] = outcome[s] /\ matches'[s] = matches[s]
      /\ \A s \in Searches, j \in ScheduleKeys : ~(s \in C /\ j = k) =>
           outcome'[s][j] = outcome[s][j] /\ (j \in counted'[s] <=> j \in counted[s])
  <2>1. CASE FailFetchSubscriptions(S, k) /\ job' = jobs
    <3>1. sub' = subs BY <2>1 DEF FailFetchSubscriptions, subs
    <3>2. \A s \in Searches \ C : remaining'[s] = remaining[s]
      BY <2>1, <1>4 DEF FailFetchSubscriptions, DrawDown
    <3> QED BY <2>1, <3>1, <3>2 DEF FailFetchSubscriptions
  <2>2. CASE k \in ScheduleKeys /\ FailScheduleSubscriptions(S, C, k, jobs)
    <3>1. SettleOrDeny(C, {}, subs, jobs)
      BY <2>2 DEF FailScheduleSubscriptions, subs
    <3>2. /\ \A s \in Searches :
               \/ sub'[s] = subs[s] /\ job'[s] = jobs[s]
               \/ /\ s \in C \cup {}
                  /\ sub'[s] = ExpireSubscriptions(subs[s]) /\ job'[s] = CancelJobs(jobs[s])
          /\ \A s \in Searches \ C : remaining'[s] = remaining[s]
          /\ released' = released
      BY ONLY <1>2, <3>1, jobs \in [Searches -> [Keys -> JobStates]], C \in SUBSET Searches,
              SettleOrDenyEffect
    <3>3. \A s \in Searches \ C : outcome'[s] = outcome[s] /\ matches'[s] = matches[s]
      BY <2>2, <1>4 DEF TypeOK, FailScheduleSubscriptions, Count
    <3>4. \A s \in Searches, j \in ScheduleKeys : ~(s \in C /\ j = k) =>
            outcome'[s][j] = outcome[s][j] /\ (j \in counted'[s] <=> j \in counted[s])
      BY <2>2, <1>4 DEF TypeOK, FailScheduleSubscriptions, Count
    <3> QED BY <3>2, <3>3, <3>4
  <2> QED BY <2>1, <2>2 DEF S, KeyFails
<1>7. \A s \in Searches \ C : sub'[s] = sub[s] /\ job'[s] = job[s]
  BY <1>5, <1>6
<1>8. \A s \in Searches, j \in Keys :
        \/ sub'[s][j] = subs[s][j] /\ job'[s][j] = jobs[s][j]
        \/ /\ s \in C /\ sub'[s][j] # "LIVE" /\ job'[s][j] \notin OpenJob
           /\ sub'[s][j] = "NONE" <=> subs[s][j] = "NONE"
           /\ job'[s][j] = "NONE" <=> jobs[s][j] = "NONE"
  <2> SUFFICES ASSUME NEW s \in Searches, NEW j \in Keys, s \in C,
                      sub'[s] = ExpireSubscriptions(subs[s]), job'[s] = CancelJobs(jobs[s])
               PROVE  /\ sub'[s][j] # "LIVE" /\ job'[s][j] \notin OpenJob
                      /\ sub'[s][j] = "NONE" <=> subs[s][j] = "NONE"
                      /\ job'[s][j] = "NONE" <=> jobs[s][j] = "NONE"
    BY <1>6
  <2> QED BY <1>2, ExpiredSubscriptions, CancelledJobs
<1>9. UnsubscribedIsBlank' /\ AttemptsAreBounded'
  <2> SUFFICES ASSUME NEW s \in Searches, NEW j \in Keys
               PROVE  /\ sub'[s][j] = "NONE" =>
                           /\ job'[s][j] = "NONE" /\ attempt'[s][j] = 0
                           /\ j \in ScheduleKeys => outcome'[s][j] = "NULL" /\ j \notin counted'[s]
                      /\ attempt'[s][j] <= MaxAttempts
                      /\ job'[s][j] = "PENDING" => attempt'[s][j] < MaxAttempts
    BY DEF UnsubscribedIsBlank, AttemptsAreBounded
  <2>1. sub'[s][j] = "NONE" =>
          sub[s][j] = "NONE" /\ ~(s \in C /\ j = k) /\ job'[s][j] = "NONE"
    BY <1>3, <1>8 DEF UnsubscribedIsBlank
  <2>2. job'[s][j] = "PENDING" => job[s][j] = "PENDING"
    BY <1>8 DEF OpenJob
  <2> QED BY <2>1, <2>2, <1>6 DEF UnsubscribedIsBlank, AttemptsAreBounded
<1>10. UnbornIsUnsubscribed'
  BY <1>7 DEF UnbornIsUnsubscribed
<1>11. ReleasedAtTheEnd' /\ TerminalIsQuiet'
  BY <1>6, <1>7 DEF ReleasedAtTheEnd, TerminalIsQuiet, Terminal
<1>12. LiveSubscriptionIsDriven'
  <2> SUFFICES ASSUME NEW s \in Searches, NEW j \in Keys,
                      Live(s)', sub'[s][j] = "LIVE", ~expired'[s]
               PROVE  /\ job'[s][j] \in OpenJob
                      /\ j \in ScheduleKeys => outcome'[s][j] = "NULL" /\ j \notin counted'[s]
    BY DEF LiveSubscriptionIsDriven
  <2>1. /\ sub'[s][j] = subs[s][j] /\ job'[s][j] = jobs[s][j]
        /\ Live(s) /\ ~expired[s]
    BY <1>8 DEF Live
  <2>2. sub[s][j] = "LIVE" /\ ~(s \in S /\ j = k)
    BY <2>1, <1>3
  <2>3. ~(s \in C /\ j = k) BY <2>1, <2>2, <1>1
  <2> QED BY <2>1, <2>2, <2>3, <1>6 DEF LiveSubscriptionIsDriven
<1>13. FinalStep
  BY <1>6, <1>7 DEF FinalStep
<1> QED
  BY <1>9, <1>10, <1>11, <1>12, <1>13 DEF SafeStep, SafetyParts

\* The failure of a run fails exactly the jobs of the subscriptions it ends.
LEMMA FailRunSafety ==
  ASSUME SafetyInv, NEW k \in Keys, FailRun(k)
  PROVE  SafeStep
<1> DEFINE S == Subscribers(k)
<1> DEFINE jobs == [s \in Searches |-> [job[s] EXCEPT ![k] =
                     IF s \in S /\ @ \in OpenJob THEN "FAILED" ELSE @]]
<1> USE DEF SafetyInv
<1>1. S \in SUBSET Searches BY SubscribersAreSearches
<1>2. jobs \in [Searches -> [Keys -> JobStates]] BY DEF TypeOK, JobStates
<1>3. \A s \in S : ~Terminal(s) /\ sub[s][k] # "NONE" /\ jobs[s][k] # "PENDING"
  BY LiveIsNotTerminal DEF TypeOK, Subscribers, OpenJob
<1>4. \A s \in Searches, j \in Keys : ~(s \in S /\ j = k) => jobs[s][j] = job[s][j]
  BY DEF TypeOK
<1>5. KeyFails(S, k, jobs)
  <2>1. Subscribers(k) \cap S = S
    OBVIOUS
  <2> QED
    BY <2>1 DEF FailRun, Keys, KeyFails
<1>6. UNCHANGED <<status, cause, expired, attempt, released>>
  BY DEF FailRun
<1> HIDE DEF jobs, S, SafetyInv
<1> QED
  BY ONLY SafetyInv, k \in Keys, <1>1, <1>2, <1>3, <1>4, <1>5, <1>6, FailureSafety

\* The sweeper's failure of one job ends that search's subscription alone.
LEMMA FailExhaustedJobSafety ==
  ASSUME SafetyInv, NEW s \in Searches, NEW k \in Keys, FailExhaustedJob(s, k)
  PROVE  SafeStep
<1> DEFINE C == {s}
<1> DEFINE jobs == [job EXCEPT ![s][k] = "FAILED"]
<1> USE DEF SafetyInv
<1>1. C \in SUBSET Searches OBVIOUS
<1>2. jobs \in [Searches -> [Keys -> JobStates]] BY DEF TypeOK, JobStates
<1>3. \A t \in C : ~Terminal(t) /\ sub[t][k] # "NONE" /\ jobs[t][k] # "PENDING"
  BY DEF FailExhaustedJob, TypeOK, TerminalIsQuiet, UnsubscribedIsBlank, OpenJob
<1>4. \A t \in Searches, j \in Keys : ~(t \in C /\ j = k) => jobs[t][j] = job[t][j]
  BY DEF TypeOK
<1>5. KeyFails(C, k, jobs)
  BY DEF FailExhaustedJob, Keys, KeyFails
<1>6. UNCHANGED <<status, cause, expired, attempt, released>>
  BY DEF FailExhaustedJob
<1> HIDE DEF jobs, C, SafetyInv
<1> QED
  BY ONLY SafetyInv, k \in Keys, <1>1, <1>2, <1>3, <1>4, <1>5, <1>6, FailureSafety

\* Either end of a search, under a status that is terminal.
LEMMA EndSearchSafety ==
  ASSUME SafetyInv, NEW s \in Searches, Live(s), EndSearch(s), NEW st \in TerminalStatuses,
         status' = [status EXCEPT ![s] = st], \A t \in Searches \ {s} : cause'[t] = cause[t]
  PROVE  SafeStep
<1> USE DEF SafetyInv
<1>1. ~Terminal(s) /\ ~released[s]
  BY LiveIsNotTerminal DEF ReleasedAtTheEnd
<1>2. /\ sub' = [sub EXCEPT ![s] = ExpireSubscriptions(sub[s])]
      /\ job' = [job EXCEPT ![s] = CancelJobs(job[s])]
      /\ remaining' = [remaining EXCEPT ![s] = 0]
      /\ released' = [released EXCEPT ![s] = TRUE]
      /\ UNCHANGED <<expired, attempt, outcome, counted, matches>>
  BY <1>1 DEF EndSearch
<1>3. /\ \A t \in Searches \ {s} : /\ sub'[t] = sub[t] /\ job'[t] = job[t]
                                  /\ remaining'[t] = remaining[t] /\ released'[t] = released[t]
                                  /\ status'[t] = status[t]
      /\ status'[s] \in TerminalStatuses /\ remaining'[s] = 0 /\ released'[s]
  BY <1>2 DEF TypeOK
<1>4. \A k \in Keys : /\ sub'[s][k] # "LIVE" /\ job'[s][k] \notin OpenJob
                      /\ sub'[s][k] = "NONE" <=> sub[s][k] = "NONE"
                      /\ job'[s][k] = "NONE" <=> job[s][k] = "NONE"
  <2>1. sub[s] \in [Keys -> SubStates] /\ job[s] \in [Keys -> JobStates]
    BY DEF TypeOK
  <2>2. sub'[s] = ExpireSubscriptions(sub[s]) /\ job'[s] = CancelJobs(job[s])
    BY <1>2 DEF TypeOK
  <2> QED BY <2>1, <2>2, ExpiredSubscriptions, CancelledJobs
<1>5. UnsubscribedIsBlank' /\ AttemptsAreBounded'
  <2> SUFFICES ASSUME NEW t \in Searches, NEW j \in Keys
               PROVE  /\ sub'[t][j] = "NONE" =>
                           /\ job'[t][j] = "NONE" /\ attempt'[t][j] = 0
                           /\ j \in ScheduleKeys => outcome'[t][j] = "NULL" /\ j \notin counted'[t]
                      /\ attempt'[t][j] <= MaxAttempts
                      /\ job'[t][j] = "PENDING" => attempt'[t][j] < MaxAttempts
    BY DEF UnsubscribedIsBlank, AttemptsAreBounded
  <2>1. sub'[t][j] = "NONE" => sub[t][j] = "NONE" /\ (job[t][j] = "NONE" => job'[t][j] = "NONE")
    BY <1>3, <1>4
  <2>2. job'[t][j] = "PENDING" => job[t][j] = "PENDING"
    BY <1>3, <1>4 DEF OpenJob
  <2> QED BY <1>2, <2>1, <2>2 DEF UnsubscribedIsBlank, AttemptsAreBounded
<1>6. UnbornIsUnsubscribed'
  BY <1>3 DEF UnbornIsUnsubscribed, TerminalStatuses
<1>7. ReleasedAtTheEnd' /\ TerminalIsQuiet'
  BY <1>3, <1>4 DEF ReleasedAtTheEnd, TerminalIsQuiet, Terminal
<1>8. LiveSubscriptionIsDriven'
  BY <1>2, <1>3, <1>4 DEF LiveSubscriptionIsDriven, Live
<1>9. FinalStep
  BY <1>1, <1>2, <1>3 DEF FinalStep
<1> QED
  BY <1>5, <1>6, <1>7, <1>8, <1>9 DEF SafeStep, SafetyParts

\* B8_TERMINALIZE leaves a quiet terminal search.
LEMMA TerminalizeSafety ==
  ASSUME SafetyInv, NEW s \in Searches, Terminalize(s)
  PROVE  SafeStep
<1>1. /\ Live(s) /\ EndSearch(s)
      /\ status' = [status EXCEPT ![s] = DerivedStatus(s)]
      /\ \A t \in Searches \ {s} : cause'[t] = cause[t]
  BY DEF Terminalize, SafetyInv, TypeOK
<1>2. DerivedStatus(s) \in TerminalStatuses
  BY DEF DerivedStatus, TerminalStatuses
<1> QED
  BY ONLY SafetyInv, s \in Searches, <1>1, <1>2, EndSearchSafety

\* The explicit cancel leaves a quiet terminal search.
LEMMA CancelSearchSafety ==
  ASSUME SafetyInv, NEW s \in Searches, CancelSearch(s)
  PROVE  SafeStep
<1>1. /\ Live(s) /\ EndSearch(s)
      /\ status' = [status EXCEPT ![s] = "CANCELLED"]
      /\ \A t \in Searches \ {s} : cause'[t] = cause[t]
  BY DEF CancelSearch
<1>2. "CANCELLED" \in TerminalStatuses
  BY DEF TerminalStatuses
<1> QED
  BY ONLY SafetyInv, s \in Searches, <1>1, <1>2, EndSearchSafety

\* Time passing, and the steps that touch no search, keep the invariant.
LEMMA UntouchedSafety ==
  ASSUME SafetyInv, UNCHANGED <<status, cause, sub, job, attempt, outcome, counted, matches,
                               remaining, released>>,
         \A s \in Searches : expired[s] => expired'[s]
  PROVE  SafeStep
<1> USE DEF SafetyInv
<1>1. UnsubscribedIsBlank' /\ UnbornIsUnsubscribed'
  BY DEF UnsubscribedIsBlank, UnbornIsUnsubscribed
<1>2. AttemptsAreBounded'
  BY DEF AttemptsAreBounded
<1>3. ReleasedAtTheEnd' /\ TerminalIsQuiet'
  BY DEF ReleasedAtTheEnd, TerminalIsQuiet, Terminal
<1>4. LiveSubscriptionIsDriven'
  BY DEF LiveSubscriptionIsDriven, Live
<1>5. FinalStep
  BY DEF FinalStep
<1> QED
  BY <1>1, <1>2, <1>3, <1>4, <1>5 DEF SafeStep, SafetyParts

\* Every transaction keeps the invariant and rewrites no terminal search.
LEMMA StepSafety ==
  ASSUME SafetyInv, [Next]_vars
  PROVE  SafeStep
<1>0. TypeOK' BY StepTypeOK DEF SafetyInv
<1>1. ASSUME NEW s \in Searches, Create(s) PROVE SafeStep
  BY <1>1, CreateSearchSafety DEF Create
<1>2. ASSUME NEW s \in Searches, DeadlinePasses(s) PROVE SafeStep
  <2>1. \A t \in Searches : expired[t] => expired'[t]
    BY <1>2 DEF DeadlinePasses, SafetyInv, TypeOK
  <2> QED BY <1>2, <2>1, UntouchedSafety DEF DeadlinePasses
<1>3. ASSUME NEW s \in Searches,
             ClaimAggregation(s) \/ DeclineTerminalization(s) \/ ReleaseClaim(s)
      PROVE SafeStep
  BY <1>3, UntouchedSafety DEF ClaimAggregation, DeclineTerminalization, ReleaseClaim
<1>4. ASSUME NEW s \in Searches, Terminalize(s) \/ CancelSearch(s) PROVE SafeStep
  BY <1>4, TerminalizeSafety, CancelSearchSafety
<1>5. ASSUME NEW s \in Searches, NEW k \in Keys, LeaseJob(s, k) PROVE SafeStep
  BY <1>5, LeaseJobSafety
<1>6. ASSUME NEW s \in Searches, NEW k \in Keys, AdmitJob(s, k) PROVE SafeStep
  BY <1>6, UntouchedSafety DEF AdmitJob
<1>7. ASSUME NEW s \in Searches, NEW k \in Keys, ReclaimJob(s, k) PROVE SafeStep
  BY <1>7, ReclaimJobSafety
<1>8. ASSUME NEW s \in Searches, NEW k \in Keys, FailExhaustedJob(s, k) PROVE SafeStep
  BY <1>8, FailExhaustedJobSafety
<1>9. ASSUME NEW s \in Searches, NEW k \in FetchKeys, AdoptSnapshot(s, k) PROVE SafeStep
  BY <1>9, AdoptSnapshotSafety
<1>10. ASSUME NEW k \in FetchKeys, AcceptFetch(k) PROVE SafeStep
  BY <1>10, AcceptFetchSafety
<1>11. ASSUME NEW k \in FetchKeys, SnapshotAges(k) PROVE SafeStep
  BY <1>11, UntouchedSafety DEF SnapshotAges
<1>12. ASSUME NEW k \in ScheduleKeys, AcceptAnySchedule(k) PROVE SafeStep
  <2>1. PICK observed \in BOOLEAN, match \in [Searches -> SUBSET FetchKeys],
             fallback \in [Searches -> SUBSET (ScheduleKeys \ MovieKeys)] :
          AcceptSchedule(k, observed, match, fallback)
    BY <1>12 DEF AcceptAnySchedule
  <2>2. fallback \in [Searches -> SUBSET ScheduleKeys] OBVIOUS
  <2> QED BY <1>0, <2>1, <2>2, AcceptScheduleSafety
<1>13. ASSUME NEW k \in ScheduleKeys, RequestScheduleRun(k) PROVE SafeStep
  BY <1>13, UntouchedSafety DEF RequestScheduleRun
<1>14. ASSUME NEW k \in Keys, FailRun(k) PROVE SafeStep
  BY <1>14, FailRunSafety
<1>15. ASSUME NEW c \in Scopes, ApplyControlTransition(c) \/ ReopenScope(c) PROVE SafeStep
  BY <1>15, UntouchedSafety DEF ApplyControlTransition, ReopenScope
<1>16. CASE UNCHANGED vars
  BY <1>16, UntouchedSafety
<1>17. SafeStep
  <2>1. CASE Next
    BY ONLY <2>1, <1>1, <1>2, <1>3, <1>4, <1>5, <1>6, <1>7, <1>8, <1>9, <1>10, <1>11,
       <1>12, <1>13, <1>14, <1>15 DEF Next
  <2> QED BY <2>1, <1>16
<1> QED BY <1>17

\* SafetyInv holds in every reachable state: the four invariants below, with what makes
\* them inductive (a key nobody subscribed to is blank, release coincides with the end).
THEOREM SafetyInvariance == Spec => []SafetyInv
<1>1. SafetyInv /\ [Next]_vars => SafetyInv'
  BY StepTypeOK, StepSafety DEF SafetyInv, SafeStep, SafetyParts
<1> QED
  BY InitSafetyInv, <1>1, PTL DEF Spec

\* A job waiting for delivery always has an attempt left, and no job has more attempts
\* than the budget: the sweeper's test and the lease's increment agree.
THEOREM BoundedAttempts == Spec => []AttemptsAreBounded
<1>1. SafetyInv => AttemptsAreBounded BY DEF SafetyInv
<1> QED BY <1>1, SafetyInvariance, PTL

\* A terminal search keeps no live subscription, no open job and no capacity.
THEOREM QuietTerminals == Spec => []TerminalIsQuiet
<1>1. SafetyInv => TerminalIsQuiet BY DEF SafetyInv
<1> QED BY <1>1, SafetyInvariance, PTL

\* Whoever waits inside the deadline is worked for: a live subscription of a live search
\* has an open job and no recorded outcome.
THEOREM DrivenSubscriptions == Spec => []LiveSubscriptionIsDriven
<1>1. SafetyInv => LiveSubscriptionIsDriven BY DEF SafetyInv
<1> QED BY <1>1, SafetyInvariance, PTL

\* No step of the program writes a terminal search again.
THEOREM FinalTerminals == Spec => TerminalIsFinal
<1>1. SafetyInv /\ [Next]_vars => [FinalStep]_vars
  BY StepSafety DEF SafeStep
<1>2. Spec => [][FinalStep]_vars
  BY <1>1, SafetyInvariance, PTL DEF Spec
<1>3. FinalStep <=> \A s \in Searches : Terminal(s) =>
         /\ status'[s] = status[s] /\ cause'[s] = cause[s]
         /\ sub'[s] = sub[s] /\ job'[s] = job[s]
         /\ outcome'[s] = outcome[s] /\ matches'[s] = matches[s]
  BY DEF FinalStep
<1> QED
  BY <1>2, <1>3, PTL DEF TerminalIsFinal
=============================================================================
