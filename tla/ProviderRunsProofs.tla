-------------------------- MODULE ProviderRunsProofs --------------------------
(***************************************************************************)
(* Safety of provider runs for any number of runs, searches and workers,   *)
(* any attempt budgets and any scopes.  RunsInv strengthens the properties *)
(* the run checks with what makes them inductive: a worker that is not     *)
(* idle has a run, a run that does not exist was never leased, a worker    *)
(* that was overtaken has left its navigation or is in it, and a           *)
(* navigation has its work in the ledger.  One lemma per part, one step of *)
(* its proof per action.                                                   *)
(***************************************************************************)
EXTENDS ProviderRuns, TLAPS

USE DEF vars, runVars, subVars, ledgerVars, controlVars, workerVars, historyVars

\* A worker that is not idle has a run.
Placed == \A w \in Workers : pc[w] # "idle" => at[w] \in Runs

\* A run that does not exist was never leased.
UnbornIsUnused == \A r \in Runs : runState[r] = "ABSENT" => attempt[r] = 0

\* The part every other part rests on: types need the budget, as attempts are given back.
BaseInv == TypeOK /\ Placed /\ UnbornIsUnused /\ AttemptsWithinBudget

\* Every step is well typed. A deferral gives an attempt back: that it stays a natural
\* number needs the budget.
LEMMA TypeStep ==
  ASSUME BaseInv, [Next]_vars
  PROVE  TypeOK'
<1> USE DEF BaseInv, Steps, LiveStates, OverStates
<1>1. ASSUME NEW r \in Runs, CreateRun(r) PROVE TypeOK'
  BY <1>1 DEF TypeOK, CreateRun
<1>2. ASSUME NEW s \in Searches, NEW k \in Keys, Subscribe(s, k) PROVE TypeOK'
  BY <1>2 DEF TypeOK, Subscribe
<1>3. ASSUME NEW s \in Searches, EndSearch(s) PROVE TypeOK'
  BY <1>3 DEF TypeOK, EndSearch, Finish, Overtake
<1>4. ASSUME NEW w \in Workers, NEW r \in Runs, Deliver(w, r) PROVE TypeOK'
  BY <1>4 DEF TypeOK, Deliver, Overtake, Goto
<1>5. ASSUME NEW w \in Workers, ReadHandle(w) PROVE TypeOK'
  BY <1>5 DEF TypeOK, ReadHandle, Goto
<1>6. ASSUME NEW w \in Workers, Refuse(w) PROVE TypeOK'
  BY <1>6 DEF TypeOK, Refuse, ReadsControl, Leave, Goto
<1>7. ASSUME NEW w \in Workers, Acquire(w) PROVE TypeOK'
  BY <1>7 DEF TypeOK, Acquire, ReadsControl, Goto
<1>8. ASSUME NEW w \in Workers, Defer(w) PROVE TypeOK'
  <2>1. CASE Authorized(w) /\ ReturnToPending(at[w])
    <3>1. at[w] \in Runs /\ runState[at[w]] = "LEASED"
      BY <2>1, <1>8 DEF Defer, Placed, Authorized
    <3>2. attempt[at[w]] - 1 \in Nat
      BY <3>1 DEF TypeOK, AttemptsWithinBudget
    <3> QED
      BY <2>1, <3>1, <3>2, <1>8 DEF TypeOK, Defer, ReadsControl, Leave, Goto, ReturnToPending
  <2>2. CASE UNCHANGED runVars
    BY <2>2, <1>8 DEF TypeOK, Defer, ReadsControl, Leave, Goto
  <2> QED
    BY <2>1, <2>2, <1>8 DEF Defer
<1>9. ASSUME NEW w \in Workers, GiveUpHeld(w) PROVE TypeOK'
  BY <1>9 DEF TypeOK, GiveUpHeld, ReadsControl, Goto
<1>10. ASSUME NEW w \in Workers, Dispatch(w) PROVE TypeOK'
  <2>1. at[w] \in Runs
    BY <1>10 DEF Dispatch, Placed
  <2>2. worked' \in [Runs -> SUBSET Nat]
    BY <2>1, <1>10 DEF TypeOK, Dispatch
  <2>3. {attempt[at[w]]} \X SubscribersOf(at[w]) \subseteq Nat \X Searches
    BY <2>1 DEF TypeOK, SubscribersOf
  <2>4. charged' \in [Runs -> SUBSET (Nat \X Searches)]
    BY <2>1, <2>3, <1>10 DEF TypeOK, Dispatch
  <2> QED
    BY <2>2, <2>4, <1>10 DEF TypeOK, Dispatch, ReadsControl, Goto
<1>11. ASSUME NEW w \in Workers, DispatchDenied(w) PROVE TypeOK'
  BY <1>11 DEF TypeOK, DispatchDenied, ReadsControl, Goto
<1>12. ASSUME NEW w \in Workers, Heartbeat(w) PROVE TypeOK'
  BY <1>12 DEF TypeOK, Heartbeat
<1>13. ASSUME NEW w \in Workers, Abort(w) PROVE TypeOK'
  BY <1>13 DEF TypeOK, Abort, Goto
<1>14. ASSUME NEW w \in Workers, Accept(w) PROVE TypeOK'
  BY <1>14 DEF TypeOK, Accept, Finish, Goto
<1>15. ASSUME NEW w \in Workers, CompleteRecheck(w) PROVE TypeOK'
  BY <1>15 DEF TypeOK, CompleteRecheck, Finish, Goto
<1>16. ASSUME NEW w \in Workers, AcceptanceRejected(w) PROVE TypeOK'
  BY <1>16 DEF TypeOK, AcceptanceRejected, Goto
<1>17. ASSUME NEW w \in Workers, FailNavigation(w) PROVE TypeOK'
  <2>1. CASE FailSubscribers(at[w])
    BY <2>1, <1>17 DEF TypeOK, FailNavigation, FailSubscribers, Finish, Goto
  <2>2. CASE UNCHANGED <<runVars, live>>
    BY <2>2, <1>17 DEF TypeOK, FailNavigation, Goto
  <2> QED
    BY <2>1, <2>2, <1>17 DEF FailNavigation
<1>18. ASSUME NEW w \in Workers, AfterFailure(w) PROVE TypeOK'
  <2>1. outcome' \in [Runs -> {"NONE", "UNAVAILABLE", "VERDICT"}]
    BY <1>18 DEF TypeOK, AfterFailure
  <2>2. pc' \in [Workers -> Steps]
    BY <1>18 DEF TypeOK, AfterFailure, Goto
  <2> QED
    BY <2>1, <2>2, <1>18 DEF TypeOK, AfterFailure
<1>19. ASSUME NEW w \in Workers, NEW c \in Scopes, CloseFromNavigation(w, c) PROVE TypeOK'
  BY <1>19 DEF TypeOK, CloseFromNavigation, Close, Overtake, Goto
<1>20. ASSUME NEW w \in Workers, Release(w) PROVE TypeOK'
  BY <1>20 DEF TypeOK, Release, Leave, Goto
<1>21. ASSUME NEW w \in Workers, Crash(w) PROVE TypeOK'
  BY <1>21 DEF TypeOK, Crash, Leave, Goto
<1>22. ASSUME NEW c \in Scopes, CloseFromOutside(c) PROVE TypeOK'
  BY <1>22 DEF TypeOK, CloseFromOutside, Close, Overtake
<1>23. ASSUME NEW c \in Scopes, Reopen(c) PROVE TypeOK'
  BY <1>23 DEF TypeOK, Reopen
<1>24. ASSUME NEW c \in Scopes, PauseElapses(c) PROVE TypeOK'
  BY <1>24 DEF TypeOK, PauseElapses
<1>25. ASSUME NEW r \in Runs, LeaseExpires(r) PROVE TypeOK'
  BY <1>25 DEF TypeOK, LeaseExpires
<1>26. CASE SemaphoreExpires
  BY <1>26 DEF TypeOK, SemaphoreExpires
<1>27. CASE CacheLost
  BY <1>27 DEF TypeOK, CacheLost
<1>28. ASSUME NEW r \in Runs, Reclaim(r) PROVE TypeOK'
  BY <1>28 DEF TypeOK, Reclaim, Overtake
<1>29. CASE Discover
  BY <1>29 DEF TypeOK, Discover
<1>30. ASSUME NEW r \in Runs, FailDoomed(r) PROVE TypeOK'
  <2>1. CASE FailSubscribers(r)
    BY <2>1, <1>30 DEF TypeOK, FailDoomed, FailSubscribers, Finish
  <2>2. CASE UNCHANGED <<runVars, live>>
    BY <2>2, <1>30 DEF TypeOK, FailDoomed
  <2> QED
    BY <2>1, <2>2, <1>30 DEF FailDoomed
<1>31. ASSUME NEW s \in Searches, NEW k \in Keys, DropSubscription(s, k) PROVE TypeOK'
  BY <1>31 DEF TypeOK, DropSubscription
<1>32. CASE UNCHANGED vars
  BY <1>32 DEF TypeOK
<1> QED
  BY ONLY [Next]_vars, <1>1, <1>2, <1>3, <1>4, <1>5, <1>6, <1>7, <1>8, <1>9, <1>10, <1>11,
     <1>12, <1>13, <1>14, <1>15, <1>16, <1>17, <1>18, <1>19, <1>20, <1>21, <1>22, <1>23,
     <1>24, <1>25, <1>26, <1>27, <1>28, <1>29, <1>30, <1>31, <1>32 DEF Next, WorkerStep

\* A worker leaves idle with a run and keeps it until it is idle again.
LEMMA PlacedStep ==
  ASSUME BaseInv, [Next]_vars
  PROVE  Placed'
<1> USE DEF BaseInv
<1>1. ASSUME NEW r \in Runs, CreateRun(r) PROVE Placed'
  BY <1>1 DEF TypeOK, Placed, CreateRun
<1>2. ASSUME NEW s \in Searches, NEW k \in Keys, Subscribe(s, k) PROVE Placed'
  BY <1>2 DEF TypeOK, Placed, Subscribe
<1>3. ASSUME NEW s \in Searches, EndSearch(s) PROVE Placed'
  BY <1>3 DEF TypeOK, Placed, EndSearch, Finish, Overtake
<1>4. ASSUME NEW w \in Workers, NEW r \in Runs, Deliver(w, r) PROVE Placed'
  BY <1>4 DEF TypeOK, Placed, Deliver, Overtake, Goto
<1>5. ASSUME NEW w \in Workers, ReadHandle(w) PROVE Placed'
  BY <1>5 DEF TypeOK, Placed, ReadHandle, Goto
<1>6. ASSUME NEW w \in Workers, Refuse(w) PROVE Placed'
  BY <1>6 DEF TypeOK, Placed, Refuse, ReadsControl, Leave, Goto
<1>7. ASSUME NEW w \in Workers, Acquire(w) PROVE Placed'
  BY <1>7 DEF TypeOK, Placed, Acquire, ReadsControl, Goto
<1>8. ASSUME NEW w \in Workers, Defer(w) PROVE Placed'
  BY <1>8 DEF TypeOK, Placed, Defer, ReadsControl, Leave, Goto, Authorized, ReturnToPending
<1>9. ASSUME NEW w \in Workers, GiveUpHeld(w) PROVE Placed'
  BY <1>9 DEF TypeOK, Placed, GiveUpHeld, ReadsControl, Goto
<1>10. ASSUME NEW w \in Workers, Dispatch(w) PROVE Placed'
  BY <1>10 DEF TypeOK, Placed, Dispatch, ReadsControl, Goto
<1>11. ASSUME NEW w \in Workers, DispatchDenied(w) PROVE Placed'
  BY <1>11 DEF TypeOK, Placed, DispatchDenied, ReadsControl, Goto
<1>12. ASSUME NEW w \in Workers, Heartbeat(w) PROVE Placed'
  BY <1>12 DEF TypeOK, Placed, Heartbeat
<1>13. ASSUME NEW w \in Workers, Abort(w) PROVE Placed'
  BY <1>13 DEF TypeOK, Placed, Abort, Goto
<1>14. ASSUME NEW w \in Workers, Accept(w) PROVE Placed'
  BY <1>14 DEF TypeOK, Placed, Accept, Finish, Goto
<1>15. ASSUME NEW w \in Workers, CompleteRecheck(w) PROVE Placed'
  BY <1>15 DEF TypeOK, Placed, CompleteRecheck, Finish, Goto
<1>16. ASSUME NEW w \in Workers, AcceptanceRejected(w) PROVE Placed'
  BY <1>16 DEF TypeOK, Placed, AcceptanceRejected, Goto
<1>17. ASSUME NEW w \in Workers, FailNavigation(w) PROVE Placed'
  BY <1>17 DEF TypeOK, Placed, FailNavigation, FailSubscribers, Finish, Goto
<1>18. ASSUME NEW w \in Workers, AfterFailure(w) PROVE Placed'
  BY <1>18 DEF TypeOK, Placed, AfterFailure, Goto
<1>19. ASSUME NEW w \in Workers, NEW c \in Scopes, CloseFromNavigation(w, c) PROVE Placed'
  BY <1>19 DEF TypeOK, Placed, CloseFromNavigation, Close, Overtake, Goto
<1>20. ASSUME NEW w \in Workers, Release(w) PROVE Placed'
  BY <1>20 DEF TypeOK, Placed, Release, Leave, Goto
<1>21. ASSUME NEW w \in Workers, Crash(w) PROVE Placed'
  BY <1>21 DEF TypeOK, Placed, Crash, Leave, Goto
<1>22. ASSUME NEW c \in Scopes, CloseFromOutside(c) PROVE Placed'
  BY <1>22 DEF TypeOK, Placed, CloseFromOutside, Close, Overtake
<1>23. ASSUME NEW c \in Scopes, Reopen(c) PROVE Placed'
  BY <1>23 DEF TypeOK, Placed, Reopen
<1>24. ASSUME NEW c \in Scopes, PauseElapses(c) PROVE Placed'
  BY <1>24 DEF TypeOK, Placed, PauseElapses
<1>25. ASSUME NEW r \in Runs, LeaseExpires(r) PROVE Placed'
  BY <1>25 DEF TypeOK, Placed, LeaseExpires
<1>26. CASE SemaphoreExpires
  BY <1>26 DEF TypeOK, Placed, SemaphoreExpires
<1>27. CASE CacheLost
  BY <1>27 DEF TypeOK, Placed, CacheLost
<1>28. ASSUME NEW r \in Runs, Reclaim(r) PROVE Placed'
  BY <1>28 DEF TypeOK, Placed, Reclaim, Overtake
<1>29. CASE Discover
  BY <1>29 DEF TypeOK, Placed, Discover
<1>30. ASSUME NEW r \in Runs, FailDoomed(r) PROVE Placed'
  BY <1>30 DEF TypeOK, Placed, FailDoomed, FailSubscribers, Finish
<1>31. ASSUME NEW s \in Searches, NEW k \in Keys, DropSubscription(s, k) PROVE Placed'
  BY <1>31 DEF TypeOK, Placed, DropSubscription
<1>32. CASE UNCHANGED vars
  BY <1>32 DEF TypeOK, Placed
<1> QED
  BY ONLY [Next]_vars, <1>1, <1>2, <1>3, <1>4, <1>5, <1>6, <1>7, <1>8, <1>9, <1>10, <1>11,
     <1>12, <1>13, <1>14, <1>15, <1>16, <1>17, <1>18, <1>19, <1>20, <1>21, <1>22, <1>23,
     <1>24, <1>25, <1>26, <1>27, <1>28, <1>29, <1>30, <1>31, <1>32 DEF Next, WorkerStep

\* The sweeper never reclaims a run that has no attempt left, and only a leased run gives
\* one back.
LEMMA BudgetStep ==
  ASSUME BaseInv, [Next]_vars
  PROVE  AttemptsWithinBudget'
<1> USE DEF BaseInv
<1>1. ASSUME NEW r \in Runs, CreateRun(r) PROVE AttemptsWithinBudget'
  BY <1>1, AttemptsAssumption DEF TypeOK, AttemptsWithinBudget, CreateRun, UnbornIsUnused
<1>2. ASSUME NEW s \in Searches, NEW k \in Keys, Subscribe(s, k) PROVE AttemptsWithinBudget'
  BY <1>2, AttemptsAssumption DEF TypeOK, AttemptsWithinBudget, Subscribe
<1>3. ASSUME NEW s \in Searches, EndSearch(s) PROVE AttemptsWithinBudget'
  BY <1>3, AttemptsAssumption DEF TypeOK, AttemptsWithinBudget, EndSearch, Finish, Overtake
<1>4. ASSUME NEW w \in Workers, NEW r \in Runs, Deliver(w, r) PROVE AttemptsWithinBudget'
  BY <1>4, AttemptsAssumption DEF TypeOK, AttemptsWithinBudget, Deliver, Overtake, Goto
<1>5. ASSUME NEW w \in Workers, ReadHandle(w) PROVE AttemptsWithinBudget'
  BY <1>5, AttemptsAssumption DEF TypeOK, AttemptsWithinBudget, ReadHandle, Goto
<1>6. ASSUME NEW w \in Workers, Refuse(w) PROVE AttemptsWithinBudget'
  BY <1>6, AttemptsAssumption DEF TypeOK, AttemptsWithinBudget, Refuse, ReadsControl, Leave,
     Goto
<1>7. ASSUME NEW w \in Workers, Acquire(w) PROVE AttemptsWithinBudget'
  BY <1>7, AttemptsAssumption DEF TypeOK, AttemptsWithinBudget, Acquire, ReadsControl, Goto
<1>8. ASSUME NEW w \in Workers, Defer(w) PROVE AttemptsWithinBudget'
  BY <1>8, AttemptsAssumption DEF TypeOK, AttemptsWithinBudget, Defer, ReadsControl, Leave,
     Goto, Authorized, ReturnToPending, Placed
<1>9. ASSUME NEW w \in Workers, GiveUpHeld(w) PROVE AttemptsWithinBudget'
  BY <1>9, AttemptsAssumption DEF TypeOK, AttemptsWithinBudget, GiveUpHeld, ReadsControl,
     Goto
<1>10. ASSUME NEW w \in Workers, Dispatch(w) PROVE AttemptsWithinBudget'
  BY <1>10, AttemptsAssumption DEF TypeOK, AttemptsWithinBudget, Dispatch, ReadsControl,
     Goto
<1>11. ASSUME NEW w \in Workers, DispatchDenied(w) PROVE AttemptsWithinBudget'
  BY <1>11, AttemptsAssumption DEF TypeOK, AttemptsWithinBudget, DispatchDenied,
     ReadsControl, Goto
<1>12. ASSUME NEW w \in Workers, Heartbeat(w) PROVE AttemptsWithinBudget'
  BY <1>12, AttemptsAssumption DEF TypeOK, AttemptsWithinBudget, Heartbeat
<1>13. ASSUME NEW w \in Workers, Abort(w) PROVE AttemptsWithinBudget'
  BY <1>13, AttemptsAssumption DEF TypeOK, AttemptsWithinBudget, Abort, Goto
<1>14. ASSUME NEW w \in Workers, Accept(w) PROVE AttemptsWithinBudget'
  BY <1>14, AttemptsAssumption DEF TypeOK, AttemptsWithinBudget, Accept, Finish, Goto
<1>15. ASSUME NEW w \in Workers, CompleteRecheck(w) PROVE AttemptsWithinBudget'
  BY <1>15, AttemptsAssumption DEF TypeOK, AttemptsWithinBudget, CompleteRecheck, Finish,
     Goto
<1>16. ASSUME NEW w \in Workers, AcceptanceRejected(w) PROVE AttemptsWithinBudget'
  BY <1>16, AttemptsAssumption DEF TypeOK, AttemptsWithinBudget, AcceptanceRejected, Goto
<1>17. ASSUME NEW w \in Workers, FailNavigation(w) PROVE AttemptsWithinBudget'
  BY <1>17, AttemptsAssumption DEF TypeOK, AttemptsWithinBudget, FailNavigation,
     FailSubscribers, Finish, Goto
<1>18. ASSUME NEW w \in Workers, AfterFailure(w) PROVE AttemptsWithinBudget'
  BY <1>18, AttemptsAssumption DEF TypeOK, AttemptsWithinBudget, AfterFailure, Goto
<1>19. ASSUME NEW w \in Workers, NEW c \in Scopes, CloseFromNavigation(w, c) PROVE AttemptsWithinBudget'
  BY <1>19, AttemptsAssumption DEF TypeOK, AttemptsWithinBudget, CloseFromNavigation, Close,
     Overtake, Goto
<1>20. ASSUME NEW w \in Workers, Release(w) PROVE AttemptsWithinBudget'
  BY <1>20, AttemptsAssumption DEF TypeOK, AttemptsWithinBudget, Release, Leave, Goto
<1>21. ASSUME NEW w \in Workers, Crash(w) PROVE AttemptsWithinBudget'
  BY <1>21, AttemptsAssumption DEF TypeOK, AttemptsWithinBudget, Crash, Leave, Goto
<1>22. ASSUME NEW c \in Scopes, CloseFromOutside(c) PROVE AttemptsWithinBudget'
  BY <1>22, AttemptsAssumption DEF TypeOK, AttemptsWithinBudget, CloseFromOutside, Close,
     Overtake
<1>23. ASSUME NEW c \in Scopes, Reopen(c) PROVE AttemptsWithinBudget'
  BY <1>23, AttemptsAssumption DEF TypeOK, AttemptsWithinBudget, Reopen
<1>24. ASSUME NEW c \in Scopes, PauseElapses(c) PROVE AttemptsWithinBudget'
  BY <1>24, AttemptsAssumption DEF TypeOK, AttemptsWithinBudget, PauseElapses
<1>25. ASSUME NEW r \in Runs, LeaseExpires(r) PROVE AttemptsWithinBudget'
  BY <1>25, AttemptsAssumption DEF TypeOK, AttemptsWithinBudget, LeaseExpires
<1>26. CASE SemaphoreExpires
  BY <1>26, AttemptsAssumption DEF TypeOK, AttemptsWithinBudget, SemaphoreExpires
<1>27. CASE CacheLost
  BY <1>27, AttemptsAssumption DEF TypeOK, AttemptsWithinBudget, CacheLost
<1>28. ASSUME NEW r \in Runs, Reclaim(r) PROVE AttemptsWithinBudget'
  BY <1>28, AttemptsAssumption DEF TypeOK, AttemptsWithinBudget, Reclaim, Overtake
<1>29. CASE Discover
  BY <1>29, AttemptsAssumption DEF TypeOK, AttemptsWithinBudget, Discover
<1>30. ASSUME NEW r \in Runs, FailDoomed(r) PROVE AttemptsWithinBudget'
  BY <1>30, AttemptsAssumption DEF TypeOK, AttemptsWithinBudget, FailDoomed,
     FailSubscribers, Finish
<1>31. ASSUME NEW s \in Searches, NEW k \in Keys, DropSubscription(s, k) PROVE AttemptsWithinBudget'
  BY <1>31, AttemptsAssumption DEF TypeOK, AttemptsWithinBudget, DropSubscription
<1>32. CASE UNCHANGED vars
  BY <1>32 DEF TypeOK, AttemptsWithinBudget
<1> QED
  BY ONLY [Next]_vars, <1>1, <1>2, <1>3, <1>4, <1>5, <1>6, <1>7, <1>8, <1>9, <1>10, <1>11,
     <1>12, <1>13, <1>14, <1>15, <1>16, <1>17, <1>18, <1>19, <1>20, <1>21, <1>22, <1>23,
     <1>24, <1>25, <1>26, <1>27, <1>28, <1>29, <1>30, <1>31, <1>32 DEF Next, WorkerStep

\* A run is created before it is leased.
LEMMA UnbornStep ==
  ASSUME BaseInv, [Next]_vars
  PROVE  UnbornIsUnused'
<1> USE DEF BaseInv
<1>1. ASSUME NEW r \in Runs, CreateRun(r) PROVE UnbornIsUnused'
  BY <1>1 DEF TypeOK, UnbornIsUnused, CreateRun
<1>2. ASSUME NEW s \in Searches, NEW k \in Keys, Subscribe(s, k) PROVE UnbornIsUnused'
  BY <1>2 DEF TypeOK, UnbornIsUnused, Subscribe
<1>3. ASSUME NEW s \in Searches, EndSearch(s) PROVE UnbornIsUnused'
  BY <1>3 DEF TypeOK, UnbornIsUnused, EndSearch, Finish, Overtake
<1>4. ASSUME NEW w \in Workers, NEW r \in Runs, Deliver(w, r) PROVE UnbornIsUnused'
  BY <1>4 DEF TypeOK, UnbornIsUnused, Deliver, Overtake, Goto
<1>5. ASSUME NEW w \in Workers, ReadHandle(w) PROVE UnbornIsUnused'
  BY <1>5 DEF TypeOK, UnbornIsUnused, ReadHandle, Goto
<1>6. ASSUME NEW w \in Workers, Refuse(w) PROVE UnbornIsUnused'
  BY <1>6 DEF TypeOK, UnbornIsUnused, Refuse, ReadsControl, Leave, Goto
<1>7. ASSUME NEW w \in Workers, Acquire(w) PROVE UnbornIsUnused'
  BY <1>7 DEF TypeOK, UnbornIsUnused, Acquire, ReadsControl, Goto
<1>8. ASSUME NEW w \in Workers, Defer(w) PROVE UnbornIsUnused'
  BY <1>8 DEF TypeOK, UnbornIsUnused, Defer, ReadsControl, Leave, Goto, Authorized,
     ReturnToPending, Placed
<1>9. ASSUME NEW w \in Workers, GiveUpHeld(w) PROVE UnbornIsUnused'
  BY <1>9 DEF TypeOK, UnbornIsUnused, GiveUpHeld, ReadsControl, Goto
<1>10. ASSUME NEW w \in Workers, Dispatch(w) PROVE UnbornIsUnused'
  BY <1>10 DEF TypeOK, UnbornIsUnused, Dispatch, ReadsControl, Goto
<1>11. ASSUME NEW w \in Workers, DispatchDenied(w) PROVE UnbornIsUnused'
  BY <1>11 DEF TypeOK, UnbornIsUnused, DispatchDenied, ReadsControl, Goto
<1>12. ASSUME NEW w \in Workers, Heartbeat(w) PROVE UnbornIsUnused'
  BY <1>12 DEF TypeOK, UnbornIsUnused, Heartbeat
<1>13. ASSUME NEW w \in Workers, Abort(w) PROVE UnbornIsUnused'
  BY <1>13 DEF TypeOK, UnbornIsUnused, Abort, Goto
<1>14. ASSUME NEW w \in Workers, Accept(w) PROVE UnbornIsUnused'
  BY <1>14 DEF TypeOK, UnbornIsUnused, Accept, Finish, Goto
<1>15. ASSUME NEW w \in Workers, CompleteRecheck(w) PROVE UnbornIsUnused'
  BY <1>15 DEF TypeOK, UnbornIsUnused, CompleteRecheck, Finish, Goto
<1>16. ASSUME NEW w \in Workers, AcceptanceRejected(w) PROVE UnbornIsUnused'
  BY <1>16 DEF TypeOK, UnbornIsUnused, AcceptanceRejected, Goto
<1>17. ASSUME NEW w \in Workers, FailNavigation(w) PROVE UnbornIsUnused'
  BY <1>17 DEF TypeOK, UnbornIsUnused, FailNavigation, FailSubscribers, Finish, Goto
<1>18. ASSUME NEW w \in Workers, AfterFailure(w) PROVE UnbornIsUnused'
  BY <1>18 DEF TypeOK, UnbornIsUnused, AfterFailure, Goto
<1>19. ASSUME NEW w \in Workers, NEW c \in Scopes, CloseFromNavigation(w, c) PROVE UnbornIsUnused'
  BY <1>19 DEF TypeOK, UnbornIsUnused, CloseFromNavigation, Close, Overtake, Goto
<1>20. ASSUME NEW w \in Workers, Release(w) PROVE UnbornIsUnused'
  BY <1>20 DEF TypeOK, UnbornIsUnused, Release, Leave, Goto
<1>21. ASSUME NEW w \in Workers, Crash(w) PROVE UnbornIsUnused'
  BY <1>21 DEF TypeOK, UnbornIsUnused, Crash, Leave, Goto
<1>22. ASSUME NEW c \in Scopes, CloseFromOutside(c) PROVE UnbornIsUnused'
  BY <1>22 DEF TypeOK, UnbornIsUnused, CloseFromOutside, Close, Overtake
<1>23. ASSUME NEW c \in Scopes, Reopen(c) PROVE UnbornIsUnused'
  BY <1>23 DEF TypeOK, UnbornIsUnused, Reopen
<1>24. ASSUME NEW c \in Scopes, PauseElapses(c) PROVE UnbornIsUnused'
  BY <1>24 DEF TypeOK, UnbornIsUnused, PauseElapses
<1>25. ASSUME NEW r \in Runs, LeaseExpires(r) PROVE UnbornIsUnused'
  BY <1>25 DEF TypeOK, UnbornIsUnused, LeaseExpires
<1>26. CASE SemaphoreExpires
  BY <1>26 DEF TypeOK, UnbornIsUnused, SemaphoreExpires
<1>27. CASE CacheLost
  BY <1>27 DEF TypeOK, UnbornIsUnused, CacheLost
<1>28. ASSUME NEW r \in Runs, Reclaim(r) PROVE UnbornIsUnused'
  BY <1>28 DEF TypeOK, UnbornIsUnused, Reclaim, Overtake
<1>29. CASE Discover
  BY <1>29 DEF TypeOK, UnbornIsUnused, Discover
<1>30. ASSUME NEW r \in Runs, FailDoomed(r) PROVE UnbornIsUnused'
  BY <1>30 DEF TypeOK, UnbornIsUnused, FailDoomed, FailSubscribers, Finish
<1>31. ASSUME NEW s \in Searches, NEW k \in Keys, DropSubscription(s, k) PROVE UnbornIsUnused'
  BY <1>31 DEF TypeOK, UnbornIsUnused, DropSubscription
<1>32. CASE UNCHANGED vars
  BY <1>32 DEF TypeOK, UnbornIsUnused
<1> QED
  BY ONLY [Next]_vars, <1>1, <1>2, <1>3, <1>4, <1>5, <1>6, <1>7, <1>8, <1>9, <1>10, <1>11,
     <1>12, <1>13, <1>14, <1>15, <1>16, <1>17, <1>18, <1>19, <1>20, <1>21, <1>22, <1>23,
     <1>24, <1>25, <1>26, <1>27, <1>28, <1>29, <1>30, <1>31, <1>32 DEF Next, WorkerStep

\* The semaphore of a holder whose entry has not expired is freed by that holder only.
LEMMA SemaphoreStep ==
  ASSUME BaseInv, SemaphoreExcludes, [Next]_vars
  PROVE  SemaphoreExcludes'
<1> USE DEF BaseInv
<1>1. ASSUME NEW r \in Runs, CreateRun(r) PROVE SemaphoreExcludes'
  BY <1>1, NamesAssumption DEF TypeOK, SemaphoreExcludes, Holding, CreateRun
<1>2. ASSUME NEW s \in Searches, NEW k \in Keys, Subscribe(s, k) PROVE SemaphoreExcludes'
  BY <1>2, NamesAssumption DEF TypeOK, SemaphoreExcludes, Holding, Subscribe
<1>3. ASSUME NEW s \in Searches, EndSearch(s) PROVE SemaphoreExcludes'
  BY <1>3, NamesAssumption DEF TypeOK, SemaphoreExcludes, Holding, EndSearch, Finish,
     Overtake
<1>4. ASSUME NEW w \in Workers, NEW r \in Runs, Deliver(w, r) PROVE SemaphoreExcludes'
  BY <1>4, NamesAssumption DEF TypeOK, SemaphoreExcludes, Holding, Deliver, Overtake, Goto
<1>5. ASSUME NEW w \in Workers, ReadHandle(w) PROVE SemaphoreExcludes'
  BY <1>5, NamesAssumption DEF TypeOK, SemaphoreExcludes, Holding, ReadHandle, Goto
<1>6. ASSUME NEW w \in Workers, Refuse(w) PROVE SemaphoreExcludes'
  BY <1>6, NamesAssumption DEF TypeOK, SemaphoreExcludes, Holding, Refuse, ReadsControl,
     Leave, Goto
<1>7. ASSUME NEW w \in Workers, Acquire(w) PROVE SemaphoreExcludes'
  BY <1>7, NamesAssumption DEF TypeOK, SemaphoreExcludes, Holding, Acquire, ReadsControl,
     Goto
<1>8. ASSUME NEW w \in Workers, Defer(w) PROVE SemaphoreExcludes'
  BY <1>8, NamesAssumption DEF TypeOK, SemaphoreExcludes, Holding, Defer, ReadsControl,
     Leave, Goto, Authorized, ReturnToPending
<1>9. ASSUME NEW w \in Workers, GiveUpHeld(w) PROVE SemaphoreExcludes'
  BY <1>9, NamesAssumption DEF TypeOK, SemaphoreExcludes, Holding, GiveUpHeld, ReadsControl,
     Goto
<1>10. ASSUME NEW w \in Workers, Dispatch(w) PROVE SemaphoreExcludes'
  BY <1>10, NamesAssumption DEF TypeOK, SemaphoreExcludes, Holding, Dispatch, ReadsControl,
     Goto
<1>11. ASSUME NEW w \in Workers, DispatchDenied(w) PROVE SemaphoreExcludes'
  BY <1>11, NamesAssumption DEF TypeOK, SemaphoreExcludes, Holding, DispatchDenied,
     ReadsControl, Goto
<1>12. ASSUME NEW w \in Workers, Heartbeat(w) PROVE SemaphoreExcludes'
  BY <1>12, NamesAssumption DEF TypeOK, SemaphoreExcludes, Holding, Heartbeat
<1>13. ASSUME NEW w \in Workers, Abort(w) PROVE SemaphoreExcludes'
  BY <1>13, NamesAssumption DEF TypeOK, SemaphoreExcludes, Holding, Abort, Goto
<1>14. ASSUME NEW w \in Workers, Accept(w) PROVE SemaphoreExcludes'
  BY <1>14, NamesAssumption DEF TypeOK, SemaphoreExcludes, Holding, Accept, Finish, Goto
<1>15. ASSUME NEW w \in Workers, CompleteRecheck(w) PROVE SemaphoreExcludes'
  BY <1>15, NamesAssumption DEF TypeOK, SemaphoreExcludes, Holding, CompleteRecheck, Finish,
     Goto
<1>16. ASSUME NEW w \in Workers, AcceptanceRejected(w) PROVE SemaphoreExcludes'
  BY <1>16, NamesAssumption DEF TypeOK, SemaphoreExcludes, Holding, AcceptanceRejected, Goto
<1>17. ASSUME NEW w \in Workers, FailNavigation(w) PROVE SemaphoreExcludes'
  BY <1>17, NamesAssumption DEF TypeOK, SemaphoreExcludes, Holding, FailNavigation,
     FailSubscribers, Finish, Goto
<1>18. ASSUME NEW w \in Workers, AfterFailure(w) PROVE SemaphoreExcludes'
  BY <1>18, NamesAssumption DEF TypeOK, SemaphoreExcludes, Holding, AfterFailure, Goto
<1>19. ASSUME NEW w \in Workers, NEW c \in Scopes, CloseFromNavigation(w, c) PROVE SemaphoreExcludes'
  BY <1>19, NamesAssumption DEF TypeOK, SemaphoreExcludes, Holding, CloseFromNavigation,
     Close, Overtake, Goto
<1>20. ASSUME NEW w \in Workers, Release(w) PROVE SemaphoreExcludes'
  BY <1>20, NamesAssumption DEF TypeOK, SemaphoreExcludes, Holding, Release, Leave, Goto
<1>21. ASSUME NEW w \in Workers, Crash(w) PROVE SemaphoreExcludes'
  BY <1>21, NamesAssumption DEF TypeOK, SemaphoreExcludes, Holding, Crash, Leave, Goto
<1>22. ASSUME NEW c \in Scopes, CloseFromOutside(c) PROVE SemaphoreExcludes'
  BY <1>22, NamesAssumption DEF TypeOK, SemaphoreExcludes, Holding, CloseFromOutside, Close,
     Overtake
<1>23. ASSUME NEW c \in Scopes, Reopen(c) PROVE SemaphoreExcludes'
  BY <1>23, NamesAssumption DEF TypeOK, SemaphoreExcludes, Holding, Reopen
<1>24. ASSUME NEW c \in Scopes, PauseElapses(c) PROVE SemaphoreExcludes'
  BY <1>24, NamesAssumption DEF TypeOK, SemaphoreExcludes, Holding, PauseElapses
<1>25. ASSUME NEW r \in Runs, LeaseExpires(r) PROVE SemaphoreExcludes'
  BY <1>25, NamesAssumption DEF TypeOK, SemaphoreExcludes, Holding, LeaseExpires
<1>26. CASE SemaphoreExpires
  BY <1>26, NamesAssumption DEF TypeOK, SemaphoreExcludes, Holding, SemaphoreExpires
<1>27. CASE CacheLost
  BY <1>27, NamesAssumption DEF TypeOK, SemaphoreExcludes, Holding, CacheLost
<1>28. ASSUME NEW r \in Runs, Reclaim(r) PROVE SemaphoreExcludes'
  BY <1>28, NamesAssumption DEF TypeOK, SemaphoreExcludes, Holding, Reclaim, Overtake
<1>29. CASE Discover
  BY <1>29, NamesAssumption DEF TypeOK, SemaphoreExcludes, Holding, Discover
<1>30. ASSUME NEW r \in Runs, FailDoomed(r) PROVE SemaphoreExcludes'
  BY <1>30, NamesAssumption DEF TypeOK, SemaphoreExcludes, Holding, FailDoomed,
     FailSubscribers, Finish
<1>31. ASSUME NEW s \in Searches, NEW k \in Keys, DropSubscription(s, k) PROVE SemaphoreExcludes'
  BY <1>31, NamesAssumption DEF TypeOK, SemaphoreExcludes, Holding, DropSubscription
<1>32. CASE UNCHANGED vars
  BY <1>32 DEF TypeOK, SemaphoreExcludes, Holding
<1> QED
  BY ONLY [Next]_vars, <1>1, <1>2, <1>3, <1>4, <1>5, <1>6, <1>7, <1>8, <1>9, <1>10, <1>11,
     <1>12, <1>13, <1>14, <1>15, <1>16, <1>17, <1>18, <1>19, <1>20, <1>21, <1>22, <1>23,
     <1>24, <1>25, <1>26, <1>27, <1>28, <1>29, <1>30, <1>31, <1>32 DEF Next, WorkerStep

\* A worker that saw a scope close while it navigated is past the fences of the actor.
OvertakenIsLate ==
  \A w \in Workers : w \in overtaken => pc[w] \in Holding \ {"held"}

\* Only a navigating worker is overtaken, and only its leave forgets it.
LEMMA OvertakenStep ==
  ASSUME BaseInv, OvertakenIsLate, [Next]_vars
  PROVE  OvertakenIsLate'
<1> USE DEF BaseInv
<1>1. ASSUME NEW r \in Runs, CreateRun(r) PROVE OvertakenIsLate'
  BY <1>1 DEF TypeOK, OvertakenIsLate, Holding, CreateRun
<1>2. ASSUME NEW s \in Searches, NEW k \in Keys, Subscribe(s, k) PROVE OvertakenIsLate'
  BY <1>2 DEF TypeOK, OvertakenIsLate, Holding, Subscribe
<1>3. ASSUME NEW s \in Searches, EndSearch(s) PROVE OvertakenIsLate'
  BY <1>3 DEF TypeOK, OvertakenIsLate, Holding, EndSearch, Finish, Overtake
<1>4. ASSUME NEW w \in Workers, NEW r \in Runs, Deliver(w, r) PROVE OvertakenIsLate'
  BY <1>4 DEF TypeOK, OvertakenIsLate, Holding, Deliver, Overtake, Goto
<1>5. ASSUME NEW w \in Workers, ReadHandle(w) PROVE OvertakenIsLate'
  BY <1>5 DEF TypeOK, OvertakenIsLate, Holding, ReadHandle, Goto
<1>6. ASSUME NEW w \in Workers, Refuse(w) PROVE OvertakenIsLate'
  BY <1>6 DEF TypeOK, OvertakenIsLate, Holding, Refuse, ReadsControl, Leave, Goto
<1>7. ASSUME NEW w \in Workers, Acquire(w) PROVE OvertakenIsLate'
  BY <1>7 DEF TypeOK, OvertakenIsLate, Holding, Acquire, ReadsControl, Goto
<1>8. ASSUME NEW w \in Workers, Defer(w) PROVE OvertakenIsLate'
  BY <1>8 DEF TypeOK, OvertakenIsLate, Holding, Defer, ReadsControl, Leave, Goto,
     Authorized, ReturnToPending
<1>9. ASSUME NEW w \in Workers, GiveUpHeld(w) PROVE OvertakenIsLate'
  BY <1>9 DEF TypeOK, OvertakenIsLate, Holding, GiveUpHeld, ReadsControl, Goto
<1>10. ASSUME NEW w \in Workers, Dispatch(w) PROVE OvertakenIsLate'
  BY <1>10 DEF TypeOK, OvertakenIsLate, Holding, Dispatch, ReadsControl, Goto
<1>11. ASSUME NEW w \in Workers, DispatchDenied(w) PROVE OvertakenIsLate'
  BY <1>11 DEF TypeOK, OvertakenIsLate, Holding, DispatchDenied, ReadsControl, Goto
<1>12. ASSUME NEW w \in Workers, Heartbeat(w) PROVE OvertakenIsLate'
  BY <1>12 DEF TypeOK, OvertakenIsLate, Holding, Heartbeat
<1>13. ASSUME NEW w \in Workers, Abort(w) PROVE OvertakenIsLate'
  BY <1>13 DEF TypeOK, OvertakenIsLate, Holding, Abort, Goto
<1>14. ASSUME NEW w \in Workers, Accept(w) PROVE OvertakenIsLate'
  BY <1>14 DEF TypeOK, OvertakenIsLate, Holding, Accept, Finish, Goto
<1>15. ASSUME NEW w \in Workers, CompleteRecheck(w) PROVE OvertakenIsLate'
  BY <1>15 DEF TypeOK, OvertakenIsLate, Holding, CompleteRecheck, Finish, Goto
<1>16. ASSUME NEW w \in Workers, AcceptanceRejected(w) PROVE OvertakenIsLate'
  BY <1>16 DEF TypeOK, OvertakenIsLate, Holding, AcceptanceRejected, Goto
<1>17. ASSUME NEW w \in Workers, FailNavigation(w) PROVE OvertakenIsLate'
  BY <1>17 DEF TypeOK, OvertakenIsLate, Holding, FailNavigation, FailSubscribers, Finish,
     Goto
<1>18. ASSUME NEW w \in Workers, AfterFailure(w) PROVE OvertakenIsLate'
  BY <1>18 DEF TypeOK, OvertakenIsLate, Holding, AfterFailure, Goto
<1>19. ASSUME NEW w \in Workers, NEW c \in Scopes, CloseFromNavigation(w, c) PROVE OvertakenIsLate'
  BY <1>19 DEF TypeOK, OvertakenIsLate, Holding, CloseFromNavigation, Close, Overtake, Goto
<1>20. ASSUME NEW w \in Workers, Release(w) PROVE OvertakenIsLate'
  BY <1>20 DEF TypeOK, OvertakenIsLate, Holding, Release, Leave, Goto
<1>21. ASSUME NEW w \in Workers, Crash(w) PROVE OvertakenIsLate'
  BY <1>21 DEF TypeOK, OvertakenIsLate, Holding, Crash, Leave, Goto
<1>22. ASSUME NEW c \in Scopes, CloseFromOutside(c) PROVE OvertakenIsLate'
  BY <1>22 DEF TypeOK, OvertakenIsLate, Holding, CloseFromOutside, Close, Overtake
<1>23. ASSUME NEW c \in Scopes, Reopen(c) PROVE OvertakenIsLate'
  BY <1>23 DEF TypeOK, OvertakenIsLate, Holding, Reopen
<1>24. ASSUME NEW c \in Scopes, PauseElapses(c) PROVE OvertakenIsLate'
  BY <1>24 DEF TypeOK, OvertakenIsLate, Holding, PauseElapses
<1>25. ASSUME NEW r \in Runs, LeaseExpires(r) PROVE OvertakenIsLate'
  BY <1>25 DEF TypeOK, OvertakenIsLate, Holding, LeaseExpires
<1>26. CASE SemaphoreExpires
  BY <1>26 DEF TypeOK, OvertakenIsLate, Holding, SemaphoreExpires
<1>27. CASE CacheLost
  BY <1>27 DEF TypeOK, OvertakenIsLate, Holding, CacheLost
<1>28. ASSUME NEW r \in Runs, Reclaim(r) PROVE OvertakenIsLate'
  BY <1>28 DEF TypeOK, OvertakenIsLate, Holding, Reclaim, Overtake
<1>29. CASE Discover
  BY <1>29 DEF TypeOK, OvertakenIsLate, Holding, Discover
<1>30. ASSUME NEW r \in Runs, FailDoomed(r) PROVE OvertakenIsLate'
  BY <1>30 DEF TypeOK, OvertakenIsLate, Holding, FailDoomed, FailSubscribers, Finish
<1>31. ASSUME NEW s \in Searches, NEW k \in Keys, DropSubscription(s, k) PROVE OvertakenIsLate'
  BY <1>31 DEF TypeOK, OvertakenIsLate, Holding, DropSubscription
<1>32. CASE UNCHANGED vars
  BY <1>32 DEF TypeOK, OvertakenIsLate, Holding
<1> QED
  BY ONLY [Next]_vars, <1>1, <1>2, <1>3, <1>4, <1>5, <1>6, <1>7, <1>8, <1>9, <1>10, <1>11,
     <1>12, <1>13, <1>14, <1>15, <1>16, <1>17, <1>18, <1>19, <1>20, <1>21, <1>22, <1>23,
     <1>24, <1>25, <1>26, <1>27, <1>28, <1>29, <1>30, <1>31, <1>32 DEF Next, WorkerStep

\* A scope closes with the generation of every leased run, so a handle that is still current
\* was dispatched after the last close of its scopes.
LEMMA PermittedStep ==
  ASSUME BaseInv, OvertakenIsLate, InFlightIsPermitted, [Next]_vars
  PROVE  InFlightIsPermitted'
<1> USE DEF BaseInv
<1>1. ASSUME NEW r \in Runs, CreateRun(r) PROVE InFlightIsPermitted'
  BY <1>1 DEF TypeOK, Placed, InFlightIsPermitted, Authorized, Open, CreateRun
<1>2. ASSUME NEW s \in Searches, NEW k \in Keys, Subscribe(s, k) PROVE InFlightIsPermitted'
  BY <1>2 DEF TypeOK, Placed, InFlightIsPermitted, Authorized, Open, Subscribe
<1>3. ASSUME NEW s \in Searches, EndSearch(s) PROVE InFlightIsPermitted'
  BY <1>3 DEF TypeOK, Placed, InFlightIsPermitted, Authorized, Open, EndSearch, Finish,
     Overtake
<1>4. ASSUME NEW w \in Workers, NEW r \in Runs, Deliver(w, r) PROVE InFlightIsPermitted'
  <2> SUFFICES ASSUME NEW v \in Workers, pc'[v] = "navigating", Authorized(v)'
               PROVE  Open(at[v])' /\ v \notin overtaken'
    BY DEF InFlightIsPermitted
  <2>1. v # w /\ pc[v] = "navigating" /\ at'[v] = at[v]
    BY <1>4 DEF TypeOK, Deliver, Goto
  <2>2. current[v] /\ at[v] # r
    BY <1>4, <2>1 DEF Authorized, Deliver, Overtake
  <2>3. runState'[at[v]] = runState[at[v]]
    BY <1>4, <2>2 DEF TypeOK, Deliver
  <2>4. Authorized(v) /\ Open(at[v])' = Open(at[v]) /\ overtaken' = overtaken
    BY <1>4, <2>1, <2>2, <2>3 DEF Authorized, Open, Deliver
  <2> QED
    BY <2>1, <2>4 DEF InFlightIsPermitted
<1>5. ASSUME NEW w \in Workers, ReadHandle(w) PROVE InFlightIsPermitted'
  BY <1>5 DEF TypeOK, Placed, InFlightIsPermitted, Authorized, Open, ReadHandle, Goto
<1>6. ASSUME NEW w \in Workers, Refuse(w) PROVE InFlightIsPermitted'
  BY <1>6 DEF TypeOK, Placed, InFlightIsPermitted, Authorized, Open, Refuse, ReadsControl,
     Leave, Goto
<1>7. ASSUME NEW w \in Workers, Acquire(w) PROVE InFlightIsPermitted'
  BY <1>7 DEF TypeOK, Placed, InFlightIsPermitted, Authorized, Open, Acquire, ReadsControl,
     Goto
<1>8. ASSUME NEW w \in Workers, Defer(w) PROVE InFlightIsPermitted'
  <2> SUFFICES ASSUME NEW v \in Workers, pc'[v] = "navigating", Authorized(v)'
               PROVE  Open(at[v])' /\ v \notin overtaken'
    BY DEF InFlightIsPermitted
  <2>1. v # w /\ pc[v] = "navigating" /\ at'[v] = at[v] /\ current'[v] = current[v]
    BY <1>8 DEF TypeOK, Defer, Leave, Goto
  <2>2. at[v] \in Runs
    BY <2>1 DEF Placed
  <2>3. runState'[at[v]] = "LEASED" => runState[at[v]] = "LEASED"
    BY <1>8, <2>2 DEF TypeOK, Defer, ReturnToPending
  <2>4. Authorized(v)
    BY <2>1, <2>3 DEF Authorized
  <2>5. closed' = closed /\ overtaken' \subseteq overtaken
    BY <1>8 DEF Defer, Leave
  <2>6. Open(at[v])' <=> Open(at[v])
    BY <2>1, <2>5 DEF Open
  <2> QED
    BY <2>1, <2>4, <2>5, <2>6 DEF InFlightIsPermitted
<1>9. ASSUME NEW w \in Workers, GiveUpHeld(w) PROVE InFlightIsPermitted'
  BY <1>9 DEF TypeOK, Placed, InFlightIsPermitted, Authorized, Open, GiveUpHeld,
     ReadsControl, Goto
<1>10. ASSUME NEW w \in Workers, Dispatch(w) PROVE InFlightIsPermitted'
  BY <1>10 DEF TypeOK, Placed, InFlightIsPermitted, Authorized, Open, Dispatch,
     ReadsControl, Goto, Permitted, OvertakenIsLate, Holding
<1>11. ASSUME NEW w \in Workers, DispatchDenied(w) PROVE InFlightIsPermitted'
  BY <1>11 DEF TypeOK, Placed, InFlightIsPermitted, Authorized, Open, DispatchDenied,
     ReadsControl, Goto
<1>12. ASSUME NEW w \in Workers, Heartbeat(w) PROVE InFlightIsPermitted'
  BY <1>12 DEF TypeOK, Placed, InFlightIsPermitted, Authorized, Open, Heartbeat
<1>13. ASSUME NEW w \in Workers, Abort(w) PROVE InFlightIsPermitted'
  BY <1>13 DEF TypeOK, Placed, InFlightIsPermitted, Authorized, Open, Abort, Goto
<1>14. ASSUME NEW w \in Workers, Accept(w) PROVE InFlightIsPermitted'
  BY <1>14 DEF TypeOK, Placed, InFlightIsPermitted, Authorized, Open, Accept, Finish, Goto
<1>15. ASSUME NEW w \in Workers, CompleteRecheck(w) PROVE InFlightIsPermitted'
  BY <1>15 DEF TypeOK, Placed, InFlightIsPermitted, Authorized, Open, CompleteRecheck,
     Finish, Goto
<1>16. ASSUME NEW w \in Workers, AcceptanceRejected(w) PROVE InFlightIsPermitted'
  BY <1>16 DEF TypeOK, Placed, InFlightIsPermitted, Authorized, Open, AcceptanceRejected,
     Goto
<1>17. ASSUME NEW w \in Workers, FailNavigation(w) PROVE InFlightIsPermitted'
  <2> USE DEF TypeOK, Placed, InFlightIsPermitted, Authorized, Open
  <2>1. CASE FailSubscribers(at[w])
    BY <2>1, <1>17 DEF FailNavigation, FailSubscribers, Finish, Goto
  <2>2. CASE UNCHANGED <<runVars, live>>
    BY <2>2, <1>17 DEF FailNavigation, Goto
  <2> QED
    BY <2>1, <2>2, <1>17 DEF FailNavigation
<1>18. ASSUME NEW w \in Workers, AfterFailure(w) PROVE InFlightIsPermitted'
  BY <1>18 DEF TypeOK, Placed, InFlightIsPermitted, Authorized, Open, AfterFailure, Goto
<1>19. ASSUME NEW w \in Workers, NEW c \in Scopes, CloseFromNavigation(w, c) PROVE InFlightIsPermitted'
  BY <1>19 DEF TypeOK, Placed, InFlightIsPermitted, Authorized, Open, CloseFromNavigation,
     Close, Overtake, Goto
<1>20. ASSUME NEW w \in Workers, Release(w) PROVE InFlightIsPermitted'
  BY <1>20 DEF TypeOK, Placed, InFlightIsPermitted, Authorized, Open, Release, Leave, Goto
<1>21. ASSUME NEW w \in Workers, Crash(w) PROVE InFlightIsPermitted'
  BY <1>21 DEF TypeOK, Placed, InFlightIsPermitted, Authorized, Open, Crash, Leave, Goto
<1>22. ASSUME NEW c \in Scopes, CloseFromOutside(c) PROVE InFlightIsPermitted'
  BY <1>22 DEF TypeOK, Placed, InFlightIsPermitted, Authorized, Open, CloseFromOutside,
     Close, Overtake
<1>23. ASSUME NEW c \in Scopes, Reopen(c) PROVE InFlightIsPermitted'
  BY <1>23 DEF TypeOK, Placed, InFlightIsPermitted, Authorized, Open, Reopen
<1>24. ASSUME NEW c \in Scopes, PauseElapses(c) PROVE InFlightIsPermitted'
  BY <1>24 DEF TypeOK, Placed, InFlightIsPermitted, Authorized, Open, PauseElapses
<1>25. ASSUME NEW r \in Runs, LeaseExpires(r) PROVE InFlightIsPermitted'
  BY <1>25 DEF TypeOK, Placed, InFlightIsPermitted, Authorized, Open, LeaseExpires
<1>26. CASE SemaphoreExpires
  BY <1>26 DEF TypeOK, Placed, InFlightIsPermitted, Authorized, Open, SemaphoreExpires
<1>27. CASE CacheLost
  BY <1>27 DEF TypeOK, Placed, InFlightIsPermitted, Authorized, Open, CacheLost
<1>28. ASSUME NEW r \in Runs, Reclaim(r) PROVE InFlightIsPermitted'
  BY <1>28 DEF TypeOK, Placed, InFlightIsPermitted, Authorized, Open, Reclaim, Overtake
<1>29. CASE Discover
  BY <1>29 DEF TypeOK, Placed, InFlightIsPermitted, Authorized, Open, Discover
<1>30. ASSUME NEW r \in Runs, FailDoomed(r) PROVE InFlightIsPermitted'
  <2> USE DEF TypeOK, Placed, InFlightIsPermitted, Authorized, Open
  <2>1. CASE FailSubscribers(r)
    BY <2>1, <1>30 DEF FailDoomed, FailSubscribers, Finish
  <2>2. CASE UNCHANGED <<runVars, live>>
    BY <2>2, <1>30 DEF FailDoomed
  <2> QED
    BY <2>1, <2>2, <1>30 DEF FailDoomed
<1>31. ASSUME NEW s \in Searches, NEW k \in Keys, DropSubscription(s, k) PROVE InFlightIsPermitted'
  BY <1>31 DEF TypeOK, Placed, InFlightIsPermitted, Authorized, Open, DropSubscription
<1>32. CASE UNCHANGED vars
  BY <1>32 DEF TypeOK, Placed, InFlightIsPermitted, Authorized, Open
<1> QED
  BY ONLY [Next]_vars, <1>1, <1>2, <1>3, <1>4, <1>5, <1>6, <1>7, <1>8, <1>9, <1>10, <1>11,
     <1>12, <1>13, <1>14, <1>15, <1>16, <1>17, <1>18, <1>19, <1>20, <1>21, <1>22, <1>23,
     <1>24, <1>25, <1>26, <1>27, <1>28, <1>29, <1>30, <1>31, <1>32 DEF Next, WorkerStep

\* A navigating worker's run has done provider work.
NavigationIsWork ==
  \A w \in Workers : pc[w] = "navigating" => worked[at[w]] # {}

\* A navigation starts with its ledger row, and no row is ever removed.
LEMMA WorkStep ==
  ASSUME BaseInv, NavigationIsWork, [Next]_vars
  PROVE  NavigationIsWork'
<1> USE DEF BaseInv
<1>1. ASSUME NEW r \in Runs, CreateRun(r) PROVE NavigationIsWork'
  BY <1>1 DEF TypeOK, Placed, NavigationIsWork, CreateRun
<1>2. ASSUME NEW s \in Searches, NEW k \in Keys, Subscribe(s, k) PROVE NavigationIsWork'
  BY <1>2 DEF TypeOK, Placed, NavigationIsWork, Subscribe
<1>3. ASSUME NEW s \in Searches, EndSearch(s) PROVE NavigationIsWork'
  BY <1>3 DEF TypeOK, Placed, NavigationIsWork, EndSearch, Finish, Overtake
<1>4. ASSUME NEW w \in Workers, NEW r \in Runs, Deliver(w, r) PROVE NavigationIsWork'
  BY <1>4 DEF TypeOK, Placed, NavigationIsWork, Deliver, Overtake, Goto
<1>5. ASSUME NEW w \in Workers, ReadHandle(w) PROVE NavigationIsWork'
  BY <1>5 DEF TypeOK, Placed, NavigationIsWork, ReadHandle, Goto
<1>6. ASSUME NEW w \in Workers, Refuse(w) PROVE NavigationIsWork'
  BY <1>6 DEF TypeOK, Placed, NavigationIsWork, Refuse, ReadsControl, Leave, Goto
<1>7. ASSUME NEW w \in Workers, Acquire(w) PROVE NavigationIsWork'
  BY <1>7 DEF TypeOK, Placed, NavigationIsWork, Acquire, ReadsControl, Goto
<1>8. ASSUME NEW w \in Workers, Defer(w) PROVE NavigationIsWork'
  BY <1>8 DEF TypeOK, Placed, NavigationIsWork, Defer, ReadsControl, Leave, Goto,
     Authorized, ReturnToPending
<1>9. ASSUME NEW w \in Workers, GiveUpHeld(w) PROVE NavigationIsWork'
  BY <1>9 DEF TypeOK, Placed, NavigationIsWork, GiveUpHeld, ReadsControl, Goto
<1>10. ASSUME NEW w \in Workers, Dispatch(w) PROVE NavigationIsWork'
  BY <1>10 DEF TypeOK, Placed, NavigationIsWork, Dispatch, ReadsControl, Goto
<1>11. ASSUME NEW w \in Workers, DispatchDenied(w) PROVE NavigationIsWork'
  BY <1>11 DEF TypeOK, Placed, NavigationIsWork, DispatchDenied, ReadsControl, Goto
<1>12. ASSUME NEW w \in Workers, Heartbeat(w) PROVE NavigationIsWork'
  BY <1>12 DEF TypeOK, Placed, NavigationIsWork, Heartbeat
<1>13. ASSUME NEW w \in Workers, Abort(w) PROVE NavigationIsWork'
  BY <1>13 DEF TypeOK, Placed, NavigationIsWork, Abort, Goto
<1>14. ASSUME NEW w \in Workers, Accept(w) PROVE NavigationIsWork'
  BY <1>14 DEF TypeOK, Placed, NavigationIsWork, Accept, Finish, Goto
<1>15. ASSUME NEW w \in Workers, CompleteRecheck(w) PROVE NavigationIsWork'
  BY <1>15 DEF TypeOK, Placed, NavigationIsWork, CompleteRecheck, Finish, Goto
<1>16. ASSUME NEW w \in Workers, AcceptanceRejected(w) PROVE NavigationIsWork'
  BY <1>16 DEF TypeOK, Placed, NavigationIsWork, AcceptanceRejected, Goto
<1>17. ASSUME NEW w \in Workers, FailNavigation(w) PROVE NavigationIsWork'
  BY <1>17 DEF TypeOK, Placed, NavigationIsWork, FailNavigation, FailSubscribers, Finish,
     Goto
<1>18. ASSUME NEW w \in Workers, AfterFailure(w) PROVE NavigationIsWork'
  BY <1>18 DEF TypeOK, Placed, NavigationIsWork, AfterFailure, Goto
<1>19. ASSUME NEW w \in Workers, NEW c \in Scopes, CloseFromNavigation(w, c) PROVE NavigationIsWork'
  BY <1>19 DEF TypeOK, Placed, NavigationIsWork, CloseFromNavigation, Close, Overtake, Goto
<1>20. ASSUME NEW w \in Workers, Release(w) PROVE NavigationIsWork'
  BY <1>20 DEF TypeOK, Placed, NavigationIsWork, Release, Leave, Goto
<1>21. ASSUME NEW w \in Workers, Crash(w) PROVE NavigationIsWork'
  BY <1>21 DEF TypeOK, Placed, NavigationIsWork, Crash, Leave, Goto
<1>22. ASSUME NEW c \in Scopes, CloseFromOutside(c) PROVE NavigationIsWork'
  BY <1>22 DEF TypeOK, Placed, NavigationIsWork, CloseFromOutside, Close, Overtake
<1>23. ASSUME NEW c \in Scopes, Reopen(c) PROVE NavigationIsWork'
  BY <1>23 DEF TypeOK, Placed, NavigationIsWork, Reopen
<1>24. ASSUME NEW c \in Scopes, PauseElapses(c) PROVE NavigationIsWork'
  BY <1>24 DEF TypeOK, Placed, NavigationIsWork, PauseElapses
<1>25. ASSUME NEW r \in Runs, LeaseExpires(r) PROVE NavigationIsWork'
  BY <1>25 DEF TypeOK, Placed, NavigationIsWork, LeaseExpires
<1>26. CASE SemaphoreExpires
  BY <1>26 DEF TypeOK, Placed, NavigationIsWork, SemaphoreExpires
<1>27. CASE CacheLost
  BY <1>27 DEF TypeOK, Placed, NavigationIsWork, CacheLost
<1>28. ASSUME NEW r \in Runs, Reclaim(r) PROVE NavigationIsWork'
  BY <1>28 DEF TypeOK, Placed, NavigationIsWork, Reclaim, Overtake
<1>29. CASE Discover
  BY <1>29 DEF TypeOK, Placed, NavigationIsWork, Discover
<1>30. ASSUME NEW r \in Runs, FailDoomed(r) PROVE NavigationIsWork'
  BY <1>30 DEF TypeOK, Placed, NavigationIsWork, FailDoomed, FailSubscribers, Finish
<1>31. ASSUME NEW s \in Searches, NEW k \in Keys, DropSubscription(s, k) PROVE NavigationIsWork'
  BY <1>31 DEF TypeOK, Placed, NavigationIsWork, DropSubscription
<1>32. CASE UNCHANGED vars
  BY <1>32 DEF TypeOK, Placed, NavigationIsWork
<1> QED
  BY ONLY [Next]_vars, <1>1, <1>2, <1>3, <1>4, <1>5, <1>6, <1>7, <1>8, <1>9, <1>10, <1>11,
     <1>12, <1>13, <1>14, <1>15, <1>16, <1>17, <1>18, <1>19, <1>20, <1>21, <1>22, <1>23,
     <1>24, <1>25, <1>26, <1>27, <1>28, <1>29, <1>30, <1>31, <1>32 DEF Next, WorkerStep

\* A charge comes with the work of its attempt, or joins one whose work is in the ledger; an
\* acceptance ends a navigation.
LEMMA ChargedStep ==
  ASSUME BaseInv, NavigationIsWork, ChargedForWork, [Next]_vars
  PROVE  ChargedForWork'
<1> USE DEF BaseInv
<1>1. ASSUME NEW r \in Runs, CreateRun(r) PROVE ChargedForWork'
  BY <1>1 DEF TypeOK, Placed, ChargedForWork, CreateRun
<1>2. ASSUME NEW s \in Searches, NEW k \in Keys, Subscribe(s, k) PROVE ChargedForWork'
  BY <1>2 DEF TypeOK, Placed, ChargedForWork, Subscribe, OwedOnJoin
<1>3. ASSUME NEW s \in Searches, EndSearch(s) PROVE ChargedForWork'
  BY <1>3 DEF TypeOK, Placed, ChargedForWork, EndSearch, Finish, Overtake
<1>4. ASSUME NEW w \in Workers, NEW r \in Runs, Deliver(w, r) PROVE ChargedForWork'
  BY <1>4 DEF TypeOK, Placed, ChargedForWork, Deliver, Overtake, Goto
<1>5. ASSUME NEW w \in Workers, ReadHandle(w) PROVE ChargedForWork'
  BY <1>5 DEF TypeOK, Placed, ChargedForWork, ReadHandle, Goto
<1>6. ASSUME NEW w \in Workers, Refuse(w) PROVE ChargedForWork'
  BY <1>6 DEF TypeOK, Placed, ChargedForWork, Refuse, ReadsControl, Leave, Goto
<1>7. ASSUME NEW w \in Workers, Acquire(w) PROVE ChargedForWork'
  BY <1>7 DEF TypeOK, Placed, ChargedForWork, Acquire, ReadsControl, Goto
<1>8. ASSUME NEW w \in Workers, Defer(w) PROVE ChargedForWork'
  BY <1>8 DEF TypeOK, Placed, ChargedForWork, Defer, ReadsControl, Leave, Goto, Authorized,
     ReturnToPending
<1>9. ASSUME NEW w \in Workers, GiveUpHeld(w) PROVE ChargedForWork'
  BY <1>9 DEF TypeOK, Placed, ChargedForWork, GiveUpHeld, ReadsControl, Goto
<1>10. ASSUME NEW w \in Workers, Dispatch(w) PROVE ChargedForWork'
  BY <1>10 DEF TypeOK, Placed, ChargedForWork, Dispatch, ReadsControl, Goto
<1>11. ASSUME NEW w \in Workers, DispatchDenied(w) PROVE ChargedForWork'
  BY <1>11 DEF TypeOK, Placed, ChargedForWork, DispatchDenied, ReadsControl, Goto
<1>12. ASSUME NEW w \in Workers, Heartbeat(w) PROVE ChargedForWork'
  BY <1>12 DEF TypeOK, Placed, ChargedForWork, Heartbeat
<1>13. ASSUME NEW w \in Workers, Abort(w) PROVE ChargedForWork'
  BY <1>13 DEF TypeOK, Placed, ChargedForWork, Abort, Goto
<1>14. ASSUME NEW w \in Workers, Accept(w) PROVE ChargedForWork'
  BY <1>14 DEF TypeOK, Placed, ChargedForWork, Accept, Finish, Goto, NavigationIsWork
<1>15. ASSUME NEW w \in Workers, CompleteRecheck(w) PROVE ChargedForWork'
  BY <1>15 DEF TypeOK, Placed, ChargedForWork, CompleteRecheck, Finish, Goto,
     NavigationIsWork
<1>16. ASSUME NEW w \in Workers, AcceptanceRejected(w) PROVE ChargedForWork'
  BY <1>16 DEF TypeOK, Placed, ChargedForWork, AcceptanceRejected, Goto
<1>17. ASSUME NEW w \in Workers, FailNavigation(w) PROVE ChargedForWork'
  BY <1>17 DEF TypeOK, Placed, ChargedForWork, FailNavigation, FailSubscribers, Finish, Goto
<1>18. ASSUME NEW w \in Workers, AfterFailure(w) PROVE ChargedForWork'
  BY <1>18 DEF TypeOK, Placed, ChargedForWork, AfterFailure, Goto
<1>19. ASSUME NEW w \in Workers, NEW c \in Scopes, CloseFromNavigation(w, c) PROVE ChargedForWork'
  BY <1>19 DEF TypeOK, Placed, ChargedForWork, CloseFromNavigation, Close, Overtake, Goto
<1>20. ASSUME NEW w \in Workers, Release(w) PROVE ChargedForWork'
  BY <1>20 DEF TypeOK, Placed, ChargedForWork, Release, Leave, Goto
<1>21. ASSUME NEW w \in Workers, Crash(w) PROVE ChargedForWork'
  BY <1>21 DEF TypeOK, Placed, ChargedForWork, Crash, Leave, Goto
<1>22. ASSUME NEW c \in Scopes, CloseFromOutside(c) PROVE ChargedForWork'
  BY <1>22 DEF TypeOK, Placed, ChargedForWork, CloseFromOutside, Close, Overtake
<1>23. ASSUME NEW c \in Scopes, Reopen(c) PROVE ChargedForWork'
  BY <1>23 DEF TypeOK, Placed, ChargedForWork, Reopen
<1>24. ASSUME NEW c \in Scopes, PauseElapses(c) PROVE ChargedForWork'
  BY <1>24 DEF TypeOK, Placed, ChargedForWork, PauseElapses
<1>25. ASSUME NEW r \in Runs, LeaseExpires(r) PROVE ChargedForWork'
  BY <1>25 DEF TypeOK, Placed, ChargedForWork, LeaseExpires
<1>26. CASE SemaphoreExpires
  BY <1>26 DEF TypeOK, Placed, ChargedForWork, SemaphoreExpires
<1>27. CASE CacheLost
  BY <1>27 DEF TypeOK, Placed, ChargedForWork, CacheLost
<1>28. ASSUME NEW r \in Runs, Reclaim(r) PROVE ChargedForWork'
  BY <1>28 DEF TypeOK, Placed, ChargedForWork, Reclaim, Overtake
<1>29. CASE Discover
  BY <1>29 DEF TypeOK, Placed, ChargedForWork, Discover
<1>30. ASSUME NEW r \in Runs, FailDoomed(r) PROVE ChargedForWork'
  BY <1>30 DEF TypeOK, Placed, ChargedForWork, FailDoomed, FailSubscribers, Finish
<1>31. ASSUME NEW s \in Searches, NEW k \in Keys, DropSubscription(s, k) PROVE ChargedForWork'
  BY <1>31 DEF TypeOK, Placed, ChargedForWork, DropSubscription
<1>32. CASE UNCHANGED vars
  BY <1>32 DEF TypeOK, Placed, ChargedForWork
<1> QED
  BY ONLY [Next]_vars, <1>1, <1>2, <1>3, <1>4, <1>5, <1>6, <1>7, <1>8, <1>9, <1>10, <1>11,
     <1>12, <1>13, <1>14, <1>15, <1>16, <1>17, <1>18, <1>19, <1>20, <1>21, <1>22, <1>23,
     <1>24, <1>25, <1>26, <1>27, <1>28, <1>29, <1>30, <1>31, <1>32 DEF Next, WorkerStep

\* A recheck ends with its verdict in one statement, and only a run that is LEASED ends
\* otherwise.
LEMMA VerdictStep ==
  ASSUME BaseInv, VerdictIsTerminal, [Next]_vars
  PROVE  VerdictIsTerminal'
<1> USE DEF BaseInv
<1>1. ASSUME NEW r \in Runs, CreateRun(r) PROVE VerdictIsTerminal'
  BY <1>1 DEF TypeOK, Placed, VerdictIsTerminal, CreateRun
<1>2. ASSUME NEW s \in Searches, NEW k \in Keys, Subscribe(s, k) PROVE VerdictIsTerminal'
  BY <1>2 DEF TypeOK, Placed, VerdictIsTerminal, Subscribe
<1>3. ASSUME NEW s \in Searches, EndSearch(s) PROVE VerdictIsTerminal'
  BY <1>3 DEF TypeOK, Placed, VerdictIsTerminal, EndSearch, Finish, Overtake, LiveStates
<1>4. ASSUME NEW w \in Workers, NEW r \in Runs, Deliver(w, r) PROVE VerdictIsTerminal'
  BY <1>4 DEF TypeOK, Placed, VerdictIsTerminal, Deliver, Overtake, Goto
<1>5. ASSUME NEW w \in Workers, ReadHandle(w) PROVE VerdictIsTerminal'
  BY <1>5 DEF TypeOK, Placed, VerdictIsTerminal, ReadHandle, Goto
<1>6. ASSUME NEW w \in Workers, Refuse(w) PROVE VerdictIsTerminal'
  BY <1>6 DEF TypeOK, Placed, VerdictIsTerminal, Refuse, ReadsControl, Leave, Goto
<1>7. ASSUME NEW w \in Workers, Acquire(w) PROVE VerdictIsTerminal'
  BY <1>7 DEF TypeOK, Placed, VerdictIsTerminal, Acquire, ReadsControl, Goto
<1>8. ASSUME NEW w \in Workers, Defer(w) PROVE VerdictIsTerminal'
  BY <1>8 DEF TypeOK, Placed, VerdictIsTerminal, Defer, ReadsControl, Leave, Goto,
     Authorized, ReturnToPending
<1>9. ASSUME NEW w \in Workers, GiveUpHeld(w) PROVE VerdictIsTerminal'
  BY <1>9 DEF TypeOK, Placed, VerdictIsTerminal, GiveUpHeld, ReadsControl, Goto
<1>10. ASSUME NEW w \in Workers, Dispatch(w) PROVE VerdictIsTerminal'
  BY <1>10 DEF TypeOK, Placed, VerdictIsTerminal, Dispatch, ReadsControl, Goto
<1>11. ASSUME NEW w \in Workers, DispatchDenied(w) PROVE VerdictIsTerminal'
  BY <1>11 DEF TypeOK, Placed, VerdictIsTerminal, DispatchDenied, ReadsControl, Goto
<1>12. ASSUME NEW w \in Workers, Heartbeat(w) PROVE VerdictIsTerminal'
  BY <1>12 DEF TypeOK, Placed, VerdictIsTerminal, Heartbeat
<1>13. ASSUME NEW w \in Workers, Abort(w) PROVE VerdictIsTerminal'
  BY <1>13 DEF TypeOK, Placed, VerdictIsTerminal, Abort, Goto
<1>14. ASSUME NEW w \in Workers, Accept(w) PROVE VerdictIsTerminal'
  BY <1>14 DEF TypeOK, Placed, VerdictIsTerminal, Accept, Finish, Goto, Acceptable,
     Authorized
<1>15. ASSUME NEW w \in Workers, CompleteRecheck(w) PROVE VerdictIsTerminal'
  BY <1>15 DEF TypeOK, Placed, VerdictIsTerminal, CompleteRecheck, Finish, Goto, Acceptable,
     Authorized
<1>16. ASSUME NEW w \in Workers, AcceptanceRejected(w) PROVE VerdictIsTerminal'
  BY <1>16 DEF TypeOK, Placed, VerdictIsTerminal, AcceptanceRejected, Goto
<1>17. ASSUME NEW w \in Workers, FailNavigation(w) PROVE VerdictIsTerminal'
  BY <1>17 DEF TypeOK, Placed, VerdictIsTerminal, FailNavigation, FailSubscribers, Finish,
     Goto, Authorized
<1>18. ASSUME NEW w \in Workers, AfterFailure(w) PROVE VerdictIsTerminal'
  BY <1>18 DEF TypeOK, Placed, VerdictIsTerminal, AfterFailure, Goto, Authorized
<1>19. ASSUME NEW w \in Workers, NEW c \in Scopes, CloseFromNavigation(w, c) PROVE VerdictIsTerminal'
  BY <1>19 DEF TypeOK, Placed, VerdictIsTerminal, CloseFromNavigation, Close, Overtake, Goto
<1>20. ASSUME NEW w \in Workers, Release(w) PROVE VerdictIsTerminal'
  BY <1>20 DEF TypeOK, Placed, VerdictIsTerminal, Release, Leave, Goto
<1>21. ASSUME NEW w \in Workers, Crash(w) PROVE VerdictIsTerminal'
  BY <1>21 DEF TypeOK, Placed, VerdictIsTerminal, Crash, Leave, Goto
<1>22. ASSUME NEW c \in Scopes, CloseFromOutside(c) PROVE VerdictIsTerminal'
  BY <1>22 DEF TypeOK, Placed, VerdictIsTerminal, CloseFromOutside, Close, Overtake
<1>23. ASSUME NEW c \in Scopes, Reopen(c) PROVE VerdictIsTerminal'
  BY <1>23 DEF TypeOK, Placed, VerdictIsTerminal, Reopen
<1>24. ASSUME NEW c \in Scopes, PauseElapses(c) PROVE VerdictIsTerminal'
  BY <1>24 DEF TypeOK, Placed, VerdictIsTerminal, PauseElapses
<1>25. ASSUME NEW r \in Runs, LeaseExpires(r) PROVE VerdictIsTerminal'
  BY <1>25 DEF TypeOK, Placed, VerdictIsTerminal, LeaseExpires
<1>26. CASE SemaphoreExpires
  BY <1>26 DEF TypeOK, Placed, VerdictIsTerminal, SemaphoreExpires
<1>27. CASE CacheLost
  BY <1>27 DEF TypeOK, Placed, VerdictIsTerminal, CacheLost
<1>28. ASSUME NEW r \in Runs, Reclaim(r) PROVE VerdictIsTerminal'
  BY <1>28 DEF TypeOK, Placed, VerdictIsTerminal, Reclaim, Overtake
<1>29. CASE Discover
  BY <1>29 DEF TypeOK, Placed, VerdictIsTerminal, Discover
<1>30. ASSUME NEW r \in Runs, FailDoomed(r) PROVE VerdictIsTerminal'
  BY <1>30 DEF TypeOK, Placed, VerdictIsTerminal, FailDoomed, FailSubscribers, Finish
<1>31. ASSUME NEW s \in Searches, NEW k \in Keys, DropSubscription(s, k) PROVE VerdictIsTerminal'
  BY <1>31 DEF TypeOK, Placed, VerdictIsTerminal, DropSubscription
<1>32. CASE UNCHANGED vars
  BY <1>32 DEF TypeOK, Placed, VerdictIsTerminal
<1> QED
  BY ONLY [Next]_vars, <1>1, <1>2, <1>3, <1>4, <1>5, <1>6, <1>7, <1>8, <1>9, <1>10, <1>11,
     <1>12, <1>13, <1>14, <1>15, <1>16, <1>17, <1>18, <1>19, <1>20, <1>21, <1>22, <1>23,
     <1>24, <1>25, <1>26, <1>27, <1>28, <1>29, <1>30, <1>31, <1>32 DEF Next, WorkerStep

RunsInv ==
  /\ BaseInv
  /\ SemaphoreExcludes
  /\ OvertakenIsLate /\ InFlightIsPermitted
  /\ NavigationIsWork /\ ChargedForWork
  /\ VerdictIsTerminal

\* A database without runs, and idle workers, satisfy the invariant.
LEMMA InitRunsInv == Init => RunsInv
<1> SUFFICES ASSUME Init PROVE RunsInv OBVIOUS
<1>1. BaseInv
  BY AttemptsAssumption
     DEF Init, BaseInv, TypeOK, Placed, UnbornIsUnused, AttemptsWithinBudget, Steps
<1>2. SemaphoreExcludes /\ OvertakenIsLate /\ InFlightIsPermitted /\ NavigationIsWork
  BY DEF Init, SemaphoreExcludes, OvertakenIsLate, InFlightIsPermitted, NavigationIsWork,
         Holding
<1>3. ChargedForWork /\ VerdictIsTerminal
  BY DEF Init, ChargedForWork, VerdictIsTerminal
<1> QED
  BY <1>1, <1>2, <1>3 DEF RunsInv

\* RunsInv holds in every reachable state.
THEOREM RunsInvariance == Spec => []RunsInv
<1>1. RunsInv /\ [Next]_vars => RunsInv'
  <2> SUFFICES ASSUME RunsInv, [Next]_vars PROVE RunsInv'
    OBVIOUS
  <2>1. BaseInv'
    BY TypeStep, PlacedStep, UnbornStep, BudgetStep DEF RunsInv, BaseInv
  <2>2. SemaphoreExcludes' /\ OvertakenIsLate' /\ InFlightIsPermitted'
    BY SemaphoreStep, OvertakenStep, PermittedStep DEF RunsInv
  <2>3. NavigationIsWork' /\ ChargedForWork' /\ VerdictIsTerminal'
    BY WorkStep, ChargedStep, VerdictStep DEF RunsInv
  <2> QED
    BY <2>1, <2>2, <2>3 DEF RunsInv
<1> QED
  BY InitRunsInv, <1>1, PTL DEF Spec

\* Every column, cache entry and worker keeps its domain; no attempt count goes below zero.
THEOREM RunTypesCorrect == Spec => []TypeOK
<1>1. RunsInv => TypeOK BY DEF RunsInv, BaseInv
<1> QED BY <1>1, RunsInvariance, PTL

\* A worker between its acquisition and its release is the holder of the semaphore, unless
\* its own entry expired: a late release frees nobody else's.
THEOREM CapacityOne == Spec => []SemaphoreExcludes
<1>1. RunsInv => SemaphoreExcludes BY DEF RunsInv
<1> QED BY <1>1, RunsInvariance, PTL

\* A navigation whose writes would be taken is one B4 would permit now, and none of its
\* scopes closed since it was dispatched: the generation fence of B9 stops what a halt, and
\* a reopen after it, left in flight.
THEOREM PermittedFlights == Spec => []InFlightIsPermitted
<1>1. RunsInv => InFlightIsPermitted BY DEF RunsInv
<1> QED BY <1>1, RunsInvariance, PTL

\* Nobody is charged for an attempt that did no provider work, and what was accepted was
\* paid for.
THEOREM EarnedCharges == Spec => []ChargedForWork
<1>1. RunsInv => ChargedForWork BY DEF RunsInv
<1> QED BY <1>1, RunsInvariance, PTL

\* Deferrals, leases, reclaims and both budgets agree: no run exceeds the sweeper's budget,
\* and a waiting run can still be leased.
THEOREM BudgetedAttempts == Spec => []AttemptsWithinBudget
<1>1. RunsInv => AttemptsWithinBudget BY DEF RunsInv, BaseInv
<1> QED BY <1>1, RunsInvariance, PTL

\* A recheck is DONE exactly when its verdict is recorded.
THEOREM TerminalVerdicts == Spec => []VerdictIsTerminal
<1>1. RunsInv => VerdictIsTerminal BY DEF RunsInv
<1> QED BY <1>1, RunsInvariance, PTL
=============================================================================
