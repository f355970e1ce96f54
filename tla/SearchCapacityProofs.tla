-------------------------- MODULE SearchCapacityProofs --------------------------
(***************************************************************************)
(* The accounting of capacity, and what a terminal answer may say, for     *)
(* every value of the constants.  Two invariants on top of WakeupInv:      *)
(*                                                                         *)
(* CapacityInv  what one search owes and has had (Accounted), and the      *)
(*              provider's counters as the number of units and slots its   *)
(*              unreleased reservations hold.  A step moves a counter by   *)
(*              the size of the set of units it releases, so each class of *)
(*              step (creation, draw-down, reconciliation, end) comes with *)
(*              a bijection between that set and the amount in the code.   *)
(* OutcomeInv   what the schedule outcomes, counts and jobs of a search    *)
(*              say of each other, from which the derived status follows.  *)
(***************************************************************************)
EXTENDS SearchWakeupProofs

USE DEF vars, searchVars, subVars, jobVars, reservationVars, admissionVars,
        aggregationVars, providerVars

-----------------------------------------------------------------------------
(* Counting *)

\* Two sets between which a function is one to one and onto have the same size.
LEMMA SameSize ==
  ASSUME NEW A, NEW B, IsFiniteSet(A), NEW f \in [A -> B],
         \A x, y \in A : f[x] = f[y] => x = y, \A z \in B : \E x \in A : f[x] = z
  PROVE  IsFiniteSet(B) /\ Cardinality(B) = Cardinality(A)
<1>1. f \in Bijection(A, B)
  BY DEF Bijection, Injection, Surjection, IsInjective
<1>2. ExistsBijection(A, B)
  BY <1>1 DEF ExistsBijection
<1> QED
  BY <1>2, FS_Bijection

\* What a finite set loses by shrinking is the size of what left it.
LEMMA SizeOfTheRest ==
  ASSUME NEW B, IsFiniteSet(B), NEW A \in SUBSET B
  PROVE  /\ IsFiniteSet(A) /\ Cardinality(A) \in Nat /\ Cardinality(B) \in Nat
         /\ Cardinality(B \ A) \in Nat
         /\ Cardinality(A) = Cardinality(B) - Cardinality(B \ A)
<1>1. B \cap A = A
  OBVIOUS
<1>2. IsFiniteSet(A) /\ IsFiniteSet(B \ A)
  BY FS_Subset
<1>3. Cardinality(B \ A) = Cardinality(B) - Cardinality(A)
  BY <1>1, FS_Difference
<1> QED
  BY <1>2, <1>3, FS_CardinalityType

\* Units of capacity: the i-th unit of the reservation of search s is <<s, i>>.
Grid == Searches \X (1 .. Reserve)

\* There are finitely many units to reserve.
LEMMA GridIsFinite == IsFiniteSet(Grid)
<1>1. IsFiniteSet(1 .. Reserve)
  BY FS_Interval, BoundsAssumption
<1> QED
  BY <1>1, FS_Product, KeysAssumption DEF Grid

\* n units of one search are n units.
LEMMA UnitsOfOneSearch ==
  ASSUME NEW s \in Searches, NEW n \in 0 .. Reserve
  PROVE  Cardinality({u \in Grid : u[1] = s /\ u[2] <= n}) = n
<1> DEFINE T == {u \in Grid : u[1] = s /\ u[2] <= n}
<1> DEFINE f == [i \in 1 .. n |-> <<s, i>>]
<1>1. IsFiniteSet(1 .. n) /\ Cardinality(1 .. n) = n
  BY FS_Interval, BoundsAssumption
<1>2. f \in [1 .. n -> T]
  BY BoundsAssumption DEF Grid
<1>3. \A x, y \in 1 .. n : f[x] = f[y] => x = y
  OBVIOUS
<1>4. \A z \in T : \E x \in 1 .. n : f[x] = z
  <2> TAKE z \in T
  <2>1. z = <<s, z[2]>> /\ z[2] \in 1 .. n
    BY BoundsAssumption DEF Grid
  <2> QED
    BY <2>1
<1> HIDE DEF T, f
<1>5. Cardinality(T) = n
  BY <1>1, <1>2, <1>3, <1>4, SameSize
<1> QED
  BY <1>5 DEF T

\* One unit per search of S is as many units as S has searches.
LEMMA OneUnitEach ==
  ASSUME NEW S \in SUBSET Searches, NEW h, \A s \in S : h[s] \in 1 .. Reserve
  PROVE  Cardinality({u \in Grid : u[1] \in S /\ u[2] = h[u[1]]}) = Cardinality(S)
<1> DEFINE T == {u \in Grid : u[1] \in S /\ u[2] = h[u[1]]}
<1> DEFINE f == [s \in S |-> <<s, h[s]>>]
<1>1. IsFiniteSet(S)
  BY SubsetOfSearchesCounts
<1>2. f \in [S -> T]
  BY DEF Grid
<1>3. \A x, y \in S : f[x] = f[y] => x = y
  OBVIOUS
<1>4. \A z \in T : \E x \in S : f[x] = z
  <2> TAKE z \in T
  <2>1. z = <<z[1], h[z[1]]>> /\ z[1] \in S
    BY DEF Grid
  <2> QED
    BY <2>1
<1> HIDE DEF T, f
<1>5. Cardinality(T) = Cardinality(S)
  BY <1>1, <1>2, <1>3, <1>4, SameSize
<1> QED
  BY <1>5 DEF T

\* The units between two levels of each reservation.
Between(R, low, high) == {u \in Grid : u[1] \in R /\ low[u[1]] < u[2] /\ u[2] <= high[u[1]]}

\* Both levels moved by the same amount, search by search, leave as many units between.
LEMMA ShiftedUnits ==
  ASSUME NEW R \in SUBSET Searches, NEW d,
         NEW low, NEW high, NEW low2, NEW high2,
         \A s \in R : /\ d[s] \in Int /\ low[s] \in Nat /\ high[s] \in Int /\ high[s] <= Reserve
                      /\ low2[s] \in Nat /\ high2[s] \in Int /\ high2[s] <= Reserve
                      /\ low2[s] = low[s] + d[s] /\ high2[s] = high[s] + d[s]
  PROVE  Cardinality(Between(R, low2, high2)) = Cardinality(Between(R, low, high))
<1> DEFINE A == Between(R, low, high)
<1> DEFINE B == Between(R, low2, high2)
<1> DEFINE f == [u \in A |-> <<u[1], u[2] + d[u[1]]>>]
<1>1. IsFiniteSet(A)
  BY GridIsFinite, FS_Subset DEF Between
<1>2. ASSUME NEW u \in A PROVE f[u] \in B
  <2>1. u[1] \in R /\ u[2] \in Int /\ low[u[1]] < u[2] /\ u[2] <= high[u[1]]
    BY DEF Between, Grid
  <2>2. /\ low2[u[1]] < u[2] + d[u[1]] /\ u[2] + d[u[1]] <= high2[u[1]]
        /\ u[2] + d[u[1]] \in 1 .. Reserve
    BY <2>1, BoundsAssumption
  <2>3. f[u] = <<u[1], u[2] + d[u[1]]>>
    OBVIOUS
  <2> QED
    BY <2>1, <2>2, <2>3 DEF Between, Grid
<1>3. \A x, y \in A : f[x] = f[y] => x = y
  <2> SUFFICES ASSUME NEW x \in A, NEW y \in A, f[x] = f[y] PROVE x = y
    OBVIOUS
  <2>1. x = <<x[1], x[2]>> /\ y = <<y[1], y[2]>> /\ x[1] \in R /\ x[2] \in Int /\ y[2] \in Int
    BY DEF Between, Grid
  <2>2. x[1] = y[1] /\ x[2] + d[x[1]] = y[2] + d[y[1]]
    OBVIOUS
  <2> QED
    BY <2>1, <2>2
<1>4. ASSUME NEW z \in B PROVE \E x \in A : f[x] = z
  <2> DEFINE x == <<z[1], z[2] - d[z[1]]>>
  <2>1. z = <<z[1], z[2]>> /\ z[1] \in R /\ z[2] \in Int
        /\ low2[z[1]] < z[2] /\ z[2] <= high2[z[1]]
    BY DEF Between, Grid
  <2>2. /\ low[z[1]] < z[2] - d[z[1]] /\ z[2] - d[z[1]] <= high[z[1]]
        /\ z[2] - d[z[1]] \in 1 .. Reserve
    BY <2>1, BoundsAssumption
  <2>3. x \in A
    BY <2>1, <2>2 DEF Between, Grid
  <2>4. (z[2] - d[z[1]]) + d[z[1]] = z[2]
    BY <2>1
  <2>5. f[x] = z
    BY <2>1, <2>3, <2>4
  <2> QED
    BY <2>3, <2>5
<1>5. f \in [A -> B]
  BY <1>2
<1> HIDE DEF A, B, f
<1>6. Cardinality(B) = Cardinality(A)
  BY <1>1, <1>3, <1>4, <1>5, SameSize
<1> QED
  BY <1>6 DEF A, B
-----------------------------------------------------------------------------
(* The invariant *)

\* The showtimes a search subscribed to, and those of them that were drawn down.
Wanted(s) == FetchSubscriptions(s, SubStates \ {"NONE"})
Drawn(s) == FetchSubscriptions(s, {"SATISFIED", "CANCELLED"})

\* The units and the slots that unreleased reservations hold.
Units == {u \in Grid : ~released[u[1]] /\ u[2] <= remaining[u[1]]}
Slots == {s \in Searches : slot[s] /\ ~reconciled[s] /\ ~released[s]}

\* A search that does not exist reserves nothing and claims nothing.
Blank(s) ==
  /\ total[s] = 0 /\ remaining[s] = 0 /\ seed[s] = 0 /\ matches[s] = 0
  /\ ~slot[s] /\ ~reconciled[s] /\ cause[s] = "NULL"

\* The reservation covers what was subscribed and counts what was drawn; no showtime was
\* subscribed without having been matched.
Balanced(s) ==
  /\ total[s] - remaining[s] = Cardinality(Drawn(s))
  /\ Cardinality(Wanted(s)) <= total[s]
  /\ Cardinality(Wanted(s)) <= seed[s] + matches[s]

\* Until every schedule key is counted, the slot and the cold reservation stand.
Scheduled(s) ==
  /\ \A k \in ScheduleKeys :
       sub[s][k] # "NONE" => slot[s] /\ (reconciled[s] => k \in counted[s])
  /\ slot[s] /\ ~reconciled[s] => total[s] = Reserve

Accounted(s) ==
  /\ status[s] = "NONE" => Blank(s)
  /\ total[s] <= Reserve
  /\ slot[s] => ~released[s]
  /\ reconciled[s] => total[s] = seed[s] + matches[s] /\ total[s] <= Ceiling
  /\ denied[s] \/ cause[s] = "CAPACITY" => seed[s] + matches[s] > Ceiling
  /\ Live(s) => Balanced(s) /\ Scheduled(s)

\* The parts of CapacityInv that are not WakeupInv.
CapacityParts ==
  /\ \A s \in Searches : Accounted(s)
  /\ AdmissionConservation
  /\ AdmissionWithinLimits

CapacityInv == WakeupInv /\ CapacityParts

\* The showtimes of one search can be counted, and those drawn are among those wanted.
LEMMA WantedCounts ==
  ASSUME NEW s \in Searches
  PROVE  /\ IsFiniteSet(Wanted(s)) /\ Cardinality(Wanted(s)) \in Nat
         /\ Drawn(s) \subseteq Wanted(s)
         /\ Cardinality(Drawn(s)) \in Nat /\ Cardinality(Drawn(s)) <= Cardinality(Wanted(s))
<1>1. Wanted(s) \in SUBSET FetchKeys
  BY DEF Wanted, FetchSubscriptions
<1>2. IsFiniteSet(Wanted(s)) /\ Cardinality(Wanted(s)) \in Nat
  BY <1>1, FS_Subset, FS_CardinalityType, KeysAssumption
<1>3. Drawn(s) \in SUBSET Wanted(s)
  BY DEF Drawn, Wanted, FetchSubscriptions, SubStates
<1> QED
  BY <1>2, <1>3, FS_Subset, FS_CardinalityType

\* A balance is never negative nor above the reserve, and whoever still waits for a
\* showtime holds at least the unit its end will draw.
LEMMA BalanceBounds ==
  ASSUME SafetyInv, NEW s \in Searches, Accounted(s)
  PROVE  /\ remaining[s] \in 0 .. Reserve /\ remaining[s] <= total[s]
         /\ \A k \in FetchKeys : Live(s) /\ sub[s][k] = "LIVE" => remaining[s] > 0
<1>1. total[s] \in Nat /\ remaining[s] \in Int /\ total[s] <= Reserve
  BY DEF SafetyInv, TypeOK, Accounted
<1>2. CASE Live(s)
  <2>1. /\ total[s] - remaining[s] = Cardinality(Drawn(s))
        /\ Cardinality(Wanted(s)) <= total[s]
    BY <1>2 DEF Accounted, Balanced
  <2>2. ASSUME NEW k \in FetchKeys, sub[s][k] = "LIVE"
        PROVE  Cardinality(Drawn(s)) < Cardinality(Wanted(s))
    <3>1. k \in Wanted(s) /\ k \notin Drawn(s)
      BY <2>2 DEF Wanted, Drawn, FetchSubscriptions, SubStates
    <3>2. Drawn(s) \in SUBSET Wanted(s) /\ Drawn(s) # Wanted(s)
      BY <3>1, WantedCounts
    <3>3. Cardinality(Drawn(s)) # Cardinality(Wanted(s))
      BY <3>2, WantedCounts, FS_Subset
    <3> QED
      BY <3>3, WantedCounts
  <2> QED
    BY <1>1, <2>1, <2>2, WantedCounts, BoundsAssumption
<1>3. CASE ~Live(s)
  <2>1. status[s] = "NONE" \/ Terminal(s)
    BY <1>3 DEF SafetyInv, TypeOK, Live, Terminal
  <2>2. remaining[s] = 0
    BY <2>1 DEF Accounted, Blank, SafetyInv, TerminalIsQuiet
  <2> QED
    BY <1>1, <1>3, <2>2, BoundsAssumption
<1> QED
  BY <1>2, <1>3

\* The reservations' units and slots are finitely many.
LEMMA UnitsAreFinite == IsFiniteSet(Units) /\ IsFiniteSet(Slots)
<1>1. Units \in SUBSET Grid /\ Slots \in SUBSET Searches
  BY DEF Units, Slots
<1> QED
  BY <1>1, GridIsFinite, FS_Subset, KeysAssumption

\* A step that takes from the counters what it takes from the reservations keeps the
\* provider's admission conserved and within its limits.
LEMMA CountersFollow ==
  ASSUME AdmissionConservation, AdmissionWithinLimits,
         Units' \subseteq Units, Slots' \subseteq Slots,
         pendingCost' = pendingCost - Cardinality(Units \ Units'),
         unresolved' = unresolved - Cardinality(Slots \ Slots')
  PROVE  AdmissionConservation' /\ AdmissionWithinLimits'
<1>1. pendingCost = Cardinality(Units) /\ unresolved = Cardinality(Slots)
  BY DEF AdmissionConservation, Units, Slots, Grid
<1>2. /\ Cardinality(Units') = Cardinality(Units) - Cardinality(Units \ Units')
      /\ Cardinality(Units') \in Nat /\ Cardinality(Units \ Units') \in Nat
  BY UnitsAreFinite, SizeOfTheRest
<1>3. /\ Cardinality(Slots') = Cardinality(Slots) - Cardinality(Slots \ Slots')
      /\ Cardinality(Slots') \in Nat /\ Cardinality(Slots \ Slots') \in Nat
  BY UnitsAreFinite, SizeOfTheRest
<1>4. pendingCost' = Cardinality(Units') /\ unresolved' = Cardinality(Slots')
  BY <1>1, <1>2, <1>3
<1>5. AdmissionConservation'
  BY <1>4 DEF AdmissionConservation, Units, Slots, Grid
<1>6. AdmissionWithinLimits'
  BY <1>1, <1>2, <1>3, <1>4, BoundsAssumption DEF AdmissionWithinLimits
<1> QED
  BY <1>5, <1>6
-----------------------------------------------------------------------------
(* Steps that leave the capacity alone, and creation *)

\* Nothing the account of search s depends on was written.
SameAccount(s) ==
  /\ status'[s] = status[s] /\ cause'[s] = cause[s] /\ denied'[s] = denied[s]
  /\ sub'[s] = sub[s] /\ counted'[s] = counted[s] /\ matches'[s] = matches[s]
  /\ seed'[s] = seed[s] /\ total'[s] = total[s] /\ remaining'[s] = remaining[s]
  /\ slot'[s] = slot[s] /\ reconciled'[s] = reconciled[s] /\ released'[s] = released[s]

\* What no account depends on may change.
LEMMA SameAccountStands ==
  ASSUME NEW s \in Searches, Accounted(s), SameAccount(s)
  PROVE  Accounted(s)'
<1>1. Wanted(s)' = Wanted(s) /\ Drawn(s)' = Drawn(s)
  BY DEF SameAccount, Wanted, Drawn, FetchSubscriptions
<1>2. Live(s)' <=> Live(s)
  BY DEF SameAccount, Live
<1>3. Blank(s) => Blank(s)'
  BY DEF SameAccount, Blank
<1>4. Balanced(s) => Balanced(s)'
  BY <1>1 DEF SameAccount, Balanced
<1>5. Scheduled(s) => Scheduled(s)'
  BY DEF SameAccount, Scheduled
<1> QED
  BY <1>2, <1>3, <1>4, <1>5 DEF SameAccount, Accounted

\* What the passes, the leases and the control transitions leave alone.
LEMMA QuietAccounts ==
  ASSUME CapacityInv,
         UNCHANGED <<status, cause, denied, sub, counted, matches, seed, total, remaining, slot,
                     reconciled, released, pendingCost, unresolved>>
  PROVE  CapacityParts'
<1>1. \A s \in Searches : SameAccount(s)
  BY DEF SameAccount
<1>2. \A s \in Searches : Accounted(s)'
  BY <1>1, SameAccountStands DEF CapacityInv, CapacityParts
<1>3. AdmissionConservation' /\ AdmissionWithinLimits'
  BY DEF CapacityInv, CapacityParts, AdmissionConservation, AdmissionWithinLimits
<1> QED
  BY <1>2, <1>3 DEF CapacityParts

\* Stage-1 admission reserves what it adds to the counters, within their limits.
LEMMA CreateSearchAccounts ==
  ASSUME CapacityInv, NEW s \in Searches, NEW scheduled \in SUBSET ScheduleKeys,
         NEW matched \in SUBSET FetchKeys, NEW admitted \in SUBSET matched,
         CreateSearch(s, scheduled, matched, admitted)
  PROVE  CapacityParts'
<1> DEFINE cold == scheduled # {}
<1> DEFINE reserve == IF cold THEN Reserve ELSE Cardinality(matched)
<1>1. SafetyInv /\ TypeOK /\ CapacityParts /\ ~denied[s] /\ status[s] = "NONE" /\ Accounted(s)
  BY DEF CapacityInv, CapacityParts, WakeupInv, SafetyInv, UnbornIsNotDenied, CreateSearch
<1>2. Blank(s) /\ ~released[s] /\ counted[s] = {}
  <2>1. ~released[s]
    BY <1>1 DEF SafetyInv, ReleasedAtTheEnd, Terminal, TerminalStatuses
  <2>2. counted[s] = {}
    BY <1>1 DEF SafetyInv, TypeOK, UnbornIsUnsubscribed, UnsubscribedIsBlank, Keys
  <2> QED
    BY <1>1, <2>1, <2>2 DEF Accounted
<1>3. /\ IsFiniteSet(matched) /\ IsFiniteSet(admitted)
      /\ Cardinality(matched) \in Nat /\ Cardinality(admitted) \in Nat
      /\ Cardinality(admitted) <= Cardinality(matched) /\ Cardinality(matched) <= Ceiling
  BY FS_Subset, FS_CardinalityType, KeysAssumption DEF CreateSearch
<1>4. /\ reserve \in 0 .. Reserve /\ Cardinality(admitted) <= reserve
      /\ Cardinality(matched) <= reserve /\ (cold => reserve = Reserve)
  BY <1>3, ReserveCoversCeiling, BoundsAssumption
<1>5. /\ status'[s] \in LiveStatuses /\ seed'[s] = Cardinality(matched)
      /\ total'[s] = reserve /\ remaining'[s] = reserve /\ slot'[s] = cold
      /\ \A k \in Keys : sub'[s][k] = IF k \in scheduled \cup admitted THEN "LIVE" ELSE "NONE"
      /\ cause'[s] = "NULL" /\ ~denied'[s] /\ matches'[s] = 0
      /\ ~reconciled'[s] /\ ~released'[s]
  BY <1>1, <1>2 DEF TypeOK, CreateSearch, LiveStatuses, Blank
<1>6. /\ pendingCost' = pendingCost + reserve
      /\ pendingCost + reserve <= CostLimit
      /\ unresolved' = (IF cold THEN unresolved + 1 ELSE unresolved)
      /\ cold => unresolved + 1 <= UnresolvedLimit
  BY DEF CreateSearch, Stage1Admits
<1>7. \A t \in Searches \ {s} : SameAccount(t)
  BY <1>1 DEF TypeOK, CreateSearch, SameAccount
<1> HIDE DEF cold, reserve
<1>8. Accounted(s)'
  <2>1. Wanted(s)' = admitted /\ Drawn(s)' = {}
    <3>1. \A k \in FetchKeys : sub'[s][k] = IF k \in admitted THEN "LIVE" ELSE "NONE"
      BY <1>5, KeysAssumption DEF Keys
    <3> QED
      BY <3>1 DEF Wanted, Drawn, FetchSubscriptions, SubStates
  <2>2. Balanced(s)'
    BY <1>3, <1>4, <1>5, <2>1, FS_EmptySet, BoundsAssumption DEF Balanced
  <2>3. Scheduled(s)'
    BY <1>4, <1>5, KeysAssumption DEF Scheduled, Keys, cold
  <2> QED
    BY <1>3, <1>4, <1>5, <2>2, <2>3, BoundsAssumption DEF Accounted, LiveStatuses
<1>9. \A t \in Searches : Accounted(t)'
  BY <1>1, <1>7, <1>8, SameAccountStands DEF CapacityParts
<1>10. pendingCost' = Cardinality(Units')
  <2> DEFINE new == {u \in Grid : u[1] = s /\ u[2] <= reserve}
  <2>1. \A u \in Grid : u[1] \in Searches /\ u[2] \in 1 .. Reserve
    BY DEF Grid
  <2>2. /\ \A u \in Grid : u[1] # s => (u \in Units' <=> u \in Units)
        /\ \A u \in Grid : u[1] = s => (u \in Units' <=> u[2] <= reserve)
        /\ \A u \in Grid : u[1] = s => u \notin Units
    BY <1>2, <1>5, <1>7, <2>1, BoundsAssumption DEF Units, SameAccount, Blank
  <2>3. Units \subseteq Grid /\ Units' \subseteq Grid
    BY DEF Units
  <2>4. new = Units' \ Units /\ Units \subseteq Units'
    BY <2>2, <2>3
  <2>5. Cardinality(new) = reserve
    BY <1>4, UnitsOfOneSearch
  <2>6. IsFiniteSet(Units')
    BY <2>3, GridIsFinite, FS_Subset
  <2>7. /\ Cardinality(Units) = Cardinality(Units') - Cardinality(Units' \ Units)
        /\ Cardinality(Units') \in Nat
    BY <2>4, <2>6, SizeOfTheRest
  <2>8. pendingCost = Cardinality(Units)
    BY <1>1 DEF CapacityParts, AdmissionConservation, Units, Grid
  <2> HIDE DEF new
  <2>9. reserve \in Nat /\ Cardinality(Units' \ Units) = reserve
    BY <1>4, <2>4, <2>5, BoundsAssumption
  <2> QED
    BY <1>6, <2>7, <2>8, <2>9
<1>11. unresolved' = Cardinality(Slots')
  <2>1. unresolved = Cardinality(Slots) /\ IsFiniteSet(Slots) /\ s \notin Slots
    BY <1>1, <1>2, UnitsAreFinite DEF CapacityParts, AdmissionConservation, Slots, Blank
  <2>2. Slots' = IF cold THEN Slots \cup {s} ELSE Slots
    BY <1>2, <1>5, <1>7 DEF Slots, SameAccount, Blank
  <2> QED
    BY <1>6, <2>1, <2>2, FS_AddElement
<1>12. AdmissionConservation'
  BY <1>10, <1>11 DEF AdmissionConservation, Units, Slots, Grid
<1>13. AdmissionWithinLimits'
  BY <1>1, <1>4, <1>6, BoundsAssumption DEF CapacityParts, AdmissionWithinLimits
<1> QED
  BY <1>9, <1>12, <1>13 DEF CapacityParts
-----------------------------------------------------------------------------
(* Draw-downs *)

\* The subscriptions of the searches of S to the showtime k end, and each draws one unit.
Draws(S, k, to) ==
  /\ \A s \in S : Live(s) /\ sub[s][k] = "LIVE"
  /\ to \in {"SATISFIED", "CANCELLED"}
  /\ sub' = [s \in Searches |-> [sub[s] EXCEPT ![k] = IF s \in S THEN to ELSE @]]
  /\ DrawDown(S)
  /\ UNCHANGED <<status, cause, denied, counted, matches, seed, total, slot, reconciled,
                 released>>

\* Whoever still waits for a showtime holds a unit to draw, so the counter and the
\* balances move by the same amount.
LEMMA DrawsAccount ==
  ASSUME CapacityInv, NEW k \in FetchKeys, NEW S \in SUBSET Searches, NEW to,
         Draws(S, k, to)
  PROVE  CapacityParts'
<1>1. SafetyInv /\ TypeOK /\ CapacityParts /\ k \in Keys
  BY DEF CapacityInv, WakeupInv, SafetyInv, Keys
<1>2. ASSUME NEW s \in S
      PROVE  Live(s) /\ ~released[s] /\ remaining[s] \in 1 .. Reserve /\ sub[s][k] = "LIVE"
  <2>1. Live(s) /\ sub[s][k] = "LIVE" /\ Accounted(s)
    BY <1>1 DEF Draws, CapacityParts
  <2>2. remaining[s] \in 0 .. Reserve /\ remaining[s] > 0
    BY <1>1, <2>1, BalanceBounds
  <2>3. ~released[s]
    BY <1>1, <2>1, LiveIsNotTerminal DEF SafetyInv, ReleasedAtTheEnd
  <2> QED
    BY <2>1, <2>2, <2>3, BoundsAssumption
<1>3. \A s \in Searches :
        /\ remaining'[s] = IF s \in S THEN remaining[s] - 1 ELSE remaining[s]
        /\ \A j \in Keys : sub'[s][j] = IF s \in S /\ j = k THEN to ELSE sub[s][j]
  BY <1>1, <1>2 DEF Draws, DrawDown, TypeOK
<1>4. \A s \in Searches \ S : SameAccount(s)
  <2>1. \A s \in Searches \ S : sub'[s] = sub[s]
    BY <1>1, <1>3 DEF Draws, TypeOK
  <2> QED
    BY <1>3, <2>1 DEF Draws, SameAccount
<1>5. ASSUME NEW s \in S PROVE Accounted(s)'
  <2>1. to \in {"SATISFIED", "CANCELLED"}
    BY DEF Draws
  <2>2. Accounted(s) /\ Live(s) /\ sub[s][k] = "LIVE"
    BY <1>1, <1>2 DEF CapacityParts
  <2>3. Wanted(s)' = Wanted(s) /\ Drawn(s)' = Drawn(s) \cup {k} /\ k \notin Drawn(s)
    BY <1>1, <1>3, <2>1, <2>2 DEF Wanted, Drawn, FetchSubscriptions, SubStates, Keys
  <2>4. IsFiniteSet(Drawn(s))
    BY WantedCounts, FS_Subset
  <2>5. Cardinality(Drawn(s)') = Cardinality(Drawn(s)) + 1 /\ Cardinality(Drawn(s)) \in Nat
    BY <2>3, <2>4, FS_AddElement, WantedCounts
  <2>6. /\ remaining'[s] = remaining[s] - 1 /\ remaining[s] \in Int /\ total[s] \in Nat
        /\ total'[s] = total[s] /\ seed'[s] = seed[s] /\ matches'[s] = matches[s]
    BY <1>1, <1>3 DEF Draws, TypeOK
  <2>7. Balanced(s)'
    BY <2>2, <2>3, <2>5, <2>6 DEF Accounted, Balanced
  <2>8. Scheduled(s)'
    <3>1. \A j \in ScheduleKeys : sub'[s][j] = sub[s][j]
      BY <1>3, KeysAssumption DEF Keys
    <3> QED
      BY <2>2, <3>1 DEF Accounted, Scheduled, Draws
  <2>9. status'[s] # "NONE"
    BY <2>2, LiveIsNotTerminal DEF Draws
  <2> QED
    BY <2>2, <2>7, <2>8, <2>9 DEF Accounted, Draws, Live
<1>6. \A s \in Searches : Accounted(s)'
  BY <1>1, <1>4, <1>5, SameAccountStands DEF CapacityParts
<1>7. Units' \subseteq Units /\ pendingCost' = pendingCost - Cardinality(Units \ Units')
  <2> DEFINE drawn == {u \in Grid : u[1] \in S /\ u[2] = remaining[u[1]]}
  <2>1. ASSUME NEW u \in Grid
        PROVE  /\ u \in Units' => u \in Units
               /\ (u \in Units /\ u \notin Units') <=> u \in drawn
    <3>1. u[1] \in Searches /\ u[2] \in Int /\ remaining[u[1]] \in Int
      BY <1>1 DEF Grid, TypeOK
    <3>2. u \in Units <=> ~released[u[1]] /\ u[2] <= remaining[u[1]]
      BY DEF Units
    <3>3. u \in Units' <=> ~released[u[1]] /\ u[2] <= remaining'[u[1]]
      BY DEF Units, Draws
    <3> QED
      BY <1>2, <1>3, <3>1, <3>2, <3>3
  <2>2. Units \subseteq Grid /\ Units' \subseteq Grid
    BY DEF Units
  <2>3. Units' \subseteq Units /\ Units \ Units' = drawn
    BY <2>1, <2>2
  <2>4. Cardinality(drawn) = Cardinality(S)
    BY <1>2, OneUnitEach
  <2> QED
    BY <2>3, <2>4 DEF Draws, DrawDown
<1>8. Slots' = Slots /\ unresolved' = unresolved
  BY DEF Slots, Draws, DrawDown
<1>9. unresolved' = unresolved - Cardinality(Slots \ Slots')
  <2>1. Slots \ Slots' = {} /\ unresolved \in Int
    BY <1>1, <1>8 DEF TypeOK
  <2> QED
    BY <1>8, <2>1, FS_EmptySet
<1>10. AdmissionConservation' /\ AdmissionWithinLimits'
  BY <1>1, <1>7, <1>8, <1>9, CountersFollow DEF CapacityParts
<1> QED
  BY <1>6, <1>10 DEF CapacityParts

\* The fan-in of a fetch run draws one unit of each subscriber it satisfies.
LEMMA AcceptFetchAccounts ==
  ASSUME CapacityInv, NEW k \in FetchKeys, AcceptFetch(k)
  PROVE  CapacityParts'
<1>1. Subscribers(k) \in SUBSET Searches
  BY DEF Subscribers
<1>2. Draws(Subscribers(k), k, "SATISFIED")
  BY DEF AcceptFetch, Draws, Subscribers
<1> QED
  BY <1>1, <1>2, DrawsAccount

\* The failure of a showtime draws one unit of each subscriber it ends.
LEMMA FetchFailureAccounts ==
  ASSUME CapacityInv, NEW k \in FetchKeys, NEW S \in SUBSET Subscribers(k),
         FailFetchSubscriptions(S, k),
         UNCHANGED <<status, cause, seed, slot, released>>
  PROVE  CapacityParts'
<1>1. S \in SUBSET Searches
  BY DEF Subscribers
<1>2. Draws(S, k, "CANCELLED")
  BY DEF FailFetchSubscriptions, Draws, Subscribers
<1> QED
  BY <1>1, <1>2, DrawsAccount

\* The adoption of a snapshot draws one unit of one search, which still waits: its job is
\* open, and an open job is wanted.
LEMMA AdoptSnapshotAccounts ==
  ASSUME CapacityInv, NEW s \in Searches, NEW k \in FetchKeys, AdoptSnapshot(s, k)
  PROVE  CapacityParts'
<1> DEFINE S == {s}
<1>1. SafetyInv /\ TypeOK /\ Accounted(s) /\ k \in Keys
  BY DEF CapacityInv, CapacityParts, WakeupInv, SafetyInv, Keys
<1>2. Live(s) /\ sub[s][k] = "LIVE"
  BY <1>1 DEF CapacityInv, WakeupInv, OpenJobIsWanted, AdoptSnapshot, Admissible, OpenJob
<1>3. remaining[s] > 0 /\ remaining[s] \in Int
  BY <1>1, <1>2, BalanceBounds DEF TypeOK
<1>4. Cardinality(S) = 1
  BY FS_Singleton
<1>5. DrawDown(S)
  <2>1. /\ remaining' = [remaining EXCEPT ![s] = remaining[s] - 1]
        /\ pendingCost' = pendingCost - 1 /\ unresolved' = unresolved
    BY <1>3 DEF AdoptSnapshot
  <2>2. remaining' = [t \in Searches |->
          IF t \in S /\ remaining[t] > 0 THEN remaining[t] - 1 ELSE remaining[t]]
    BY <1>1, <1>3, <2>1 DEF TypeOK
  <2> QED
    BY <1>4, <2>1, <2>2 DEF DrawDown
<1>6. sub' = [t \in Searches |-> [sub[t] EXCEPT ![k] = IF t \in S THEN "SATISFIED" ELSE @]]
  <2>1. sub' = [sub EXCEPT ![s][k] = "SATISFIED"]
    BY <1>2 DEF AdoptSnapshot
  <2> QED
    BY <1>1, <2>1 DEF TypeOK
<1>7. Draws(S, k, "SATISFIED")
  BY <1>2, <1>5, <1>6 DEF Draws, AdoptSnapshot
<1>8. S \in SUBSET Searches
  OBVIOUS
<1> HIDE DEF S
<1> QED
  BY <1>7, <1>8, DrawsAccount
-----------------------------------------------------------------------------
(* The end of a search *)

\* Expiry changes neither who subscribed nor what was drawn.
LEMMA ExpiryDrawsNothing ==
  ASSUME NEW subs \in [Keys -> SubStates], NEW k \in Keys
  PROVE  /\ ExpireSubscriptions(subs)[k] = "NONE" <=> subs[k] = "NONE"
         /\ ExpireSubscriptions(subs)[k] = "SATISFIED" <=> subs[k] = "SATISFIED"
         /\ ExpireSubscriptions(subs)[k] = "CANCELLED" <=> subs[k] = "CANCELLED"
  BY DEF ExpireSubscriptions

\* Either end of a live search returns what its reservation still holds, and its slot if
\* the reconciliation did not.
LEMMA EndSearchAccounts ==
  ASSUME CapacityInv, NEW s \in Searches, Live(s), EndSearch(s), NEW st \in TerminalStatuses,
         status' = [status EXCEPT ![s] = st], \A t \in Searches \ {s} : cause'[t] = cause[t],
         cause'[s] = "CAPACITY" => denied[s] \/ cause[s] = "CAPACITY"
  PROVE  CapacityParts'
<1>1. SafetyInv /\ TypeOK /\ CapacityParts /\ Accounted(s) /\ ~released[s]
  BY LiveIsNotTerminal DEF CapacityInv, CapacityParts, WakeupInv, SafetyInv, ReleasedAtTheEnd
<1>2. remaining[s] \in 0 .. Reserve
  BY <1>1, BalanceBounds
<1>3. /\ sub' = [sub EXCEPT ![s] = ExpireSubscriptions(sub[s])]
      /\ remaining' = [remaining EXCEPT ![s] = 0]
      /\ slot' = [slot EXCEPT ![s] = FALSE]
      /\ released' = [released EXCEPT ![s] = TRUE]
      /\ pendingCost' = pendingCost - remaining[s]
      /\ unresolved' = (IF slot[s] /\ ~reconciled[s] THEN unresolved - 1 ELSE unresolved)
      /\ UNCHANGED <<denied, counted, matches, seed, total, reconciled>>
  BY <1>1 DEF EndSearch
<1>4. \A t \in Searches \ {s} : SameAccount(t)
  BY <1>1, <1>3 DEF TypeOK, SameAccount
<1>5. /\ status'[s] \in TerminalStatuses /\ remaining'[s] = 0
      /\ slot'[s] = FALSE /\ released'[s] = TRUE
  BY <1>1, <1>3 DEF TypeOK
<1>6. Accounted(s)'
  <2>1. ~Live(s)' /\ status'[s] # "NONE"
    BY <1>5 DEF Live, LiveStatuses, TerminalStatuses
  <2> QED
    BY <1>1, <1>3, <1>5, <2>1 DEF Accounted
<1>7. \A t \in Searches : Accounted(t)'
  BY <1>1, <1>4, <1>6, SameAccountStands DEF CapacityParts
<1>8. Units' \subseteq Units /\ pendingCost' = pendingCost - Cardinality(Units \ Units')
  <2> DEFINE held == {u \in Grid : u[1] = s /\ u[2] <= remaining[s]}
  <2>1. ASSUME NEW u \in Grid
        PROVE  /\ u \in Units' => u \in Units
               /\ (u \in Units /\ u \notin Units') <=> u \in held
    <3>1. u[1] \in Searches
      BY DEF Grid
    <3>2. u \in Units <=> ~released[u[1]] /\ u[2] <= remaining[u[1]]
      BY DEF Units
    <3>3. u \in Units' <=> ~released'[u[1]] /\ u[2] <= remaining'[u[1]]
      BY DEF Units
    <3>4. CASE u[1] = s
      BY <1>1, <1>5, <3>2, <3>3, <3>4
    <3>5. CASE u[1] # s
      BY <1>4, <3>1, <3>2, <3>3, <3>5 DEF SameAccount
    <3> QED
      BY <3>4, <3>5
  <2>2. Units \subseteq Grid /\ Units' \subseteq Grid
    BY DEF Units
  <2>3. Units' \subseteq Units /\ Units \ Units' = held
    BY <2>1, <2>2
  <2>4. Cardinality(held) = remaining[s]
    BY <1>2, UnitsOfOneSearch
  <2> HIDE DEF held
  <2> QED
    BY <1>3, <2>3, <2>4
<1>9. Slots' = Slots \ {s}
  BY <1>4, <1>5 DEF Slots, SameAccount
<1>10. unresolved' = unresolved - Cardinality(Slots \ Slots')
  <2>1. CASE s \in Slots
    <3>1. Slots \ Slots' = {s} /\ slot[s] /\ ~reconciled[s]
      BY <1>9, <2>1 DEF Slots
    <3> QED
      BY <1>3, <3>1, FS_Singleton
  <2>2. CASE s \notin Slots
    <3>1. Slots \ Slots' = {} /\ ~(slot[s] /\ ~reconciled[s]) /\ unresolved \in Int
      BY <1>1, <1>9, <2>2 DEF Slots, TypeOK
    <3>2. unresolved' = unresolved
      BY <1>3, <3>1
    <3>3. Cardinality(Slots \ Slots') = 0
      BY <3>1, FS_EmptySet
    <3> QED
      BY <3>1, <3>2, <3>3
  <2> QED
    BY <2>1, <2>2
<1>11. AdmissionConservation' /\ AdmissionWithinLimits'
  BY <1>1, <1>8, <1>9, <1>10, CountersFollow DEF CapacityParts
<1> QED
  BY <1>7, <1>11 DEF CapacityParts

\* A derived cause is CAPACITY only for a denied search.
LEMMA TerminalizeAccounts ==
  ASSUME CapacityInv, NEW s \in Searches, Terminalize(s)
  PROVE  CapacityParts'
<1>1. TypeOK
  BY DEF CapacityInv, WakeupInv, SafetyInv
<1>2. DerivedStatus(s) \in TerminalStatuses
  BY DEF DerivedStatus, TerminalStatuses
<1>3. DerivedCause(s) = "CAPACITY" => denied[s]
  BY DEF DerivedCause
<1>4. /\ Live(s) /\ EndSearch(s) /\ status' = [status EXCEPT ![s] = DerivedStatus(s)]
      /\ \A t \in Searches \ {s} : cause'[t] = cause[t]
      /\ cause'[s] = DerivedCause(s)
  BY <1>1 DEF Terminalize, TypeOK
<1> QED
  BY <1>2, <1>3, <1>4, EndSearchAccounts

\* The explicit cancel returns the reservation too, and writes no cause.
LEMMA CancelSearchAccounts ==
  ASSUME CapacityInv, NEW s \in Searches, CancelSearch(s)
  PROVE  CapacityParts'
<1>1. "CANCELLED" \in TerminalStatuses
  BY DEF TerminalStatuses
<1>2. /\ Live(s) /\ EndSearch(s) /\ status' = [status EXCEPT ![s] = "CANCELLED"]
      /\ cause' = cause
  BY DEF CancelSearch
<1> QED
  BY <1>1, <1>2, EndSearchAccounts
-----------------------------------------------------------------------------
(* Schedule counts: reconciliation and denial *)

\* What a transaction that records a schedule count of search s hands to SettleOrDeny:
\* the count only grows, an already reconciled search gains neither count nor key, and
\* the showtimes in subs are covered by what was reserved and by what was matched.
Settleable(s, subs) ==
  /\ Live(s) /\ Live(s)' /\ slot[s]
  /\ matches[s] <= matches'[s] /\ counted[s] \subseteq counted'[s]
  /\ reconciled[s] =>
       matches'[s] = matches[s] /\ \A k \in Keys : subs[s][k] = "NONE" <=> sub[s][k] = "NONE"
  /\ {k \in FetchKeys : subs[s][k] \in {"SATISFIED", "CANCELLED"}} = Drawn(s)
  /\ Cardinality({k \in FetchKeys : subs[s][k] # "NONE"}) <= total[s]
  /\ Cardinality({k \in FetchKeys : subs[s][k] # "NONE"}) <= seed[s] + matches'[s]

\* An aggregate that does not fit while the cold reservation stands is over the ceiling:
\* within it, reconciling would only return capacity.
LEMMA MisfitsExceed ==
  ASSUME CapacityInv, NEW s \in Searches, NEW m \in Nat,
         Live(s), slot[s], ~reconciled[s], ~Fits(s, m)
  PROVE  seed[s] + m > Ceiling
<1>1. total[s] = Reserve /\ pendingCost <= CostLimit
  BY DEF CapacityInv, CapacityParts, Accounted, Scheduled, AdmissionWithinLimits
<1>2. seed[s] \in Nat /\ pendingCost \in Int
  BY DEF CapacityInv, WakeupInv, SafetyInv, TypeOK
<1>3. ~(seed[s] + m <= Ceiling) \/ ~(pendingCost + (seed[s] + m - total[s]) <= CostLimit)
  BY DEF Fits
<1> QED
  BY <1>1, <1>2, <1>3, ReserveCoversCeiling, BoundsAssumption

\* What SettleOrDeny does to the reservations: the searches of fit are reconciled, and
\* those of gone are denied.
Settled(C, subs, fit, gone) ==
  /\ fit \subseteq C /\ gone \subseteq C
  /\ \A s \in fit : /\ ~reconciled[s] /\ seed[s] + matches'[s] <= Ceiling
                    /\ \A k \in ScheduleKeys : subs[s][k] # "NONE" => k \in counted'[s]
  /\ \A s \in gone : ~reconciled[s] /\ ~Fits(s, matches'[s])
  /\ Reconcile(fit, matches')
  /\ \A s \in Searches :
       /\ denied'[s] <=> denied[s] \/ s \in gone
       /\ sub'[s] = subs[s] \/ sub'[s] = ExpireSubscriptions(subs[s])
       /\ s \notin gone => sub'[s] = subs[s]

\* Which searches SettleOrDeny reconciles and which it denies.
LEMMA SettleOrDenySettles ==
  ASSUME TypeOK, NEW S \in SUBSET Searches, NEW D \in SUBSET Searches, NEW subs, NEW jobs,
         SettleOrDeny(S, D, subs, jobs),
         \A s \in D : ~reconciled[s] /\ ~Fits(s, matches'[s])
  PROVE  \E fit, gone \in SUBSET Searches : Settled(S \cup D, subs, fit, gone)
<1> DEFINE settling == {s \in S : Settling(s, subs, counted')}
<1> DEFINE fit == {s \in settling : Fits(s, matches'[s])}
<1> DEFINE gone == D \cup (settling \ fit)
<1>1. Reconcile(fit, matches') /\ Deny(gone, subs, jobs)
  BY DEF SettleOrDeny
<1>2. fit \subseteq S \cup D /\ gone \subseteq S \cup D
  OBVIOUS
<1>3. \A s \in fit : /\ ~reconciled[s] /\ seed[s] + matches'[s] <= Ceiling
                     /\ \A k \in ScheduleKeys : subs[s][k] # "NONE" => k \in counted'[s]
  BY DEF Settling, Fits
<1>4. \A s \in gone : ~reconciled[s] /\ ~Fits(s, matches'[s])
  BY DEF Settling
<1>5. fit \in SUBSET Searches /\ gone \in SUBSET Searches
  OBVIOUS
<1> HIDE DEF settling, fit, gone
<1>6. \A s \in Searches :
        /\ denied'[s] <=> denied[s] \/ s \in gone
        /\ sub'[s] = subs[s] \/ sub'[s] = ExpireSubscriptions(subs[s])
        /\ s \notin gone => sub'[s] = subs[s]
  BY <1>1 DEF Deny
<1>7. Settled(S \cup D, subs, fit, gone)
  BY <1>1, <1>2, <1>3, <1>4, <1>6 DEF Settled
<1> QED
  BY <1>5, <1>7

\* One search that recorded a count: reconciled, denied, or neither.
LEMMA SettledSearch ==
  ASSUME CapacityInv, TypeOK', NEW C \in SUBSET Searches,
         NEW subs \in [Searches -> [Keys -> SubStates]],
         NEW fit \in SUBSET Searches, NEW gone \in SUBSET Searches,
         Settled(C, subs, fit, gone), cause' = cause,
         NEW s \in C, Settleable(s, subs)
  PROVE  /\ Accounted(s)'
         /\ remaining'[s] = IF s \in fit THEN seed[s] + matches'[s] - (total[s] - remaining[s])
                            ELSE remaining[s]
         /\ s \in fit => remaining'[s] \in Nat
<1>1. /\ SafetyInv /\ TypeOK /\ CapacityParts /\ s \in Searches
      /\ Accounted(s) /\ Live(s) /\ Balanced(s) /\ Scheduled(s)
  BY DEF CapacityInv, CapacityParts, WakeupInv, SafetyInv, Settleable, Accounted
<1>2. /\ total[s] \in Nat /\ remaining[s] \in Int /\ seed[s] \in Nat
      /\ matches[s] \in Nat /\ matches'[s] \in Nat
  BY <1>1 DEF TypeOK
<1>3. /\ total'[s] = IF s \in fit THEN seed[s] + matches'[s] ELSE total[s]
      /\ remaining'[s] = IF s \in fit THEN seed[s] + matches'[s] - (total[s] - remaining[s])
                         ELSE remaining[s]
      /\ reconciled'[s] <=> reconciled[s] \/ s \in fit
      /\ seed'[s] = seed[s] /\ slot'[s] = slot[s] /\ released'[s] = released[s]
  <2>1. Reconcile(fit, matches')
    BY DEF Settled
  <2>2. /\ total'[s] = IF s \in fit THEN seed[s] + matches'[s] ELSE total[s]
        /\ remaining'[s] = IF s \in fit THEN seed[s] + matches'[s] - (total[s] - remaining[s])
                           ELSE remaining[s]
    <3> DEFINE durable == [t \in Searches |-> seed[t] + matches'[t]]
    <3>1. /\ total' = [t \in Searches |-> IF t \in fit THEN durable[t] ELSE total[t]]
          /\ remaining' = [t \in Searches |->
               IF t \in fit THEN durable[t] - (total[t] - remaining[t]) ELSE remaining[t]]
      BY <2>1 DEF Reconcile
    <3>2. durable[s] = seed[s] + matches'[s]
      BY <1>1
    <3> HIDE DEF durable
    <3>3. total'[s] = IF s \in fit THEN durable[s] ELSE total[s]
      BY <1>1, <3>1
    <3>4. remaining'[s] = IF s \in fit THEN durable[s] - (total[s] - remaining[s])
                          ELSE remaining[s]
      BY <1>1, <3>1
    <3> QED
      BY <1>2, <3>2, <3>3, <3>4
  <2>3. reconciled'[s] <=> reconciled[s] \/ s \in fit
    BY <1>1, <2>1 DEF Reconcile
  <2> QED
    BY <2>1, <2>2, <2>3 DEF Reconcile
<1>4. \A k \in Keys : /\ sub'[s][k] = "NONE" <=> subs[s][k] = "NONE"
                      /\ sub'[s][k] = "SATISFIED" <=> subs[s][k] = "SATISFIED"
                      /\ sub'[s][k] = "CANCELLED" <=> subs[s][k] = "CANCELLED"
  <2>1. sub'[s] = subs[s] \/ sub'[s] = ExpireSubscriptions(subs[s])
    BY <1>1 DEF Settled
  <2>2. subs[s] \in [Keys -> SubStates]
    BY <1>1
  <2> QED
    BY <2>1, <2>2, ExpiryDrawsNothing
<1>5. /\ Wanted(s)' = {k \in FetchKeys : subs[s][k] # "NONE"}
      /\ Drawn(s)' = Drawn(s)
  <2>1. Drawn(s) = {k \in FetchKeys : subs[s][k] \in {"SATISFIED", "CANCELLED"}}
    BY DEF Settleable
  <2>2. \A k \in FetchKeys : sub'[s][k] \in SubStates
    BY <1>1 DEF TypeOK, Keys
  <2> QED
    BY <1>4, <2>1, <2>2 DEF Wanted, Drawn, FetchSubscriptions, SubStates, Keys
<1>6. /\ Cardinality(Wanted(s)') <= total[s]
      /\ Cardinality(Wanted(s)') <= seed[s] + matches'[s]
      /\ Cardinality(Wanted(s)') \in Nat
  <2>1. Wanted(s)' \in SUBSET FetchKeys
    BY <1>5
  <2> QED
    BY <1>5, <2>1, FS_Subset, FS_CardinalityType, KeysAssumption DEF Settleable
<1>7. Balanced(s)'
  <2>1. total'[s] - remaining'[s] = total[s] - remaining[s]
    BY <1>2, <1>3
  <2>2. Cardinality(Wanted(s)') <= total'[s]
    BY <1>3, <1>6
  <2>3. total[s] - remaining[s] = Cardinality(Drawn(s))
    BY <1>1 DEF Balanced
  <2> QED
    BY <1>3, <1>5, <1>6, <2>1, <2>2, <2>3 DEF Balanced
<1>8. s \in fit => remaining'[s] \in Nat
  <2>1. Cardinality(Drawn(s)) \in Nat /\ Cardinality(Drawn(s)) <= Cardinality(Wanted(s)')
    <3>1. Drawn(s) \in SUBSET (Wanted(s)') /\ Wanted(s)' \in SUBSET FetchKeys
      BY <1>5 DEF Settleable
    <3>2. IsFiniteSet(Wanted(s)')
      BY <3>1, FS_Subset, KeysAssumption
    <3> QED
      BY <3>1, <3>2, FS_Subset, FS_CardinalityType
  <2>2. total[s] - remaining[s] = Cardinality(Drawn(s))
    BY <1>1 DEF Balanced
  <2> QED
    BY <1>2, <1>3, <1>6, <2>1, <2>2
<1>9. Scheduled(s)'
  <2>1. slot'[s] /\ slot[s]
    BY <1>3 DEF Settleable
  <2>2. ~reconciled'[s] => total'[s] = Reserve
    BY <1>1, <1>3, <2>1 DEF Scheduled
  <2>3. ASSUME NEW k \in ScheduleKeys, sub'[s][k] # "NONE", reconciled'[s]
        PROVE  k \in counted'[s]
    <3>1. k \in Keys /\ subs[s][k] # "NONE"
      BY <1>4, <2>3 DEF Keys
    <3>2. CASE s \in fit
      BY <3>1, <3>2 DEF Settled
    <3>3. CASE s \notin fit
      <4>1. reconciled[s] /\ sub[s][k] # "NONE" /\ counted[s] \subseteq counted'[s]
        BY <1>3, <2>3, <3>1, <3>3 DEF Settleable
      <4> QED
        BY <1>1, <4>1 DEF Scheduled
    <3> QED
      BY <3>2, <3>3
  <2> QED
    BY <2>1, <2>2, <2>3 DEF Scheduled
<1>10. denied'[s] \/ cause'[s] = "CAPACITY" => seed[s] + matches'[s] > Ceiling
  <2>1. CASE denied[s] \/ cause[s] = "CAPACITY"
    <3>1. seed[s] + matches[s] > Ceiling /\ matches[s] <= matches'[s]
      BY <1>1, <2>1 DEF Accounted, Settleable
    <3> QED
      BY <1>2, <3>1, BoundsAssumption
  <2>2. CASE s \in gone
    <3>1. ~reconciled[s] /\ ~Fits(s, matches'[s]) /\ slot[s]
      BY <2>2 DEF Settled, Settleable
    <3> QED
      BY <1>1, <1>2, <3>1, MisfitsExceed
  <2> QED
    BY <1>1, <2>1, <2>2 DEF Settled
<1>11. total'[s] <= Reserve /\ (reconciled'[s] => total'[s] = seed[s] + matches'[s] /\ total'[s] <= Ceiling)
  <2>1. CASE s \in fit
    <3>1. seed[s] + matches'[s] <= Ceiling /\ total'[s] = seed[s] + matches'[s]
      BY <1>3, <2>1 DEF Settled
    <3> QED
      BY <1>2, <3>1, ReserveCoversCeiling, BoundsAssumption
  <2>2. CASE s \notin fit
    <3>1. /\ total'[s] = total[s] /\ (reconciled'[s] <=> reconciled[s])
          /\ reconciled[s] => matches'[s] = matches[s]
      BY <1>3, <2>2 DEF Settleable
    <3> QED
      BY <1>1, <3>1 DEF Accounted
  <2> QED
    BY <2>1, <2>2
<1>12. status'[s] # "NONE"
  BY DEF Settleable, Live, LiveStatuses
<1>13. slot'[s] => ~released'[s]
  BY <1>1, <1>3 DEF Accounted
<1>14. Accounted(s)'
  BY <1>3, <1>7, <1>9, <1>10, <1>11, <1>12, <1>13 DEF Accounted
<1> QED
  BY <1>3, <1>8, <1>14

\* Reconciliation returns to the provider the units the reservations lose, and the slots.
LEMMA ReconcileCounters ==
  ASSUME CapacityInv, TypeOK', NEW R \in SUBSET Searches, Reconcile(R, matches'),
         \A s \in R : /\ Live(s) /\ slot[s] /\ ~reconciled[s]
                      /\ seed[s] + matches'[s] <= Ceiling /\ remaining'[s] \in Nat
                      /\ remaining'[s] = seed[s] + matches'[s] - (total[s] - remaining[s]),
         \A s \in Searches \ R : remaining'[s] = remaining[s]
  PROVE  AdmissionConservation' /\ AdmissionWithinLimits'
<1> DEFINE durable == [s \in Searches |-> seed[s] + matches'[s]]
<1> DEFINE d == [s \in Searches |-> total[s] - remaining[s]]
<1>1. SafetyInv /\ TypeOK /\ CapacityParts
  BY DEF CapacityInv, WakeupInv, SafetyInv
<1>2. ASSUME NEW s \in R
      PROVE  /\ ~released[s] /\ total[s] = Reserve /\ remaining[s] \in 0 .. Reserve
             /\ durable[s] \in Nat /\ durable[s] <= Ceiling /\ d[s] \in Int
             /\ durable[s] = remaining'[s] + d[s] /\ total[s] = remaining[s] + d[s]
             /\ remaining'[s] <= remaining[s]
  <2>1. Accounted(s) /\ ~released[s]
    BY <1>1, <1>2, LiveIsNotTerminal DEF CapacityParts, SafetyInv, ReleasedAtTheEnd
  <2>2. total[s] = Reserve /\ remaining[s] \in 0 .. Reserve
    BY <1>1, <1>2, <2>1, BalanceBounds DEF Accounted, Scheduled
  <2>3. /\ seed[s] \in Nat /\ matches'[s] \in Nat /\ remaining[s] \in Int
        /\ durable[s] = seed[s] + matches'[s] /\ d[s] = total[s] - remaining[s]
    BY <1>1, <1>2 DEF TypeOK
  <2>4. remaining'[s] = durable[s] - d[s] /\ durable[s] <= Ceiling /\ remaining'[s] \in Nat
    BY <1>2, <2>2, <2>3, BoundsAssumption
  <2> HIDE DEF durable, d
  <2> QED
    BY <2>1, <2>2, <2>3, <2>4, ReserveCoversCeiling, BoundsAssumption
<1>3. pendingCost' = pendingCost - Cardinality(Between(R, durable, total))
  <2> DEFINE back == {u \in R \X (1 .. Reserve) : durable[u[1]] < u[2] /\ u[2] <= total[u[1]]}
  <2> DEFINE more == {u \in R \X (1 .. Ceiling) : total[u[1]] < u[2] /\ u[2] <= durable[u[1]]}
  <2>1. pendingCost' = pendingCost - Cardinality(back) + Cardinality(more)
    BY DEF Reconcile
  <2>2. back = Between(R, durable, total)
    BY DEF Between, Grid
  <2>3. more = {}
    <3>1. ASSUME NEW u \in more PROVE FALSE
      <4>1. u[1] \in R /\ u[2] \in 1 .. Ceiling /\ total[u[1]] < u[2]
        OBVIOUS
      <4>2. total[u[1]] = Reserve
        BY <1>2, <4>1
      <4> QED
        BY <4>1, <4>2, ReserveCoversCeiling, BoundsAssumption
    <3> QED
      BY <3>1
  <2>4. Cardinality(back) \in Nat /\ pendingCost \in Int
    BY <1>1, UnitsCount, BoundsAssumption DEF TypeOK
  <2> HIDE DEF back, more
  <2> QED
    BY <2>1, <2>2, <2>3, <2>4, FS_EmptySet
<1> HIDE DEF durable, d
<1>4. Cardinality(Between(R, durable, total)) = Cardinality(Between(R, remaining', remaining))
  <2>1. \A s \in R : /\ d[s] \in Int /\ remaining'[s] \in Nat /\ remaining[s] \in Int
                     /\ remaining[s] <= Reserve
                     /\ durable[s] \in Nat /\ total[s] \in Int /\ total[s] <= Reserve
                     /\ durable[s] = remaining'[s] + d[s] /\ total[s] = remaining[s] + d[s]
    BY <1>2, BoundsAssumption
  <2> QED
    BY ONLY R \in SUBSET Searches, <2>1, ShiftedUnits
<1>5. released' = released /\ slot' = slot
  BY DEF Reconcile
<1>6. Units' \subseteq Units /\ Units \ Units' = Between(R, remaining', remaining)
  <2>1. ASSUME NEW u \in Grid
        PROVE  /\ u \in Units' => u \in Units
               /\ (u \in Units /\ u \notin Units') <=> u \in Between(R, remaining', remaining)
    <3>1. /\ u[1] \in Searches /\ u[2] \in Int /\ remaining[u[1]] \in Int
          /\ remaining'[u[1]] \in Int
      BY <1>1 DEF Grid, TypeOK
    <3>2. u \in Units <=> ~released[u[1]] /\ u[2] <= remaining[u[1]]
      BY DEF Units
    <3>3. u \in Units' <=> ~released[u[1]] /\ u[2] <= remaining'[u[1]]
      BY <1>5 DEF Units
    <3>4. u \in Between(R, remaining', remaining) <=>
            u[1] \in R /\ remaining'[u[1]] < u[2] /\ u[2] <= remaining[u[1]]
      BY DEF Between
    <3>5. CASE u[1] \in R
      <4>1. ~released[u[1]] /\ remaining'[u[1]] <= remaining[u[1]]
        BY <1>2, <3>5
      <4> QED
        BY <3>1, <3>2, <3>3, <3>4, <3>5, <4>1
    <3>6. CASE u[1] \notin R
      BY <3>1, <3>2, <3>3, <3>4, <3>6
    <3> QED
      BY <3>5, <3>6
  <2>2. Units \subseteq Grid /\ Units' \subseteq Grid /\ Between(R, remaining', remaining) \subseteq Grid
    BY DEF Units, Between
  <2> QED
    BY <2>1, <2>2
<1>7. Slots' = Slots \ R /\ R \subseteq Slots
  <2>1. \A s \in Searches : reconciled'[s] <=> reconciled[s] \/ s \in R
    BY DEF Reconcile
  <2>2. R \subseteq Slots
    BY <1>2 DEF Slots
  <2> QED
    BY <1>5, <2>1, <2>2 DEF Slots
<1>8. Slots \ Slots' = R
  BY <1>7
<1>9. unresolved' = unresolved - Cardinality(R)
  BY DEF Reconcile
<1> QED
  BY <1>1, <1>3, <1>4, <1>6, <1>7, <1>8, <1>9, CountersFollow DEF CapacityParts

\* Every transaction that records schedule counts keeps the accounts.
LEMMA SettleAccounts ==
  ASSUME CapacityInv, TypeOK', NEW S \in SUBSET Searches, NEW D \in SUBSET Searches,
         NEW subs \in [Searches -> [Keys -> SubStates]], NEW jobs,
         SettleOrDeny(S, D, subs, jobs), cause' = cause,
         \A s \in D : ~reconciled[s] /\ ~Fits(s, matches'[s]),
         \A s \in S \cup D : Settleable(s, subs),
         \A s \in Searches \ (S \cup D) :
           /\ subs[s] = sub[s] /\ counted'[s] = counted[s] /\ matches'[s] = matches[s]
           /\ status'[s] = status[s]
  PROVE  CapacityParts'
<1> DEFINE C == S \cup D
<1>1. TypeOK /\ CapacityParts /\ C \in SUBSET Searches
  BY DEF CapacityInv, WakeupInv, SafetyInv
<1>2. PICK fit \in SUBSET Searches, gone \in SUBSET Searches : Settled(C, subs, fit, gone)
  BY <1>1, SettleOrDenySettles
<1>3. \A s \in C : Settleable(s, subs)
  OBVIOUS
<1>4. \A s \in Searches \ C :
        /\ subs[s] = sub[s] /\ counted'[s] = counted[s] /\ matches'[s] = matches[s]
        /\ status'[s] = status[s]
  OBVIOUS
<1> HIDE DEF C
<1>5. ASSUME NEW s \in C
      PROVE  /\ Accounted(s)'
             /\ remaining'[s] = IF s \in fit THEN seed[s] + matches'[s] - (total[s] - remaining[s])
                                ELSE remaining[s]
             /\ s \in fit => remaining'[s] \in Nat
  BY <1>1, <1>2, <1>3, <1>5, SettledSearch
<1>6. Reconcile(fit, matches') /\ fit \subseteq C /\ gone \subseteq C
  BY <1>2 DEF Settled
<1>7. ASSUME NEW s \in Searches \ C PROVE SameAccount(s)
  <2>1. s \notin fit /\ s \notin gone
    BY <1>6, <1>7
  <2>2. sub'[s] = sub[s] /\ denied'[s] = denied[s]
    <3>1. sub'[s] = subs[s] /\ (denied'[s] <=> denied[s] \/ s \in gone)
      BY <1>2, <1>7, <2>1 DEF Settled
    <3>2. denied[s] \in BOOLEAN /\ denied'[s] \in BOOLEAN
      BY <1>1, <1>7 DEF TypeOK
    <3> QED
      BY <1>4, <1>7, <2>1, <3>1, <3>2
  <2>3. /\ seed' = seed /\ slot' = slot /\ released' = released
        /\ total'[s] = total[s] /\ remaining'[s] = remaining[s]
    BY <1>6, <1>7, <2>1 DEF Reconcile
  <2>4. reconciled'[s] = reconciled[s]
    BY <1>1, <1>6, <1>7, <2>1 DEF Reconcile, TypeOK
  <2> QED
    BY <1>4, <1>7, <2>2, <2>3, <2>4 DEF SameAccount
<1>8. \A s \in Searches : Accounted(s)'
  BY <1>1, <1>5, <1>7, SameAccountStands DEF CapacityParts
<1>9. \A s \in fit : /\ Live(s) /\ slot[s] /\ ~reconciled[s]
                     /\ seed[s] + matches'[s] <= Ceiling /\ remaining'[s] \in Nat
                     /\ remaining'[s] = seed[s] + matches'[s] - (total[s] - remaining[s])
  BY <1>2, <1>3, <1>5, <1>6 DEF Settled, Settleable
<1>10. \A s \in Searches \ fit : remaining'[s] = remaining[s]
  <2> TAKE s \in Searches \ fit
  <2>1. CASE s \in C
    BY <1>5, <2>1
  <2>2. CASE s \notin C
    BY <1>7, <2>2 DEF SameAccount
  <2> QED
    BY <2>1, <2>2
<1>11. AdmissionConservation' /\ AdmissionWithinLimits'
  BY <1>6, <1>9, <1>10, ReconcileCounters
<1> QED
  BY <1>8, <1>11 DEF CapacityParts

\* The acceptance of a schedule run counts each subscriber's matches once, and subscribes
\* no more showtimes than it counted.
LEMMA AcceptScheduleAccounts ==
  ASSUME CapacityInv, TypeOK', NEW k \in ScheduleKeys, NEW observed \in BOOLEAN,
         NEW match \in [Searches -> SUBSET FetchKeys],
         NEW fallback \in [Searches -> SUBSET ScheduleKeys],
         AcceptSchedule(k, observed, match, fallback)
  PROVE  CapacityParts'
<1> DEFINE S == Subscribers(k)
<1> DEFINE n == [s \in Searches |-> Cardinality(match[s])]
<1> DEFINE overflowing == {s \in S : ~Fits(s, matches[s] + n[s])}
<1> DEFINE expanding == S \ overflowing
<1> DEFINE found == [s \in Searches |->
        IF s \in expanding THEN (match[s] \cup fallback[s]) \ Subscribed(s) ELSE {}]
<1> DEFINE subs == [s \in Searches |-> [j \in Keys |->
        IF j \in found[s] THEN "LIVE" ELSE IF s \in S /\ j = k THEN "SATISFIED" ELSE sub[s][j]]]
<1> DEFINE jobs == [s \in Searches |-> [j \in Keys |->
        IF j \in found[s] THEN "PENDING"
        ELSE IF s \in S /\ j = k /\ job[s][j] \in OpenJob THEN "DONE" ELSE job[s][j]]]
<1>1. SafetyInv /\ TypeOK /\ CapacityParts /\ k \in Keys
  BY DEF CapacityInv, WakeupInv, SafetyInv, Keys
<1>2. S \in SUBSET Searches
  BY DEF Subscribers
<1>3. ASSUME NEW s \in S
      PROVE  /\ Live(s) /\ sub[s][k] = "LIVE" /\ k \notin counted[s] /\ Accounted(s)
             /\ slot[s] /\ ~reconciled[s] /\ total[s] = Reserve /\ Balanced(s)
  <2>1. Live(s) /\ sub[s][k] = "LIVE" /\ k \notin counted[s] /\ Accounted(s)
    BY <1>1, <1>2, <1>3 DEF Subscribers, SafetyInv, LiveSubscriptionIsDriven, CapacityParts
  <2>2. slot[s] /\ ~reconciled[s] /\ total[s] = Reserve
    BY <2>1 DEF Accounted, Scheduled
  <2> QED
    BY <2>1, <2>2 DEF Accounted
<1>4. \A s \in Searches : /\ IsFiniteSet(match[s]) /\ n[s] = Cardinality(match[s])
                          /\ n[s] \in Nat /\ matches[s] \in Nat /\ seed[s] \in Nat
  BY <1>1, FS_Subset, FS_CardinalityType, KeysAssumption DEF TypeOK
<1>5. subs \in [Searches -> [Keys -> SubStates]]
  BY <1>1 DEF TypeOK, SubStates
<1>6. \A s \in Searches, j \in Keys :
        subs[s][j] = IF j \in found[s] THEN "LIVE"
                     ELSE IF s \in S /\ j = k THEN "SATISFIED" ELSE sub[s][j]
  OBVIOUS
<1>7. /\ SettleOrDeny(expanding, overflowing, subs, jobs) /\ Count(S, k, n)
      /\ status' = [s \in Searches |-> IF s \in S /\ observed THEN "RUNNING" ELSE status[s]]
      /\ cause' = cause
  BY DEF AcceptSchedule
<1>8. /\ \A s \in Searches : s \notin expanding => found[s] = {}
      /\ \A s \in Searches, j \in Keys : j \in found[s] => sub[s][j] = "NONE"
      /\ \A s \in Searches : found[s] \cap FetchKeys \subseteq match[s]
  BY KeysAssumption DEF Subscribed
<1>9. expanding \in SUBSET Searches /\ overflowing \in SUBSET Searches
      /\ expanding \cup overflowing = S
  BY <1>2
<1>10. /\ \A s \in overflowing : ~Fits(s, matches[s] + n[s])
       /\ \A s \in expanding : Fits(s, matches[s] + n[s])
  OBVIOUS
<1>11. \A s \in Searches \ S : subs[s] = sub[s]
  BY <1>1, <1>8, <1>9 DEF TypeOK
<1> HIDE DEF S, n, overflowing, expanding, found, subs, jobs
<1>12. \A s \in S : matches'[s] = matches[s] + n[s] /\ counted'[s] = counted[s] \cup {k}
  BY <1>2, <1>3, <1>7 DEF Count
<1>13. \A s \in Searches \ S : /\ matches'[s] = matches[s] /\ counted'[s] = counted[s]
                               /\ status'[s] = status[s]
  BY <1>7 DEF Count
<1>14. ASSUME NEW s \in S PROVE Settleable(s, subs)
  <2> DEFINE more == found[s] \cap FetchKeys
  <2>1. s \in Searches /\ k \notin FetchKeys
    BY <1>2, KeysAssumption
  <2>2. \A j \in FetchKeys : j \in Keys /\ j # k
    BY <2>1 DEF Keys
  <2>3. {j \in FetchKeys : subs[s][j] \in {"SATISFIED", "CANCELLED"}} = Drawn(s)
    BY <1>6, <1>8, <2>1, <2>2 DEF Drawn, FetchSubscriptions
  <2>4. {j \in FetchKeys : subs[s][j] # "NONE"} = Wanted(s) \cup more
    <3>1. \A j \in FetchKeys : sub[s][j] \in SubStates
      BY <1>1, <2>1, <2>2 DEF TypeOK
    <3> QED
      BY <1>6, <2>1, <2>2, <3>1 DEF Wanted, FetchSubscriptions
  <2>5. /\ IsFiniteSet(more) /\ Cardinality(more) \in Nat /\ Cardinality(more) <= n[s]
        /\ s \notin expanding => more = {}
    <3>1. more \in SUBSET match[s]
      BY <1>8, <2>1
    <3> QED
      BY <1>4, <1>8, <2>1, <3>1, FS_Subset, FS_CardinalityType
  <2> HIDE DEF more
  <2>6. Cardinality(Wanted(s) \cup more) <= Cardinality(Wanted(s)) + Cardinality(more)
    <3>1. Cardinality(Wanted(s) \cap more) \in Nat
      BY <2>5, WantedCounts, <2>1, FS_Subset, FS_CardinalityType
    <3>2. Cardinality(Wanted(s) \cup more) =
            Cardinality(Wanted(s)) + Cardinality(more) - Cardinality(Wanted(s) \cap more)
      BY <2>1, <2>5, WantedCounts, FS_Union
    <3>3. Cardinality(Wanted(s)) \in Nat
      BY <2>1, WantedCounts
    <3> QED
      BY <2>5, <3>1, <3>2, <3>3
  <2>7. /\ Cardinality(Wanted(s)) <= seed[s] + matches[s] /\ Cardinality(Wanted(s)) <= total[s]
        /\ Cardinality(Wanted(s)) \in Nat /\ Cardinality(Wanted(s) \cup more) \in Nat
    <3>1. IsFiniteSet(Wanted(s) \cup more)
      BY <2>1, <2>5, WantedCounts, FS_Union
    <3> QED
      BY <1>3, <2>1, <3>1, WantedCounts, FS_CardinalityType DEF Balanced
  <2>8. Cardinality(Wanted(s) \cup more) <= seed[s] + matches'[s]
    BY <1>4, <1>12, <2>1, <2>5, <2>6, <2>7
  <2>9. Cardinality(Wanted(s) \cup more) <= total[s]
    <3>1. CASE s \in expanding
      <4>1. seed[s] + matches'[s] <= Ceiling
        BY <1>10, <1>12, <3>1 DEF Fits
      <4> QED
        BY <1>3, <1>4, <1>12, <2>1, <2>7, <2>8, <4>1, ReserveCoversCeiling, BoundsAssumption
    <3>2. CASE s \notin expanding
      <4>1. Wanted(s) \cup more = Wanted(s)
        BY <2>5, <3>2
      <4> QED
        BY <2>7, <4>1
    <3> QED
      BY <3>1, <3>2
  <2>10. Live(s)'
    BY <1>3, <1>7, <2>1 DEF Live, LiveStatuses
  <2>11. matches[s] <= matches'[s] /\ counted[s] \subseteq counted'[s]
    BY <1>4, <1>12, <2>1
  <2> QED
    BY <1>3, <2>3, <2>4, <2>8, <2>9, <2>10, <2>11 DEF Settleable
<1>15. \A s \in overflowing : ~reconciled[s] /\ ~Fits(s, matches'[s])
  BY <1>3, <1>9, <1>10, <1>12
<1> QED
  BY <1>5, <1>7, <1>9, <1>11, <1>13, <1>14, <1>15, SettleAccounts

\* A schedule key that failed counts zero: its searches settle on what they matched.
LEMMA ScheduleFailureAccounts ==
  ASSUME CapacityInv, TypeOK', NEW k \in ScheduleKeys, NEW C \in SUBSET Searches,
         NEW S \in SUBSET C, NEW jobs, FailScheduleSubscriptions(S, C, k, jobs),
         \A s \in C : Live(s) /\ sub[s][k] # "NONE",
         UNCHANGED <<status, cause>>
  PROVE  CapacityParts'
<1> DEFINE subs ==
      [s \in Searches |-> [sub[s] EXCEPT ![k] = IF s \in S THEN "CANCELLED" ELSE @]]
<1> DEFINE zero == [s \in Searches |-> 0]
<1>1. SafetyInv /\ TypeOK /\ CapacityParts /\ k \in Keys
  BY DEF CapacityInv, WakeupInv, SafetyInv, Keys
<1>2. subs \in [Searches -> [Keys -> SubStates]]
  BY <1>1 DEF TypeOK, SubStates
<1>3. \A s \in Searches, j \in Keys :
        subs[s][j] = IF s \in S /\ j = k THEN "CANCELLED" ELSE sub[s][j]
  BY <1>1 DEF TypeOK
<1>4. \A s \in Searches \ C : subs[s] = sub[s]
  BY <1>1 DEF TypeOK
<1>5. SettleOrDeny(C, {}, subs, jobs) /\ Count(C, k, zero)
  BY DEF FailScheduleSubscriptions
<1>6. /\ \A s \in Searches : matches'[s] = matches[s] /\ counted[s] \subseteq counted'[s]
      /\ \A s \in Searches \ C : counted'[s] = counted[s]
  BY <1>1, <1>5 DEF Count, TypeOK
<1> HIDE DEF subs, zero
<1>7. ASSUME NEW s \in C PROVE Settleable(s, subs)
  <2>1. s \in Searches /\ Accounted(s) /\ Live(s) /\ sub[s][k] # "NONE"
    BY <1>1, <1>7 DEF CapacityParts
  <2>2. Balanced(s) /\ slot[s]
    BY <2>1 DEF Accounted, Scheduled
  <2>3. \A j \in FetchKeys : /\ subs[s][j] = sub[s][j] /\ sub[s][j] \in SubStates
    BY <1>1, <1>3, <2>1, KeysAssumption DEF Keys, TypeOK
  <2>4. /\ {j \in FetchKeys : subs[s][j] \in {"SATISFIED", "CANCELLED"}} = Drawn(s)
        /\ {j \in FetchKeys : subs[s][j] # "NONE"} = Wanted(s)
    BY <2>3 DEF Drawn, Wanted, FetchSubscriptions
  <2>5. \A j \in Keys : subs[s][j] = "NONE" <=> sub[s][j] = "NONE"
    BY <1>3, <2>1
  <2>6. Live(s)' /\ matches[s] <= matches'[s]
    BY <1>1, <1>6, <2>1 DEF Live, TypeOK
  <2> QED
    BY <1>6, <2>1, <2>2, <2>4, <2>5, <2>6 DEF Settleable, Balanced
<1>8. {} \in SUBSET Searches /\ C \cup {} = C
  OBVIOUS
<1> QED
  BY <1>2, <1>4, <1>5, <1>6, <1>7, <1>8, SettleAccounts

\* The failure of a run, on a key of either kind, for its subscribers.
LEMMA FailRunAccounts ==
  ASSUME CapacityInv, TypeOK', NEW k \in Keys, FailRun(k)
  PROVE  CapacityParts'
<1> DEFINE S == Subscribers(k)
<1> DEFINE jobs == [s \in Searches |-> [job[s] EXCEPT ![k] =
                     IF s \in S /\ @ \in OpenJob THEN "FAILED" ELSE @]]
<1>1. S \in SUBSET Searches /\ S \in SUBSET S
  BY DEF Subscribers
<1>2. \A s \in S : Live(s) /\ sub[s][k] # "NONE"
  BY DEF Subscribers
<1>3. UNCHANGED <<status, cause, seed, slot, released>>
  BY DEF FailRun
<1>4. CASE k \in FetchKeys
  <2>1. FailFetchSubscriptions(S, k)
    BY <1>4 DEF FailRun
  <2> QED
    BY <1>1, <1>3, <1>4, <2>1, FetchFailureAccounts
<1>5. CASE k \notin FetchKeys
  <2>1. k \in ScheduleKeys /\ FailScheduleSubscriptions(S, S, k, jobs)
    BY <1>5 DEF FailRun, Keys
  <2>2. UNCHANGED <<status, cause>>
    BY <1>3
  <2> HIDE DEF S, jobs
  <2> QED
    BY <1>1, <1>2, <2>1, <2>2, ScheduleFailureAccounts
<1> QED
  BY <1>4, <1>5

\* The failure of one search's own job.
LEMMA FailExhaustedJobAccounts ==
  ASSUME CapacityInv, TypeOK', NEW s \in Searches, NEW k \in Keys, FailExhaustedJob(s, k)
  PROVE  CapacityParts'
<1> DEFINE C == {s}
<1> DEFINE S == Subscribers(k) \cap C
<1> DEFINE jobs == [job EXCEPT ![s][k] = "FAILED"]
<1>1. SafetyInv /\ job[s][k] = "LEASED"
  BY DEF CapacityInv, WakeupInv, FailExhaustedJob
<1>2. sub[s][k] # "NONE" /\ ~Terminal(s)
  BY <1>1 DEF SafetyInv, UnsubscribedIsBlank, TerminalIsQuiet, OpenJob
<1>3. Live(s)
  BY <1>1, <1>2 DEF SafetyInv, TypeOK, UnbornIsUnsubscribed, Live, Terminal
<1>4. C \in SUBSET Searches /\ S \in SUBSET C /\ S \in SUBSET Subscribers(k)
  OBVIOUS
<1>5. UNCHANGED <<status, cause, seed, slot, released>>
  BY DEF FailExhaustedJob
<1>6. CASE k \in FetchKeys
  <2>1. FailFetchSubscriptions(S, k)
    BY <1>6 DEF FailExhaustedJob
  <2> QED
    BY <1>4, <1>5, <1>6, <2>1, FetchFailureAccounts
<1>7. CASE k \notin FetchKeys
  <2>1. k \in ScheduleKeys /\ FailScheduleSubscriptions(S, C, k, jobs)
    BY <1>7 DEF FailExhaustedJob, Keys
  <2>2. UNCHANGED <<status, cause>>
    BY <1>5
  <2>3. \A t \in C : Live(t) /\ sub[t][k] # "NONE"
    BY <1>2, <1>3
  <2> HIDE DEF S, C, jobs
  <2> QED
    BY <1>4, <2>1, <2>2, <2>3, ScheduleFailureAccounts
<1> QED
  BY <1>6, <1>7

-----------------------------------------------------------------------------
(* The accounts of the program *)

\* In an empty database nothing is reserved and nothing is counted.
LEMMA InitAccounts == Init => CapacityParts
<1> SUFFICES ASSUME Init PROVE CapacityParts
  OBVIOUS
<1>1. \A s \in Searches :
        /\ status[s] = "NONE" /\ cause[s] = "NULL" /\ ~denied[s] /\ seed[s] = 0
        /\ matches[s] = 0 /\ total[s] = 0 /\ remaining[s] = 0
        /\ slot[s] = FALSE /\ reconciled[s] = FALSE /\ released[s] = FALSE
  BY DEF Init
<1>2. \A s \in Searches : Accounted(s)
  BY <1>1, BoundsAssumption DEF Accounted, Blank, Live, LiveStatuses
<1>3. Units = {} /\ Slots = {}
  <2>1. ASSUME NEW u \in Units PROVE FALSE
    <3>1. u[1] \in Searches /\ u[2] \in 1 .. Reserve /\ u[2] <= remaining[u[1]]
      BY DEF Units, Grid
    <3>2. remaining[u[1]] = 0
      BY <1>1, <3>1
    <3> QED
      BY <3>1, <3>2, BoundsAssumption
  <2>2. Slots = {}
    BY <1>1 DEF Slots
  <2> QED
    BY <2>1, <2>2
<1>4. pendingCost = 0 /\ unresolved = 0 /\ Cardinality({}) = 0
  BY FS_EmptySet DEF Init
<1>5. AdmissionConservation
  BY <1>3, <1>4 DEF AdmissionConservation, Units, Slots, Grid
<1>6. AdmissionWithinLimits
  BY <1>4, BoundsAssumption DEF AdmissionWithinLimits
<1> QED
  BY <1>2, <1>5, <1>6 DEF CapacityParts

\* Every transaction keeps the accounts.
LEMMA StepAccounts ==
  ASSUME CapacityInv, [Next]_vars
  PROVE  CapacityParts'
<1>1. TypeOK'
  BY StepTypeOK DEF CapacityInv, WakeupInv, SafetyInv
<1>2. ASSUME NEW s \in Searches, Create(s) PROVE CapacityParts'
  BY <1>2, CreateSearchAccounts DEF Create
<1>3. ASSUME NEW s \in Searches,
             \/ DeadlinePasses(s) \/ ClaimAggregation(s)
             \/ DeclineTerminalization(s) \/ ReleaseClaim(s)
      PROVE  CapacityParts'
  BY <1>3, QuietAccounts
     DEF DeadlinePasses, ClaimAggregation, DeclineTerminalization, ReleaseClaim
<1>4. ASSUME NEW s \in Searches, Terminalize(s) \/ CancelSearch(s) PROVE CapacityParts'
  BY <1>4, TerminalizeAccounts, CancelSearchAccounts
<1>5. ASSUME NEW s \in Searches, NEW k \in Keys, LeaseJob(s, k) \/ AdmitJob(s, k) \/ ReclaimJob(s, k)
      PROVE  CapacityParts'
  BY <1>5, QuietAccounts DEF LeaseJob, AdmitJob, ReclaimJob
<1>6. ASSUME NEW s \in Searches, NEW k \in Keys, FailExhaustedJob(s, k) PROVE CapacityParts'
  BY <1>1, <1>6, FailExhaustedJobAccounts
<1>7. ASSUME NEW s \in Searches, NEW k \in FetchKeys, AdoptSnapshot(s, k) PROVE CapacityParts'
  BY <1>7, AdoptSnapshotAccounts
<1>8. ASSUME NEW k \in FetchKeys, AcceptFetch(k) PROVE CapacityParts'
  BY <1>8, AcceptFetchAccounts
<1>9. ASSUME NEW k \in ScheduleKeys, AcceptAnySchedule(k) PROVE CapacityParts'
  <2>1. PICK observed \in BOOLEAN, match \in [Searches -> SUBSET FetchKeys],
             fallback \in [Searches -> SUBSET (ScheduleKeys \ MovieKeys)] :
          AcceptSchedule(k, observed, match, fallback)
    BY <1>9 DEF AcceptAnySchedule
  <2>2. fallback \in [Searches -> SUBSET ScheduleKeys]
    OBVIOUS
  <2> QED
    BY <1>1, <2>1, <2>2, AcceptScheduleAccounts
<1>10. ASSUME NEW k \in Keys, FailRun(k) PROVE CapacityParts'
  BY <1>1, <1>10, FailRunAccounts
<1>11. ASSUME \/ \E k \in FetchKeys : SnapshotAges(k)
              \/ \E k \in ScheduleKeys : RequestScheduleRun(k)
              \/ \E c \in Scopes : ApplyControlTransition(c) \/ ReopenScope(c)
       PROVE  CapacityParts'
  BY <1>11, QuietAccounts
     DEF SnapshotAges, RequestScheduleRun, ApplyControlTransition, ReopenScope
<1>12. CASE UNCHANGED vars
  BY <1>12, QuietAccounts
<1>13. CASE Next
  BY ONLY <1>2, <1>3, <1>4, <1>5, <1>6, <1>7, <1>8, <1>9, <1>10, <1>11, <1>13 DEF Next
<1> QED
  BY <1>12, <1>13

\* CapacityInv holds in every reachable state: the accounts of every search, and the
\* provider's counters as the sum of what its unreleased reservations hold.
THEOREM CapacityInvariance == Spec => []CapacityInv
<1>1. Init => CapacityParts
  BY InitAccounts
<1>2. WakeupInv /\ CapacityParts /\ [Next]_vars => CapacityParts'
  BY StepAccounts DEF CapacityInv
<1>3. WakeupInv /\ CapacityParts => CapacityInv
  BY DEF CapacityInv
<1> QED
  BY <1>1, <1>2, <1>3, WakeupInvariance, PTL DEF Spec

\* The provider's counters are exactly what its unreleased reservations hold.
THEOREM AdmissionIsConserved == Spec => []AdmissionConservation
<1>1. CapacityInv => AdmissionConservation
  BY DEF CapacityInv, CapacityParts
<1> QED
  BY <1>1, CapacityInvariance, PTL

\* Committed admission stays within both limits and is never negative.
THEOREM AdmissionIsLimited == Spec => []AdmissionWithinLimits
<1>1. CapacityInv => AdmissionWithinLimits
  BY DEF CapacityInv, CapacityParts
<1> QED
  BY <1>1, CapacityInvariance, PTL

\* A standing reservation was drawn once for every showtime that was satisfied or failed,
\* whichever of the four paths ended it.
THEOREM NothingIsDrawnTwice == Spec => []DrawnDownOnce
<1>1. CapacityInv => DrawnDownOnce
  BY DEF CapacityInv, CapacityParts, Accounted, Balanced, Drawn, DrawnDownOnce
<1> QED
  BY <1>1, CapacityInvariance, PTL

\* After reconciliation the reservation is the durable aggregate, within the ceiling, and
\* at all times it covers the subscriptions of a live search.
THEOREM WindowsAreAccounted == Spec => []WindowAccounting
<1>1. CapacityInv => WindowAccounting
  BY DEF CapacityInv, CapacityParts, Accounted, Balanced, Wanted, WindowAccounting
<1> QED
  BY <1>1, CapacityInvariance, PTL

\* No search is denied, or ended for capacity, whose matches were within the ceiling.
THEOREM DenialsAreEarned == Spec => []DenialIsEarned
<1>1. CapacityInv => DenialIsEarned
  BY DEF CapacityInv, CapacityParts, Accounted, DenialIsEarned
<1> QED
  BY <1>1, CapacityInvariance, PTL
-----------------------------------------------------------------------------
(* Who takes capacity *)

CapacityReturns == pendingCost' <= pendingCost /\ unresolved' <= unresolved

\* Capacity is taken by the creation of a search alone, which tests the limits before it.
\* Every later write, also the reconciliation to an aggregate nobody knew at creation,
\* only returns some, so that nothing but B1 has to look at the limits.
OnlyCreationTakes ==
  [][(\E s \in Searches : status[s] = "NONE" /\ status'[s] # "NONE") \/ CapacityReturns]_vars

\* Fan-in and failure of a showtime return a unit per subscriber.
LEMMA DrawDownReturns ==
  ASSUME TypeOK, NEW S \in SUBSET Searches, DrawDown(S)
  PROVE  CapacityReturns
<1>1. Cardinality(S) \in Nat
  BY FS_Subset, FS_CardinalityType, KeysAssumption
<1> QED
  BY <1>1 DEF DrawDown, TypeOK, CapacityReturns

\* The reconciliation of live searches within the ceiling finds their cold reservations
\* standing, which cover the ceiling: nothing is above what was reserved.
LEMMA SettleOrDenyReturns ==
  ASSUME CapacityInv, NEW S \in SUBSET Searches, NEW D, NEW subs, NEW jobs,
         SettleOrDeny(S, D, subs, jobs), \A s \in S : Live(s)
  PROVE  CapacityReturns
<1> DEFINE fit == {s \in {t \in S : Settling(t, subs, counted')} : Fits(s, matches'[s])}
<1> DEFINE durable == [s \in Searches |-> seed[s] + matches'[s]]
<1> DEFINE back == {u \in fit \X (1 .. Reserve) : durable[u[1]] < u[2] /\ u[2] <= total[u[1]]}
<1> DEFINE more == {u \in fit \X (1 .. Ceiling) : total[u[1]] < u[2] /\ u[2] <= durable[u[1]]}
<1>1. TypeOK /\ CapacityParts
  BY DEF CapacityInv, WakeupInv, SafetyInv
<1>2. /\ pendingCost' = pendingCost - Cardinality(back) + Cardinality(more)
      /\ unresolved' = unresolved - Cardinality(fit)
  BY DEF SettleOrDeny, Reconcile
<1>3. fit \in SUBSET Searches /\ back \in SUBSET Grid
  BY DEF Grid
<1>4. \A s \in fit : total[s] = Reserve /\ durable[s] <= Ceiling
  BY <1>1 DEF Settling, Fits, CapacityParts, Accounted, Scheduled
<1>5. more = {}
  <2> SUFFICES ASSUME NEW u \in more PROVE FALSE
    OBVIOUS
  <2>1. u[1] \in fit /\ u[2] \in Int /\ total[u[1]] < u[2] /\ u[2] <= Ceiling
    BY BoundsAssumption
  <2>2. total[u[1]] = Reserve
    BY <1>4, <2>1
  <2> QED
    BY <2>1, <2>2, ReserveCoversCeiling, BoundsAssumption
<1>6. Cardinality(back) \in Nat /\ Cardinality(fit) \in Nat
  BY <1>3, GridIsFinite, FS_Subset, FS_CardinalityType, KeysAssumption
<1>7. Cardinality(more) = 0
  BY <1>5, FS_EmptySet
<1>8. pendingCost \in Int /\ unresolved \in Int
  BY <1>1 DEF TypeOK
<1> HIDE DEF fit, back, more
<1> QED
  BY <1>2, <1>6, <1>7, <1>8 DEF CapacityReturns

\* Either end of a live search returns what its reservation still holds.
LEMMA EndSearchReturns ==
  ASSUME CapacityInv, NEW s \in Searches, EndSearch(s)
  PROVE  CapacityReturns
<1>1. TypeOK /\ SafetyInv /\ Accounted(s)
  BY DEF CapacityInv, CapacityParts, WakeupInv, SafetyInv
<1>2. remaining[s] \in Nat /\ pendingCost \in Int /\ unresolved \in Int
  BY <1>1, BalanceBounds, BoundsAssumption DEF TypeOK
<1>3. /\ pendingCost' = pendingCost \/ pendingCost' = pendingCost - remaining[s]
      /\ unresolved' = unresolved \/ unresolved' = unresolved - 1
  BY DEF EndSearch
<1> QED
  BY <1>2, <1>3 DEF CapacityReturns

\* The failure of subscriptions returns capacity on a key of either kind.
LEMMA FailureReturns ==
  ASSUME CapacityInv, NEW k \in Keys, NEW S \in SUBSET Searches, NEW C \in SUBSET Searches,
         NEW jobs, \A s \in C : Live(s),
         FailFetchSubscriptions(S, k) \/ FailScheduleSubscriptions(S, C, k, jobs)
  PROVE  CapacityReturns
<1>1. TypeOK
  BY DEF CapacityInv, WakeupInv, SafetyInv
<1>2. CASE FailFetchSubscriptions(S, k)
  BY <1>1, <1>2, DrawDownReturns DEF FailFetchSubscriptions
<1>3. CASE FailScheduleSubscriptions(S, C, k, jobs)
  BY <1>3, SettleOrDenyReturns DEF FailScheduleSubscriptions
<1> QED
  BY <1>2, <1>3

\* A job whose lease is exhausted belongs to a live search.
LEMMA ExhaustedJobReturns ==
  ASSUME CapacityInv, NEW s \in Searches, NEW k \in Keys, FailExhaustedJob(s, k)
  PROVE  CapacityReturns
<1> DEFINE C == {s}
<1> DEFINE S == Subscribers(k) \cap C
<1> DEFINE jobs == [job EXCEPT ![s][k] = "FAILED"]
<1>1. SafetyInv /\ job[s][k] = "LEASED"
  BY DEF CapacityInv, WakeupInv, FailExhaustedJob
<1>2. sub[s][k] # "NONE" /\ ~Terminal(s)
  BY <1>1 DEF SafetyInv, UnsubscribedIsBlank, TerminalIsQuiet, OpenJob
<1>3. Live(s)
  BY <1>1, <1>2 DEF SafetyInv, TypeOK, UnbornIsUnsubscribed, Live, Terminal
<1>4. C \in SUBSET Searches /\ S \in SUBSET Searches /\ \A t \in C : Live(t)
  BY <1>3
<1>5. FailFetchSubscriptions(S, k) \/ FailScheduleSubscriptions(S, C, k, jobs)
  BY DEF FailExhaustedJob
<1> HIDE DEF C, S, jobs
<1> QED
  BY <1>4, <1>5, FailureReturns

\* A failed run's subscribers are live, and so are those of an accepted schedule.
LEMMA RunEndReturns ==
  ASSUME CapacityInv, NEW k \in Keys,
         \/ FailRun(k)
         \/ k \in FetchKeys /\ AcceptFetch(k)
         \/ \E observed \in BOOLEAN, match \in [Searches -> SUBSET FetchKeys],
               fallback \in [Searches -> SUBSET ScheduleKeys] :
              AcceptSchedule(k, observed, match, fallback)
  PROVE  CapacityReturns
<1> DEFINE S == Subscribers(k)
<1>1. TypeOK
  BY DEF CapacityInv, WakeupInv, SafetyInv
<1>2. S \in SUBSET Searches /\ \A s \in S : Live(s)
  BY DEF Subscribers
<1>3. CASE FailRun(k)
  <2> DEFINE jobs == [s \in Searches |-> [job[s] EXCEPT ![k] =
                       IF s \in S /\ @ \in OpenJob THEN "FAILED" ELSE @]]
  <2>1. FailFetchSubscriptions(S, k) \/ FailScheduleSubscriptions(S, S, k, jobs)
    BY <1>3 DEF FailRun
  <2> HIDE DEF S, jobs
  <2> QED
    BY <1>2, <2>1, FailureReturns
<1>4. CASE k \in FetchKeys /\ AcceptFetch(k)
  BY <1>1, <1>2, <1>4, DrawDownReturns DEF AcceptFetch
<1>5. ASSUME NEW observed \in BOOLEAN, NEW match \in [Searches -> SUBSET FetchKeys],
             NEW fallback \in [Searches -> SUBSET ScheduleKeys],
             AcceptSchedule(k, observed, match, fallback)
      PROVE  CapacityReturns
  <2>1. \E E \in SUBSET S : \E D, subs, jobs : SettleOrDeny(E, D, subs, jobs)
    BY <1>5 DEF AcceptSchedule
  <2>2. PICK E \in SUBSET S : \E D, subs, jobs : SettleOrDeny(E, D, subs, jobs)
    BY <2>1
  <2> HIDE DEF S
  <2> QED
    BY <1>2, <2>2, SettleOrDenyReturns
<1> QED
  BY <1>3, <1>4, <1>5

\* OnlyCreationTakes holds of every step.
THEOREM CreationAloneTakes == Spec => OnlyCreationTakes
<1> DEFINE Born == \E s \in Searches : status[s] = "NONE" /\ status'[s] # "NONE"
<1>1. ASSUME CapacityInv, [Next]_vars PROVE Born \/ CapacityReturns
  <2>1. TypeOK
    BY <1>1 DEF CapacityInv, WakeupInv, SafetyInv
  <2>2. pendingCost' = pendingCost /\ unresolved' = unresolved => CapacityReturns
    BY <2>1 DEF TypeOK, CapacityReturns
  <2>3. ASSUME NEW s \in Searches, Create(s) PROVE Born
    <3>1. PICK scheduled, matched, admitted : CreateSearch(s, scheduled, matched, admitted)
      BY ONLY <2>3 DEF Create
    <3>2. /\ status[s] = "NONE"
          /\ status' = [status EXCEPT ![s] =
                          IF scheduled # {} THEN "PENDING_SCHEDULE" ELSE "RUNNING"]
      BY ONLY <3>1 DEF CreateSearch
    <3>3. status'[s] \in {"PENDING_SCHEDULE", "RUNNING"}
      BY ONLY <2>1, <3>2 DEF TypeOK
    <3> QED
      BY <3>2, <3>3
  <2>4. ASSUME NEW s \in Searches,
               \/ DeadlinePasses(s) \/ ClaimAggregation(s)
               \/ DeclineTerminalization(s) \/ ReleaseClaim(s)
               \/ \E k \in Keys : LeaseJob(s, k) \/ AdmitJob(s, k) \/ ReclaimJob(s, k)
        PROVE  CapacityReturns
    BY <2>2, <2>4
       DEF DeadlinePasses, ClaimAggregation, DeclineTerminalization, ReleaseClaim,
           LeaseJob, AdmitJob, ReclaimJob, admissionVars
  <2>5. ASSUME NEW s \in Searches, Terminalize(s) \/ CancelSearch(s) PROVE CapacityReturns
    BY <1>1, <2>5, EndSearchReturns DEF Terminalize, CancelSearch
  <2>6. ASSUME NEW s \in Searches, NEW k \in FetchKeys, AdoptSnapshot(s, k)
        PROVE  CapacityReturns
    <3>1. pendingCost' = pendingCost \/ pendingCost' = pendingCost - 1
      BY <2>6 DEF AdoptSnapshot
    <3>2. unresolved' = unresolved /\ unresolved \in Int /\ pendingCost \in Int
      BY <2>1, <2>6 DEF AdoptSnapshot, TypeOK
    <3> QED
      BY <3>1, <3>2 DEF CapacityReturns
  <2>7. ASSUME NEW s \in Searches, NEW k \in Keys, FailExhaustedJob(s, k)
        PROVE  CapacityReturns
    BY <1>1, <2>7, ExhaustedJobReturns
  <2>8. ASSUME NEW k \in Keys, FailRun(k) PROVE CapacityReturns
    BY <1>1, <2>8, RunEndReturns
  <2>9. ASSUME NEW k \in FetchKeys, AcceptFetch(k) PROVE CapacityReturns
    BY <1>1, <2>9, RunEndReturns DEF Keys
  <2>10. ASSUME NEW k \in ScheduleKeys, AcceptAnySchedule(k) PROVE CapacityReturns
    <3>1. PICK observed \in BOOLEAN, match \in [Searches -> SUBSET FetchKeys],
               fallback \in [Searches -> SUBSET (ScheduleKeys \ MovieKeys)] :
            AcceptSchedule(k, observed, match, fallback)
      BY <2>10 DEF AcceptAnySchedule
    <3>2. fallback \in [Searches -> SUBSET ScheduleKeys] /\ k \in Keys
      BY DEF Keys
    <3> QED
      BY <1>1, <3>1, <3>2, RunEndReturns
  <2>11. ASSUME \/ \E k \in FetchKeys : SnapshotAges(k)
                \/ \E k \in ScheduleKeys : RequestScheduleRun(k)
                \/ \E c \in Scopes : ApplyControlTransition(c) \/ ReopenScope(c)
         PROVE  CapacityReturns
    BY <2>2, <2>11
       DEF SnapshotAges, RequestScheduleRun, ApplyControlTransition, ReopenScope, admissionVars
  <2>12. CASE UNCHANGED vars
    BY <2>2, <2>12 DEF vars, admissionVars
  <2> HIDE DEF Born
  <2>13. CASE Next
    BY ONLY <2>3, <2>4, <2>5, <2>6, <2>7, <2>8, <2>9, <2>10, <2>11, <2>13 DEF Next
  <2> QED
    BY <1>1, <2>12, <2>13
<1> QED
  BY <1>1, CapacityInvariance, PTL DEF Spec, OnlyCreationTakes
-----------------------------------------------------------------------------
(* What a terminal answer may say *)

\* What the columns of a live search say of each other: a match came with a resolved
\* schedule, a satisfied showtime with a finished job, a cancelled job with a denial.
Consistent(s) ==
  /\ matches[s] > 0 =>
       \E k \in ScheduleKeys : sub[s][k] # "NONE" /\ outcome[s][k] = "RESOLVED"
  /\ \A k \in FetchKeys : sub[s][k] = "SATISFIED" => job[s][k] = "DONE"
  /\ \A k \in Keys : job[s][k] = "CANCELLED" => denied[s]

LiveIsConsistent == \A s \in Searches : Live(s) => Consistent(s)

OutcomeInv ==
  CapacityInv /\ LiveIsConsistent /\ HaltedIsEmptyHanded /\ CompleteAbandonsNothing

\* Nothing Consistent depends on was written, but for jobs that did not finish.
SameWorkColumns(s) ==
  /\ status'[s] = status[s] /\ sub'[s] = sub[s] /\ outcome'[s] = outcome[s]
  /\ matches'[s] = matches[s] /\ denied'[s] = denied[s]
  /\ \A k \in Keys : job'[s][k] = job[s][k] \/ (job[s][k] \in OpenJob /\ job'[s][k] \in OpenJob)

\* A step that writes none of these columns of a live search keeps them consistent.
LEMMA SameColumnsConsistent ==
  ASSUME LiveIsConsistent, \A s \in Searches : SameWorkColumns(s) \/ ~Live(s)'
  PROVE  LiveIsConsistent'
<1> SUFFICES ASSUME NEW s \in Searches, Live(s)' PROVE Consistent(s)'
  BY DEF LiveIsConsistent
<1>1. SameWorkColumns(s)
  OBVIOUS
<1>2. Consistent(s)
  BY <1>1 DEF LiveIsConsistent, SameWorkColumns, Live
<1> QED
  BY <1>1, <1>2 DEF Consistent, SameWorkColumns, OpenJob, Keys

\* A new search has matched, fetched and cancelled nothing.
LEMMA CreateSearchConsistent ==
  ASSUME OutcomeInv, NEW s \in Searches, Create(s)
  PROVE  LiveIsConsistent'
<1>1. TypeOK /\ LiveIsConsistent /\ Accounted(s)
  BY DEF OutcomeInv, CapacityInv, CapacityParts, WakeupInv, SafetyInv
<1>2. PICK scheduled \in SUBSET ScheduleKeys, matched \in SUBSET FetchKeys :
        \E admitted \in SUBSET matched : CreateSearch(s, scheduled, matched, admitted)
  BY DEF Create
<1>3. PICK admitted \in SUBSET matched : CreateSearch(s, scheduled, matched, admitted)
  BY <1>2
<1>4. /\ matches'[s] = 0
      /\ \A k \in Keys : sub'[s][k] \in {"LIVE", "NONE"} /\ job'[s][k] \in {"PENDING", "NONE"}
  BY <1>1, <1>3 DEF TypeOK, CreateSearch, Accounted, Blank
<1>5. Consistent(s)'
  BY <1>4 DEF Consistent, Keys
<1>6. \A t \in Searches \ {s} : SameWorkColumns(t)
  BY <1>1, <1>3 DEF TypeOK, CreateSearch, SameWorkColumns
<1>7. \A t \in Searches \ {s} : Live(t)' => Consistent(t)'
  <2> SUFFICES ASSUME NEW t \in Searches \ {s}, Live(t)' PROVE Consistent(t)'
    OBVIOUS
  <2>1. SameWorkColumns(t)
    BY <1>6
  <2>2. Consistent(t)
    BY <1>1, <2>1 DEF LiveIsConsistent, SameWorkColumns, Live
  <2> QED
    BY <2>1, <2>2 DEF Consistent, SameWorkColumns, OpenJob, Keys
<1> QED
  BY <1>5, <1>7 DEF LiveIsConsistent

\* The delivery and the reclaim of a job open what was open.
LEMMA LeaseConsistent ==
  ASSUME OutcomeInv, NEW s \in Searches, NEW k \in Keys, LeaseJob(s, k) \/ ReclaimJob(s, k)
  PROVE  LiveIsConsistent'
<1>1. TypeOK /\ LiveIsConsistent
  BY DEF OutcomeInv, CapacityInv, WakeupInv, SafetyInv
<1>2. UNCHANGED <<status, sub, outcome, matches, denied>>
  BY DEF LeaseJob, ReclaimJob
<1>3. \E state \in OpenJob : job[s][k] \in OpenJob /\ job' = [job EXCEPT ![s][k] = state]
  BY DEF LeaseJob, ReclaimJob, OpenJob
<1>4. \A t \in Searches : SameWorkColumns(t)
  BY <1>1, <1>2, <1>3 DEF TypeOK, SameWorkColumns
<1> QED
  BY <1>1, <1>4, SameColumnsConsistent

\* The showtime k ends for the searches of S, with the jobs job': those whose showtime was
\* satisfied have a finished job, and no job is cancelled.
LEMMA FetchConsistent ==
  ASSUME TypeOK, LiveIsConsistent, NEW k \in FetchKeys,
         UNCHANGED <<status, outcome, matches, denied>>,
         \A s \in Searches, j \in Keys : j # k => sub'[s][j] = sub[s][j] /\ job'[s][j] = job[s][j],
         \A s \in Searches : job'[s][k] # "CANCELLED" \/ job'[s][k] = job[s][k],
         \A s \in Searches : Live(s) /\ sub'[s][k] = "SATISFIED" => job'[s][k] = "DONE"
  PROVE  LiveIsConsistent'
<1> SUFFICES ASSUME NEW s \in Searches, Live(s)' PROVE Consistent(s)'
  BY DEF LiveIsConsistent
<1>1. Live(s) /\ Consistent(s)
  BY DEF LiveIsConsistent, Live
<1>2. \A j \in ScheduleKeys : j # k /\ sub'[s][j] = sub[s][j]
  BY KeysAssumption DEF Keys
<1> QED
  BY <1>1, <1>2 DEF Consistent, Keys

\* A fan-in finishes the open job of each subscriber it satisfies.
LEMMA AcceptFetchConsistent ==
  ASSUME OutcomeInv, NEW k \in FetchKeys, AcceptFetch(k)
  PROVE  LiveIsConsistent'
<1>1. SafetyInv /\ TypeOK /\ LiveIsConsistent /\ k \in Keys
  BY DEF OutcomeInv, CapacityInv, WakeupInv, SafetyInv, Keys
<1>2. \A s \in Searches, j \in Keys :
        /\ sub'[s][j] = IF s \in Subscribers(k) /\ j = k THEN "SATISFIED" ELSE sub[s][j]
        /\ job'[s][j] = IF s \in Subscribers(k) /\ j = k /\ job[s][j] \in OpenJob THEN "DONE"
                        ELSE job[s][j]
  BY <1>1 DEF AcceptFetch, CloseJob, TypeOK
<1>3. ASSUME NEW s \in Searches, Live(s), sub'[s][k] = "SATISFIED" PROVE job'[s][k] = "DONE"
  <2>1. CASE s \in Subscribers(k)
    <3>1. job[s][k] \in OpenJob
      BY <1>1, <2>1 DEF Subscribers, SafetyInv, LiveSubscriptionIsDriven
    <3> QED
      BY <1>1, <1>2, <2>1, <3>1
  <2>2. CASE s \notin Subscribers(k)
    <3>1. sub[s][k] = "SATISFIED" /\ job'[s][k] = job[s][k]
      BY <1>1, <1>2, <1>3, <2>2
    <3> QED
      BY <1>1, <1>3, <3>1 DEF LiveIsConsistent, Consistent
  <2> QED
    BY <2>1, <2>2
<1>4. UNCHANGED <<status, outcome, matches, denied>>
  BY DEF AcceptFetch
<1>5. \A s \in Searches : job'[s][k] # "CANCELLED" \/ job'[s][k] = job[s][k]
  BY <1>1, <1>2
<1>6. \A s \in Searches, j \in Keys : j # k => sub'[s][j] = sub[s][j] /\ job'[s][j] = job[s][j]
  BY <1>2
<1> QED
  BY <1>1, <1>3, <1>4, <1>5, <1>6, FetchConsistent

\* An adoption finishes the job it was made by.
LEMMA AdoptSnapshotConsistent ==
  ASSUME OutcomeInv, NEW s \in Searches, NEW k \in FetchKeys, AdoptSnapshot(s, k)
  PROVE  LiveIsConsistent'
<1>1. TypeOK /\ LiveIsConsistent /\ k \in Keys
  BY DEF OutcomeInv, CapacityInv, WakeupInv, SafetyInv, Keys
<1>2. \A t \in Searches, j \in Keys :
        /\ ~(t = s /\ j = k) => sub'[t][j] = sub[t][j] /\ job'[t][j] = job[t][j]
        /\ t = s /\ j = k => job'[t][j] = "DONE"
  BY <1>1 DEF AdoptSnapshot, TypeOK
<1>3. UNCHANGED <<status, outcome, matches, denied>>
  BY DEF AdoptSnapshot
<1>4. \A t \in Searches : Live(t) /\ sub'[t][k] = "SATISFIED" => job'[t][k] = "DONE"
  BY <1>1, <1>2 DEF LiveIsConsistent, Consistent
<1>5. \A t \in Searches : job'[t][k] # "CANCELLED" \/ job'[t][k] = job[t][k]
  BY <1>1, <1>2
<1>6. \A t \in Searches, j \in Keys : j # k => sub'[t][j] = sub[t][j] /\ job'[t][j] = job[t][j]
  BY <1>2
<1> QED
  BY <1>1, <1>3, <1>4, <1>5, <1>6, FetchConsistent

\* Consistent of what a transaction hands to SettleOrDeny.
Recorded(s, subs, jobs) ==
  /\ matches'[s] > 0 =>
       \E k \in ScheduleKeys : subs[s][k] # "NONE" /\ outcome'[s][k] = "RESOLVED"
  /\ \A k \in FetchKeys : subs[s][k] = "SATISFIED" => jobs[s][k] = "DONE"
  /\ \A k \in Keys : jobs[s][k] = "CANCELLED" => denied[s]

\* SettleOrDeny cancels jobs only of searches it denies.
LEMMA SettledConsistent ==
  ASSUME TypeOK, NEW S \in SUBSET Searches, NEW D \in SUBSET Searches,
         NEW subs \in [Searches -> [Keys -> SubStates]],
         NEW jobs \in [Searches -> [Keys -> JobStates]],
         SettleOrDeny(S, D, subs, jobs),
         \A s \in Searches : Live(s)' => Recorded(s, subs, jobs)
  PROVE  LiveIsConsistent'
<1> DEFINE settling == {s \in S : Settling(s, subs, counted')}
<1> DEFINE gone == D \cup (settling \ {s \in settling : Fits(s, matches'[s])})
<1>1. Deny(gone, subs, jobs)
  BY DEF SettleOrDeny
<1> HIDE DEF gone
<1>2. SUFFICES ASSUME NEW s \in Searches, Live(s)' PROVE Consistent(s)'
  BY DEF LiveIsConsistent
<1>3. Recorded(s, subs, jobs)
  BY <1>2
<1>4. subs[s] \in [Keys -> SubStates] /\ jobs[s] \in [Keys -> JobStates]
  OBVIOUS
<1>5. CASE s \in gone
  <2>1. denied'[s] /\ sub'[s] = ExpireSubscriptions(subs[s]) /\ job'[s] = CancelJobs(jobs[s])
    BY <1>1, <1>5 DEF Deny
  <2>2. \A k \in Keys : /\ sub'[s][k] = "NONE" <=> subs[s][k] = "NONE"
                        /\ sub'[s][k] = "SATISFIED" <=> subs[s][k] = "SATISFIED"
                        /\ jobs[s][k] = "DONE" => job'[s][k] = "DONE"
    BY <1>4, <2>1, ExpiryDrawsNothing DEF CancelJobs, OpenJob
  <2> QED
    BY <1>3, <2>1, <2>2 DEF Recorded, Consistent, Keys
<1>6. CASE s \notin gone
  <2>1. sub'[s] = subs[s] /\ job'[s] = jobs[s] /\ (denied[s] => denied'[s])
    BY <1>1, <1>6 DEF Deny
  <2> QED
    BY <1>3, <2>1 DEF Recorded, Consistent
<1> QED
  BY <1>5, <1>6

\* An acceptance counts matches only from a payload that resolves its key.
LEMMA AcceptScheduleConsistent ==
  ASSUME OutcomeInv, NEW k \in ScheduleKeys, NEW observed \in BOOLEAN,
         NEW match \in [Searches -> SUBSET FetchKeys],
         NEW fallback \in [Searches -> SUBSET ScheduleKeys],
         AcceptSchedule(k, observed, match, fallback)
  PROVE  LiveIsConsistent'
<1> DEFINE S == Subscribers(k)
<1> DEFINE n == [s \in Searches |-> Cardinality(match[s])]
<1> DEFINE overflowing == {s \in S : ~Fits(s, matches[s] + n[s])}
<1> DEFINE expanding == S \ overflowing
<1> DEFINE found == [s \in Searches |->
        IF s \in expanding THEN (match[s] \cup fallback[s]) \ Subscribed(s) ELSE {}]
<1> DEFINE subs == [s \in Searches |-> [j \in Keys |->
        IF j \in found[s] THEN "LIVE" ELSE IF s \in S /\ j = k THEN "SATISFIED" ELSE sub[s][j]]]
<1> DEFINE jobs == [s \in Searches |-> [j \in Keys |->
        IF j \in found[s] THEN "PENDING"
        ELSE IF s \in S /\ j = k /\ job[s][j] \in OpenJob THEN "DONE" ELSE job[s][j]]]
<1>1. SafetyInv /\ TypeOK /\ LiveIsConsistent /\ k \in Keys
  BY DEF OutcomeInv, CapacityInv, WakeupInv, SafetyInv, Keys
<1>2. /\ subs \in [Searches -> [Keys -> SubStates]]
      /\ jobs \in [Searches -> [Keys -> JobStates]]
  BY <1>1 DEF TypeOK, SubStates, JobStates
<1>3. expanding \in SUBSET Searches /\ overflowing \in SUBSET Searches
  BY DEF Subscribers
<1>4. /\ SettleOrDeny(expanding, overflowing, subs, jobs) /\ Count(S, k, n)
      /\ \A s \in Searches : ~observed => match[s] = {}
      /\ outcome' = [s \in Searches |-> [outcome[s] EXCEPT ![k] =
           IF s \in S THEN IF observed THEN "RESOLVED" ELSE "EMPTY_RESOLVED" ELSE @]]
      /\ status' = [s \in Searches |-> IF s \in S /\ observed THEN "RUNNING" ELSE status[s]]
  BY DEF AcceptSchedule
<1>5. \A s \in Searches, j \in Keys :
        /\ subs[s][j] = IF j \in found[s] THEN "LIVE"
                        ELSE IF s \in S /\ j = k THEN "SATISFIED" ELSE sub[s][j]
        /\ jobs[s][j] = IF j \in found[s] THEN "PENDING"
                        ELSE IF s \in S /\ j = k /\ job[s][j] \in OpenJob THEN "DONE"
                        ELSE job[s][j]
        /\ j \in found[s] => sub[s][j] = "NONE"
  BY DEF Subscribed
<1>6. \A s \in S : /\ s \in Searches /\ Live(s) /\ sub[s][k] = "LIVE" /\ outcome[s][k] = "NULL"
  BY <1>1 DEF Subscribers, SafetyInv, LiveSubscriptionIsDriven
<1>7. \A s \in Searches : ~observed => n[s] = 0
  BY <1>4, FS_EmptySet
<1> HIDE DEF S, n, overflowing, expanding, found, subs, jobs
<1>8. ASSUME NEW s \in Searches, Live(s)' PROVE Recorded(s, subs, jobs)
  <2>1. Live(s) /\ Consistent(s)
    BY <1>1, <1>4, <1>6, <1>8 DEF LiveIsConsistent, Live
  <2>2. \A j \in ScheduleKeys :
          /\ outcome'[s][j] = IF j = k /\ s \in S
                              THEN IF observed THEN "RESOLVED" ELSE "EMPTY_RESOLVED"
                              ELSE outcome[s][j]
          /\ sub[s][j] # "NONE" => subs[s][j] # "NONE"
    BY <1>1, <1>4, <1>5 DEF TypeOK, Keys
  <2>3. \A j \in Keys : jobs[s][j] = "CANCELLED" => denied[s]
    BY <1>5, <2>1 DEF Consistent
  <2>4. \A j \in FetchKeys : subs[s][j] = "SATISFIED" => jobs[s][j] = "DONE"
    BY <1>5, <2>1, KeysAssumption DEF Consistent, Keys, OpenJob
  <2>5. ASSUME matches'[s] > 0
        PROVE  \E j \in ScheduleKeys : subs[s][j] # "NONE" /\ outcome'[s][j] = "RESOLVED"
    <3>1. CASE s \in S /\ observed
      BY <1>6, <2>2, <3>1
    <3>2. CASE ~(s \in S /\ observed)
      <4>1. matches'[s] = matches[s]
        <5>1. matches'[s] = IF s \in S /\ k \notin counted[s] THEN matches[s] + n[s] ELSE matches[s]
          BY <1>4 DEF Count
        <5>2. matches[s] \in Nat
          BY <1>1 DEF TypeOK
        <5> QED
          BY <1>7, <3>2, <5>1, <5>2
      <4>2. PICK j \in ScheduleKeys : sub[s][j] # "NONE" /\ outcome[s][j] = "RESOLVED"
        BY <2>1, <2>5, <4>1 DEF Consistent
      <4>3. ~(j = k /\ s \in S)
        BY <1>6, <4>2
      <4> QED
        BY <2>2, <4>2, <4>3
    <3> QED
      BY <3>1, <3>2
  <2> QED
    BY <2>3, <2>4, <2>5 DEF Recorded
<1> QED
  BY <1>1, <1>2, <1>3, <1>4, <1>8, SettledConsistent

\* A failure satisfies nothing, cancels no job, and fails no key that was resolved.
LEMMA FailureConsistent ==
  ASSUME OutcomeInv, NEW k \in Keys, NEW C \in SUBSET Searches,
         NEW jobs \in [Searches -> [Keys -> JobStates]],
         \A s \in Searches, j \in Keys : jobs[s][j] \in {job[s][j], "FAILED"},
         \A s \in Searches, j \in Keys : job[s][j] = "DONE" => jobs[s][j] = "DONE",
         KeyFails(C, k, jobs), UNCHANGED status
  PROVE  LiveIsConsistent'
<1> DEFINE S == Subscribers(k) \cap C
<1> DEFINE subs ==
      [s \in Searches |-> [sub[s] EXCEPT ![k] = IF s \in S THEN "CANCELLED" ELSE @]]
<1>1. SafetyInv /\ TypeOK /\ LiveIsConsistent
  BY DEF OutcomeInv, CapacityInv, WakeupInv, SafetyInv
<1>2. subs \in [Searches -> [Keys -> SubStates]]
  BY <1>1 DEF TypeOK, SubStates
<1>3. \A s \in Searches, j \in Keys :
        subs[s][j] = IF s \in S /\ j = k THEN "CANCELLED" ELSE sub[s][j]
  BY <1>1 DEF TypeOK
<1>4. \A s \in S : k \in ScheduleKeys => outcome[s][k] = "NULL"
  BY <1>1 DEF Subscribers, SafetyInv, LiveSubscriptionIsDriven
<1>5. S \in SUBSET Searches /\ {} \in SUBSET Searches
  OBVIOUS
<1>6. \/ sub' = subs /\ job' = jobs /\ UNCHANGED <<denied, outcome, matches>>
      \/ /\ SettleOrDeny(C, {}, subs, jobs) /\ k \in ScheduleKeys
         /\ Count(C, k, [s \in Searches |-> 0])
         /\ outcome' = [s \in Searches |->
                          [outcome[s] EXCEPT ![k] = IF s \in S THEN "FAILED" ELSE @]]
  BY DEF KeyFails, FailFetchSubscriptions, FailScheduleSubscriptions
<1> HIDE DEF S, subs
<1>7. ASSUME NEW s \in Searches, Live(s)'
      PROVE  Recorded(s, subs, jobs)
  <2>1. Live(s) /\ Consistent(s)
    BY <1>1, <1>7 DEF LiveIsConsistent, Live
  <2>2. matches'[s] = matches[s]
    <3>1. matches[s] \in Nat
      BY <1>1 DEF TypeOK
    <3> QED
      BY <1>6, <3>1 DEF Count
  <2>3. \A j \in ScheduleKeys : outcome[s][j] = "RESOLVED" => outcome'[s][j] = "RESOLVED"
    <3> TAKE j \in ScheduleKeys
    <3>1. outcome[s] \in [ScheduleKeys -> Outcomes]
      BY <1>1 DEF TypeOK
    <3>2. CASE UNCHANGED outcome
      BY <3>2
    <3>3. CASE /\ k \in ScheduleKeys
               /\ outcome' = [t \in Searches |->
                                [outcome[t] EXCEPT ![k] = IF t \in S THEN "FAILED" ELSE @]]
      <4>1. outcome'[s][j] = IF j = k /\ s \in S THEN "FAILED" ELSE outcome[s][j]
        BY <3>1, <3>3
      <4> QED
        BY <1>4, <3>3, <4>1
    <3> QED
      BY <1>6, <3>2, <3>3
  <2>4. \A j \in Keys : /\ sub[s][j] # "NONE" => subs[s][j] # "NONE"
                        /\ subs[s][j] = "SATISFIED" => sub[s][j] = "SATISFIED"
    BY <1>3
  <2>5. \A j \in Keys : jobs[s][j] = "CANCELLED" => job[s][j] = "CANCELLED"
    OBVIOUS
  <2> QED
    BY <2>1, <2>2, <2>3, <2>4, <2>5 DEF Recorded, Consistent, Keys
<1>8. CASE sub' = subs /\ job' = jobs /\ UNCHANGED <<denied, outcome, matches>>
  BY <1>7, <1>8 DEF LiveIsConsistent, Consistent, Recorded
<1>9. CASE SettleOrDeny(C, {}, subs, jobs)
  BY <1>1, <1>2, <1>5, <1>7, <1>9, SettledConsistent
<1> QED
  BY <1>6, <1>8, <1>9

\* Both failures, of a run and of one job, touch jobs that were open.
LEMMA FailRunConsistent ==
  ASSUME OutcomeInv, NEW k \in Keys, FailRun(k)
  PROVE  LiveIsConsistent'
<1> DEFINE S == Subscribers(k)
<1> DEFINE jobs == [s \in Searches |-> [job[s] EXCEPT ![k] =
                     IF s \in S /\ @ \in OpenJob THEN "FAILED" ELSE @]]
<1>1. TypeOK
  BY DEF OutcomeInv, CapacityInv, WakeupInv, SafetyInv
<1>2. S \in SUBSET Searches /\ Subscribers(k) \cap S = S
  BY DEF Subscribers
<1>3. jobs \in [Searches -> [Keys -> JobStates]]
  BY <1>1 DEF TypeOK, JobStates
<1>4. \A s \in Searches, j \in Keys :
        jobs[s][j] = IF j = k /\ s \in S /\ job[s][j] \in OpenJob THEN "FAILED" ELSE job[s][j]
  BY <1>1 DEF TypeOK
<1>5. KeyFails(S, k, jobs)
  BY <1>2 DEF FailRun, Keys, KeyFails
<1>6. UNCHANGED status
  BY DEF FailRun
<1> HIDE DEF S, jobs
<1>7. \A s \in Searches, j \in Keys : jobs[s][j] \in {job[s][j], "FAILED"}
  BY <1>4
<1>8. \A s \in Searches, j \in Keys : job[s][j] = "DONE" => jobs[s][j] = "DONE"
  BY <1>4 DEF OpenJob
<1> QED
  BY <1>2, <1>3, <1>5, <1>6, <1>7, <1>8, FailureConsistent

\* The failure of one search's job fails no other's subscription.
LEMMA FailExhaustedJobConsistent ==
  ASSUME OutcomeInv, NEW s \in Searches, NEW k \in Keys, FailExhaustedJob(s, k)
  PROVE  LiveIsConsistent'
<1> DEFINE C == {s}
<1> DEFINE jobs == [job EXCEPT ![s][k] = "FAILED"]
<1>1. TypeOK
  BY DEF OutcomeInv, CapacityInv, WakeupInv, SafetyInv
<1>2. C \in SUBSET Searches
  OBVIOUS
<1>3. jobs \in [Searches -> [Keys -> JobStates]]
  BY <1>1 DEF TypeOK, JobStates
<1>4. \A t \in Searches, j \in Keys :
        jobs[t][j] = IF j = k /\ t = s THEN "FAILED" ELSE job[t][j]
  BY <1>1 DEF TypeOK
<1>5. KeyFails(C, k, jobs)
  BY DEF FailExhaustedJob, Keys, KeyFails
<1>6. UNCHANGED status /\ job[s][k] = "LEASED"
  BY DEF FailExhaustedJob
<1> HIDE DEF C, jobs
<1>7. \A t \in Searches, j \in Keys : jobs[t][j] \in {job[t][j], "FAILED"}
  BY <1>4
<1>8. \A t \in Searches, j \in Keys : job[t][j] = "DONE" => jobs[t][j] = "DONE"
  BY <1>4, <1>6
<1> QED
  BY <1>2, <1>3, <1>5, <1>6, <1>7, <1>8, FailureConsistent

\* What one search writes as it ends.
LEMMA EndSearchColumns ==
  ASSUME TypeOK, NEW s \in Searches, EndSearch(s)
  PROVE  /\ \A k \in Keys : /\ sub'[s][k] = "NONE" <=> sub[s][k] = "NONE"
                            /\ sub'[s][k] = "SATISFIED" <=> sub[s][k] = "SATISFIED"
                            /\ job'[s][k] = "CANCELLED" =>
                                 job[s][k] = "CANCELLED" \/ job[s][k] \in OpenJob
         /\ \A t \in Searches \ {s} : sub'[t] = sub[t] /\ job'[t] = job[t]
         /\ UNCHANGED <<outcome, matches, denied, deferred>>
<1>1. /\ sub' = [sub EXCEPT ![s] = ExpireSubscriptions(sub[s])]
      /\ job' = [job EXCEPT ![s] = CancelJobs(job[s])]
      /\ UNCHANGED <<outcome, matches, denied, deferred>>
  BY DEF EndSearch
<1>2. sub[s] \in [Keys -> SubStates] /\ job[s] \in [Keys -> JobStates]
  BY DEF TypeOK
<1>3. sub'[s] = ExpireSubscriptions(sub[s]) /\ job'[s] = CancelJobs(job[s])
  BY <1>1 DEF TypeOK
<1>4. \A t \in Searches \ {s} : sub'[t] = sub[t] /\ job'[t] = job[t]
  BY <1>1 DEF TypeOK
<1>5. \A k \in Keys : job'[s][k] = "CANCELLED" => job[s][k] = "CANCELLED" \/ job[s][k] \in OpenJob
  BY <1>2, <1>3 DEF CancelJobs
<1> QED
  BY <1>1, <1>2, <1>3, <1>4, <1>5, ExpiryDrawsNothing

\* The end of one search leaves the others as consistent as they were.
LEMMA EndSearchConsistent ==
  ASSUME OutcomeInv, NEW s \in Searches, Terminalize(s) \/ CancelSearch(s)
  PROVE  LiveIsConsistent'
<1>1. TypeOK /\ LiveIsConsistent
  BY DEF OutcomeInv, CapacityInv, WakeupInv, SafetyInv
<1>2. EndSearch(s)
  BY DEF Terminalize, CancelSearch
<1>3. /\ ~Live(s)'
      /\ \A t \in Searches \ {s} : status'[t] = status[t]
  <2>1. PICK st \in TerminalStatuses : status' = [status EXCEPT ![s] = st]
    BY DEF Terminalize, CancelSearch, DerivedStatus, TerminalStatuses
  <2> QED
    BY <1>1, <2>1 DEF TypeOK, Live, LiveStatuses, TerminalStatuses
<1>4. \A t \in Searches \ {s} : SameWorkColumns(t)
  BY <1>1, <1>2, <1>3, EndSearchColumns DEF SameWorkColumns
<1> QED
  BY <1>1, <1>3, <1>4, SameColumnsConsistent

\* What the two properties say of search s after the step.
Honest(s) ==
  /\ status[s] = "HALTED" /\ cause[s] = "NULL" => FetchSubscriptions(s, {"SATISFIED"}) = {}
  /\ status[s] = "COMPLETE" =>
       /\ \A k \in Keys : job[s][k] # "CANCELLED"
       /\ ~deferred[s]
       /\ FetchSubscriptions(s, SubStates \ {"NONE"}) # {} =>
            FetchSubscriptions(s, {"SATISFIED"}) # {}

\* The derived status and cause of a live search speak the truth about it.
LEMMA TerminalizeIsHonest ==
  ASSUME OutcomeInv, NEW s \in Searches, Terminalize(s)
  PROVE  Honest(s)'
<1>1. /\ TypeOK /\ Live(s) /\ EndSearch(s) /\ Consistent(s) /\ Balanced(s)
      /\ status'[s] = DerivedStatus(s) /\ cause'[s] = DerivedCause(s)
  BY DEF OutcomeInv, CapacityInv, CapacityParts, WakeupInv, SafetyInv, LiveIsConsistent,
     Accounted, Terminalize, TypeOK
<1>2. /\ \A k \in Keys : /\ sub'[s][k] = "NONE" <=> sub[s][k] = "NONE"
                         /\ sub'[s][k] = "SATISFIED" <=> sub[s][k] = "SATISFIED"
                         /\ job'[s][k] = "CANCELLED" =>
                              job[s][k] = "CANCELLED" \/ job[s][k] \in OpenJob
      /\ deferred' = deferred
  BY <1>1, EndSearchColumns
<1>3. \A k \in FetchKeys : /\ k \in Keys /\ sub[s][k] \in SubStates /\ sub'[s][k] \in SubStates
  BY <1>1, StepTypeOK DEF Keys, TypeOK, EndSearch, ExpireSubscriptions, SubStates
<1>4. ASSUME status'[s] = "HALTED", cause'[s] = "NULL", NEW k \in FetchKeys, sub'[s][k] = "SATISFIED"
      PROVE  FALSE
  <2>1. ~denied[s] /\ ~Halted(s)
    BY <1>1, <1>4 DEF DerivedCause
  <2>2. sub[s][k] = "SATISFIED" /\ job[s][k] = "DONE" /\ FetchApplied(s)
    BY <1>1, <1>2, <1>3, <1>4 DEF Consistent, FetchApplied
  <2>3. job[s][k] \in FetchJobs(s)
    BY <1>3, <2>2 DEF FetchJobs, Subscribed
  <2>4. FetchJobs(s) # {"FAILED"}
    BY <2>2, <2>3
  <2>5. AllSchedulesFailed(s)
    BY <1>1, <1>4, <2>1, <2>2, <2>4 DEF DerivedStatus
  <2>6. seed[s] = 0 /\ matches[s] = 0
    <3>1. \A j \in ScheduleKeys : sub[s][j] # "NONE" => outcome[s][j] # "RESOLVED"
      BY <2>5 DEF AllSchedulesFailed, ScheduleOutcomes, Subscribed, Keys
    <3>2. ~(matches[s] > 0) /\ matches[s] \in Nat
      BY <1>1, <3>1 DEF Consistent, TypeOK
    <3> QED
      BY <2>5, <3>2 DEF AllSchedulesFailed
  <2>7. Cardinality(Wanted(s)) = 0 /\ IsFiniteSet(Wanted(s))
    BY <1>1, <2>6, WantedCounts DEF Balanced
  <2>8. k \in Wanted(s)
    BY <2>2 DEF Wanted, FetchSubscriptions, SubStates
  <2> QED
    BY <2>7, <2>8, FS_EmptySet
<1>5. ASSUME status'[s] = "COMPLETE"
      PROVE  /\ \A k \in Keys : job'[s][k] # "CANCELLED"
             /\ ~deferred'[s]
             /\ \A k \in FetchKeys : sub'[s][k] # "NONE" =>
                  \E j \in FetchKeys : sub'[s][j] = "SATISFIED"
  <2>1. /\ ~denied[s] /\ ~UnfinishedJob(s) /\ ~deferred[s]
        /\ FetchJobs(s) # {} => FetchApplied(s)
    BY <1>1, <1>5 DEF DerivedStatus
  <2>2. \A k \in Keys : job'[s][k] # "CANCELLED"
    BY <1>1, <1>2, <2>1 DEF Consistent, UnfinishedJob
  <2>3. ASSUME NEW k \in FetchKeys, sub'[s][k] # "NONE"
        PROVE  \E j \in FetchKeys : sub'[s][j] = "SATISFIED"
    <3>1. job[s][k] \in FetchJobs(s)
      BY <1>2, <1>3, <2>3 DEF FetchJobs, Subscribed
    <3> QED
      BY <1>2, <1>3, <2>1, <3>1 DEF FetchApplied
  <2> QED
    BY <1>2, <2>1, <2>2, <2>3
<1> QED
  BY <1>4, <1>5 DEF Honest, FetchSubscriptions

\* No transaction but creation says whether showtimes were left to a later batch.
LEMMA DeferredStands ==
  ASSUME TypeOK, [Next]_vars, NEW s \in Searches, Terminal(s)
  PROVE  deferred'[s] = deferred[s]
<1>1. ASSUME NEW t \in Searches, Create(t) PROVE deferred'[s] = deferred[s]
  <2>0. PICK scheduled \in SUBSET ScheduleKeys, matched \in SUBSET FetchKeys,
             admitted \in SUBSET FetchKeys : CreateSearch(t, scheduled, matched, admitted)
    BY <1>1 DEF Create
  <2>1. status[t] = "NONE" /\ deferred' = [deferred EXCEPT ![t] = admitted # matched]
    BY <2>0 DEF CreateSearch
  <2> QED
    BY <2>1 DEF TypeOK, Terminal, TerminalStatuses
<1>2. ASSUME NEW t \in Searches,
             \/ DeadlinePasses(t) \/ ClaimAggregation(t) \/ Terminalize(t)
             \/ DeclineTerminalization(t) \/ ReleaseClaim(t) \/ CancelSearch(t)
             \/ \E k \in Keys :
                  LeaseJob(t, k) \/ AdmitJob(t, k) \/ ReclaimJob(t, k) \/ FailExhaustedJob(t, k)
             \/ \E k \in FetchKeys : AdoptSnapshot(t, k)
      PROVE  UNCHANGED deferred
  BY <1>2 DEF DeadlinePasses, ClaimAggregation, Terminalize, EndSearch, DeclineTerminalization,
     ReleaseClaim, CancelSearch, LeaseJob, AdmitJob, ReclaimJob, FailExhaustedJob, AdoptSnapshot
<1>3. ASSUME NEW k \in FetchKeys, AcceptFetch(k) \/ SnapshotAges(k) PROVE UNCHANGED deferred
  BY <1>3 DEF AcceptFetch, SnapshotAges
<1>4. ASSUME NEW k \in ScheduleKeys, AcceptAnySchedule(k) \/ RequestScheduleRun(k)
      PROVE  UNCHANGED deferred
  BY <1>4 DEF AcceptAnySchedule, AcceptSchedule, RequestScheduleRun
<1>5. ASSUME NEW k \in Keys, FailRun(k) PROVE UNCHANGED deferred
  BY <1>5 DEF FailRun
<1>6. ASSUME NEW c \in Scopes, ApplyControlTransition(c) \/ ReopenScope(c)
      PROVE  UNCHANGED deferred
  BY <1>6 DEF ApplyControlTransition, ReopenScope
<1>7. CASE UNCHANGED vars
  BY <1>7
<1>8. CASE Next
  BY ONLY <1>1, <1>2, <1>3, <1>4, <1>5, <1>6, <1>8 DEF Next
<1> QED
  BY <1>7, <1>8

\* Only the terminalization of a search ends it HALTED or COMPLETE.
LEMMA OnlyTerminalizeHalts ==
  ASSUME TypeOK, [Next]_vars, NEW s \in Searches, ~Terminal(s),
         status'[s] \in {"HALTED", "COMPLETE"}
  PROVE  Terminalize(s)
<1> DEFINE Ends == status[s] # status'[s] /\ status'[s] \in {"HALTED", "COMPLETE"}
<1>0. Ends
  BY DEF Terminal, TerminalStatuses
<1>1. ASSUME NEW t \in Searches, Create(t) PROVE ~Ends
  <2>0. PICK scheduled \in SUBSET ScheduleKeys, matched \in SUBSET FetchKeys,
             admitted \in SUBSET FetchKeys : CreateSearch(t, scheduled, matched, admitted)
    BY <1>1 DEF Create
  <2>1. \/ status' = [status EXCEPT ![t] = "PENDING_SCHEDULE"]
        \/ status' = [status EXCEPT ![t] = "RUNNING"]
    BY <2>0 DEF CreateSearch
  <2> QED
    BY <2>1 DEF TypeOK
<1>2. ASSUME NEW t \in Searches, Terminalize(t) PROVE t = s
  <2>1. \E v \in {"HALTED", "PARTIAL", "COMPLETE"} : status' = [status EXCEPT ![t] = v]
    BY <1>2 DEF Terminalize, DerivedStatus
  <2> QED
    BY <1>0, <2>1 DEF TypeOK
<1>3. ASSUME NEW t \in Searches, CancelSearch(t) PROVE ~Ends
  BY <1>3 DEF CancelSearch, TypeOK
<1>4. ASSUME NEW t \in Searches,
             \/ DeadlinePasses(t) \/ ClaimAggregation(t)
             \/ DeclineTerminalization(t) \/ ReleaseClaim(t)
             \/ \E k \in Keys :
                  LeaseJob(t, k) \/ AdmitJob(t, k) \/ ReclaimJob(t, k) \/ FailExhaustedJob(t, k)
             \/ \E k \in FetchKeys : AdoptSnapshot(t, k)
      PROVE  ~Ends
  BY <1>4 DEF DeadlinePasses, ClaimAggregation, DeclineTerminalization, ReleaseClaim,
     LeaseJob, AdmitJob, ReclaimJob, FailExhaustedJob, AdoptSnapshot
<1>5. ASSUME NEW k \in FetchKeys, AcceptFetch(k) \/ SnapshotAges(k) PROVE ~Ends
  BY <1>5 DEF AcceptFetch, SnapshotAges
<1>6. ASSUME NEW k \in ScheduleKeys, AcceptAnySchedule(k) \/ RequestScheduleRun(k) PROVE ~Ends
  <2>1. CASE AcceptAnySchedule(k)
    <3>1. \E observed \in BOOLEAN : status' =
            [t \in Searches |-> IF t \in Subscribers(k) /\ observed THEN "RUNNING" ELSE status[t]]
      BY <2>1 DEF AcceptAnySchedule, AcceptSchedule
    <3>2. status'[s] \in {"RUNNING", status[s]}
      BY <3>1
    <3> QED
      BY <3>2
  <2>2. CASE RequestScheduleRun(k)
    BY <2>2 DEF RequestScheduleRun
  <2> QED
    BY <1>6, <2>1, <2>2
<1>7. ASSUME NEW k \in Keys, FailRun(k) PROVE ~Ends
  BY <1>7 DEF FailRun
<1>8. ASSUME NEW c \in Scopes, ApplyControlTransition(c) \/ ReopenScope(c) PROVE ~Ends
  BY <1>8 DEF ApplyControlTransition, ReopenScope
<1>9. ~UNCHANGED vars /\ Next
  BY <1>0
<1> HIDE DEF Ends
<1>10. \E t \in Searches : Terminalize(t) /\ t = s
  BY ONLY <1>0, <1>1, <1>2, <1>3, <1>4, <1>5, <1>6, <1>7, <1>8, <1>9 DEF Next
<1> QED
  BY <1>10

\* An answer is honest when it is given, and nothing rewrites it.
LEMMA AnswersAreHonest ==
  ASSUME OutcomeInv, [Next]_vars
  PROVE  HaltedIsEmptyHanded' /\ CompleteAbandonsNothing'
<1>1. SafetyInv /\ TypeOK /\ HaltedIsEmptyHanded /\ CompleteAbandonsNothing
  BY DEF OutcomeInv, CapacityInv, WakeupInv, SafetyInv
<1>2. ASSUME NEW s \in Searches, Terminal(s) PROVE Honest(s)'
  <2>1. /\ status'[s] = status[s] /\ cause'[s] = cause[s]
        /\ sub'[s] = sub[s] /\ job'[s] = job[s] /\ deferred'[s] = deferred[s]
    BY <1>1, <1>2, StepSafety, DeferredStands DEF SafeStep, FinalStep
  <2>2. Honest(s)
    BY <1>1 DEF Honest, HaltedIsEmptyHanded, CompleteAbandonsNothing
  <2> QED
    BY <2>1, <2>2 DEF Honest, FetchSubscriptions
<1>3. ASSUME NEW s \in Searches, ~Terminal(s), status'[s] \in {"HALTED", "COMPLETE"}
      PROVE  Honest(s)'
  BY <1>1, <1>3, OnlyTerminalizeHalts, TerminalizeIsHonest
<1>4. \A s \in Searches : Honest(s)'
  BY <1>2, <1>3 DEF Honest
<1> QED
  BY <1>4 DEF Honest, HaltedIsEmptyHanded, CompleteAbandonsNothing

\* Every transaction keeps the columns of the live searches consistent.
LEMMA StepConsistent ==
  ASSUME OutcomeInv, [Next]_vars
  PROVE  LiveIsConsistent'
<1>1. ASSUME UNCHANGED <<status, sub, outcome, matches, denied, job>> PROVE LiveIsConsistent'
  BY <1>1, SameColumnsConsistent DEF OutcomeInv, SameWorkColumns
<1>2. ASSUME NEW s \in Searches, Create(s) PROVE LiveIsConsistent'
  BY <1>2, CreateSearchConsistent
<1>3. ASSUME NEW s \in Searches,
             \/ DeadlinePasses(s) \/ ClaimAggregation(s)
             \/ DeclineTerminalization(s) \/ ReleaseClaim(s)
      PROVE  LiveIsConsistent'
  BY <1>1, <1>3 DEF DeadlinePasses, ClaimAggregation, DeclineTerminalization, ReleaseClaim
<1>4. ASSUME NEW s \in Searches, Terminalize(s) \/ CancelSearch(s) PROVE LiveIsConsistent'
  BY <1>4, EndSearchConsistent
<1>5. ASSUME NEW s \in Searches, NEW k \in Keys, LeaseJob(s, k) \/ ReclaimJob(s, k)
      PROVE  LiveIsConsistent'
  BY <1>5, LeaseConsistent
<1>6. ASSUME NEW s \in Searches, NEW k \in Keys, AdmitJob(s, k) PROVE LiveIsConsistent'
  BY <1>1, <1>6 DEF AdmitJob
<1>7. ASSUME NEW s \in Searches, NEW k \in Keys, FailExhaustedJob(s, k) PROVE LiveIsConsistent'
  BY <1>7, FailExhaustedJobConsistent
<1>8. ASSUME NEW s \in Searches, NEW k \in FetchKeys, AdoptSnapshot(s, k) PROVE LiveIsConsistent'
  BY <1>8, AdoptSnapshotConsistent
<1>9. ASSUME NEW k \in FetchKeys, AcceptFetch(k) PROVE LiveIsConsistent'
  BY <1>9, AcceptFetchConsistent
<1>10. ASSUME NEW k \in ScheduleKeys, AcceptAnySchedule(k) PROVE LiveIsConsistent'
  <2>1. PICK observed \in BOOLEAN, match \in [Searches -> SUBSET FetchKeys],
             fallback \in [Searches -> SUBSET (ScheduleKeys \ MovieKeys)] :
          AcceptSchedule(k, observed, match, fallback)
    BY <1>10 DEF AcceptAnySchedule
  <2>2. fallback \in [Searches -> SUBSET ScheduleKeys]
    OBVIOUS
  <2> QED
    BY <2>1, <2>2, AcceptScheduleConsistent
<1>11. ASSUME NEW k \in Keys, FailRun(k) PROVE LiveIsConsistent'
  BY <1>11, FailRunConsistent
<1>12. ASSUME \/ \E k \in FetchKeys : SnapshotAges(k)
              \/ \E k \in ScheduleKeys : RequestScheduleRun(k)
              \/ \E c \in Scopes : ApplyControlTransition(c) \/ ReopenScope(c)
       PROVE  LiveIsConsistent'
  BY <1>1, <1>12 DEF SnapshotAges, RequestScheduleRun, ApplyControlTransition, ReopenScope
<1>13. CASE UNCHANGED vars
  BY <1>1, <1>13
<1>14. CASE Next
  BY ONLY <1>2, <1>3, <1>4, <1>5, <1>6, <1>7, <1>8, <1>9, <1>10, <1>11, <1>12, <1>14 DEF Next
<1> QED
  BY <1>13, <1>14

\* OutcomeInv holds in every reachable state: what the answer is derived from is
\* consistent while the search lives, and the answer was honest when it ended.
THEOREM OutcomeInvariance == Spec => []OutcomeInv
<1> DEFINE Parts == LiveIsConsistent /\ HaltedIsEmptyHanded /\ CompleteAbandonsNothing
<1>1. Init => Parts
  <2> SUFFICES ASSUME Init PROVE Parts
    OBVIOUS
  <2>1. \A s \in Searches : status[s] = "NONE"
    BY DEF Init
  <2> QED
    BY <2>1 DEF LiveIsConsistent, Live, LiveStatuses, HaltedIsEmptyHanded, CompleteAbandonsNothing
<1>2. CapacityInv /\ Parts /\ [Next]_vars => Parts'
  BY StepConsistent, AnswersAreHonest DEF OutcomeInv
<1>3. CapacityInv /\ Parts => OutcomeInv
  BY DEF OutcomeInv
<1> HIDE DEF Parts
<1> QED
  BY <1>1, <1>2, <1>3, CapacityInvariance, PTL DEF Spec

\* A HALTED search without a cause has nothing to show: no accepted fetch is hidden by it.
THEOREM HaltsAreEmptyHanded == Spec => []HaltedIsEmptyHanded
<1>1. OutcomeInv => HaltedIsEmptyHanded
  BY DEF OutcomeInv
<1> QED
  BY <1>1, OutcomeInvariance, PTL

\* A COMPLETE search cancelled no job, deferred no showtime, and has a seat map if it
\* asked for any.
THEOREM CompletesAbandonNothing == Spec => []CompleteAbandonsNothing
<1>1. OutcomeInv => CompleteAbandonsNothing
  BY DEF OutcomeInv
<1> QED
  BY <1>1, OutcomeInvariance, PTL
=============================================================================
