--------------------------- MODULE AggregationProofs ---------------------------
(***************************************************************************)
(* Safety of the aggregation for any number of passes, facts and faults,   *)
(* and that its event log implements SearchLog.  AggInv strengthens the    *)
(* properties the run checks with the order of the reads: what a pass read *)
(* lies between the revision it claimed and the facts there are, what is   *)
(* served is at least what is marked, and a cancellation counts before it  *)
(* freezes and freezes before it compares.                                 *)
(***************************************************************************)
EXTENDS Aggregation, TLAPS

USE DEF aggVars, searchVars, passVars

\* A pass reads its evidence and its counts after it claimed its revision.
ReadsFollowClaim ==
  \A a \in Passes :
    /\ pass[a] # "idle" => revision[a] <= requested
    /\ pass[a] \in {"assembled", "ready", "lost", "committed"} =>
         revision[a] <= seen[a] /\ seen[a] <= requested
    /\ pass[a] \in {"ready", "lost", "committed"} =>
         revision[a] <= counted[a] /\ counted[a] <= requested

\* The payload served is no older than its revision, which is no older than what is marked
\* processed or about to be.
ServedRevision ==
  /\ aggregate.revision <= aggregate.seen
  /\ status # "ENDED" =>
       /\ processed <= aggregate.revision
       /\ \A a \in Passes : pass[a] = "committed" => revision[a] <= aggregate.revision

\* What the cancellation has read so far.
CancelReads ==
  /\ cancel.counted <= requested
  /\ cancel.revision <= cancel.seen
  /\ cancel.step = "ready" /\ ~cancel.skewed => cancel.counted <= cancel.seen

\* The log is closed exactly when the search is over.
LogEndsWithSearch == Log!Closed <=> ~Live

\* A pass that stops forgets what it read and frees its claim, and nothing else.
LEMMA StopTypes ==
  ASSUME AggTypeOK, NEW a \in Passes, Stop(a)
  PROVE  /\ pass' \in [Passes -> PassSteps] /\ mine' \in [Passes -> BOOLEAN]
         /\ revision' \in [Passes -> Upto]
         /\ seen' \in [Passes -> Upto] /\ counted' \in [Passes -> Upto]
         /\ \A b, c \in Passes : mine'[b] /\ mine'[c] => b = c
         /\ \A b \in Passes : mine'[b] => pass'[b] # "idle"
<1>1. 0 \in Upto
  BY BoundsAssumption DEF Upto
<1> QED
  BY <1>1 DEF AggTypeOK, Stop, Step, PassSteps

\* Every step is well typed, and a claim overtakes every other one.
LEMMA AggTypeStep ==
  ASSUME AggTypeOK, [AggNext]_aggVars
  PROVE  AggTypeOK'
<1>1. CASE Fact
  BY <1>1, BoundsAssumption DEF AggTypeOK, Upto, Fact
<1>2. CASE FallDue
  BY <1>2, BoundsAssumption DEF AggTypeOK, Upto, FallDue
<1>3. CASE LeaseExpires
  <2>1. faults' \in 0 .. MaxFaults
    <3>1. CASE UNCHANGED faults
      BY <3>1 DEF AggTypeOK
    <3>2. CASE Fault
      BY <3>2, BoundsAssumption DEF AggTypeOK, Fault
    <3> QED
      BY <1>3, <3>1, <3>2 DEF LeaseExpires
  <2> QED
    BY <1>3, <2>1 DEF AggTypeOK, LeaseExpires
<1>4. ASSUME NEW a \in Passes, Claim(a) PROVE AggTypeOK'
  BY <1>4, BoundsAssumption DEF AggTypeOK, Upto, Claim, TakeClaim, Step, PassSteps
<1>5. ASSUME NEW a \in Passes, Assemble(a) PROVE AggTypeOK'
  BY <1>5, BoundsAssumption DEF AggTypeOK, Upto, Assemble, Step, PassSteps
<1>6. ASSUME NEW a \in Passes, Count(a) PROVE AggTypeOK'
  BY <1>6, BoundsAssumption DEF AggTypeOK, Upto, Count, Step, PassSteps
<1>7. ASSUME NEW a \in Passes, Terminalize(a) PROVE AggTypeOK'
  BY SMTT(30), <1>7, BoundsAssumption DEF AggTypeOK, Upto, Terminalize, End, Step, PassSteps
<1>8. ASSUME NEW a \in Passes, LoseTerminalization(a) PROVE AggTypeOK'
  <2>1. CASE Live
    <3>1. pass' = [pass EXCEPT ![a] = "lost"]
          /\ UNCHANGED <<mine, revision, seen, counted, searchVars, cancel, faults>>
      BY <1>8, <2>1 DEF LoseTerminalization, Step
    <3>2. pass' \in [Passes -> PassSteps] /\ \A b \in Passes : mine[b] => pass'[b] # "idle"
      BY <3>1 DEF AggTypeOK, PassSteps
    <3> QED
      BY <3>1, <3>2 DEF AggTypeOK
  <2>2. CASE ~Live
    <3>1. Stop(a) /\ UNCHANGED <<searchVars, cancel, faults>>
      BY <2>2, <1>8 DEF LoseTerminalization
    <3> QED
      BY <3>1, StopTypes DEF AggTypeOK
  <2> QED
    BY <2>1, <2>2
<1>9. ASSUME NEW a \in Passes, Publish(a) PROVE AggTypeOK'
  <2>1. CASE Publishable(a)
    <3>1. log' \in Seq({"fact", "group", "SEARCH_TERMINAL"})
      <4>1. log' = Append(log, "group") \/ log' = log
        BY <2>1, <1>9 DEF Publish
      <4>2. log \in Seq({"fact", "group", "SEARCH_TERMINAL"})
        BY DEF AggTypeOK
      <4> QED
        BY <4>1, <4>2
    <3>2. aggregate' \in [revision : Upto, seen : Upto]
      <4>1. aggregate' = [revision |-> revision[a], seen |-> seen[a]]
        BY <2>1, <1>9 DEF Publish
      <4>2. revision[a] \in Upto /\ seen[a] \in Upto
        BY DEF AggTypeOK
      <4> QED
        BY <4>1, <4>2
    <3>3. pass' \in [Passes -> PassSteps]
          /\ \A b \in Passes : pass'[b] = "idle" => pass[b] = "idle"
      BY <2>1, <1>9 DEF AggTypeOK, Publish, Step, PassSteps
    <3>4. UNCHANGED <<status, requested, processed, leased, due, result, cancel, faults, mine,
                      revision, seen, counted>>
      BY <2>1, <1>9 DEF Publish
    <3> QED
      BY <3>1, <3>2, <3>3, <3>4 DEF AggTypeOK
  <2>2. CASE ~Publishable(a)
    <3>1. Stop(a) /\ UNCHANGED <<searchVars, cancel, faults>>
      BY <2>2, <1>9 DEF Publish
    <3> QED
      BY <3>1, StopTypes DEF AggTypeOK
  <2> QED
    BY <2>1, <2>2
<1>10. ASSUME NEW a \in Passes, Release(a) PROVE AggTypeOK'
  BY SMTT(30), <1>10, BoundsAssumption DEF AggTypeOK, Upto, Release, Step, Stop, PassSteps
<1>11. ASSUME NEW a \in Passes, PassDies(a) PROVE AggTypeOK'
  BY <1>11, BoundsAssumption DEF AggTypeOK, Upto, PassDies, Fault, Step, Stop, PassSteps
<1>12. CASE CancelCounts
  BY <1>12, BoundsAssumption DEF AggTypeOK, Upto, CancelCounts, CancelSteps
<1>13. CASE CancelFreezes
  BY <1>13, BoundsAssumption DEF AggTypeOK, Upto, CancelFreezes, CancelSteps
<1>14. CASE CancelCompares
  <2>1. cancel' \in [step : CancelSteps, counted : Upto, revision : Upto, seen : Upto,
                   skewed : BOOLEAN]
    <3> DEFINE sk == Skew
    <3>1. sk \in BOOLEAN
      BY DEF Skew
    <3>2. cancel' = [cancel EXCEPT !.step = "ready", !.skewed = sk]
      BY <1>14 DEF CancelCompares
    <3> HIDE DEF sk
    <3> QED
      BY <3>1, <3>2 DEF AggTypeOK, CancelSteps
  <2> QED
    BY <1>14, <2>1 DEF AggTypeOK, CancelCompares
<1>15. CASE Cancel
  <2>1. cancel' \in [step : CancelSteps, counted : Upto, revision : Upto, seen : Upto,
                   skewed : BOOLEAN]
    BY <1>15 DEF AggTypeOK, Cancel, CancelSteps
  <2>2. CASE Live
    <3>1. result' \in [counted : Upto, seen : Upto, skewed : BOOLEAN]
      <4>1. result' = [counted |-> cancel.counted, seen |-> cancel.seen,
                       skewed |-> cancel.skewed]
        BY <2>2, <1>15 DEF Cancel, End
      <4>2. cancel.counted \in Upto /\ cancel.seen \in Upto /\ cancel.skewed \in BOOLEAN
        BY DEF AggTypeOK
      <4> QED
        BY <4>1, <4>2
    <3>2. log' = Append(log, "SEARCH_TERMINAL") /\ status' = "CANCELLED"
      BY <2>2, <1>15 DEF Cancel, End
    <3>3. log' \in Seq({"fact", "group", "SEARCH_TERMINAL"})
      BY <3>2 DEF AggTypeOK
    <3> QED
      BY <1>15, <2>1, <3>1, <3>2, <3>3 DEF AggTypeOK, Cancel
  <2>3. CASE ~Live
    BY <1>15, <2>1, <2>3 DEF AggTypeOK, Cancel
  <2> QED
    BY <2>2, <2>3
<1>16. CASE UNCHANGED aggVars
  BY <1>16 DEF AggTypeOK, Upto
<1> QED
  BY ONLY [AggNext]_aggVars, <1>1, <1>2, <1>3, <1>4, <1>5, <1>6, <1>7, <1>8, <1>9, <1>10, <1>11,
     <1>12, <1>13, <1>14, <1>15, <1>16 DEF AggNext, PassStep

\* Facts only grow, and a pass reads after it claimed.
LEMMA ReadsStep ==
  ASSUME AggTypeOK, ReadsFollowClaim, [AggNext]_aggVars
  PROVE  ReadsFollowClaim'
<1>1. CASE Fact
  BY SMTT(30), <1>1 DEF AggTypeOK, ReadsFollowClaim, Upto, Fact
<1>2. CASE FallDue
  BY <1>2 DEF AggTypeOK, ReadsFollowClaim, Upto, FallDue
<1>3. CASE LeaseExpires
  BY <1>3 DEF AggTypeOK, ReadsFollowClaim, Upto, LeaseExpires, Fault
<1>4. ASSUME NEW a \in Passes, Claim(a) PROVE ReadsFollowClaim'
  BY <1>4 DEF AggTypeOK, ReadsFollowClaim, Upto, Claim, TakeClaim, Step
<1>5. ASSUME NEW a \in Passes, Assemble(a) PROVE ReadsFollowClaim'
  BY <1>5 DEF AggTypeOK, ReadsFollowClaim, Upto, Assemble, Step
<1>6. ASSUME NEW a \in Passes, Count(a) PROVE ReadsFollowClaim'
  BY <1>6 DEF AggTypeOK, ReadsFollowClaim, Upto, Count, Step
<1>7. ASSUME NEW a \in Passes, Terminalize(a) PROVE ReadsFollowClaim'
  BY <1>7 DEF AggTypeOK, ReadsFollowClaim, Upto, Terminalize, End, Step
<1>8. ASSUME NEW a \in Passes, LoseTerminalization(a) PROVE ReadsFollowClaim'
  BY SMTT(30), <1>8 DEF AggTypeOK, ReadsFollowClaim, Upto, LoseTerminalization, Step, Stop
<1>9. ASSUME NEW a \in Passes, Publish(a) PROVE ReadsFollowClaim'
  <2>1. CASE Publishable(a)
    BY <2>1, <1>9 DEF AggTypeOK, ReadsFollowClaim, Upto, Publish, Step
  <2>2. CASE ~Publishable(a)
    <3>1. Stop(a) /\ UNCHANGED requested
      BY <2>2, <1>9 DEF Publish
    <3> QED
      BY <3>1 DEF AggTypeOK, ReadsFollowClaim, Upto, Stop, Step
  <2> QED
    BY <2>1, <2>2
<1>10. ASSUME NEW a \in Passes, Release(a) PROVE ReadsFollowClaim'
  BY <1>10 DEF AggTypeOK, ReadsFollowClaim, Upto, Release, Step, Stop
<1>11. ASSUME NEW a \in Passes, PassDies(a) PROVE ReadsFollowClaim'
  BY <1>11 DEF AggTypeOK, ReadsFollowClaim, Upto, PassDies, Fault, Step, Stop
<1>12. CASE CancelCounts
  BY <1>12 DEF AggTypeOK, ReadsFollowClaim, Upto, CancelCounts
<1>13. CASE CancelFreezes
  BY <1>13 DEF AggTypeOK, ReadsFollowClaim, Upto, CancelFreezes
<1>14. CASE CancelCompares
  BY <1>14 DEF AggTypeOK, ReadsFollowClaim, Upto, CancelCompares
<1>15. CASE Cancel
  BY <1>15 DEF AggTypeOK, ReadsFollowClaim, Upto, Cancel, End
<1>16. CASE UNCHANGED aggVars
  BY <1>16 DEF AggTypeOK, ReadsFollowClaim, Upto
<1> QED
  BY ONLY [AggNext]_aggVars, <1>1, <1>2, <1>3, <1>4, <1>5, <1>6, <1>7, <1>8, <1>9, <1>10, <1>11,
     <1>12, <1>13, <1>14, <1>15, <1>16 DEF AggNext, PassStep

\* Publication never moves the served revision back, and a live release follows a
\* publication.
LEMMA ServedStep ==
  ASSUME AggTypeOK, ReadsFollowClaim, ServedRevision, [AggNext]_aggVars
  PROVE  ServedRevision'
<1>1. CASE Fact
  BY <1>1 DEF AggTypeOK, ServedRevision, Upto, Fact
<1>2. CASE FallDue
  BY <1>2 DEF AggTypeOK, ServedRevision, Upto, FallDue
<1>3. CASE LeaseExpires
  BY <1>3 DEF AggTypeOK, ServedRevision, Upto, LeaseExpires, Fault
<1>4. ASSUME NEW a \in Passes, Claim(a) PROVE ServedRevision'
  BY <1>4 DEF AggTypeOK, ServedRevision, Upto, Claim, TakeClaim, Step
<1>5. ASSUME NEW a \in Passes, Assemble(a) PROVE ServedRevision'
  BY <1>5 DEF AggTypeOK, ServedRevision, Upto, Assemble, Step
<1>6. ASSUME NEW a \in Passes, Count(a) PROVE ServedRevision'
  BY <1>6 DEF AggTypeOK, ServedRevision, Upto, Count, Step
<1>7. ASSUME NEW a \in Passes, Terminalize(a) PROVE ServedRevision'
  BY <1>7 DEF AggTypeOK, ServedRevision, Upto, Terminalize, End, Step, Terminalizable, Live
<1>8. ASSUME NEW a \in Passes, LoseTerminalization(a) PROVE ServedRevision'
  BY <1>8 DEF AggTypeOK, ServedRevision, Upto, LoseTerminalization, Step, Stop
<1>9. ASSUME NEW a \in Passes, Publish(a) PROVE ServedRevision'
  <2>1. CASE Publishable(a)
    <3>1. aggregate' = [revision |-> revision[a], seen |-> seen[a]] /\ revision[a] <= seen[a]
      BY <2>1, <1>9 DEF ReadsFollowClaim, Publish
    <3>2. aggregate'.revision = revision[a] /\ aggregate'.seen = seen[a]
      BY <3>1
    <3>3. aggregate.revision <= revision[a] /\ Live
      BY <2>1 DEF Publishable
    <3>4. UNCHANGED <<status, processed, revision>> /\ Step(a, "committed")
      BY <2>1, <1>9 DEF Publish
    <3>5. revision[a] \in Nat /\ aggregate.revision \in Nat /\ processed \in Nat
          /\ \A b \in Passes : revision[b] \in Nat
      BY DEF AggTypeOK, Upto
    <3>6. \A b \in Passes : b # a => pass'[b] = pass[b]
      BY <3>4 DEF AggTypeOK, Step
    <3> QED
      BY <3>1, <3>2, <3>3, <3>4, <3>5, <3>6 DEF ServedRevision, Live
  <2>2. CASE ~Publishable(a)
    <3>1. Stop(a) /\ UNCHANGED <<status, processed, aggregate>>
      BY <2>2, <1>9 DEF Publish
    <3> QED
      BY <3>1 DEF AggTypeOK, ServedRevision, Upto, Stop, Step
  <2> QED
    BY <2>1, <2>2
<1>10. ASSUME NEW a \in Passes, Release(a) PROVE ServedRevision'
  BY <1>10 DEF AggTypeOK, ServedRevision, Upto, Release, Step, Stop, ReadsFollowClaim
<1>11. ASSUME NEW a \in Passes, PassDies(a) PROVE ServedRevision'
  BY <1>11 DEF AggTypeOK, ServedRevision, Upto, PassDies, Fault, Step, Stop
<1>12. CASE CancelCounts
  BY <1>12 DEF AggTypeOK, ServedRevision, Upto, CancelCounts
<1>13. CASE CancelFreezes
  BY <1>13 DEF AggTypeOK, ServedRevision, Upto, CancelFreezes
<1>14. CASE CancelCompares
  BY <1>14 DEF AggTypeOK, ServedRevision, Upto, CancelCompares
<1>15. CASE Cancel
  BY <1>15 DEF AggTypeOK, ServedRevision, Upto, Cancel, End, Live
<1>16. CASE UNCHANGED aggVars
  BY <1>16 DEF AggTypeOK, ServedRevision, Upto
<1> QED
  BY ONLY [AggNext]_aggVars, <1>1, <1>2, <1>3, <1>4, <1>5, <1>6, <1>7, <1>8, <1>9, <1>10, <1>11,
     <1>12, <1>13, <1>14, <1>15, <1>16 DEF AggNext, PassStep

\* The cancellation reads in this order: counts, aggregate, requested revision.
LEMMA CancelStep ==
  ASSUME AggTypeOK, ServedRevision, CancelReads, [AggNext]_aggVars
  PROVE  CancelReads'
<1>1. CASE Fact
  BY <1>1 DEF AggTypeOK, CancelReads, Upto, Fact
<1>2. CASE FallDue
  BY <1>2 DEF AggTypeOK, CancelReads, Upto, FallDue
<1>3. CASE LeaseExpires
  BY <1>3 DEF AggTypeOK, CancelReads, Upto, LeaseExpires, Fault
<1>4. ASSUME NEW a \in Passes, Claim(a) PROVE CancelReads'
  BY <1>4 DEF AggTypeOK, CancelReads, Upto, Claim, TakeClaim, Step
<1>5. ASSUME NEW a \in Passes, Assemble(a) PROVE CancelReads'
  BY <1>5 DEF AggTypeOK, CancelReads, Upto, Assemble, Step
<1>6. ASSUME NEW a \in Passes, Count(a) PROVE CancelReads'
  BY <1>6 DEF AggTypeOK, CancelReads, Upto, Count, Step
<1>7. ASSUME NEW a \in Passes, Terminalize(a) PROVE CancelReads'
  BY <1>7 DEF AggTypeOK, CancelReads, Upto, Terminalize, End, Step
<1>8. ASSUME NEW a \in Passes, LoseTerminalization(a) PROVE CancelReads'
  BY <1>8 DEF AggTypeOK, CancelReads, Upto, LoseTerminalization, Step, Stop
<1>9. ASSUME NEW a \in Passes, Publish(a) PROVE CancelReads'
  BY <1>9 DEF AggTypeOK, CancelReads, Upto, Publish, Step, Stop
<1>10. ASSUME NEW a \in Passes, Release(a) PROVE CancelReads'
  BY <1>10 DEF AggTypeOK, CancelReads, Upto, Release, Step, Stop
<1>11. ASSUME NEW a \in Passes, PassDies(a) PROVE CancelReads'
  BY <1>11 DEF AggTypeOK, CancelReads, Upto, PassDies, Fault, Step, Stop
<1>12. CASE CancelCounts
  BY <1>12 DEF AggTypeOK, CancelReads, Upto, CancelCounts
<1>13. CASE CancelFreezes
  BY <1>13 DEF AggTypeOK, CancelReads, Upto, CancelFreezes, ServedRevision
<1>14. CASE CancelCompares
  <2>1. cancel'.counted = cancel.counted /\ cancel'.revision = cancel.revision
        /\ cancel'.seen = cancel.seen
    BY <1>14 DEF AggTypeOK, CancelCompares
  <2>2. cancel'.skewed = Skew
    BY <1>14 DEF AggTypeOK, CancelCompares
  <2>3. ~cancel'.skewed => requested <= cancel.revision
    <3>1. ASSUME requested > cancel.revision PROVE cancel'.skewed
      <4>1. Skew
        BY <3>1 DEF Skew
      <4> QED
        BY <2>2, <4>1, Zenon
    <3> QED
      BY <3>1 DEF AggTypeOK, Upto
  <2> QED
    BY <1>14, <2>1, <2>3 DEF AggTypeOK, CancelReads, Upto, CancelCompares
<1>15. CASE Cancel
  BY <1>15 DEF AggTypeOK, CancelReads, Upto, Cancel, End
<1>16. CASE UNCHANGED aggVars
  BY <1>16 DEF AggTypeOK, CancelReads, Upto
<1> QED
  BY ONLY [AggNext]_aggVars, <1>1, <1>2, <1>3, <1>4, <1>5, <1>6, <1>7, <1>8, <1>9, <1>10, <1>11,
     <1>12, <1>13, <1>14, <1>15, <1>16 DEF AggNext, PassStep

\* A terminalization takes the requested revision it claimed, and reads lie between the two.
LEMMA WholeStep ==
  ASSUME AggTypeOK, ReadsFollowClaim, FinalResultIsWhole, [AggNext]_aggVars
  PROVE  FinalResultIsWhole'
<1>1. CASE Fact
  BY <1>1 DEF AggTypeOK, FinalResultIsWhole, Upto, Fact, Live
<1>2. CASE FallDue
  BY <1>2 DEF AggTypeOK, FinalResultIsWhole, Upto, FallDue
<1>3. CASE LeaseExpires
  BY <1>3 DEF AggTypeOK, FinalResultIsWhole, Upto, LeaseExpires, Fault
<1>4. ASSUME NEW a \in Passes, Claim(a) PROVE FinalResultIsWhole'
  BY <1>4 DEF AggTypeOK, FinalResultIsWhole, Upto, Claim, TakeClaim, Step
<1>5. ASSUME NEW a \in Passes, Assemble(a) PROVE FinalResultIsWhole'
  BY <1>5 DEF AggTypeOK, FinalResultIsWhole, Upto, Assemble, Step
<1>6. ASSUME NEW a \in Passes, Count(a) PROVE FinalResultIsWhole'
  BY <1>6 DEF AggTypeOK, FinalResultIsWhole, Upto, Count, Step
<1>7. ASSUME NEW a \in Passes, Terminalize(a) PROVE FinalResultIsWhole'
  BY <1>7 DEF AggTypeOK, FinalResultIsWhole, Upto, Terminalize, End, Step, ReadsFollowClaim,
     Terminalizable
<1>8. ASSUME NEW a \in Passes, LoseTerminalization(a) PROVE FinalResultIsWhole'
  BY <1>8 DEF AggTypeOK, FinalResultIsWhole, Upto, LoseTerminalization, Step, Stop
<1>9. ASSUME NEW a \in Passes, Publish(a) PROVE FinalResultIsWhole'
  BY <1>9 DEF AggTypeOK, FinalResultIsWhole, Upto, Publish, Step, Stop
<1>10. ASSUME NEW a \in Passes, Release(a) PROVE FinalResultIsWhole'
  BY <1>10 DEF AggTypeOK, FinalResultIsWhole, Upto, Release, Step, Stop
<1>11. ASSUME NEW a \in Passes, PassDies(a) PROVE FinalResultIsWhole'
  BY <1>11 DEF AggTypeOK, FinalResultIsWhole, Upto, PassDies, Fault, Step, Stop
<1>12. CASE CancelCounts
  BY <1>12 DEF AggTypeOK, FinalResultIsWhole, Upto, CancelCounts
<1>13. CASE CancelFreezes
  BY <1>13 DEF AggTypeOK, FinalResultIsWhole, Upto, CancelFreezes
<1>14. CASE CancelCompares
  BY <1>14 DEF AggTypeOK, FinalResultIsWhole, Upto, CancelCompares
<1>15. CASE Cancel
  BY <1>15 DEF AggTypeOK, FinalResultIsWhole, Upto, Cancel, End, Live
<1>16. CASE UNCHANGED aggVars
  BY <1>16 DEF AggTypeOK, FinalResultIsWhole, Upto
<1> QED
  BY ONLY [AggNext]_aggVars, <1>1, <1>2, <1>3, <1>4, <1>5, <1>6, <1>7, <1>8, <1>9, <1>10, <1>11,
     <1>12, <1>13, <1>14, <1>15, <1>16 DEF AggNext, PassStep

\* A cancellation writes what it compared.
LEMMA EarnedStep ==
  ASSUME AggTypeOK, CancelReads, CancelAnswerIsEarned, [AggNext]_aggVars
  PROVE  CancelAnswerIsEarned'
<1>1. CASE Fact
  BY <1>1 DEF AggTypeOK, CancelAnswerIsEarned, Upto, Fact
<1>2. CASE FallDue
  BY <1>2 DEF AggTypeOK, CancelAnswerIsEarned, Upto, FallDue
<1>3. CASE LeaseExpires
  BY <1>3 DEF AggTypeOK, CancelAnswerIsEarned, Upto, LeaseExpires, Fault
<1>4. ASSUME NEW a \in Passes, Claim(a) PROVE CancelAnswerIsEarned'
  BY <1>4 DEF AggTypeOK, CancelAnswerIsEarned, Upto, Claim, TakeClaim, Step
<1>5. ASSUME NEW a \in Passes, Assemble(a) PROVE CancelAnswerIsEarned'
  BY <1>5 DEF AggTypeOK, CancelAnswerIsEarned, Upto, Assemble, Step
<1>6. ASSUME NEW a \in Passes, Count(a) PROVE CancelAnswerIsEarned'
  BY <1>6 DEF AggTypeOK, CancelAnswerIsEarned, Upto, Count, Step
<1>7. ASSUME NEW a \in Passes, Terminalize(a) PROVE CancelAnswerIsEarned'
  BY <1>7 DEF AggTypeOK, CancelAnswerIsEarned, Upto, Terminalize, End, Step, Terminalizable,
     Live
<1>8. ASSUME NEW a \in Passes, LoseTerminalization(a) PROVE CancelAnswerIsEarned'
  BY <1>8 DEF AggTypeOK, CancelAnswerIsEarned, Upto, LoseTerminalization, Step, Stop
<1>9. ASSUME NEW a \in Passes, Publish(a) PROVE CancelAnswerIsEarned'
  BY <1>9 DEF AggTypeOK, CancelAnswerIsEarned, Upto, Publish, Step, Stop
<1>10. ASSUME NEW a \in Passes, Release(a) PROVE CancelAnswerIsEarned'
  BY <1>10 DEF AggTypeOK, CancelAnswerIsEarned, Upto, Release, Step, Stop
<1>11. ASSUME NEW a \in Passes, PassDies(a) PROVE CancelAnswerIsEarned'
  BY <1>11 DEF AggTypeOK, CancelAnswerIsEarned, Upto, PassDies, Fault, Step, Stop
<1>12. CASE CancelCounts
  BY <1>12 DEF AggTypeOK, CancelAnswerIsEarned, Upto, CancelCounts
<1>13. CASE CancelFreezes
  BY <1>13 DEF AggTypeOK, CancelAnswerIsEarned, Upto, CancelFreezes
<1>14. CASE CancelCompares
  BY <1>14 DEF AggTypeOK, CancelAnswerIsEarned, Upto, CancelCompares
<1>15. CASE Cancel
  BY <1>15 DEF AggTypeOK, CancelAnswerIsEarned, Upto, Cancel, End, CancelReads, Live
<1>16. CASE UNCHANGED aggVars
  BY <1>16 DEF AggTypeOK, CancelAnswerIsEarned, Upto
<1> QED
  BY ONLY [AggNext]_aggVars, <1>1, <1>2, <1>3, <1>4, <1>5, <1>6, <1>7, <1>8, <1>9, <1>10, <1>11,
     <1>12, <1>13, <1>14, <1>15, <1>16 DEF AggNext, PassStep

\* The end of the search and the end of its log are one write.
LEMMA LogStep ==
  ASSUME AggTypeOK, LogEndsWithSearch, [AggNext]_aggVars
  PROVE  LogEndsWithSearch'
<1>1. CASE Fact
  BY <1>1 DEF AggTypeOK, LogEndsWithSearch, Live, Log!Closed, Log!Terminal, Fact
<1>2. CASE FallDue
  BY <1>2 DEF AggTypeOK, LogEndsWithSearch, Live, Log!Closed, Log!Terminal, FallDue
<1>3. CASE LeaseExpires
  BY <1>3 DEF AggTypeOK, LogEndsWithSearch, Live, Log!Closed, Log!Terminal, LeaseExpires,
     Fault
<1>4. ASSUME NEW a \in Passes, Claim(a) PROVE LogEndsWithSearch'
  BY <1>4 DEF AggTypeOK, LogEndsWithSearch, Live, Log!Closed, Log!Terminal, Claim,
     TakeClaim, Step
<1>5. ASSUME NEW a \in Passes, Assemble(a) PROVE LogEndsWithSearch'
  BY <1>5 DEF AggTypeOK, LogEndsWithSearch, Live, Log!Closed, Log!Terminal, Assemble, Step
<1>6. ASSUME NEW a \in Passes, Count(a) PROVE LogEndsWithSearch'
  BY <1>6 DEF AggTypeOK, LogEndsWithSearch, Live, Log!Closed, Log!Terminal, Count, Step
<1>7. ASSUME NEW a \in Passes, Terminalize(a) PROVE LogEndsWithSearch'
  BY SMTT(30), <1>7
     DEF AggTypeOK, LogEndsWithSearch, Live, Log!Closed, Log!Terminal, Terminalize,
     End, Step, Terminalizable
<1>8. ASSUME NEW a \in Passes, LoseTerminalization(a) PROVE LogEndsWithSearch'
  BY <1>8 DEF AggTypeOK, LogEndsWithSearch, Live, Log!Closed, Log!Terminal,
     LoseTerminalization, Step, Stop
<1>9. ASSUME NEW a \in Passes, Publish(a) PROVE LogEndsWithSearch'
  BY <1>9 DEF AggTypeOK, LogEndsWithSearch, Live, Log!Closed, Log!Terminal, Publish, Step,
     Stop, Publishable
<1>10. ASSUME NEW a \in Passes, Release(a) PROVE LogEndsWithSearch'
  BY <1>10 DEF AggTypeOK, LogEndsWithSearch, Live, Log!Closed, Log!Terminal, Release, Step,
     Stop
<1>11. ASSUME NEW a \in Passes, PassDies(a) PROVE LogEndsWithSearch'
  BY <1>11 DEF AggTypeOK, LogEndsWithSearch, Live, Log!Closed, Log!Terminal, PassDies,
     Fault, Step, Stop
<1>12. CASE CancelCounts
  BY <1>12 DEF AggTypeOK, LogEndsWithSearch, Live, Log!Closed, Log!Terminal, CancelCounts
<1>13. CASE CancelFreezes
  BY <1>13 DEF AggTypeOK, LogEndsWithSearch, Live, Log!Closed, Log!Terminal, CancelFreezes
<1>14. CASE CancelCompares
  BY <1>14 DEF AggTypeOK, LogEndsWithSearch, Live, Log!Closed, Log!Terminal, CancelCompares
<1>15. CASE Cancel
  BY <1>15 DEF AggTypeOK, LogEndsWithSearch, Live, Log!Closed, Log!Terminal, Cancel, End
<1>16. CASE UNCHANGED aggVars
  BY <1>16 DEF AggTypeOK, LogEndsWithSearch, Live, Log!Closed, Log!Terminal
<1> QED
  BY ONLY [AggNext]_aggVars, <1>1, <1>2, <1>3, <1>4, <1>5, <1>6, <1>7, <1>8, <1>9, <1>10, <1>11,
     <1>12, <1>13, <1>14, <1>15, <1>16 DEF AggNext, PassStep

AggInv ==
  /\ AggTypeOK
  /\ ReadsFollowClaim /\ FinalResultIsWhole
  /\ ServedRevision
  /\ CancelReads /\ CancelAnswerIsEarned
  /\ LogEndsWithSearch

\* A new search satisfies the invariant.
LEMMA InitAggInv == AggInit => AggInv
<1> SUFFICES ASSUME AggInit PROVE AggInv OBVIOUS
<1>1. AggTypeOK
  <2>1. 0 \in Upto /\ 0 \in 0 .. MaxFaults
    BY BoundsAssumption DEF Upto
  <2>2. log \in Seq({"fact", "group", "SEARCH_TERMINAL"})
    BY DEF AggInit
  <2>3. aggregate \in [revision : Upto, seen : Upto]
    BY <2>1 DEF AggInit
  <2>4. result \in [counted : Upto, seen : Upto, skewed : BOOLEAN]
    BY <2>1 DEF AggInit, NoResult
  <2>5. cancel \in [step : CancelSteps, counted : Upto, revision : Upto, seen : Upto,
                    skewed : BOOLEAN]
    BY <2>1 DEF AggInit, CancelSteps
  <2> QED
    BY <2>1, <2>2, <2>3, <2>4, <2>5 DEF AggInit, AggTypeOK, PassSteps
<1>2. ReadsFollowClaim /\ FinalResultIsWhole /\ ServedRevision
  BY DEF AggInit, ReadsFollowClaim, FinalResultIsWhole, ServedRevision
<1>3. CancelReads /\ CancelAnswerIsEarned
  BY DEF AggInit, CancelReads, CancelAnswerIsEarned
<1>4. LogEndsWithSearch
  BY DEF AggInit, LogEndsWithSearch, Log!Closed, Live
<1> QED
  BY <1>1, <1>2, <1>3, <1>4 DEF AggInv

\* AggInv holds in every reachable state.
THEOREM AggInvariance == AggSpec => []AggInv
<1>1. AggInv /\ [AggNext]_aggVars => AggInv'
  <2> SUFFICES ASSUME AggInv, [AggNext]_aggVars PROVE AggInv'
    OBVIOUS
  <2>1. AggTypeOK' /\ ReadsFollowClaim' /\ FinalResultIsWhole'
    BY AggTypeStep, ReadsStep, WholeStep DEF AggInv
  <2>2. ServedRevision' /\ CancelReads' /\ CancelAnswerIsEarned'
    BY ServedStep, CancelStep, EarnedStep DEF AggInv
  <2>3. LogEndsWithSearch'
    BY LogStep DEF AggInv
  <2> QED
    BY <2>1, <2>2, <2>3 DEF AggInv
<1> QED
  BY InitAggInv, <1>1, PTL DEF AggSpec

\* Every column keeps its domain, and at most one pass has the claim.
THEOREM AggTypesCorrect == AggSpec => []AggTypeOK
<1>1. AggInv => AggTypeOK BY DEF AggInv
<1> QED BY <1>1, AggInvariance, PTL

\* The final result is derived from every fact, although its evidence and its counts are
\* read apart: B8's revision fence closes the gap between them.
THEOREM WholeResults == AggSpec => []FinalResultIsWhole
<1>1. AggInv => FinalResultIsWhole BY DEF AggInv
<1> QED BY <1>1, AggInvariance, PTL

\* No request is marked processed that the served aggregate does not hold, whichever pass,
\* current or fenced, wrote last.
THEOREM ServedRequests == AggSpec => []ProcessedIsServed
<1>1. AggInv => ProcessedIsServed
  BY DEF AggInv, AggTypeOK, Upto, ServedRevision, ProcessedIsServed
<1> QED BY <1>1, AggInvariance, PTL

\* A cancellation that trusts its counts has evidence for each of them.
THEOREM EarnedCancels == AggSpec => []CancelAnswerIsEarned
<1>1. AggInv => CancelAnswerIsEarned BY DEF AggInv
<1> QED BY <1>1, AggInvariance, PTL

\* The event log implements SearchLog: one event at a time, nothing after the terminal one.
THEOREM ReliableLog == AggSpec => LogIsReliable
<1>1. AggInit => Log!LogInit
  BY DEF AggInit, Log!LogInit
<1>2. AggInv /\ [AggNext]_aggVars => [Log!LogNext]_log
  <2> SUFFICES ASSUME AggInv, [AggNext]_aggVars PROVE Log!LogNext \/ UNCHANGED log
    OBVIOUS
  <2>1. ASSUME Live, NEW type \in {"fact", "group"}, log' = Append(log, type)
        PROVE  Log!LogNext
    BY <2>1 DEF AggInv, LogEndsWithSearch, Log!LogNext, Log!Write
  <2>2. ASSUME Live, log' = Append(log, "SEARCH_TERMINAL") PROVE Log!LogNext
    BY <2>2 DEF AggInv, LogEndsWithSearch, Log!LogNext, Log!Close, Log!Terminal
  <2>3. CASE Fact
    BY <2>1, <2>3 DEF Fact
  <2>4. ASSUME NEW a \in Passes, Publish(a) PROVE Log!LogNext \/ UNCHANGED log
    BY <2>1, <2>4 DEF Publish, Publishable
  <2>5. ASSUME NEW a \in Passes, Terminalize(a) PROVE Log!LogNext
    BY <2>2, <2>5 DEF Terminalize, Terminalizable, End
  <2>6. CASE Cancel
    BY <2>2, <2>6 DEF Cancel, End
  <2>7. CASE UNCHANGED log
    BY <2>7
  <2> QED
    BY <2>3, <2>4, <2>5, <2>6, <2>7
       DEF AggNext, PassStep, FallDue, LeaseExpires, Claim, Assemble, Count,
           LoseTerminalization, Release, PassDies, CancelCounts, CancelFreezes,
           CancelCompares
<1>3. AggSpec => Log!LogInit /\ [][Log!LogNext]_log
  BY <1>1, <1>2, AggInvariance, PTL DEF AggSpec
<1> QED
  BY <1>3 DEF LogIsReliable, Log!LogSpec
=============================================================================
