------------------------------ MODULE OutboxProofs ------------------------------
(***************************************************************************)
(* That the outbox, the broker and the sweeper lease and return targets as *)
(* Delivery says, for any number of targets, rows, publishers, consumers   *)
(* and faults.  Its promise that a target is leased in the end is a        *)
(* fairness condition and is left to the model checker.                    *)
(***************************************************************************)
EXTENDS OutboxRelay, TLAPS

USE DEF vars, durable, broker, publishers, consumers

\* A publisher that is not idle has a row, and a consumer a message exactly if it is busy.
Busy ==
  /\ \A p \in Publishers : pc[p] # "idle" => hand[p] \in Rows
  /\ \A c \in Consumers : step[c] = "idle" <=> message[c] = Nobody

BusyInv == TypeOK /\ Busy

\* A row in hand is a row of a target.
LEMMA RowOfTarget ==
  ASSUME NEW r \in Rows
  PROVE  r[1] \in Targets /\ r[2] \in Slots
BY DEF Rows

\* A fresh row leaves rows rows.
LEMMA InsertTypes ==
  ASSUME TypeOK, NEW t \in Targets, InsertRow(t)
  PROVE  row' \in [Rows -> {"FREE", "PENDING", "PUBLISHED"}]
BY DEF TypeOK, InsertRow, Rows

\* A counted fault is within the bound.
LEMMA FaultTypes ==
  ASSUME TypeOK, Fault
  PROVE  faults' \in 0 .. MaxFaults
BY FaultsAssumption DEF TypeOK, Fault

\* A busy consumer's message is of a target.
LEMMA BusyMessage ==
  ASSUME BusyInv, NEW c \in Consumers, step[c] # "idle"
  PROVE  message[c] \in Targets
BY DEF BusyInv, Busy, TypeOK

\* Every step is well typed, and a record stays with the consumer that has its message.
LEMMA TypeStep ==
  ASSUME BusyInv, [Next]_vars
  PROVE  TypeOK'
<1>1. ASSUME NEW p \in Publishers, NEW r \in Rows, Claim(p, r) PROVE TypeOK'
  BY <1>1, NobodyAssumption DEF BusyInv, Busy, TypeOK, Claim, Goto, PublisherSteps
<1>2. ASSUME NEW p \in Publishers, LookUp(p) PROVE TypeOK'
  BY <1>2, NobodyAssumption DEF BusyInv, Busy, TypeOK, LookUp, Goto, PublisherSteps
<1>3. ASSUME NEW p \in Publishers, Remove(p) PROVE TypeOK'
  BY <1>3, NobodyAssumption DEF BusyInv, Busy, TypeOK, Remove, Goto, PublisherIdle,
     PublisherSteps
<1>4. ASSUME NEW p \in Publishers, Add(p) PROVE TypeOK'
  <2>1. hand[p][1] \in Targets
    BY <1>4, RowOfTarget DEF BusyInv, Busy, Add
  <2> QED
    BY <1>4, <2>1 DEF BusyInv, TypeOK, Add, Goto, PublisherSteps
<1>5. ASSUME NEW p \in Publishers, Mark(p) PROVE TypeOK'
  BY <1>5, NobodyAssumption DEF BusyInv, Busy, TypeOK, Mark, Goto, PublisherIdle,
     PublisherSteps
<1>6. ASSUME NEW p \in Publishers, PublisherFails(p) PROVE TypeOK'
  <2>1. faults' \in 0 .. MaxFaults
    BY <1>6, FaultTypes DEF BusyInv, PublisherFails
  <2> QED
    BY <1>6, <2>1, NobodyAssumption DEF BusyInv, TypeOK, PublisherFails, Goto, PublisherIdle, PublisherSteps
<1>7. ASSUME NEW c \in Consumers, NEW t \in Targets, Receive(c, t) PROVE TypeOK'
  BY <1>7, NobodyAssumption DEF BusyInv, Busy, TypeOK, Receive
<1>8. ASSUME NEW c \in Consumers, Lease(c) PROVE TypeOK'
  BY <1>8, NobodyAssumption DEF BusyInv, Busy, TypeOK, Lease
<1>9. ASSUME NEW c \in Consumers, Defer(c) PROVE TypeOK'
  <2>1. message[c] \in Targets
    BY <1>9, BusyMessage DEF Defer
  <2>2. row' \in [Rows -> {"FREE", "PENDING", "PUBLISHED"}]
    BY <1>9, <2>1, InsertTypes DEF BusyInv, Defer
  <2> QED
    BY <1>9, <2>1, <2>2 DEF BusyInv, TypeOK, Defer
<1>10. ASSUME NEW c \in Consumers, Acknowledge(c) PROVE TypeOK'
  BY <1>10, NobodyAssumption DEF BusyInv, Busy, TypeOK, Acknowledge, Settle, ConsumerIdle,
     FinishedRecord
<1>11. ASSUME NEW c \in Consumers, HandlerThrows(c) PROVE TypeOK'
  <2>1. faults' \in 0 .. MaxFaults
    BY <1>11, FaultTypes DEF BusyInv, HandlerThrows
  <2>2. Settle(c, "failed") /\ ConsumerIdle(c) /\ UNCHANGED <<durable, publishers>>
        /\ message[c] \in Targets
    BY <1>11, BusyMessage DEF HandlerThrows
  <2>3. record' \in [Targets -> {"none", "waiting", "active"} \cup FinishedRecord]
    BY <2>2 DEF BusyInv, TypeOK, Settle, FinishedRecord
  <2>4. owner' \in [Targets -> Consumers \cup {Nobody}]
    BY <2>2 DEF BusyInv, TypeOK, Settle
  <2>5. step' \in [Consumers -> {"idle", "received", "handling"}]
        /\ message' \in [Consumers -> Targets \cup {Nobody}]
    BY <2>2 DEF BusyInv, TypeOK, ConsumerIdle
  <2>6. ASSUME NEW t \in Targets, owner'[t] # Nobody
        PROVE  record'[t] = "active" /\ message'[owner'[t]] = t
    <3>1. owner'[t] = owner[t] /\ owner[t] # c
      BY <2>2, <2>6, NobodyAssumption DEF BusyInv, TypeOK, Settle
    <3>2. record[t] = "active" /\ message[owner[t]] = t /\ owner[t] \in Consumers
      BY <2>6, <3>1 DEF BusyInv, TypeOK
    <3>3. t # message[c] \/ record'[t] = record[t]
      BY <2>2, <3>1 DEF BusyInv, TypeOK, Settle
    <3> QED
      BY <2>2, <3>1, <3>2, <3>3 DEF BusyInv, TypeOK, Settle, ConsumerIdle
  <2> QED
    BY <2>1, <2>2, <2>3, <2>4, <2>5, <2>6 DEF BusyInv, TypeOK
<1>12. ASSUME NEW c \in Consumers, ConsumerDies(c) PROVE TypeOK'
  <2>1. faults' \in 0 .. MaxFaults
    BY <1>12, FaultTypes DEF BusyInv, ConsumerDies
  <2> QED
    BY <1>12, <2>1, NobodyAssumption DEF BusyInv, TypeOK, ConsumerDies, ConsumerIdle
<1>13. ASSUME NEW t \in Targets, Stalled(t) PROVE TypeOK'
  BY <1>13, NobodyAssumption DEF BusyInv, Busy, TypeOK, Stalled, FinishedRecord
<1>14. ASSUME NEW t \in Targets, RecordLost(t) PROVE TypeOK'
  <2>1. faults' \in 0 .. MaxFaults
    BY <1>14, FaultTypes DEF BusyInv, RecordLost
  <2> QED
    BY <1>14, <2>1, NobodyAssumption DEF BusyInv, TypeOK, RecordLost
<1>15. ASSUME NEW t \in Targets, Reclaim(t) PROVE TypeOK'
  <2>1. row' \in [Rows -> {"FREE", "PENDING", "PUBLISHED"}]
    BY <1>15, InsertTypes DEF BusyInv, Reclaim
  <2> QED
    BY <1>15, <2>1 DEF BusyInv, TypeOK, Reclaim
<1>16. ASSUME NEW t \in Targets, Rearm(t) PROVE TypeOK'
  <2>1. row' \in [Rows -> {"FREE", "PENDING", "PUBLISHED"}]
    BY <1>16, InsertTypes DEF BusyInv, Rearm
  <2> QED
    BY <1>16, <2>1 DEF BusyInv, TypeOK, Rearm
<1>17. ASSUME NEW t \in Targets, End(t) PROVE TypeOK'
  BY <1>17, NobodyAssumption DEF BusyInv, Busy, TypeOK, End
<1>18. CASE UNCHANGED vars
  BY <1>18 DEF BusyInv, Busy, TypeOK
<1> QED
  BY ONLY [Next]_vars, <1>1, <1>2, <1>3, <1>4, <1>5, <1>6, <1>7, <1>8, <1>9, <1>10, <1>11,
     <1>12, <1>13, <1>14, <1>15, <1>16, <1>17, <1>18 DEF Next, PublisherStep

\* A publisher or a consumer drops what it has in hand when it becomes idle.
LEMMA BusyStep ==
  ASSUME BusyInv, [Next]_vars
  PROVE  Busy'
<1>1. ASSUME NEW p \in Publishers, NEW r \in Rows, Claim(p, r) PROVE Busy'
  BY <1>1, NobodyAssumption DEF BusyInv, Busy, TypeOK, Claim, Goto
<1>2. ASSUME NEW p \in Publishers, LookUp(p) PROVE Busy'
  BY <1>2, NobodyAssumption DEF BusyInv, Busy, TypeOK, LookUp, Goto
<1>3. ASSUME NEW p \in Publishers, Remove(p) PROVE Busy'
  BY <1>3, NobodyAssumption DEF BusyInv, Busy, TypeOK, Remove, Goto, PublisherIdle
<1>4. ASSUME NEW p \in Publishers, Add(p) PROVE Busy'
  BY <1>4, NobodyAssumption DEF BusyInv, Busy, TypeOK, Add, Goto
<1>5. ASSUME NEW p \in Publishers, Mark(p) PROVE Busy'
  BY <1>5, NobodyAssumption DEF BusyInv, Busy, TypeOK, Mark, Goto, PublisherIdle
<1>6. ASSUME NEW p \in Publishers, PublisherFails(p) PROVE Busy'
  BY <1>6, NobodyAssumption DEF BusyInv, Busy, TypeOK, PublisherFails, Goto, PublisherIdle,
     Fault
<1>7. ASSUME NEW c \in Consumers, NEW t \in Targets, Receive(c, t) PROVE Busy'
  BY <1>7, NobodyAssumption DEF BusyInv, Busy, TypeOK, Receive
<1>8. ASSUME NEW c \in Consumers, Lease(c) PROVE Busy'
  BY <1>8, NobodyAssumption DEF BusyInv, Busy, TypeOK, Lease
<1>9. ASSUME NEW c \in Consumers, Defer(c) PROVE Busy'
  BY <1>9, NobodyAssumption DEF BusyInv, Busy, TypeOK, Defer
<1>10. ASSUME NEW c \in Consumers, Acknowledge(c) PROVE Busy'
  BY <1>10, NobodyAssumption DEF BusyInv, Busy, TypeOK, Acknowledge, Settle, ConsumerIdle
<1>11. ASSUME NEW c \in Consumers, HandlerThrows(c) PROVE Busy'
  BY <1>11, NobodyAssumption DEF BusyInv, Busy, TypeOK, HandlerThrows, Settle, ConsumerIdle,
     Fault
<1>12. ASSUME NEW c \in Consumers, ConsumerDies(c) PROVE Busy'
  BY <1>12, NobodyAssumption DEF BusyInv, Busy, TypeOK, ConsumerDies, ConsumerIdle, Fault
<1>13. ASSUME NEW t \in Targets, Stalled(t) PROVE Busy'
  BY <1>13, NobodyAssumption DEF BusyInv, Busy, TypeOK, Stalled
<1>14. ASSUME NEW t \in Targets, RecordLost(t) PROVE Busy'
  BY <1>14, NobodyAssumption DEF BusyInv, Busy, TypeOK, RecordLost, Fault
<1>15. ASSUME NEW t \in Targets, Reclaim(t) PROVE Busy'
  BY <1>15, NobodyAssumption DEF BusyInv, Busy, TypeOK, Reclaim
<1>16. ASSUME NEW t \in Targets, Rearm(t) PROVE Busy'
  BY <1>16, NobodyAssumption DEF BusyInv, Busy, TypeOK, Rearm
<1>17. ASSUME NEW t \in Targets, End(t) PROVE Busy'
  BY <1>17, NobodyAssumption DEF BusyInv, Busy, TypeOK, End
<1>18. CASE UNCHANGED vars
  BY <1>18 DEF BusyInv, Busy, TypeOK
<1> QED
  BY ONLY [Next]_vars, <1>1, <1>2, <1>3, <1>4, <1>5, <1>6, <1>7, <1>8, <1>9, <1>10, <1>11,
     <1>12, <1>13, <1>14, <1>15, <1>16, <1>17, <1>18 DEF Next, PublisherStep

\* A target is leased from PENDING, returns to PENDING from LEASED and is over for ever.
LEMMA DeliveryStep ==
  ASSUME BusyInv, [Next]_vars
  PROVE  Promise!Next \/ UNCHANGED state
<1>1. ASSUME NEW p \in Publishers, NEW r \in Rows, Claim(p, r) PROVE Promise!Next \/ UNCHANGED state
  BY <1>1 DEF BusyInv, Busy, TypeOK, Claim, Goto
<1>2. ASSUME NEW p \in Publishers, LookUp(p) PROVE Promise!Next \/ UNCHANGED state
  BY <1>2 DEF BusyInv, Busy, TypeOK, LookUp, Goto
<1>3. ASSUME NEW p \in Publishers, Remove(p) PROVE Promise!Next \/ UNCHANGED state
  BY <1>3 DEF BusyInv, Busy, TypeOK, Remove, Goto, PublisherIdle
<1>4. ASSUME NEW p \in Publishers, Add(p) PROVE Promise!Next \/ UNCHANGED state
  BY <1>4 DEF BusyInv, Busy, TypeOK, Add, Goto
<1>5. ASSUME NEW p \in Publishers, Mark(p) PROVE Promise!Next \/ UNCHANGED state
  BY <1>5 DEF BusyInv, Busy, TypeOK, Mark, Goto, PublisherIdle
<1>6. ASSUME NEW p \in Publishers, PublisherFails(p) PROVE Promise!Next \/ UNCHANGED state
  BY <1>6 DEF BusyInv, Busy, TypeOK, PublisherFails, Goto, PublisherIdle, Fault
<1>7. ASSUME NEW c \in Consumers, NEW t \in Targets, Receive(c, t) PROVE Promise!Next \/ UNCHANGED state
  BY <1>7 DEF BusyInv, Busy, TypeOK, Receive
<1>8. ASSUME NEW c \in Consumers, Lease(c) PROVE Promise!Next \/ UNCHANGED state
  <2>1. message[c] \in Targets
    BY <1>8, BusyMessage DEF Lease
  <2> QED
    BY <1>8, <2>1 DEF Lease, Promise!Next, Promise!Lease, Promise!Return, Promise!End,
       Promise!Move
<1>9. ASSUME NEW c \in Consumers, Defer(c) PROVE Promise!Next \/ UNCHANGED state
  <2>1. message[c] \in Targets
    BY <1>9, BusyMessage DEF Defer
  <2> QED
    BY <1>9, <2>1 DEF Defer, Promise!Next, Promise!Lease, Promise!Return, Promise!End,
       Promise!Move
<1>10. ASSUME NEW c \in Consumers, Acknowledge(c) PROVE Promise!Next \/ UNCHANGED state
  BY <1>10 DEF BusyInv, Busy, TypeOK, Acknowledge, Settle, ConsumerIdle
<1>11. ASSUME NEW c \in Consumers, HandlerThrows(c) PROVE Promise!Next \/ UNCHANGED state
  BY <1>11 DEF BusyInv, Busy, TypeOK, HandlerThrows, Settle, ConsumerIdle, Fault
<1>12. ASSUME NEW c \in Consumers, ConsumerDies(c) PROVE Promise!Next \/ UNCHANGED state
  BY <1>12 DEF BusyInv, Busy, TypeOK, ConsumerDies, ConsumerIdle, Fault
<1>13. ASSUME NEW t \in Targets, Stalled(t) PROVE Promise!Next \/ UNCHANGED state
  BY <1>13 DEF BusyInv, Busy, TypeOK, Stalled
<1>14. ASSUME NEW t \in Targets, RecordLost(t) PROVE Promise!Next \/ UNCHANGED state
  BY <1>14 DEF BusyInv, Busy, TypeOK, RecordLost, Fault
<1>15. ASSUME NEW t \in Targets, Reclaim(t) PROVE Promise!Next \/ UNCHANGED state
  BY <1>15 DEF Reclaim, Promise!Next, Promise!Lease, Promise!Return, Promise!End,
       Promise!Move
<1>16. ASSUME NEW t \in Targets, Rearm(t) PROVE Promise!Next \/ UNCHANGED state
  BY <1>16 DEF BusyInv, Busy, TypeOK, Rearm
<1>17. ASSUME NEW t \in Targets, End(t) PROVE Promise!Next \/ UNCHANGED state
  BY <1>17 DEF End, Promise!Next, Promise!Lease, Promise!Return, Promise!End,
       Promise!Move
<1>18. CASE UNCHANGED vars
  BY <1>18 DEF BusyInv, Busy, TypeOK
<1> QED
  BY ONLY [Next]_vars, <1>1, <1>2, <1>3, <1>4, <1>5, <1>6, <1>7, <1>8, <1>9, <1>10, <1>11,
     <1>12, <1>13, <1>14, <1>15, <1>16, <1>17, <1>18 DEF Next, PublisherStep

\* An empty outbox and broker satisfy the invariant.
LEMMA InitBusyInv == Init => BusyInv
<1> SUFFICES ASSUME Init PROVE BusyInv OBVIOUS
<1>1. PICK first \in Slots : row = [r \in Rows |-> IF r[2] = first THEN "PENDING" ELSE "FREE"]
  BY DEF Init
<1>2. row \in [Rows -> {"FREE", "PENDING", "PUBLISHED"}]
  BY <1>1
<1>3. faults \in 0 .. MaxFaults
  BY FaultsAssumption DEF Init
<1> QED
  BY <1>2, <1>3, NobodyAssumption DEF Init, BusyInv, Busy, TypeOK, PublisherSteps

\* BusyInv holds in every reachable state.
THEOREM OutboxInvariance == Spec => []BusyInv
<1>1. BusyInv /\ [Next]_vars => BusyInv'
  BY TypeStep, BusyStep DEF BusyInv
<1> QED
  BY InitBusyInv, <1>1, PTL DEF Spec

\* Every column and record keeps its domain, and an active record is its consumer's.
THEOREM OutboxTypesCorrect == Spec => []TypeOK
<1>1. BusyInv => TypeOK BY DEF BusyInv
<1> QED BY <1>1, OutboxInvariance, PTL

\* However rows, records and messages are duplicated, lost or late, a job or run is leased
\* from PENDING only, returns to PENDING from a lease only, and is never leased again once
\* over: the safety half of Delivery.
THEOREM DeliverySafety == Spec => Promise!Init /\ [][Promise!Next]_state
<1>1. Init => Promise!Init
  BY DEF Init, Promise!Init
<1>2. BusyInv /\ [Next]_vars => [Promise!Next]_state
  BY DeliveryStep
<1> QED
  BY <1>1, <1>2, OutboxInvariance, PTL DEF Spec
=============================================================================
