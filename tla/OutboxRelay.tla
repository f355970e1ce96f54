----------------------------- MODULE OutboxRelay ------------------------------
(***************************************************************************)
(* How a durable job or run reaches a consumer: outbox rows in PostgreSQL, *)
(* the publishers that hand them to the broker (the relay daemon and the   *)
(* sweeper's first duty), the broker's one record per target id, and the   *)
(* consumers that lease the target in PostgreSQL.                          *)
(*                                                                         *)
(* The broker deduplicates on the target id: adding while a record exists, *)
(* in whatever state, does nothing.  A publisher therefore removes a       *)
(* record it saw finished, in an await of its own, before it adds.         *)
(*                                                                         *)
(* Abstractions.  Rows of a target live in a few slots, a published one's  *)
(* slot being reused.  Backoff, batches and priorities only delay: any     *)
(* PENDING row may be claimed.  A lease may expire at any moment.  Faults  *)
(* (a failed call, a dead process, a lost record) are bounded in number.   *)
(***************************************************************************)
EXTENDS Naturals, FiniteSets

CONSTANTS
  Targets,     \* jobs and runs
  Rearmable,   \* those SWEEP_REARM_JOBS or SWEEP_REARM_RUNS would re-arm
  Slots,       \* bound: rows of a target that can be in use at once
  Publishers,  \* the relay daemon and the sweeper
  Consumers,   \* deliveries that can be handled at once
  Nobody,      \* no consumer
  MaxFaults    \* bound on faults

ASSUME RearmableAssumption == Rearmable \subseteq Targets
ASSUME NobodyAssumption == Nobody \notin Consumers \cup Targets
ASSUME FaultsAssumption == MaxFaults \in Nat

VARIABLES
  state,     \* search_job.state or provider_run.state: "PENDING", "LEASED" or "OVER"
  holder,    \* the consumer whose handle has the target's generation
  row,       \* state of the outbox row in each slot
  record,    \* the broker's record of the target
  owner,     \* the consumer an active record was given to, Nobody once it died
  pc,        \* what each publisher is doing
  hand,      \* the row it is publishing, <<target, slot>>
  step,      \* what each consumer is doing
  message,   \* the target of the message it was given
  faults     \* faults so far

durable == <<state, holder, row>>
broker == <<record, owner>>
publishers == <<pc, hand>>
consumers == <<step, message>>
vars == <<durable, broker, publishers, consumers, faults>>

Rows == Targets \X Slots
FinishedRecord == {"completed", "failed"}

\* "claimed": the sweep returned the row.  "clearing": a finished record was seen.
\* "cleared": the way is free, as far as was seen.  "added": the broker answered.
PublisherSteps == {"idle", "claimed", "clearing", "cleared", "added"}

\* A record given to a consumer is active, and its message is the one that consumer has.
TypeOK ==
  /\ state \in [Targets -> {"PENDING", "LEASED", "OVER"}]
  /\ holder \in [Targets -> Consumers \cup {Nobody}]
  /\ row \in [Rows -> {"FREE", "PENDING", "PUBLISHED"}]
  /\ record \in [Targets -> {"none", "waiting", "active"} \cup FinishedRecord]
  /\ owner \in [Targets -> Consumers \cup {Nobody}]
  /\ pc \in [Publishers -> PublisherSteps]
  /\ hand \in [Publishers -> Rows \cup {<<>>}]
  /\ step \in [Consumers -> {"idle", "received", "handling"}]
  /\ message \in [Consumers -> Targets \cup {Nobody}]
  /\ faults \in 0 .. MaxFaults
  /\ \A t \in Targets : owner[t] # Nobody => record[t] = "active" /\ message[owner[t]] = t

\* Every target was created with one row, in the transaction that created it.
Init ==
  /\ state = [t \in Targets |-> "PENDING"]
  /\ holder = [t \in Targets |-> Nobody]
  /\ \E first \in Slots :
       row = [r \in Rows |-> IF r[2] = first THEN "PENDING" ELSE "FREE"]
  /\ record = [t \in Targets |-> "none"]
  /\ owner = [t \in Targets |-> Nobody]
  /\ pc = [p \in Publishers |-> "idle"]
  /\ hand = [p \in Publishers |-> <<>>]
  /\ step = [c \in Consumers |-> "idle"]
  /\ message = [c \in Consumers |-> Nobody]
  /\ faults = 0

-----------------------------------------------------------------------------
\* A fresh row of t, in a slot that holds nothing and is in nobody's hand.
InsertRow(t) ==
  \E r \in {t} \X Slots :
    /\ row[r] # "PENDING" /\ \A p \in Publishers : hand[p] # r
    /\ \A q \in {t} \X Slots : row[q] = "FREE" => row[r] = "FREE"
    /\ row' = [row EXCEPT ![r] = "PENDING"]

Fault == faults < MaxFaults /\ faults' = faults + 1

Goto(p, to) == pc' = [pc EXCEPT ![p] = to]

PublisherIdle(p) == Goto(p, "idle") /\ hand' = [hand EXCEPT ![p] = <<>>]

ConsumerIdle(c) ==
  /\ step' = [step EXCEPT ![c] = "idle"]
  /\ message' = [message EXCEPT ![c] = Nobody]

-----------------------------------------------------------------------------
(* Publishers: pollOnce and republishOverdueOutbox *)

\* SWEEP_OVERDUE_OUTBOX returns the row, to any number of publishers.
Claim(p, r) ==
  /\ pc[p] = "idle" /\ row[r] = "PENDING"
  /\ Goto(p, "claimed")
  /\ hand' = [hand EXCEPT ![p] = r]
  /\ UNCHANGED <<durable, broker, consumers, faults>>

\* Fault: finished records are left where they are.
LookUpNothing(p) ==
  /\ pc[p] = "claimed"
  /\ Goto(p, "cleared")
  /\ UNCHANGED <<durable, broker, hand, consumers, faults>>

\* getJob and getState of removeTerminalBrokerRecord.
LookUp(p) ==
  /\ pc[p] = "claimed"
  /\ Goto(p, IF record[hand[p][1]] \in FinishedRecord THEN "clearing" ELSE "cleared")
  /\ UNCHANGED <<durable, broker, hand, consumers, faults>>

\* The removal that follows takes whatever record is there by now; the broker refuses to
\* remove an active one, and the publish fails.
Remove(p) ==
  LET t == hand[p][1] IN
  /\ pc[p] = "clearing"
  /\ IF record[t] = "active"
       THEN PublisherIdle(p) /\ UNCHANGED record
       ELSE record' = [record EXCEPT ![t] = "none"] /\ Goto(p, "cleared") /\ UNCHANGED hand
  /\ UNCHANGED <<durable, owner, consumers, faults>>

\* queue.add with the target id as jobId.
Add(p) ==
  LET t == hand[p][1] IN
  /\ pc[p] = "cleared"
  /\ record' = [record EXCEPT ![t] = IF @ = "none" THEN "waiting" ELSE @]
  /\ Goto(p, "added")
  /\ UNCHANGED <<durable, owner, hand, consumers, faults>>

\* OUTBOX_MARK_PUBLISHED: zero rows if another publisher marked it first.
Mark(p) ==
  /\ pc[p] = "added"
  /\ row' = [row EXCEPT ![hand[p]] = IF @ = "PENDING" THEN "PUBLISHED" ELSE @]
  /\ PublisherIdle(p)
  /\ UNCHANGED <<state, holder, broker, consumers, faults>>

\* A call fails or the process dies: OUTBOX_MARK_RETRY, or nothing, keeps the row PENDING.
PublisherFails(p) ==
  /\ pc[p] # "idle" /\ Fault
  /\ PublisherIdle(p)
  /\ UNCHANGED <<durable, broker, consumers>>

-----------------------------------------------------------------------------
(* Consumers: dispatchJobMessage and dispatchRunMessage *)

Receive(c, t) ==
  /\ step[c] = "idle" /\ record[t] = "waiting"
  /\ record' = [record EXCEPT ![t] = "active"]
  /\ owner' = [owner EXCEPT ![t] = c]
  /\ step' = [step EXCEPT ![c] = "received"]
  /\ message' = [message EXCEPT ![c] = t]
  /\ UNCHANGED <<durable, publishers, faults>>

\* B2_LEASE_JOB or B2_LEASE_RUN.
Lease(c) ==
  LET t == message[c] IN
  /\ step[c] = "received" /\ state[t] = "PENDING"
  /\ state' = [state EXCEPT ![t] = "LEASED"]
  /\ holder' = [holder EXCEPT ![t] = c]
  /\ step' = [step EXCEPT ![c] = "handling"]
  /\ UNCHANGED <<row, broker, publishers, message, faults>>

\* RUN_DEFER_BUSY inside the handler: back to PENDING with a fresh row, while the broker
\* still calls this delivery active.
Defer(c) ==
  LET t == message[c] IN
  /\ step[c] = "handling" /\ holder[t] = c /\ state[t] = "LEASED"
  /\ state' = [state EXCEPT ![t] = "PENDING"]
  /\ InsertRow(t)
  /\ UNCHANGED <<holder, broker, publishers, consumers, faults>>

\* The record of c's message, if it is still c's, takes the state to.
Settle(c, to) ==
  LET t == message[c] IN
  /\ record' = [record EXCEPT ![t] = IF @ = "active" /\ owner[t] = c THEN to ELSE @]
  /\ owner' = [owner EXCEPT ![t] = IF @ = c THEN Nobody ELSE @]

\* Acknowledged: not PENDING any more and dropped, or handled.
Acknowledge(c) ==
  /\ \/ step[c] = "received" /\ state[message[c]] # "PENDING"
     \/ step[c] = "handling"
  /\ Settle(c, "completed")
  /\ ConsumerIdle(c)
  /\ UNCHANGED <<durable, publishers, faults>>

\* The handler, or the statement that leases, throws.
HandlerThrows(c) ==
  /\ step[c] # "idle" /\ Fault
  /\ Settle(c, "failed")
  /\ ConsumerIdle(c)
  /\ UNCHANGED <<durable, publishers>>

\* The process dies: the record stays active until the broker calls it stalled.
ConsumerDies(c) ==
  /\ step[c] # "idle" /\ Fault
  /\ owner' = [t \in Targets |-> IF owner[t] = c THEN Nobody ELSE owner[t]]
  /\ ConsumerIdle(c)
  /\ UNCHANGED <<durable, record, publishers>>

-----------------------------------------------------------------------------
(* The broker's own faults *)

\* An active record whose consumer died is given out again, or given up.
Stalled(t) ==
  /\ record[t] = "active" /\ owner[t] = Nobody
  /\ \E to \in {"waiting", "failed"} : record' = [record EXCEPT ![t] = to]
  /\ UNCHANGED <<durable, owner, publishers, consumers, faults>>

\* Redis lost the record; the broker is a hint.
RecordLost(t) ==
  /\ record[t] # "none" /\ Fault
  /\ record' = [record EXCEPT ![t] = "none"]
  /\ owner' = [owner EXCEPT ![t] = Nobody]
  /\ UNCHANGED <<durable, publishers, consumers>>

-----------------------------------------------------------------------------
(* The sweeper *)

\* SWEEP_RECLAIM_JOBS and SWEEP_RECLAIM_RUNS: back to PENDING with a fresh row.
Reclaim(t) ==
  /\ state[t] = "LEASED"
  /\ state' = [state EXCEPT ![t] = "PENDING"]
  /\ holder' = [holder EXCEPT ![t] = Nobody]
  /\ InsertRow(t)
  /\ UNCHANGED <<broker, publishers, consumers, faults>>

\* SWEEP_REARM_JOBS and SWEEP_REARM_RUNS: a fresh row, whatever became of the others.
Rearm(t) ==
  /\ state[t] = "PENDING" /\ t \in Rearmable
  /\ InsertRow(t)
  /\ UNCHANGED <<state, holder, broker, publishers, consumers, faults>>

\* Accepted, failed or cancelled, by its handler or by somebody else.
End(t) ==
  /\ state[t] \in {"PENDING", "LEASED"}
  /\ state' = [state EXCEPT ![t] = "OVER"]
  /\ holder' = [holder EXCEPT ![t] = Nobody]
  /\ UNCHANGED <<row, broker, publishers, consumers, faults>>

-----------------------------------------------------------------------------
PublisherStep(p) == LookUp(p) \/ Remove(p) \/ Add(p) \/ Mark(p)

Next ==
  \/ \E p \in Publishers :
       PublisherStep(p) \/ PublisherFails(p) \/ \E r \in Rows : Claim(p, r)
  \/ \E c \in Consumers :
       \/ Lease(c) \/ Defer(c) \/ Acknowledge(c) \/ HandlerThrows(c) \/ ConsumerDies(c)
       \/ \E t \in Targets : Receive(c, t)
  \/ \E t \in Targets : Stalled(t) \/ RecordLost(t) \/ Reclaim(t) \/ Rearm(t) \/ End(t)

Spec == Init /\ [][Next]_vars

\* Publishers and consumers go on between faults; the broker gives messages out and finds
\* its stalled ones; the sweeper's ticks recur.
Fairness ==
  /\ \A p \in Publishers : WF_vars(PublisherStep(p))
  /\ \A r \in Rows : WF_vars(\E p \in Publishers : Claim(p, r))
  /\ \A c \in Consumers : WF_vars(Lease(c)) /\ WF_vars(Acknowledge(c))
  /\ \A t \in Targets :
       /\ WF_vars(\E c \in Consumers : Receive(c, t))
       /\ WF_vars(Stalled(t))
       /\ WF_vars(Rearm(t))
FairSpec == Spec /\ Fairness

-----------------------------------------------------------------------------
(* Properties *)

\* The promise of Delivery, for the targets the sweeper re-arms: a job or run that stays
\* PENDING is leased, whatever was lost, swallowed by deduplication or failed before.
Promise == INSTANCE Delivery WITH Promised <- Rearmable
DeliveryPromise == Promise!Spec
=============================================================================
