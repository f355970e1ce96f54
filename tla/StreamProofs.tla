------------------------------ MODULE StreamProofs ------------------------------
(***************************************************************************)
(* Safety of the projection and of the subscription for any number of      *)
(* projectors, rows and faults.  The two halves are proved apart.  The     *)
(* projection needs to know that a projector works on the watermark's next *)
(* row or behind it, and moves the watermark over an entry it added or     *)
(* found; the subscription, that its cursor is the next event after those  *)
(* received and those on the wire.                                         *)
(***************************************************************************)
EXTENDS ProgressStream, WellFoundedInduction, TLAPS

USE DEF vars, tableVars, redisVars, clientVars

\* A projector is on a row of its batch, not beyond the watermark's next one; one about to
\* advance added that entry or found it.
ProjectorHand ==
  /\ watermark <= events
  /\ \A p \in Projectors : projector[p].step # "idle" =>
       /\ 1 <= projector[p].seq /\ projector[p].seq <= projector[p].last
       /\ projector[p].last <= events
       /\ projector[p].seq <= watermark + 1
  /\ \A p \in Projectors : projector[p].step = "advancing" =>
       stream[projector[p].seq] # "absent" \/ projector[p].seq \in lost

\* Entries of the stream are rows of the table, and none lies beyond its last id.
EntriesAreRows ==
  /\ \A s \in Seqs : stream[s] # "absent" => s <= events /\ s <= top
  /\ \A s \in reader.entries : s <= events

\* The cursor follows what was received and what is on the wire, in the order of the table.
ReaderPlace ==
  /\ reader.step = "closed" => wire = <<>>
  /\ reader.step # "closed" => reader.next = Len(got) + Len(wire) + 1
  /\ \A i \in 1 .. Len(wire) : wire[i] = Len(got) + i
  /\ Len(got) + Len(wire) <= events
  /\ reader.step = "serving" => reader.next <= reader.last /\ reader.last <= events

\* The least of a set of numbers is one of them.
LEMMA LeastIsMember ==
  ASSUME NEW S, S \subseteq Nat, S # {}
  PROVE  Min(S) \in S
<1> DEFINE Less == OpToRel(<, Nat)
<1>1. IsWellFoundedOn(Less, Nat)
  BY NatLessThanWellFounded
<1>2. ASSUME NEW m \in Nat, NEW n \in Nat, m < n PROVE <<m, n>> \in Less
  BY <1>2 DEF OpToRel
<1> HIDE DEF Less
<1>3. PICK m \in S : \A n \in S : ~ (<<n, m>> \in Less)
  BY <1>1, WFMin
<1>4. ASSUME NEW n \in S PROVE m <= n
  <2>1. m \in Nat /\ n \in Nat
    OBVIOUS
  <2>2. ~ (n < m)
    BY <1>2, <1>3, <2>1
  <2> QED
    BY <2>1, <2>2
<1> QED
  BY <1>4 DEF Min

ProjectorSteps == {"idle", "adding", "checking", "advancing"}
ReaderSteps == {"closed", "catchup", "serving", "reading", "merging", "done"}
ReaderType == [step : ReaderSteps, next : 0 .. MaxEvents + 1, last : Upto,
               entries : SUBSET Seqs, bad : SUBSET Seqs, alreadyTerminal : BOOLEAN]

\* A projector's step changes, and nothing else of any projector.
LEMMA ProjectEffect ==
  ASSUME TypeOK, NEW p \in Projectors, NEW to \in ProjectorSteps, Project(p, to)
  PROVE  /\ projector' \in [Projectors -> [step : ProjectorSteps, seq : Upto, last : Upto]]
         /\ projector'[p].step = to
         /\ projector'[p].seq = projector[p].seq /\ projector'[p].last = projector[p].last
         /\ \A q \in Projectors : q # p => projector'[q] = projector[q]
BY DEF TypeOK, Project, ProjectorSteps

\* A projector is given a row, or none.
LEMMA PlaceEffect ==
  ASSUME TypeOK, NEW p \in Projectors, NEW step \in ProjectorSteps, NEW seq \in Upto,
         NEW last \in Upto,
         projector' = [projector EXCEPT ![p] = [step |-> step, seq |-> seq, last |-> last]]
  PROVE  /\ projector' \in [Projectors -> [step : ProjectorSteps, seq : Upto, last : Upto]]
         /\ projector'[p].step = step
         /\ projector'[p].seq = seq /\ projector'[p].last = last
         /\ \A q \in Projectors : q # p => projector'[q] = projector[q]
<1>1. [step |-> step, seq |-> seq, last |-> last]
        \in [step : ProjectorSteps, seq : Upto, last : Upto]
  OBVIOUS
<1> QED
  BY <1>1 DEF TypeOK, ProjectorSteps

\* The event in hand is a row.
LEMMA HandIsRow ==
  ASSUME TypeOK, ProjectorHand, NEW p \in Projectors, projector[p].step # "idle"
  PROVE  projector[p].seq \in Seqs /\ projector[p].last \in Seqs
BY DEF TypeOK, ProjectorHand, Seqs, Upto

\* An entry is added, or Redis is left alone.
LEMMA AddEffect ==
  ASSUME TypeOK, NEW s \in Seqs, Xadd(s) \/ UNCHANGED redisVars
  PROVE  /\ stream' \in [Seqs -> {"absent", "readable", "unreadable"}]
         /\ top' \in Upto /\ lost' \subseteq Seqs
         /\ top' = top \/ top' = s
         /\ top <= top'
         /\ \A t \in Seqs : t # s => stream'[t] = stream[t] /\ (t \in lost' <=> t \in lost)
         /\ \/ stream'[s] # "absent" /\ s = top'
            \/ stream'[s] = stream[s] /\ (s \in lost' <=> s \in lost)
<1>1. CASE Xadd(s)
  BY <1>1 DEF TypeOK, Xadd, Seqs, Upto
<1>2. CASE UNCHANGED redisVars
  BY <1>2 DEF TypeOK, Upto
<1> QED
  BY <1>1, <1>2

\* Every step is well typed: a cursor and an event in hand are rows of the table.
LEMMA TypeStep ==
  ASSUME TypeOK, ProjectorHand, EntriesAreRows, ReaderPlace, [Next]_vars
  PROVE  TypeOK'
<1>1. CASE Commit
  BY <1>1, StreamAssumption DEF TypeOK, Upto, Seqs, Commit
<1>2. ASSUME NEW p \in Projectors, Discover(p) PROVE TypeOK'
  BY <1>2, StreamAssumption DEF TypeOK, Upto, Seqs, Discover, ProjectorHand, Idle
<1>3. ASSUME NEW p \in Projectors, Add(p) PROVE TypeOK'
  <2>1. projector[p].seq \in Seqs /\ projector[p].step = "adding"
    BY <1>3, HandIsRow DEF Add
  <2>2. Xadd(projector[p].seq) \/ UNCHANGED redisVars
    BY <1>3 DEF Add
  <2>3. PICK to \in {"advancing", "checking"} : Project(p, to)
    BY <1>3 DEF Add
  <2>4. to \in ProjectorSteps
    BY DEF ProjectorSteps
  <2>5. faults' \in 0 .. MaxFaults /\ UNCHANGED <<tableVars, clientVars>>
    BY <1>3, StreamAssumption DEF TypeOK, Add, Fault
  <2>6. projector' \in [Projectors -> [step : ProjectorSteps, seq : Upto, last : Upto]]
    BY <2>3, <2>4, ProjectEffect
  <2> QED
    BY <2>1, <2>2, <2>5, <2>6, AddEffect DEF TypeOK, ProjectorSteps
<1>4. ASSUME NEW p \in Projectors, AddFails(p) PROVE TypeOK'
  <2>1. projector[p].seq \in Seqs /\ projector[p].step = "adding"
    BY <1>4, HandIsRow DEF AddFails
  <2>2. Xadd(projector[p].seq) \/ UNCHANGED redisVars
    BY <1>4 DEF AddFails
  <2>3. PICK to \in {"advancing", "checking"} : Project(p, to)
    BY <1>4 DEF AddFails
  <2>4. to \in ProjectorSteps
    BY DEF ProjectorSteps
  <2>5. faults' \in 0 .. MaxFaults /\ UNCHANGED <<tableVars, clientVars>>
    BY <1>4, StreamAssumption DEF TypeOK, AddFails, Fault
  <2>6. projector' \in [Projectors -> [step : ProjectorSteps, seq : Upto, last : Upto]]
    BY <2>3, <2>4, ProjectEffect
  <2> QED
    BY <2>1, <2>2, <2>5, <2>6, AddEffect DEF TypeOK, ProjectorSteps
<1>5. ASSUME NEW p \in Projectors, Check(p) PROVE TypeOK'
  <2>1. projector[p].seq \in Upto /\ projector[p].last \in Upto
    BY DEF TypeOK
  <2>2. CASE projector' = [projector EXCEPT ![p] = Idle]
    <3>1. Idle \in [step : ProjectorSteps, seq : Upto, last : Upto]
      BY StreamAssumption DEF Idle, ProjectorSteps, Upto
    <3> QED
      BY <1>5, <2>2, <3>1 DEF TypeOK, Check, ProjectorSteps
  <2>3. CASE Project(p, "advancing")
    BY <1>5, <2>3, ProjectEffect DEF TypeOK, Check, ProjectorSteps
  <2> QED
    BY <1>5, <2>2, <2>3 DEF Check
<1>6. ASSUME NEW p \in Projectors, Advance(p) PROVE TypeOK'
  <2>1. projector[p].seq \in Seqs /\ projector[p].last \in Seqs
    BY <1>6, HandIsRow DEF Advance
  <2>2. watermark' \in Upto
    BY <1>6, <2>1 DEF TypeOK, Advance, Seqs, Upto
  <2>3. Idle \in [step : ProjectorSteps, seq : Upto, last : Upto]
    BY StreamAssumption DEF Idle, ProjectorSteps, Upto
  <2>4. CASE projector' = [projector EXCEPT ![p] = Idle]
    BY <1>6, <2>2, <2>3, <2>4 DEF TypeOK, Advance, ProjectorSteps
  <2>5. ASSUME projector[p].seq < projector[p].last,
               projector' = [projector EXCEPT ![p] = [step |-> "adding",
                               seq |-> projector[p].seq + 1, last |-> projector[p].last]]
        PROVE  TypeOK'
    <3>1. projector[p].seq + 1 \in Upto /\ projector[p].last \in Upto
      BY <2>1, <2>5, StreamAssumption DEF Seqs, Upto
    <3>2. "adding" \in ProjectorSteps
      BY DEF ProjectorSteps
    <3>3. projector' \in [Projectors -> [step : ProjectorSteps, seq : Upto, last : Upto]]
      BY <2>5, <3>1, <3>2, PlaceEffect
    <3> QED
      BY <1>6, <2>2, <3>3 DEF TypeOK, Advance, ProjectorSteps
  <2> QED
    BY <1>6, <2>4, <2>5 DEF Advance
<1>7. ASSUME NEW p \in Projectors, ProjectorDies(p) PROVE TypeOK'
  BY <1>7, StreamAssumption DEF TypeOK, Upto, Seqs, ProjectorDies, Fault, ProjectorHand,
     Idle
<1>8. ASSUME NEW s \in Upto, Lose(s) PROVE TypeOK'
  <2>1. stream' \in [Seqs -> {"absent", "readable", "unreadable"}]
    BY <1>8 DEF TypeOK, Lose
  <2>2. top' \in Upto /\ lost' \subseteq Seqs
    BY <1>8 DEF TypeOK, Lose, Entries
  <2>3. faults' \in 0 .. MaxFaults
    BY <1>8, StreamAssumption DEF TypeOK, Lose, Fault
  <2> QED
    BY <1>8, <2>1, <2>2, <2>3 DEF TypeOK, Lose
<1>9. ASSUME NEW s \in Seqs, Garble(s) PROVE TypeOK'
  BY <1>9, StreamAssumption DEF TypeOK, Upto, Seqs, Garble, Fault
<1>10. CASE Connect
  <2> DEFINE first == (IF got = <<>> THEN 0 ELSE got[Len(got)]) + 1
  <2>1. first \in 0 .. MaxEvents + 1
    <3>1. CASE got = <<>>
      BY <3>1, StreamAssumption
    <3>2. CASE got # <<>>
      <4>1. Len(got) \in 1 .. Len(got)
        BY <3>2 DEF TypeOK
      <4>2. got[Len(got)] \in Seqs
        BY <4>1 DEF TypeOK
      <4> QED
        BY <3>2, <4>2, StreamAssumption DEF Seqs
    <3> QED
      BY <3>1, <3>2
  <2>2. reader' = [Closed EXCEPT !.step = "catchup", !.next = first,
                                 !.alreadyTerminal = over]
    BY <1>10 DEF Connect
  <2>3. 0 \in Upto
    BY StreamAssumption DEF Upto
  <2> HIDE DEF first
  <2>4. reader' \in ReaderType
    BY <2>1, <2>2, <2>3 DEF Closed, TypeOK, ReaderType, ReaderSteps
  <2> QED
    BY <1>10, <2>4 DEF TypeOK, Connect, ReaderType, ReaderSteps
<1>11. CASE CatchUp
  BY <1>11, StreamAssumption DEF TypeOK, Upto, Seqs, CatchUp
<1>12. CASE Serve
  <2>1. reader.next \in Seqs /\ reader.next + 1 \in 0 .. MaxEvents + 1
    <3>1. Len(got) \in Nat /\ Len(wire) \in Nat /\ events \in 0 .. MaxEvents
          /\ reader.last \in Nat
      BY DEF TypeOK, Upto
    <3>2. reader.next = Len(got) + Len(wire) + 1 /\ reader.next <= reader.last
          /\ reader.last <= events
      BY <1>12 DEF ReaderPlace, Serve
    <3> QED
      BY <3>1, <3>2, StreamAssumption DEF Seqs
  <2>2. wire' \in Seq(Seqs)
    BY <1>12, <2>1 DEF TypeOK, Serve, Yield
  <2>3. PICK to \in ReaderSteps, last \in Upto :
          reader' = [reader EXCEPT !.next = reader.next + 1, !.step = to, !.last = last]
    <3>1. 0 \in Upto /\ reader.last \in Upto
      BY StreamAssumption DEF Upto, TypeOK
    <3>2. CASE reader.next < reader.last
      BY <1>12, <3>1, <3>2 DEF Serve, ReaderSteps
    <3>3. CASE ~ (reader.next < reader.last)
      BY <1>12, <3>1, <3>3 DEF Serve, ReaderSteps
    <3> QED
      BY <3>2, <3>3
  <2>4. reader' \in ReaderType
    BY <2>1, <2>3 DEF TypeOK, ReaderType, ReaderSteps
  <2> QED
    BY <1>12, <2>2, <2>4 DEF TypeOK, Serve, ReaderType, ReaderSteps
<1>13. CASE Read
  BY <1>13, StreamAssumption DEF TypeOK, Upto, Seqs, Read, Entries
<1>14. CASE Merge
  <2>1. CASE reader.entries # {} /\ Merges(Min(reader.entries))
    <3> DEFINE s == Min(reader.entries)
    <3>1. s \in reader.entries /\ s = reader.next
      BY <2>1, LeastIsMember DEF TypeOK, Seqs, Merges
    <3>2. s \in Seqs /\ s <= events
      BY <3>1 DEF TypeOK, EntriesAreRows
    <3>3. PICK to \in {"done", "merging"} :
            reader' = [reader EXCEPT !.next = s + 1, !.entries = @ \ {s}, !.step = to]
      BY <1>14, <2>1 DEF Merge
    <3>4. wire' = Append(wire, s)
      BY <1>14, <2>1 DEF Merge, Yield
    <3> HIDE DEF s
    <3>5. reader' \in ReaderType
      <4>1. s + 1 \in 0 .. MaxEvents + 1 /\ to \in ReaderSteps
        BY <3>2, StreamAssumption DEF Seqs, ReaderSteps
      <4>2. reader \in ReaderType /\ reader.entries \ {s} \subseteq Seqs
        BY DEF TypeOK, ReaderType, ReaderSteps
      <4> QED
        BY <3>3, <4>1, <4>2 DEF ReaderType
    <3>6. wire' \in Seq(Seqs)
      BY <3>2, <3>4 DEF TypeOK
    <3> QED
      BY <1>14, <3>5, <3>6 DEF TypeOK, Merge, ReaderType, ReaderSteps
  <2>2. CASE ~ (reader.entries # {} /\ Merges(Min(reader.entries)))
    <3>1. reader' = [reader EXCEPT !.step = "catchup", !.entries = {}, !.bad = {}]
          /\ UNCHANGED wire
      BY <1>14, <2>2 DEF Merge
    <3>2. reader' \in ReaderType
      BY <3>1 DEF TypeOK, ReaderType, ReaderSteps
    <3> QED
      BY <1>14, <3>1, <3>2 DEF TypeOK, Merge, ReaderType, ReaderSteps
  <2> QED
    BY <2>1, <2>2
<1>15. CASE Receive
  BY <1>15, StreamAssumption DEF TypeOK, Upto, Seqs, Receive
<1>16. CASE Disconnect
  BY <1>16, StreamAssumption DEF TypeOK, Upto, Seqs, Disconnect, Fault, Closed
<1>17. CASE UNCHANGED vars
  BY <1>17 DEF TypeOK, Upto, Seqs
<1> QED
  BY ONLY [Next]_vars, <1>1, <1>2, <1>3, <1>4, <1>5, <1>6, <1>7, <1>8, <1>9, <1>10, <1>11,
     <1>12, <1>13, <1>14, <1>15, <1>16, <1>17 DEF Next, Projection, Subscription

\* The watermark moves one row at a time, and a projector past it starts again.
LEMMA HandStep ==
  ASSUME TypeOK, ProjectorHand, [Next]_vars
  PROVE  ProjectorHand'
<1>1. CASE Commit
  BY <1>1 DEF TypeOK, ProjectorHand, Upto, Seqs, Commit
<1>2. ASSUME NEW p \in Projectors, Discover(p) PROVE ProjectorHand'
  BY <1>2 DEF TypeOK, ProjectorHand, Upto, Seqs, Discover, Idle
<1>3. ASSUME NEW p \in Projectors, Add(p) PROVE ProjectorHand'
  <2>1. projector[p].seq \in Seqs /\ projector[p].step = "adding"
    BY <1>3, HandIsRow DEF Add
  <2>2. Xadd(projector[p].seq) \/ UNCHANGED redisVars
    BY <1>3 DEF Add
  <2>3. PICK to \in {"advancing", "checking"} : Project(p, to)
    BY <1>3 DEF Add
  <2>4. to \in ProjectorSteps
    BY DEF ProjectorSteps
  <2>5. UNCHANGED <<events, watermark>>
    BY <1>3 DEF Add
  <2>6. to = "advancing" => stream'[projector[p].seq] # "absent"
    BY <1>3, <2>1, <2>3 DEF Add, Xadd, Project, TypeOK
  <2>7. \A q \in Projectors : projector'[q].step = "advancing" =>
          stream'[projector'[q].seq] # "absent" \/ projector'[q].seq \in lost'
    <3> SUFFICES ASSUME NEW q \in Projectors, projector'[q].step = "advancing"
                 PROVE  stream'[projector'[q].seq] # "absent" \/ projector'[q].seq \in lost'
      OBVIOUS
    <3>1. CASE q = p
      BY <3>1, <2>3, <2>4, <2>6, ProjectEffect
    <3>2. CASE q # p
      <4>1. projector'[q] = projector[q] /\ projector[q].seq \in Seqs
        BY <3>2, <2>3, <2>4, ProjectEffect, HandIsRow
      <4>2. stream[projector[q].seq] # "absent" \/ projector[q].seq \in lost
        BY <4>1 DEF ProjectorHand
      <4> QED
        BY <2>1, <2>2, <4>1, <4>2, AddEffect
    <3> QED
      BY <3>1, <3>2
  <2>8. \A q \in Projectors : projector'[q].seq = projector[q].seq
          /\ projector'[q].last = projector[q].last
          /\ (projector'[q].step # "idle" => projector[q].step # "idle")
    BY <2>1, <2>3, <2>4, ProjectEffect
  <2> QED
    BY <2>5, <2>7, <2>8 DEF ProjectorHand
<1>4. ASSUME NEW p \in Projectors, AddFails(p) PROVE ProjectorHand'
  <2>1. projector[p].seq \in Seqs /\ projector[p].step = "adding"
    BY <1>4, HandIsRow DEF AddFails
  <2>2. Xadd(projector[p].seq) \/ UNCHANGED redisVars
    BY <1>4 DEF AddFails
  <2>3. PICK to \in {"advancing", "checking"} : Project(p, to)
    BY <1>4 DEF AddFails
  <2>4. to \in ProjectorSteps
    BY DEF ProjectorSteps
  <2>5. UNCHANGED <<events, watermark>>
    BY <1>4 DEF AddFails
  <2>6. to = "advancing" => stream'[projector[p].seq] # "absent"
    BY <1>4, <2>1, <2>3 DEF AddFails, Xadd, Project, TypeOK
  <2>7. \A q \in Projectors : projector'[q].step = "advancing" =>
          stream'[projector'[q].seq] # "absent" \/ projector'[q].seq \in lost'
    <3> SUFFICES ASSUME NEW q \in Projectors, projector'[q].step = "advancing"
                 PROVE  stream'[projector'[q].seq] # "absent" \/ projector'[q].seq \in lost'
      OBVIOUS
    <3>1. CASE q = p
      BY <3>1, <2>3, <2>4, <2>6, ProjectEffect
    <3>2. CASE q # p
      <4>1. projector'[q] = projector[q] /\ projector[q].seq \in Seqs
        BY <3>2, <2>3, <2>4, ProjectEffect, HandIsRow
      <4>2. stream[projector[q].seq] # "absent" \/ projector[q].seq \in lost
        BY <4>1 DEF ProjectorHand
      <4> QED
        BY <2>1, <2>2, <4>1, <4>2, AddEffect
    <3> QED
      BY <3>1, <3>2
  <2>8. \A q \in Projectors : projector'[q].seq = projector[q].seq
          /\ projector'[q].last = projector[q].last
          /\ (projector'[q].step # "idle" => projector[q].step # "idle")
    BY <2>1, <2>3, <2>4, ProjectEffect
  <2> QED
    BY <2>5, <2>7, <2>8 DEF ProjectorHand
<1>5. ASSUME NEW p \in Projectors, Check(p) PROVE ProjectorHand'
  <2>1. UNCHANGED <<events, watermark, stream, lost>>
    BY <1>5 DEF Check
  <2>2. CASE projector' = [projector EXCEPT ![p] = Idle]
    BY <2>1, <2>2 DEF TypeOK, ProjectorHand, Idle
  <2>3. CASE Project(p, "advancing") /\ stream[projector[p].seq] # "absent"
    <3>1. \A q \in Projectors : projector'[q].seq = projector[q].seq
            /\ projector'[q].last = projector[q].last
            /\ (projector'[q].step # "idle" => projector[q].step # "idle")
            /\ (q # p => projector'[q] = projector[q])
      BY <1>5, <2>3, ProjectEffect DEF Check, ProjectorSteps
    <3> QED
      BY <2>1, <2>3, <3>1 DEF ProjectorHand
  <2> QED
    BY <1>5, <2>2, <2>3 DEF Check
<1>6. ASSUME NEW p \in Projectors, Advance(p) PROVE ProjectorHand'
  <2>1. projector[p].seq \in Seqs /\ projector[p].last \in Seqs
    BY <1>6, HandIsRow DEF Advance
  <2>2. watermark' \in Nat /\ watermark <= watermark' /\ watermark' <= events
        /\ UNCHANGED <<events, stream, lost>>
    BY <1>6, <2>1 DEF TypeOK, ProjectorHand, Advance, Seqs, Upto
  <2>3. \A q \in Projectors : projector[q].seq \in Nat
    BY DEF TypeOK, Upto
  <2>4. CASE projector' = [projector EXCEPT ![p] = Idle]
    BY SMTT(30), <2>2, <2>3, <2>4 DEF TypeOK, ProjectorHand, Idle, Upto
  <2>5. ASSUME projector[p].seq < projector[p].last, watermark' >= projector[p].seq,
               projector' = [projector EXCEPT ![p] = [step |-> "adding",
                               seq |-> projector[p].seq + 1, last |-> projector[p].last]]
        PROVE  ProjectorHand'
    <3>1. projector[p].seq + 1 \in Upto /\ projector[p].last \in Upto
      BY <2>1, <2>5, StreamAssumption DEF Seqs, Upto
    <3>2. DOMAIN projector = Projectors
      BY DEF TypeOK
    <3>3. /\ projector'[p].step = "adding"
          /\ projector'[p].seq = projector[p].seq + 1
          /\ projector'[p].last = projector[p].last
          /\ \A q \in Projectors : q # p => projector'[q] = projector[q]
      BY ONLY p \in Projectors, <2>5, <3>2
    <3>4. projector[p].last <= events
      BY <1>6 DEF Advance, ProjectorHand
    <3> QED
      BY SMTT(30), <2>1, <2>2, <2>3, <2>5, <3>3, <3>4 DEF ProjectorHand, Seqs, TypeOK, Upto
  <2> QED
    BY <1>6, <2>4, <2>5 DEF Advance
<1>7. ASSUME NEW p \in Projectors, ProjectorDies(p) PROVE ProjectorHand'
  BY <1>7 DEF TypeOK, ProjectorHand, Upto, Seqs, ProjectorDies, Fault, Idle
<1>8. ASSUME NEW s \in Upto, Lose(s) PROVE ProjectorHand'
  BY <1>8 DEF TypeOK, ProjectorHand, Upto, Seqs, Lose, Entries, Fault
<1>9. ASSUME NEW s \in Seqs, Garble(s) PROVE ProjectorHand'
  BY <1>9 DEF TypeOK, ProjectorHand, Upto, Seqs, Garble, Fault
<1>10. CASE Connect
  BY <1>10 DEF TypeOK, ProjectorHand, Upto, Seqs, Connect
<1>11. CASE CatchUp
  BY <1>11 DEF TypeOK, ProjectorHand, Upto, Seqs, CatchUp
<1>12. CASE Serve
  BY <1>12 DEF TypeOK, ProjectorHand, Upto, Seqs, Serve, Yield
<1>13. CASE Read
  BY <1>13 DEF TypeOK, ProjectorHand, Upto, Seqs, Read, Entries
<1>14. CASE Merge
  BY <1>14 DEF TypeOK, ProjectorHand, Upto, Seqs, Merge, Merges, Yield
<1>15. CASE Receive
  BY <1>15 DEF TypeOK, ProjectorHand, Upto, Seqs, Receive
<1>16. CASE Disconnect
  BY <1>16 DEF TypeOK, ProjectorHand, Upto, Seqs, Disconnect, Fault
<1>17. CASE UNCHANGED vars
  BY <1>17 DEF TypeOK, ProjectorHand, Upto, Seqs
<1> QED
  BY ONLY [Next]_vars, <1>1, <1>2, <1>3, <1>4, <1>5, <1>6, <1>7, <1>8, <1>9, <1>10, <1>11,
     <1>12, <1>13, <1>14, <1>15, <1>16, <1>17 DEF Next, Projection, Subscription

\* Only rows are projected, and Redis drops whatever it has beyond its last id.
LEMMA EntriesStep ==
  ASSUME TypeOK, ProjectorHand, EntriesAreRows, [Next]_vars
  PROVE  EntriesAreRows'
<1>1. CASE Commit
  BY <1>1 DEF TypeOK, EntriesAreRows, Upto, Seqs, Commit
<1>2. ASSUME NEW p \in Projectors, Discover(p) PROVE EntriesAreRows'
  BY <1>2 DEF TypeOK, EntriesAreRows, Upto, Seqs, Discover
<1>3. ASSUME NEW p \in Projectors, Add(p) PROVE EntriesAreRows'
  <2>1. projector[p].seq \in Seqs /\ projector[p].step = "adding"
    BY <1>3, HandIsRow DEF Add
  <2>2. Xadd(projector[p].seq) \/ UNCHANGED redisVars
    BY <1>3 DEF Add
  <2>3. PICK to \in {"advancing", "checking"} : Project(p, to)
    BY <1>3 DEF Add
  <2>4. to \in ProjectorSteps
    BY DEF ProjectorSteps
  <2>5. projector[p].seq <= events /\ UNCHANGED <<events, reader>>
    BY <1>3, <2>1 DEF Add, ProjectorHand, TypeOK, Upto
  <2> QED
    BY SMTT(30), <2>1, <2>2, <2>5, AddEffect DEF EntriesAreRows, TypeOK, Upto, Seqs
<1>4. ASSUME NEW p \in Projectors, AddFails(p) PROVE EntriesAreRows'
  <2>1. projector[p].seq \in Seqs /\ projector[p].step = "adding"
    BY <1>4, HandIsRow DEF AddFails
  <2>2. Xadd(projector[p].seq) \/ UNCHANGED redisVars
    BY <1>4 DEF AddFails
  <2>3. PICK to \in {"advancing", "checking"} : Project(p, to)
    BY <1>4 DEF AddFails
  <2>4. to \in ProjectorSteps
    BY DEF ProjectorSteps
  <2>5. projector[p].seq <= events /\ UNCHANGED <<events, reader>>
    BY <1>4, <2>1 DEF AddFails, ProjectorHand, TypeOK, Upto
  <2> QED
    BY SMTT(30), <2>1, <2>2, <2>5, AddEffect DEF EntriesAreRows, TypeOK, Upto, Seqs
<1>5. ASSUME NEW p \in Projectors, Check(p) PROVE EntriesAreRows'
  BY <1>5 DEF TypeOK, EntriesAreRows, Upto, Seqs, Check, Project
<1>6. ASSUME NEW p \in Projectors, Advance(p) PROVE EntriesAreRows'
  BY <1>6 DEF TypeOK, EntriesAreRows, Upto, Seqs, Advance
<1>7. ASSUME NEW p \in Projectors, ProjectorDies(p) PROVE EntriesAreRows'
  BY <1>7 DEF TypeOK, EntriesAreRows, Upto, Seqs, ProjectorDies, Fault
<1>8. ASSUME NEW s \in Upto, Lose(s) PROVE EntriesAreRows'
  BY <1>8 DEF TypeOK, EntriesAreRows, Upto, Seqs, Lose, Entries, Fault
<1>9. ASSUME NEW s \in Seqs, Garble(s) PROVE EntriesAreRows'
  BY <1>9 DEF TypeOK, EntriesAreRows, Upto, Seqs, Garble, Fault
<1>10. CASE Connect
  BY <1>10 DEF TypeOK, EntriesAreRows, Upto, Seqs, Connect, Closed
<1>11. CASE CatchUp
  BY <1>11 DEF TypeOK, EntriesAreRows, Upto, Seqs, CatchUp
<1>12. CASE Serve
  BY <1>12 DEF TypeOK, EntriesAreRows, Upto, Seqs, Serve, Yield
<1>13. CASE Read
  BY <1>13 DEF TypeOK, EntriesAreRows, Upto, Seqs, Read, Entries
<1>14. CASE Merge
  <2>1. CASE reader.entries # {} /\ Merges(Min(reader.entries))
    <3> DEFINE s == Min(reader.entries)
    <3>1. s \in reader.entries /\ s = reader.next
      BY <2>1, LeastIsMember DEF TypeOK, Seqs, Merges
    <3>2. s \in Seqs /\ s <= events
      BY <3>1 DEF TypeOK, EntriesAreRows
    <3>3. PICK to \in {"done", "merging"} :
            reader' = [reader EXCEPT !.next = s + 1, !.entries = @ \ {s}, !.step = to]
      BY <1>14, <2>1 DEF Merge
    <3>4. wire' = Append(wire, s)
      BY <1>14, <2>1 DEF Merge, Yield
    <3> HIDE DEF s
    <3> QED
      BY <1>14, <3>3 DEF EntriesAreRows, TypeOK, Merge
  <2>2. CASE ~ (reader.entries # {} /\ Merges(Min(reader.entries)))
    <3>1. reader' = [reader EXCEPT !.step = "catchup", !.entries = {}, !.bad = {}]
          /\ UNCHANGED wire
      BY <1>14, <2>2 DEF Merge
    <3> QED
      BY <1>14, <3>1 DEF EntriesAreRows, TypeOK, Merge
  <2> QED
    BY <2>1, <2>2
<1>15. CASE Receive
  BY <1>15 DEF TypeOK, EntriesAreRows, Upto, Seqs, Receive
<1>16. CASE Disconnect
  BY <1>16 DEF TypeOK, EntriesAreRows, Upto, Seqs, Disconnect, Fault, Closed
<1>17. CASE UNCHANGED vars
  BY <1>17 DEF TypeOK, EntriesAreRows, Upto, Seqs
<1> QED
  BY ONLY [Next]_vars, <1>1, <1>2, <1>3, <1>4, <1>5, <1>6, <1>7, <1>8, <1>9, <1>10, <1>11,
     <1>12, <1>13, <1>14, <1>15, <1>16, <1>17 DEF Next, Projection, Subscription

\* An entry is added behind the watermark or right after it, and an absent one that the
\* watermark covers was lost.
LEMMA ContiguousStep ==
  ASSUME TypeOK, ProjectorHand, EntriesAreRows, ProjectionIsContiguous, [Next]_vars
  PROVE  ProjectionIsContiguous'
<1>1. CASE Commit
  BY <1>1 DEF TypeOK, ProjectionIsContiguous, Upto, Seqs, Commit
<1>2. ASSUME NEW p \in Projectors, Discover(p) PROVE ProjectionIsContiguous'
  BY <1>2 DEF TypeOK, ProjectionIsContiguous, Upto, Seqs, Discover
<1>3. ASSUME NEW p \in Projectors, Add(p) PROVE ProjectionIsContiguous'
  <2>1. projector[p].seq \in Seqs /\ projector[p].step = "adding"
    BY <1>3, HandIsRow DEF Add
  <2>2. Xadd(projector[p].seq) \/ UNCHANGED redisVars
    BY <1>3 DEF Add
  <2>3. PICK to \in {"advancing", "checking"} : Project(p, to)
    BY <1>3 DEF Add
  <2>4. to \in ProjectorSteps
    BY DEF ProjectorSteps
  <2>5. projector[p].seq <= watermark + 1 /\ UNCHANGED watermark
    BY <1>3, <2>1 DEF Add, ProjectorHand
  <2>6. top' <= watermark + 1
    BY <2>1, <2>2, <2>5, AddEffect DEF ProjectionIsContiguous, TypeOK, Upto, Seqs
  <2>7. ASSUME NEW s \in 1 .. watermark PROVE stream'[s] # "absent" \/ s \in lost'
    <3>1. s \in Seqs /\ (stream[s] # "absent" \/ s \in lost)
      BY StreamAssumption DEF ProjectionIsContiguous, TypeOK, Upto, Seqs
    <3> QED
      BY <2>1, <2>2, <3>1, AddEffect
  <2> QED
    BY <2>5, <2>6, <2>7 DEF ProjectionIsContiguous
<1>4. ASSUME NEW p \in Projectors, AddFails(p) PROVE ProjectionIsContiguous'
  <2>1. projector[p].seq \in Seqs /\ projector[p].step = "adding"
    BY <1>4, HandIsRow DEF AddFails
  <2>2. Xadd(projector[p].seq) \/ UNCHANGED redisVars
    BY <1>4 DEF AddFails
  <2>3. PICK to \in {"advancing", "checking"} : Project(p, to)
    BY <1>4 DEF AddFails
  <2>4. to \in ProjectorSteps
    BY DEF ProjectorSteps
  <2>5. projector[p].seq <= watermark + 1 /\ UNCHANGED watermark
    BY <1>4, <2>1 DEF AddFails, ProjectorHand
  <2>6. top' <= watermark + 1
    BY <2>1, <2>2, <2>5, AddEffect DEF ProjectionIsContiguous, TypeOK, Upto, Seqs
  <2>7. ASSUME NEW s \in 1 .. watermark PROVE stream'[s] # "absent" \/ s \in lost'
    <3>1. s \in Seqs /\ (stream[s] # "absent" \/ s \in lost)
      BY StreamAssumption DEF ProjectionIsContiguous, TypeOK, Upto, Seqs
    <3> QED
      BY <2>1, <2>2, <3>1, AddEffect
  <2> QED
    BY <2>5, <2>6, <2>7 DEF ProjectionIsContiguous
<1>5. ASSUME NEW p \in Projectors, Check(p) PROVE ProjectionIsContiguous'
  BY <1>5 DEF TypeOK, ProjectionIsContiguous, Upto, Seqs, Check, Project
<1>6. ASSUME NEW p \in Projectors, Advance(p) PROVE ProjectionIsContiguous'
  BY <1>6 DEF TypeOK, ProjectionIsContiguous, Upto, Seqs, Advance, ProjectorHand
<1>7. ASSUME NEW p \in Projectors, ProjectorDies(p) PROVE ProjectionIsContiguous'
  BY <1>7 DEF TypeOK, ProjectionIsContiguous, Upto, Seqs, ProjectorDies, Fault
<1>8. ASSUME NEW s \in Upto, Lose(s) PROVE ProjectionIsContiguous'
  <2>1. top' <= watermark' + 1
    BY <1>8 DEF TypeOK, ProjectionIsContiguous, Lose, Entries, Upto, Seqs
  <2>2. ASSUME NEW t \in 1 .. watermark PROVE stream'[t] # "absent" \/ t \in lost'
    <3>1. t \in Seqs /\ (stream[t] # "absent" \/ t \in lost)
      BY StreamAssumption DEF ProjectionIsContiguous, TypeOK, Upto, Seqs
    <3>2. t > s /\ t \in Entries => t \in lost'
      BY <1>8 DEF Lose
    <3>3. ~ (t > s) => stream'[t] = stream[t]
      BY <1>8, <3>1 DEF Lose
    <3>4. lost \subseteq lost'
      BY <1>8 DEF Lose
    <3> QED
      BY <3>1, <3>2, <3>3, <3>4 DEF Entries
  <2> QED
    BY <1>8, <2>1, <2>2 DEF ProjectionIsContiguous, Lose
<1>9. ASSUME NEW s \in Seqs, Garble(s) PROVE ProjectionIsContiguous'
  BY <1>9 DEF TypeOK, ProjectionIsContiguous, Upto, Seqs, Garble, Fault
<1>10. CASE Connect
  BY <1>10 DEF TypeOK, ProjectionIsContiguous, Upto, Seqs, Connect
<1>11. CASE CatchUp
  BY <1>11 DEF TypeOK, ProjectionIsContiguous, Upto, Seqs, CatchUp
<1>12. CASE Serve
  BY <1>12 DEF TypeOK, ProjectionIsContiguous, Upto, Seqs, Serve, Yield
<1>13. CASE Read
  BY <1>13 DEF TypeOK, ProjectionIsContiguous, Upto, Seqs, Read, Entries
<1>14. CASE Merge
  BY <1>14 DEF TypeOK, ProjectionIsContiguous, Upto, Seqs, Merge, Merges, Yield
<1>15. CASE Receive
  BY <1>15 DEF TypeOK, ProjectionIsContiguous, Upto, Seqs, Receive
<1>16. CASE Disconnect
  BY <1>16 DEF TypeOK, ProjectionIsContiguous, Upto, Seqs, Disconnect, Fault
<1>17. CASE UNCHANGED vars
  BY <1>17 DEF TypeOK, ProjectionIsContiguous, Upto, Seqs
<1> QED
  BY ONLY [Next]_vars, <1>1, <1>2, <1>3, <1>4, <1>5, <1>6, <1>7, <1>8, <1>9, <1>10, <1>11,
     <1>12, <1>13, <1>14, <1>15, <1>16, <1>17 DEF Next, Projection, Subscription

\* Every yield is the event at the cursor.
LEMMA PlaceStep ==
  ASSUME TypeOK, EntriesAreRows, ReaderPlace, ReceivedInOrder, [Next]_vars
  PROVE  ReaderPlace'
<1>1. CASE Commit
  BY <1>1 DEF TypeOK, ReaderPlace, Upto, Seqs, Commit
<1>2. ASSUME NEW p \in Projectors, Discover(p) PROVE ReaderPlace'
  BY <1>2 DEF TypeOK, ReaderPlace, Upto, Seqs, Discover
<1>3. ASSUME NEW p \in Projectors, Add(p) PROVE ReaderPlace'
  BY <1>3 DEF TypeOK, ReaderPlace, Upto, Seqs, Add, Xadd, Project
<1>4. ASSUME NEW p \in Projectors, AddFails(p) PROVE ReaderPlace'
  BY <1>4 DEF TypeOK, ReaderPlace, Upto, Seqs, AddFails, Xadd, Project, Fault
<1>5. ASSUME NEW p \in Projectors, Check(p) PROVE ReaderPlace'
  BY <1>5 DEF TypeOK, ReaderPlace, Upto, Seqs, Check, Project
<1>6. ASSUME NEW p \in Projectors, Advance(p) PROVE ReaderPlace'
  BY <1>6 DEF TypeOK, ReaderPlace, Upto, Seqs, Advance
<1>7. ASSUME NEW p \in Projectors, ProjectorDies(p) PROVE ReaderPlace'
  BY <1>7 DEF TypeOK, ReaderPlace, Upto, Seqs, ProjectorDies, Fault
<1>8. ASSUME NEW s \in Upto, Lose(s) PROVE ReaderPlace'
  BY <1>8 DEF TypeOK, ReaderPlace, Upto, Seqs, Lose, Entries, Fault
<1>9. ASSUME NEW s \in Seqs, Garble(s) PROVE ReaderPlace'
  BY <1>9 DEF TypeOK, ReaderPlace, Upto, Seqs, Garble, Fault
<1>10. CASE Connect
  <2>1. reader = Closed /\ UNCHANGED <<events, wire, got>>
    BY <1>10 DEF Connect
  <2>2. wire = <<>> /\ Len(wire) = 0
    BY <2>1 DEF ReaderPlace, Closed
  <2>3. (IF got = <<>> THEN 0 ELSE got[Len(got)]) = Len(got)
    <3>1. CASE got = <<>>
      BY <3>1
    <3>2. CASE got # <<>>
      <4>1. Len(got) \in 1 .. Len(got)
        BY <3>2 DEF TypeOK
      <4> QED
        BY <3>2, <4>1 DEF ReceivedInOrder
    <3> QED
      BY <3>1, <3>2
  <2>4. reader'.step = "catchup" /\ reader'.next = Len(got) + 1
    BY <1>10, <2>3 DEF Connect, Closed
  <2> QED
    BY <2>1, <2>2, <2>4 DEF ReaderPlace, TypeOK
<1>11. CASE CatchUp
  BY <1>11 DEF TypeOK, ReaderPlace, Upto, Seqs, CatchUp
<1>12. CASE Serve
  BY <1>12 DEF TypeOK, ReaderPlace, Upto, Seqs, Serve, Yield
<1>13. CASE Read
  BY <1>13 DEF TypeOK, ReaderPlace, Upto, Seqs, Read, Entries
<1>14. CASE Merge
  <2>1. CASE reader.entries # {} /\ Merges(Min(reader.entries))
    <3> DEFINE s == Min(reader.entries)
    <3>1. s \in reader.entries /\ s = reader.next
      BY <2>1, LeastIsMember DEF TypeOK, Seqs, Merges
    <3>2. s \in Seqs /\ s <= events
      BY <3>1 DEF TypeOK, EntriesAreRows
    <3>3. PICK to \in {"done", "merging"} :
            reader' = [reader EXCEPT !.next = s + 1, !.entries = @ \ {s}, !.step = to]
      BY <1>14, <2>1 DEF Merge
    <3>4. wire' = Append(wire, s)
      BY <1>14, <2>1 DEF Merge, Yield
    <3> HIDE DEF s
    <3>5. Len(wire') = Len(wire) + 1 /\ wire'[Len(wire) + 1] = s
          /\ \A i \in 1 .. Len(wire) : wire'[i] = wire[i]
      BY <3>2, <3>4 DEF TypeOK
    <3>6. reader'.next = s + 1 /\ reader'.step \in {"done", "merging"}
      BY <3>3 DEF TypeOK
    <3>7. s = Len(got) + Len(wire) + 1 /\ UNCHANGED <<got, events>>
      BY <1>14, <3>1 DEF Merge, ReaderPlace
    <3>8. Len(got) \in Nat /\ Len(wire) \in Nat /\ events \in Nat
      BY DEF TypeOK, Upto
    <3> QED
      BY <3>2, <3>5, <3>6, <3>7, <3>8 DEF ReaderPlace
  <2>2. CASE ~ (reader.entries # {} /\ Merges(Min(reader.entries)))
    <3>1. reader' = [reader EXCEPT !.step = "catchup", !.entries = {}, !.bad = {}]
          /\ UNCHANGED wire
      BY <1>14, <2>2 DEF Merge
    <3>2. reader'.step = "catchup" /\ reader'.next = reader.next
      BY <3>1 DEF TypeOK
    <3> QED
      BY <1>14, <3>1, <3>2 DEF ReaderPlace, Merge
  <2> QED
    BY <2>1, <2>2
<1>15. CASE Receive
  BY SMTT(30), <1>15 DEF TypeOK, ReaderPlace, Upto, Seqs, Receive
<1>16. CASE Disconnect
  BY <1>16 DEF TypeOK, ReaderPlace, Upto, Seqs, Disconnect, Fault, Closed
<1>17. CASE UNCHANGED vars
  BY <1>17 DEF TypeOK, ReaderPlace, Upto, Seqs
<1> QED
  BY ONLY [Next]_vars, <1>1, <1>2, <1>3, <1>4, <1>5, <1>6, <1>7, <1>8, <1>9, <1>10, <1>11,
     <1>12, <1>13, <1>14, <1>15, <1>16, <1>17 DEF Next, Projection, Subscription

\* What is received is what the wire held first.
LEMMA OrderStep ==
  ASSUME TypeOK, ReaderPlace, ReceivedInOrder, [Next]_vars
  PROVE  ReceivedInOrder'
<1>1. CASE Commit
  BY <1>1 DEF TypeOK, ReceivedInOrder, Upto, Seqs, Commit
<1>2. ASSUME NEW p \in Projectors, Discover(p) PROVE ReceivedInOrder'
  BY <1>2 DEF TypeOK, ReceivedInOrder, Upto, Seqs, Discover
<1>3. ASSUME NEW p \in Projectors, Add(p) PROVE ReceivedInOrder'
  BY <1>3 DEF TypeOK, ReceivedInOrder, Upto, Seqs, Add, Xadd, Project
<1>4. ASSUME NEW p \in Projectors, AddFails(p) PROVE ReceivedInOrder'
  BY <1>4 DEF TypeOK, ReceivedInOrder, Upto, Seqs, AddFails, Xadd, Project, Fault
<1>5. ASSUME NEW p \in Projectors, Check(p) PROVE ReceivedInOrder'
  BY <1>5 DEF TypeOK, ReceivedInOrder, Upto, Seqs, Check, Project
<1>6. ASSUME NEW p \in Projectors, Advance(p) PROVE ReceivedInOrder'
  BY <1>6 DEF TypeOK, ReceivedInOrder, Upto, Seqs, Advance
<1>7. ASSUME NEW p \in Projectors, ProjectorDies(p) PROVE ReceivedInOrder'
  BY <1>7 DEF TypeOK, ReceivedInOrder, Upto, Seqs, ProjectorDies, Fault
<1>8. ASSUME NEW s \in Upto, Lose(s) PROVE ReceivedInOrder'
  BY <1>8 DEF TypeOK, ReceivedInOrder, Upto, Seqs, Lose, Entries, Fault
<1>9. ASSUME NEW s \in Seqs, Garble(s) PROVE ReceivedInOrder'
  BY <1>9 DEF TypeOK, ReceivedInOrder, Upto, Seqs, Garble, Fault
<1>10. CASE Connect
  BY <1>10 DEF TypeOK, ReceivedInOrder, Upto, Seqs, Connect
<1>11. CASE CatchUp
  BY <1>11 DEF TypeOK, ReceivedInOrder, Upto, Seqs, CatchUp
<1>12. CASE Serve
  BY <1>12 DEF TypeOK, ReceivedInOrder, Upto, Seqs, Serve, Yield
<1>13. CASE Read
  BY <1>13 DEF TypeOK, ReceivedInOrder, Upto, Seqs, Read, Entries
<1>14. CASE Merge
  BY <1>14 DEF TypeOK, ReceivedInOrder, Upto, Seqs, Merge, Merges, Yield
<1>15. CASE Receive
  BY <1>15 DEF TypeOK, ReceivedInOrder, Upto, Seqs, Receive, ReaderPlace
<1>16. CASE Disconnect
  BY <1>16 DEF TypeOK, ReceivedInOrder, Upto, Seqs, Disconnect, Fault
<1>17. CASE UNCHANGED vars
  BY <1>17 DEF TypeOK, ReceivedInOrder, Upto, Seqs
<1> QED
  BY ONLY [Next]_vars, <1>1, <1>2, <1>3, <1>4, <1>5, <1>6, <1>7, <1>8, <1>9, <1>10, <1>11,
     <1>12, <1>13, <1>14, <1>15, <1>16, <1>17 DEF Next, Projection, Subscription

StreamInv ==
  /\ TypeOK /\ ProjectorHand /\ EntriesAreRows
  /\ ProjectionIsContiguous /\ ReaderPlace /\ ReceivedInOrder

\* An empty log and an unopened stream satisfy the invariant.
LEMMA InitStreamInv == Init => StreamInv
<1> SUFFICES ASSUME Init PROVE StreamInv OBVIOUS
<1>1. 0 \in Upto /\ 0 \in 0 .. MaxFaults /\ 0 \in 0 .. MaxEvents + 1
  BY StreamAssumption DEF Upto
<1>2. wire \in Seq(Seqs) /\ got \in Seq(Seqs) /\ Len(wire) = 0 /\ Len(got) = 0
  BY DEF Init
<1>3. reader \in [step : {"closed", "catchup", "serving", "reading", "merging", "done"},
                  next : 0 .. MaxEvents + 1, last : Upto, entries : SUBSET Seqs,
                  bad : SUBSET Seqs, alreadyTerminal : BOOLEAN]
  BY <1>1 DEF Init, Closed
<1>4. Idle \in [step : {"idle", "adding", "checking", "advancing"}, seq : Upto, last : Upto]
  BY <1>1 DEF Idle
<1>5. TypeOK
  BY <1>1, <1>2, <1>3, <1>4 DEF Init, TypeOK
<1>6. ProjectorHand
  BY DEF Init, ProjectorHand, Idle
<1>7. EntriesAreRows
  BY DEF Init, EntriesAreRows, Closed
<1>8. ProjectionIsContiguous /\ ReaderPlace /\ ReceivedInOrder
  BY <1>2 DEF Init, ProjectionIsContiguous, ReaderPlace, ReceivedInOrder, Closed
<1> QED
  BY <1>5, <1>6, <1>7, <1>8 DEF StreamInv

\* StreamInv holds in every reachable state.
THEOREM StreamInvariance == Spec => []StreamInv
<1>1. StreamInv /\ [Next]_vars => StreamInv'
  <2> SUFFICES ASSUME StreamInv, [Next]_vars PROVE StreamInv'
    OBVIOUS
  <2>1. TypeOK' /\ ProjectorHand' /\ EntriesAreRows'
    BY TypeStep, HandStep, EntriesStep DEF StreamInv
  <2>2. ProjectionIsContiguous' /\ ReaderPlace' /\ ReceivedInOrder'
    BY ContiguousStep, PlaceStep, OrderStep DEF StreamInv
  <2> QED
    BY <2>1, <2>2 DEF StreamInv
<1> QED
  BY InitStreamInv, <1>1, PTL DEF Spec

\* Every row, entry and cursor keeps its domain.
THEOREM StreamTypesCorrect == Spec => []TypeOK
<1>1. StreamInv => TypeOK BY DEF StreamInv
<1> QED BY <1>1, StreamInvariance, PTL

\* A client receives the rows in order, each once and none twice, over any number of
\* connections and whatever Redis lost.
THEOREM InOrder == Spec => []ReceivedInOrder
<1>1. StreamInv => ReceivedInOrder BY DEF StreamInv
<1> QED BY <1>1, StreamInvariance, PTL

\* The watermark covers nothing that was not projected, and Redis's last id never runs
\* ahead of the next row, however projectors interleave, fail and die.
THEOREM ContiguousProjection == Spec => []ProjectionIsContiguous
<1>1. StreamInv => ProjectionIsContiguous BY DEF StreamInv
<1> QED BY <1>1, StreamInvariance, PTL
=============================================================================
