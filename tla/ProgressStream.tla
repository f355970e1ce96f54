---------------------------- MODULE ProgressStream ----------------------------
(***************************************************************************)
(* How the events of one search reach a subscriber of searches.onProgress. *)
(*                                                                         *)
(* The table search_event is the truth.  Projectors (the sweepers' ninth   *)
(* duty) copy its rows to a Redis Stream, one entry per row under the      *)
(* row's seq, and move a durable watermark behind them.  A subscription    *)
(* reads the table until it has nothing new, then blocks on the stream,    *)
(* and merges both by seq.  Redis may lose the stream or its tail, an      *)
(* entry may be unreadable, a call may fail after it took effect, and a    *)
(* connection may break with events on the wire.                           *)
(*                                                                         *)
(* Abstractions.  An event is its seq; the last one of a search that is    *)
(* over is SEARCH_TERMINAL.  Payloads are left out, and with them the      *)
(* error that ends a subscription whose event breaks the reveal contract:  *)
(* the events the program writes keep it.  Faults are bounded in number.   *)
(***************************************************************************)
EXTENDS Naturals, Sequences, FiniteSetsExt

CONSTANTS
  Projectors,  \* sweeper processes
  MaxEvents,   \* bound: rows of the search
  MaxFaults    \* bound: failed calls, dead projectors, losses, broken connections

ASSUME StreamAssumption == MaxEvents \in Nat /\ MaxFaults \in Nat

VARIABLES
  events,     \* search_event holds the rows 1 .. events
  over,       \* search.status is terminal: row `events` is SEARCH_TERMINAL
  watermark,  \* search.projected_through
  stream,     \* the entry of each seq: "absent", "readable" or "unreadable"
  top,        \* the stream's last id
  projector,  \* per projector: its step, the event in hand, the last of its batch
  reader,     \* the subscription, see Closed
  wire,       \* events yielded and not received yet
  got,        \* events the client received
  lost,       \* history: entries Redis lost
  faults

tableVars == <<events, over, watermark>>
redisVars == <<stream, top, lost>>
clientVars == <<reader, wire, got>>
vars == <<tableVars, redisVars, projector, clientVars, faults>>

Seqs == 1 .. MaxEvents
Upto == 0 .. MaxEvents
Idle == [step |-> "idle", seq |-> 0, last |-> 0]

\* "catchup": about to read the table.  "serving": rows up to last are being yielded.
\* "reading": in XREAD.  "merging": its entries, some of them bad, are being yielded.
\* "done": the generator returned.
Closed == [step |-> "closed", next |-> 0, last |-> 0, entries |-> {}, bad |-> {},
           alreadyTerminal |-> FALSE]

TypeOK ==
  /\ events \in Upto /\ over \in BOOLEAN /\ watermark \in Upto /\ top \in Upto
  /\ stream \in [Seqs -> {"absent", "readable", "unreadable"}]
  /\ projector \in [Projectors ->
       [step : {"idle", "adding", "checking", "advancing"}, seq : Upto, last : Upto]]
  /\ reader \in [step : {"closed", "catchup", "serving", "reading", "merging", "done"},
                 next : 0 .. MaxEvents + 1, last : Upto, entries : SUBSET Seqs,
                 bad : SUBSET Seqs, alreadyTerminal : BOOLEAN]
  /\ wire \in Seq(Seqs) /\ got \in Seq(Seqs)
  /\ lost \subseteq Seqs /\ faults \in 0 .. MaxFaults

Init ==
  /\ events = 0 /\ over = FALSE /\ watermark = 0
  /\ stream = [s \in Seqs |-> "absent"] /\ top = 0 /\ lost = {}
  /\ projector = [p \in Projectors |-> Idle]
  /\ reader = Closed /\ wire = <<>> /\ got = <<>>
  /\ faults = 0

Fault == faults < MaxFaults /\ faults' = faults + 1
Terminal(s) == over /\ s = events

\* A transaction appends a row, or ends the search with its last one.
Commit ==
  /\ ~over /\ events < MaxEvents
  /\ events' = events + 1
  /\ over' \in BOOLEAN
  /\ UNCHANGED <<watermark, redisVars, projector, clientVars, faults>>

-----------------------------------------------------------------------------
(* projectSearchEvents *)

Project(p, step) == projector' = [projector EXCEPT ![p].step = step]

\* B10_UNPROJECTED_EVENTS.
Discover(p) ==
  /\ projector[p] = Idle /\ watermark < events
  /\ projector' = [projector EXCEPT
       ![p] = [step |-> "adding", seq |-> watermark + 1, last |-> events]]
  /\ UNCHANGED <<tableVars, redisVars, clientVars, faults>>

\* XADD under the event's own id.  Redis refuses an id that is not above its last.
Xadd(s) ==
  /\ s > top
  /\ stream' = [stream EXCEPT ![s] = "readable"]
  /\ top' = s
  /\ lost' = lost \ {s}

Add(p) ==
  /\ projector[p].step = "adding"
  /\ \/ Xadd(projector[p].seq) /\ Project(p, "advancing")
     \/ projector[p].seq <= top /\ Project(p, "checking") /\ UNCHANGED redisVars
  /\ UNCHANGED <<tableVars, clientVars, faults>>

\* The call, or the EXPIRE behind it, fails: the entry may be there or not.
AddFails(p) ==
  /\ projector[p].step = "adding" /\ Fault
  /\ Xadd(projector[p].seq) \/ UNCHANGED redisVars
  /\ Project(p, "checking")
  /\ UNCHANGED <<tableVars, clientVars>>

\* Fault: a refused id is taken for an event that is there.
CheckNothing(p) ==
  /\ projector[p].step = "checking"
  /\ Project(p, "advancing")
  /\ UNCHANGED <<tableVars, redisVars, clientVars, faults>>

\* XRANGE of that id: an absent entry is a gap, and the batch is given up.
Check(p) ==
  /\ projector[p].step = "checking"
  /\ IF stream[projector[p].seq] = "absent"
       THEN projector' = [projector EXCEPT ![p] = Idle]
       ELSE Project(p, "advancing")
  /\ UNCHANGED <<tableVars, redisVars, clientVars, faults>>

\* B10_ADVANCE_EVENT_WATERMARK; zero rows are accepted from a watermark already there.
Advance(p) ==
  LET s == projector[p].seq  last == projector[p].last IN
  /\ projector[p].step = "advancing"
  /\ watermark' = IF watermark = s - 1 THEN s ELSE watermark
  /\ projector' = [projector EXCEPT
       ![p] = IF s < last /\ watermark' >= s
                THEN [step |-> "adding", seq |-> s + 1, last |-> last] ELSE Idle]
  /\ UNCHANGED <<events, over, redisVars, clientVars, faults>>

ProjectorDies(p) ==
  /\ projector[p] # Idle /\ Fault
  /\ projector' = [projector EXCEPT ![p] = Idle]
  /\ UNCHANGED <<tableVars, redisVars, clientVars>>

-----------------------------------------------------------------------------
(* Redis *)

Entries == {s \in Seqs : stream[s] # "absent"}

\* Its data after the entry `kept` is gone (0: all of it, or the key expired).
Lose(kept) ==
  /\ kept \in {0} \cup Entries /\ kept < top /\ Fault
  /\ stream' = [s \in Seqs |-> IF s > kept THEN "absent" ELSE stream[s]]
  /\ top' = kept
  /\ lost' = lost \cup {s \in Entries : s > kept}
  /\ UNCHANGED <<tableVars, projector, clientVars>>

\* An entry whose fields do not parse.
Garble(s) ==
  /\ stream[s] = "readable" /\ Fault
  /\ stream' = [stream EXCEPT ![s] = "unreadable"]
  /\ UNCHANGED <<tableVars, top, lost, projector, clientVars>>

-----------------------------------------------------------------------------
(* onProgress and streamSearchEvents *)

\* The cursor is the last event the client received; the status is read before the loop.
Connect ==
  /\ reader = Closed
  /\ reader' = [Closed EXCEPT !.step = "catchup",
                  !.next = (IF got = <<>> THEN 0 ELSE got[Len(got)]) + 1,
                  !.alreadyTerminal = over]
  /\ UNCHANGED <<tableVars, redisVars, projector, wire, got, faults>>

\* Phase A, the table: rows beyond the cursor, or the end, or the stream.
CatchUp ==
  /\ reader.step = "catchup"
  /\ reader' =
       IF reader.next <= events THEN [reader EXCEPT !.step = "serving", !.last = events]
       ELSE [reader EXCEPT !.step = IF reader.alreadyTerminal THEN "done" ELSE "reading"]
  /\ UNCHANGED <<tableVars, redisVars, projector, wire, got, faults>>

Yield(s) == wire' = Append(wire, s)

Serve ==
  LET s == reader.next IN
  /\ reader.step = "serving"
  /\ Yield(s)
  /\ reader' = [reader EXCEPT !.next = s + 1,
                  !.step = IF Terminal(s) THEN "done"
                           ELSE IF s < reader.last THEN "serving" ELSE "catchup",
                  !.last = IF s < reader.last THEN @ ELSE 0]
  /\ UNCHANGED <<tableVars, redisVars, projector, got, faults>>

\* Fault: the block has no end, the table is not looked at again without an entry.
ReadForever ==
  LET new == {s \in Entries : s >= reader.next} IN
  /\ reader.step = "reading" /\ new # {}
  /\ reader' = [reader EXCEPT !.step = "merging", !.entries = new,
                   !.bad = {s \in new : stream[s] = "unreadable"}]
  /\ UNCHANGED <<tableVars, redisVars, projector, wire, got, faults>>

\* Phase B: XREAD after the last delivered id, or the block window elapses.
Read ==
  LET new == {s \in Entries : s >= reader.next} IN
  /\ reader.step = "reading"
  /\ reader' = IF new = {} THEN [reader EXCEPT !.step = "catchup"]
               ELSE [reader EXCEPT !.step = "merging", !.entries = new,
                       !.bad = {s \in new : stream[s] = "unreadable"}]
  /\ UNCHANGED <<tableVars, redisVars, projector, wire, got, faults>>

\* Fault: an entry ahead of the cursor is yielded.
MergesAnything(s) == s \notin reader.bad

\* The next entry, if it is the next event and can be read.
Merges(s) == s = reader.next /\ s \notin reader.bad

Merge ==
  /\ reader.step = "merging"
  /\ IF reader.entries # {} /\ Merges(Min(reader.entries))
       THEN LET s == Min(reader.entries) IN
            /\ Yield(s)
            /\ reader' = [reader EXCEPT !.next = s + 1, !.entries = @ \ {s},
                            !.step = IF Terminal(s) THEN "done" ELSE "merging"]
       ELSE /\ reader' = [reader EXCEPT !.step = "catchup", !.entries = {}, !.bad = {}]
            /\ UNCHANGED wire
  /\ UNCHANGED <<tableVars, redisVars, projector, got, faults>>

Receive ==
  /\ wire # <<>>
  /\ got' = Append(got, Head(wire)) /\ wire' = Tail(wire)
  /\ UNCHANGED <<tableVars, redisVars, projector, reader, faults>>

Finished == reader.step = "done" /\ wire = <<>>

\* The connection breaks, or a read fails: what is on the wire is lost, and the client
\* connects again.
Disconnect ==
  /\ reader # Closed /\ ~Finished /\ Fault
  /\ reader' = Closed /\ wire' = <<>>
  /\ UNCHANGED <<tableVars, redisVars, projector, got>>

-----------------------------------------------------------------------------
Projection(p) == Discover(p) \/ Add(p) \/ Check(p) \/ Advance(p)
Subscription == Connect \/ CatchUp \/ Serve \/ Read \/ Merge \/ Receive

Next ==
  \/ Commit \/ Subscription \/ Disconnect
  \/ \E p \in Projectors : Projection(p) \/ AddFails(p) \/ ProjectorDies(p)
  \/ \E s \in Upto : Lose(s)
  \/ \E s \in Seqs : Garble(s)

Spec == Init /\ [][Next]_vars

\* The subscription goes on, its client reconnects, and a receiver reads.  Nothing obliges
\* a projector to run.
FairSpec == Spec /\ WF_vars(Subscription) /\ WF_vars(Receive)

-----------------------------------------------------------------------------
(* Properties *)

\* The client receives the rows of the table in order, each once and none that is not
\* there, whatever the stream held, over any number of connections.
ReceivedInOrder == Len(got) <= events /\ \A i \in 1 .. Len(got) : got[i] = i

\* Between the watermark and the stream: an event the watermark covers was projected and
\* is there unless Redis lost it, and no entry lies beyond the next event, which Redis
\* would refuse for ever after.
ProjectionIsContiguous ==
  /\ \A s \in 1 .. watermark : stream[s] # "absent" \/ s \in lost
  /\ top <= watermark + 1

\* Every row reaches the client and the subscription ends after the last one, although no
\* event need ever be projected: also who connects without a cursor once the search is over
\* gets the whole log, because the reader drains the table before it looks at the status.
\* reader.ts:46-53 and onProgress.ts:138-141 say that he is replayed nothing.
EveryEventArrives ==
  /\ \A n \in Seqs : events >= n ~> Len(got) >= n
  /\ over ~> Finished /\ Len(got) = events
=============================================================================
