----------------------------- MODULE SearchClient -----------------------------
(***************************************************************************)
(* The mobile web client's view of a search: create, get before subscribe, *)
(* the event feed and its polling fallback, reconnects, foreground resume  *)
(* and cancel (hooks/useSearchSubscription.ts, lib/polling.ts,             *)
(* lib/cancelSearch.ts, store/searchSlice.ts).  The server is its event    *)
(* log: rows delivered in order after a cursor, SEARCH_TERMINAL last, and  *)
(* a get that answers with any state between its call and its delivery.    *)
(*                                                                         *)
(* operationGeneration fences every continuation but the cancel's: each    *)
(* carries the generation it was made under and does nothing under another *)
(* one.  A start and a cancel bump it; the resets of the store take it     *)
(* back to 0, so a generation can come round again.  Rows, counts and      *)
(* wording are abstracted: an answer is the search it is an answer of.     *)
(***************************************************************************)
EXTENDS Naturals, FiniteSets

CONSTANTS Searches,   \* searches the server may create for the user's specs
          PollBudget, \* MAX_CONSECUTIVE_POLL_FAILURES
          MaxRows,    \* bound: event rows of a search before its last
          MaxFaults,  \* bound: calls and connections that fail
          MaxResumes, \* bound: returns of the app to the foreground
          MaxCancels, \* bound: presses of cancel
          MaxStarts,  \* bound: starts
          MaxResets,  \* bound: returns to the form that reset the store
          None        \* no search

ASSUME ClientAssumption ==
  /\ PollBudget \in Nat \ {0}
  /\ {MaxRows, MaxFaults, MaxResumes, MaxCancels, MaxStarts, MaxResets} \subseteq Nat
  /\ None \notin Searches

VARIABLES
  server, \* per search: rows of its log and how it ended
  sent,   \* calls the server may still carry out: creates and cancels
  view,   \* the store: phase, search, status, end on screen, answer, cursor, flags
  work,   \* callbacks: calls in flight, subscriptions, pollers
  cancels, \* cancels in flight: asked, or probing their outcome
  spent   \* counters of the bounds

vars == <<server, sent, view, work, cancels, spent>>

Ends == {"COMPLETE", "PARTIAL", "HALTED", "CANCELLED"}
Phases == {"idle", "creating", "reconciling", "streaming", "polling", "terminal"}

\* searchInitialState
Blank == [phase |-> "idle", searchId |-> None, status |-> "none", screen |-> "none",
          answer |-> None, cursor |-> 0, pending |-> None, error |-> FALSE,
          canceling |-> FALSE, cancelError |-> FALSE, generation |-> 0]

Init ==
  /\ server = [x \in Searches |-> [rows |-> 0, end |-> "absent"]]
  /\ sent = [create |-> {}, cancel |-> {}]
  /\ view = Blank
  /\ work = {}
  /\ cancels = {}
  /\ spent = [faults |-> 0, resumes |-> 0, cancels |-> 0, starts |-> 0, resets |-> 0]

-----------------------------------------------------------------------------
\* The server, as its routes show it

Ended(x) == server[x].end \in Ends
Exists(x) == server[x].end # "absent"

\* Status of x when its log has k rows: the last row and the end commit together.
StatusAt(x, k) == IF Ended(x) /\ k = server[x].rows THEN server[x].end ELSE "RUNNING"

Created(x) ==
  /\ x \in sent.create /\ ~Exists(x)
  /\ server' = [server EXCEPT ![x].end = "none"]
  /\ UNCHANGED <<sent, view, work, cancels, spent>>

Grow(x) ==
  /\ Exists(x) /\ ~Ended(x) /\ server[x].rows < MaxRows
  /\ server' = [server EXCEPT ![x].rows = @ + 1]
  /\ UNCHANGED <<sent, view, work, cancels, spent>>

End(x, end) ==
  /\ Exists(x) /\ ~Ended(x)
  /\ end = "CANCELLED" => x \in sent.cancel
  /\ server' = [server EXCEPT ![x] = [rows |-> @.rows + 1, end |-> end]]
  /\ UNCHANGED <<sent, view, work, cancels, spent>>

-----------------------------------------------------------------------------
\* Setters of the store

Reveal(v, end, answer) ==
  [v EXCEPT !.phase = "terminal", !.status = end, !.screen = end, !.pending = None,
            !.answer = IF answer = None THEN @ ELSE answer,
            !.canceling = FALSE, !.cancelError = FALSE]
Enter(v, phase) == [v EXCEPT !.phase = phase, !.error = FALSE]
Fail(v) == [v EXCEPT !.phase = "idle", !.error = TRUE, !.canceling = FALSE]

\* A callback: `at` is the log when a get was called or a subscription's cursor; `held`
\* says that subscriptionRef or pollingStopRef points to it; a re-read keeps what the
\* terminal event carried, the create of an update the answer it took from the screen.
Callback(op, x, at) ==
  [op |-> op, id |-> x, at |-> at, gen |-> view.generation, fails |-> 0, heard |-> FALSE,
   held |-> FALSE, end |-> "none", answer |-> None]
Get(op, x) == Callback(op, x, server[x].rows)

Creates == {"create", "replay", "update"}

\* Fault: a callback runs whatever the generation.
Unfenced(w, ops) == w.op \in ops

\* The fence: a callback runs if it is of the store's generation.
Own(w, ops) == w.gen = view.generation /\ w.op \in ops

\* The callbacks that it lets run.
Live == {w \in work : w.gen = view.generation}

\* teardown stops what the refs point to; a ref that is overwritten forgets the callback.
Drop(W, op) == {w \in W : ~(w.op = op /\ w.held)}
Teardown(W) == Drop(Drop(W, "sub"), "poll")
Forget(W, op) == {IF w.op = op THEN [w EXCEPT !.held = FALSE] ELSE w : w \in W}

\* Fault: subscribes to what comes next, not to what follows the cursor.
OpenAtTail(W, x, cursor) ==
  Forget(Drop(W, "poll"), "sub")
    \cup {[Callback("sub", x, server[x].rows) EXCEPT !.held = TRUE]}

Open(W, x, cursor) ==
  Forget(Drop(W, "poll"), "sub") \cup {[Callback("sub", x, cursor) EXCEPT !.held = TRUE]}

Poll(W, x) == Forget(W, "poll") \cup {[Get("poll", x) EXCEPT !.held = TRUE]}

-----------------------------------------------------------------------------
\* startSearch, up to its first await, and the create's continuations

\* getOrCreatePendingKey: the pending key, while no search is on view, or a fresh one,
\* which is that of a search nobody asked for.  A changed spec of the same subject updates
\* the search on view in place.
Start(x) ==
  \E op \in Creates :
    /\ spent.starts < MaxStarts
    /\ IF op = "replay" THEN view.pending = x /\ view.searchId = None
                        ELSE x \notin sent.create
    /\ op = "update" => view.searchId # None
    /\ spent' = [spent EXCEPT !.starts = @ + 1]
    /\ sent' = [sent EXCEPT !.create = @ \cup {x}]
    /\ view' = [Enter(view, "creating") EXCEPT
                  !.pending = x, !.cursor = 0, !.answer = None, !.generation = @ + 1]
    /\ work' = Teardown(work)
                 \cup {[Callback(op, x, 0) EXCEPT
                          !.gen = @ + 1, !.answer = IF op = "update" THEN view.answer ELSE None]}
    /\ UNCHANGED <<server, cancels>>

\* resetSearch, backToSearch, changeFormat, widenWindow, showPlayingHere, restart: the
\* store starts over, its generation too; what is in flight or subscribed stays.
Reset ==
  /\ spent.resets < MaxResets
  /\ view' = Blank
  /\ spent' = [spent EXCEPT !.resets = @ + 1]
  /\ UNCHANGED <<server, sent, work, cancels>>

\* The generation is still the call's, so the search becomes the view's and is reconciled.
CreateReply(w) ==
  /\ Own(w, Creates) /\ Exists(w.id)
  /\ view' = [Enter(view, "reconciling") EXCEPT
                !.searchId = w.id, !.status = "RUNNING", !.screen = "none",
                !.pending = None, !.cancelError = FALSE]
  /\ work' = (work \ {w}) \cup {Get("first", w.id)}
  /\ UNCHANGED <<server, sent, cancels, spent>>

\* A failed call counts against the bound, but for those the routes refuse: the replay of
\* a create whose search is over, and a get of a CANCELLED search.
Fault == spent.faults < MaxFaults /\ spent' = [spent EXCEPT !.faults = @ + 1]

Faulty(w) ==
  \/ Fault
  \/ /\ \/ w.op = "replay" /\ Ended(w.id)
        \/ w.op \notin Creates /\ server[w.id].end = "CANCELLED"
     /\ UNCHANGED spent

\* The pending key stays, so another start of the spec asks for the same search; an update
\* gives the answer back.  IDEMPOTENCY_KEY_CONFLICT is another spec under the same key:
\* getOrCreatePendingKey compares with the hash the server compares, so it is not met.
CreateFails(w) ==
  /\ Own(w, Creates) /\ Faulty(w)
  /\ view' = Fail(IF w.op = "update" THEN [view EXCEPT !.answer = w.answer] ELSE view)
  /\ work' = work \ {w}
  /\ UNCHANGED <<server, sent, cancels>>

-----------------------------------------------------------------------------
\* reconcileAndSubscribe and reconcileAndResubscribe: a get, then the subscription

Again(x) ==
  /\ view' = Enter(view, "reconciling")
  /\ work' = Drop(work, "sub") \cup {Get("again", x)}

Resume ==
  /\ spent.resumes < MaxResumes
  /\ view.searchId # None /\ view.status = "RUNNING" /\ view.phase # "terminal"
  /\ Again(view.searchId)
  /\ spent' = [spent EXCEPT !.resumes = @ + 1]
  /\ UNCHANGED <<server, sent, cancels>>

Reconciled(w) ==
  /\ Own(w, {"first", "again"})
  /\ \E k \in w.at..server[w.id].rows : LET status == StatusAt(w.id, k) IN
       \/ /\ status \in Ends \ {"CANCELLED"}
          /\ view' = Reveal(view, status, w.id)
          /\ work' = Teardown(work \ {w})
       \/ /\ status = "RUNNING" /\ view.phase = "terminal"
          /\ view' = [view EXCEPT !.status = "RUNNING"]
          /\ work' = work \ {w}
       \/ /\ status = "RUNNING" /\ view.phase # "terminal"
          /\ view' = [Enter(view, "streaming") EXCEPT !.status = "RUNNING"]
          /\ work' = Open(work \ {w}, w.id, view.cursor)
  /\ UNCHANGED <<server, sent, cancels, spent>>

\* The first get's error is shown; a later one falls back to polling while the status is
\* not an end, unless the error is the client's own.
ReconcileFails(w) ==
  /\ \/ /\ Own(w, {"first"}) /\ Faulty(w)
        /\ view' = Fail(view)
        /\ work' = work \ {w}
     \/ /\ Own(w, {"again"}) /\ Fault
        /\ view' = Fail(view)
        /\ work' = Teardown(work \ {w})
     \/ /\ Own(w, {"again"}) /\ Faulty(w) /\ view.status \notin Ends
        /\ view' = Enter(view, "polling")
        /\ work' = Poll(work \ {w}, w.id)
     \/ /\ Own(w, {"again"}) /\ Faulty(w) /\ view.status \in Ends
        /\ work' = work \ {w}
        /\ UNCHANGED view
  /\ UNCHANGED <<server, sent, cancels>>

-----------------------------------------------------------------------------
\* The subscription: the next row after the cursor, or an error

\* handleTerminal stops the feed and re-reads the result of the view's search, if there is
\* one, before it shows the end the event carries.
SubEvent(w) ==
  /\ Own(w, {"sub"}) /\ w.at < server[w.id].rows
  /\ LET seq == w.at + 1  status == StatusAt(w.id, seq)  seen == [view EXCEPT !.cursor = seq] IN
       \/ /\ status = "RUNNING"
          /\ view' = seen
          /\ work' = (work \ {w}) \cup {[w EXCEPT !.at = seq, !.heard = TRUE]}
       \/ /\ status \in Ends /\ view.searchId # None
          /\ view' = seen
          /\ work' = Teardown(work \ {w})
                       \cup {[Get("final", view.searchId) EXCEPT !.end = status, !.answer = w.id]}
       \/ /\ status \in Ends /\ view.searchId = None
          /\ view' = Reveal(seen, status, w.id)
          /\ work' = Teardown(work \ {w})
  /\ UNCHANGED <<server, sent, cancels, spent>>

\* Fault: an error before any row is left to the transport.
SubFailsSilently(w) ==
  /\ Own(w, {"sub"}) /\ Fault
  /\ \/ ~w.heard /\ work' = work \ {w} /\ UNCHANGED view
     \/ /\ w.heard /\ ~(view.status \in Ends /\ view.phase = "terminal")
        /\ view' = Enter(view, "reconciling")
        /\ work' = Drop(work \ {w}, "sub") \cup {Get("again", w.id)}
  /\ UNCHANGED <<server, sent, cancels>>

\* An error before any row falls back to polling; one after a row reconciles again, unless
\* the end is already shown.
SubFails(w) ==
  /\ Own(w, {"sub"}) /\ Fault
  /\ \/ /\ ~w.heard
        /\ view' = Fail(view)
        /\ work' = Teardown(work \ {w})
     \/ /\ ~w.heard /\ view.status \notin Ends
        /\ view' = Enter(view, "polling")
        /\ work' = Poll(work \ {w}, w.id)
     \/ /\ w.heard /\ ~(view.status \in Ends /\ view.phase = "terminal")
        /\ view' = Enter(view, "reconciling")
        /\ work' = Drop(work \ {w}, "sub") \cup {Get("again", w.id)}
     \/ /\ IF w.heard THEN view.phase = "terminal" ELSE TRUE
        /\ view.status \in Ends
        /\ work' = work \ {w}
        /\ UNCHANGED view
  /\ UNCHANGED <<server, sent, cancels>>

\* Fault: only the re-read brings the answer, and its error none.
SettleWithoutAnswer(w) ==
  /\ Own(w, {"final"})
  /\ Faulty(w)
  /\ view' = Reveal(view, w.end, None)
  /\ work' = work \ {w}
  /\ UNCHANGED <<server, sent, cancels>>

\* handleTerminal's finish: the get's result when it is terminal, else what the event
\* carried.
Settle(w) ==
  /\ Own(w, {"final"})
  /\ \/ /\ \E k \in w.at..server[w.id].rows : LET status == StatusAt(w.id, k) IN
             /\ status # "CANCELLED"
             /\ view' = IF status \in Ends THEN Reveal(view, status, w.id)
                                           ELSE Reveal(view, w.end, w.answer)
        /\ UNCHANGED spent
     \/ Faulty(w) /\ view' = Reveal(view, w.end, w.answer)
  /\ work' = work \ {w}
  /\ UNCHANGED <<server, sent, cancels>>

-----------------------------------------------------------------------------
\* Polling: a get per tick until an end, or until PollBudget fail in a row

PollReply(w) ==
  /\ Own(w, {"poll"})
  /\ \E k \in w.at..server[w.id].rows : LET status == StatusAt(w.id, k) IN
       \/ /\ status \in Ends \ {"CANCELLED"}
          /\ view' = Reveal(view, status, w.id)
          /\ work' = Teardown(work \ {w})
       \/ /\ status = "RUNNING"
          /\ view' = [view EXCEPT !.status = "RUNNING"]
          /\ work' = (work \ {w}) \cup {[w EXCEPT !.fails = 0, !.at = server[w.id].rows]}
  /\ UNCHANGED <<server, sent, cancels, spent>>

\* Fault: a failed tick never gives the poller up.
PollFailsOn(w) ==
  /\ Own(w, {"poll"}) /\ Faulty(w)
  /\ work' = (work \ {w}) \cup {[w EXCEPT !.fails = @ + 1, !.at = server[w.id].rows]}
  /\ UNCHANGED <<server, sent, view, cancels>>

PollFails(w) ==
  /\ Own(w, {"poll"}) /\ Faulty(w)
  /\ \/ /\ w.fails + 1 < PollBudget
        /\ work' = (work \ {w})
                     \cup {[w EXCEPT !.fails = @ + 1, !.at = server[w.id].rows]}
        /\ UNCHANGED view
     \/ /\ w.fails + 1 >= PollBudget
        /\ work' = work \ {w}
        /\ view' = Fail(view)
  /\ UNCHANGED <<server, sent, cancels>>

-----------------------------------------------------------------------------
\* cancelCurrentSearch: the generation is bumped before anything else

\* What was in flight or subscribed stays, of an older generation.
Bump == [view EXCEPT !.generation = @ + 1]

\* The form offers it for a search that runs; a failure shown since the last press lets a
\* second cancel go beside the first.
PressCancel ==
  /\ spent.cancels < MaxCancels
  /\ view.searchId # None /\ view.status = "RUNNING" /\ ~view.canceling
  /\ spent' = [spent EXCEPT !.cancels = @ + 1]
  /\ cancels' = cancels \cup {[step |-> "asked", id |-> view.searchId, press |-> spent.cancels]}
  /\ sent' = [sent EXCEPT !.cancel = @ \cup {view.searchId}]
  /\ view' = [Bump EXCEPT !.canceling = TRUE, !.cancelError = FALSE]
  /\ UNCHANGED <<server, work>>

\* A press beside the cancel it would repeat throws, after its bump.
PressAgain ==
  /\ spent.cancels < MaxCancels
  /\ view.searchId # None /\ view.status = "RUNNING" /\ view.canceling
  /\ spent' = [spent EXCEPT !.cancels = @ + 1]
  /\ view' = Bump
  /\ UNCHANGED <<server, sent, work, cancels>>

\* The route answers once the search is over: cancelled by it, or by an end it echoes.
CancelReply(c) ==
  /\ c.step = "asked" /\ Ended(c.id)
  /\ view' = Reveal(view, server[c.id].end, None)
  /\ work' = Teardown(work)
  /\ cancels' = cancels \ {c}
  /\ UNCHANGED <<server, sent, spent>>

CancelFails(c) ==
  /\ c.step = "asked" /\ Fault
  /\ cancels' = (cancels \ {c}) \cup {[c EXCEPT !.step = "probing"]}
  /\ UNCHANGED <<server, sent, view, work>>

\* searches.status tells a cancel that landed from one that did not.
ProbeReply(c) ==
  /\ c.step = "probing"
  /\ IF server[c.id].end = "CANCELLED"
       THEN view' = Reveal(view, "CANCELLED", None) /\ work' = Teardown(work)
       ELSE /\ view' = [view EXCEPT !.canceling = FALSE, !.cancelError = TRUE]
            /\ UNCHANGED work
  /\ cancels' = cancels \ {c}
  /\ UNCHANGED <<server, sent, spent>>

ProbeFails(c) ==
  /\ c.step = "probing" /\ Fault
  /\ view' = [view EXCEPT !.canceling = FALSE, !.cancelError = TRUE]
  /\ cancels' = cancels \ {c}
  /\ UNCHANGED <<server, sent, work>>

-----------------------------------------------------------------------------
\* What comes under another generation is dropped: an answer or an error, a row of a feed,
\* the last tick of a poller.
Ignored(w) ==
  /\ w.gen # view.generation
  /\ \/ /\ w.op = "sub" /\ w.at < server[w.id].rows
        /\ work' = (work \ {w}) \cup {[w EXCEPT !.at = @ + 1]}
     \/ /\ w.op # "sub" /\ (w.op = "poll" => Ended(w.id))
        /\ work' = work \ {w}
  /\ UNCHANGED <<server, sent, view, cancels, spent>>

-----------------------------------------------------------------------------
ServerNext ==
  \E x \in Searches : Created(x) \/ Grow(x) \/ \E end \in Ends : End(x, end)

User == Resume \/ Reset \/ PressCancel \/ PressAgain \/ \E x \in Searches : Start(x)

\* Answers, errors and timer ticks the event loop runs.
Callbacks ==
  \/ \E w \in work :
       \/ CreateReply(w) \/ Reconciled(w) \/ SubEvent(w) \/ Settle(w) \/ PollReply(w)
       \/ CreateFails(w) \/ ReconcileFails(w) \/ SubFails(w) \/ PollFails(w) \/ Ignored(w)
  \/ \E c \in cancels : CancelReply(c) \/ CancelFails(c) \/ ProbeReply(c) \/ ProbeFails(c)

Next == ServerNext \/ User \/ Callbacks

Spec == Init /\ [][Next]_vars

\* A user who waits: returns to the foreground when no create is in flight, starts again
\* when no cancel is, and resets the store when nothing is in flight or subscribed.
CalmNext ==
  \/ ServerNext \/ PressCancel \/ PressAgain \/ Callbacks
  \/ (\A w \in Live : w.op \notin Creates) /\ Resume
  \/ cancels = {} /\ \E x \in Searches : Start(x)
  \/ cancels = {} /\ work = {} /\ Reset

CalmSpec == Init /\ [][CalmNext]_vars

\* The event loop keeps running what is ready; users and the server owe nothing.
CalmFairSpec == CalmSpec /\ WF_vars(Callbacks)

-----------------------------------------------------------------------------
\* Properties

Ops == Creates \cup {"first", "again", "final", "sub", "poll"}
Known == Searches \cup {None}

TypeOK ==
  /\ server \in [Searches -> [rows : Nat, end : Ends \cup {"absent", "none"}]]
  /\ sent \in [create : SUBSET Searches, cancel : SUBSET Searches]
  /\ view \in [phase : Phases, searchId : Known, status : Ends \cup {"none", "RUNNING"},
               screen : Ends \cup {"none"}, answer : Known, cursor : Nat,
               pending : Known, error : BOOLEAN, canceling : BOOLEAN,
               cancelError : BOOLEAN, generation : Nat]
  /\ work \subseteq [op : Ops, id : Searches, at : Nat, gen : Nat,
                     fails : 0..(PollBudget - 1), heard : BOOLEAN, held : BOOLEAN,
                     end : Ends \cup {"none"}, answer : Known]
  /\ cancels \subseteq [step : {"asked", "probing"}, id : Searches, press : Nat]
  /\ spent \in [faults : 0..MaxFaults, resumes : 0..MaxResumes, cancels : 0..MaxCancels,
                starts : 0..MaxStarts, resets : 0..MaxResets]

\* An end on screen is the end the search had, whichever of the feed, a poll, a get, a
\* cancel's echo and a probe came first and whatever arrived after it.
ShownEndIsTrue ==
  view.screen \in Ends =>
    view.searchId # None /\ server[view.searchId].end = view.screen

\* Unless the user pressed cancel, a view that ended shows its end with the answer, also
\* when the re-read after the terminal event failed.
EndComesWithAnswer ==
  view.phase = "terminal" /\ view.screen \in Ends /\ spent.cancels = 0
    => view.answer = view.searchId

\* A view that waits for an end has something to wait for: a call, a subscription or a
\* poller of the present generation, unless a cancel fenced them all.
WaitingViewIsDriven ==
  /\ view.phase \in {"creating", "reconciling", "streaming", "polling"}
  /\ view.screen \notin Ends
  => Live # {} \/ cancels # {} \/ view.cancelError

\* The view learns the end of its search: it is shown, or an error is, unless a cancel that
\* failed left the feed fenced.
EndIsShown ==
  \A x \in Searches :
    view.searchId = x /\ Ended(x) ~>
      \/ view.screen \in Ends \/ view.error
      \/ view.cancelError /\ Live = {}
=============================================================================
