-------------------------- MODULE SearchClientProofs --------------------------
(***************************************************************************)
(* What the client's view keeps, for any searches and any bounds.          *)
(*                                                                         *)
(* ClientInv  types; a re-read carries an end; a terminal status is on     *)
(*            screen; a view that waits is driven.  For whatever the user  *)
(*            does.                                                        *)
(* TruthInv   the callbacks that the fence lets run and the cancels in     *)
(*            flight are about the search on view, what they carry is true *)
(*            of it, and its end comes with its answer.  For a user who    *)
(*            waits (CalmSpec): each of the three things he then does not  *)
(*            do shows the end of one search as that of another.           *)
(* SoleInv    one search whose store is not reset is used calmly, whatever *)
(*            the user does.                                               *)
(***************************************************************************)
EXTENDS SearchClient, TLAPS

USE DEF vars

Calls == [op : Ops, id : Searches, at : Nat, gen : Nat, fails : 0..(PollBudget - 1),
          heard : BOOLEAN, held : BOOLEAN, end : Ends \cup {"none"}, answer : Known]
Views == [phase : Phases, searchId : Known, status : Ends \cup {"none", "RUNNING"},
          screen : Ends \cup {"none"}, answer : Known, cursor : Nat,
          pending : Known, error : BOOLEAN, canceling : BOOLEAN, cancelError : BOOLEAN,
          generation : Nat]
Asked == [step : {"asked", "probing"}, id : Searches, press : Nat]
Bounds == [faults : 0..MaxFaults, resumes : 0..MaxResumes, cancels : 0..MaxCancels,
           starts : 0..MaxStarts, resets : 0..MaxResets]
Waiting == {"creating", "reconciling", "streaming", "polling"}

\* A re-read backs up an end.
Backed == \A w \in work : w.op = "final" => w.end \in Ends

\* A terminal status is on screen, and the canceling flag belongs to a cancel in flight.
Flagged ==
  /\ view.status \in Ends => view.screen \in Ends
  /\ view.canceling => cancels # {}

ClientInv == TypeOK /\ Backed /\ Flagged /\ WaitingViewIsDriven

-----------------------------------------------------------------------------
(* Setters and callbacks *)

\* Reveal shows an end; it touches neither the search on view nor the generation.
LEMMA RevealIs ==
  ASSUME NEW v \in Views, NEW end \in Ends, NEW a \in Known
  PROVE  /\ Reveal(v, end, a) \in Views
         /\ Reveal(v, end, a).phase = "terminal"
         /\ Reveal(v, end, a).status = end /\ Reveal(v, end, a).screen = end
         /\ Reveal(v, end, a).searchId = v.searchId
         /\ Reveal(v, end, a).generation = v.generation
         /\ Reveal(v, end, a).canceling = FALSE
<1>1. "terminal" \in Phases /\ None \in Known /\ (IF a = None THEN v.answer ELSE a) \in Known
  BY DEF Views, Phases, Known
<1>2. Reveal(v, end, a) \in Views
  BY <1>1 DEF Reveal, Views
<1>3. /\ Reveal(v, end, a).phase = "terminal"
      /\ Reveal(v, end, a).status = end /\ Reveal(v, end, a).screen = end
      /\ Reveal(v, end, a).searchId = v.searchId /\ Reveal(v, end, a).canceling = FALSE
      /\ Reveal(v, end, a).generation = v.generation
  BY DEF Reveal, Views
<1> QED
  BY <1>2, <1>3

\* ... and its answer, when the end comes with one.
LEMMA RevealAnswers ==
  ASSUME NEW v \in Views, NEW end \in Ends, NEW a \in Known
  PROVE  Reveal(v, end, a).answer = IF a = None THEN v.answer ELSE a
  BY DEF Reveal, Views

\* Enter changes the phase only, and the error flag.
LEMMA EnterIs ==
  ASSUME NEW v \in Views, NEW phase \in Phases
  PROVE  /\ Enter(v, phase) \in Views
         /\ Enter(v, phase).phase = phase /\ Enter(v, phase).status = v.status
         /\ Enter(v, phase).screen = v.screen /\ Enter(v, phase).searchId = v.searchId
         /\ Enter(v, phase).answer = v.answer /\ Enter(v, phase).canceling = v.canceling
         /\ Enter(v, phase).cancelError = v.cancelError
         /\ Enter(v, phase).generation = v.generation
  BY DEF Enter, Views

\* Fail ends the wait.
LEMMA FailIs ==
  ASSUME NEW v \in Views
  PROVE  /\ Fail(v) \in Views
         /\ Fail(v).phase = "idle" /\ Fail(v).status = v.status
         /\ Fail(v).screen = v.screen /\ Fail(v).searchId = v.searchId
         /\ Fail(v).answer = v.answer /\ Fail(v).canceling = FALSE
         /\ Fail(v).generation = v.generation
  BY DEF Fail, Views, Phases

\* A fresh callback ...
LEMMA CallbackIs ==
  ASSUME TypeOK, NEW op \in Ops, NEW x \in Searches, NEW at \in Nat
  PROVE  /\ Callback(op, x, at) \in Calls
         /\ Callback(op, x, at).op = op /\ Callback(op, x, at).id = x
         /\ Callback(op, x, at).gen = view.generation
<1>1. 0 \in 0..(PollBudget - 1) /\ None \in Known /\ view.generation \in Nat
  BY ClientAssumption DEF Known, TypeOK
<1>2. Callback(op, x, at) \in Calls
  BY <1>1 DEF Callback, Calls
<1>3. /\ Callback(op, x, at).op = op /\ Callback(op, x, at).id = x
      /\ Callback(op, x, at).gen = view.generation
  BY DEF Callback
<1> QED
  BY <1>2, <1>3

\* ... and one that a ref points to.
LEMMA HeldIs ==
  ASSUME NEW c \in Calls
  PROVE  /\ [c EXCEPT !.held = TRUE] \in Calls
         /\ [c EXCEPT !.held = TRUE].op = c.op /\ [c EXCEPT !.held = TRUE].id = c.id
         /\ [c EXCEPT !.held = TRUE].gen = c.gen
  BY DEF Calls

\* Two callbacks that differ in their progress or their ref.
Alike(v, w) ==
  v.op = w.op /\ v.id = w.id /\ v.gen = w.gen /\ v.end = w.end /\ v.answer = w.answer

\* A callback of the present generation.
Present(v, op, x) == v.op = op /\ v.id = x /\ v.gen = view.generation

\* A get is made at the present length of the log.
LEMMA GetIs ==
  ASSUME TypeOK, NEW op \in Ops, NEW x \in Searches
  PROVE  Get(op, x) \in Calls /\ Present(Get(op, x), op, x)
<1>1. server[x].rows \in Nat
  BY DEF TypeOK
<1> QED
  BY <1>1, CallbackIs DEF Get, Present

\* Stopping takes callbacks away; forgetting clears their refs.
LEMMA WorkSets ==
  ASSUME NEW W \in SUBSET Calls, NEW op
  PROVE  /\ Drop(W, op) \subseteq W /\ Teardown(W) \subseteq W
         /\ Forget(W, op) \subseteq Calls
         /\ \A v \in Forget(W, op) : \E w \in W : Alike(v, w)
<1>1. Drop(W, op) \subseteq W /\ Teardown(W) \subseteq W
  BY DEF Drop, Teardown
<1>2. ASSUME NEW v \in Forget(W, op) PROVE v \in Calls /\ \E w \in W : Alike(v, w)
  <2>1. PICK w \in W : v = IF w.op = op THEN [w EXCEPT !.held = FALSE] ELSE w
    BY DEF Forget
  <2> QED
    BY <2>1 DEF Calls, Alike
<1> QED
  BY <1>1, <1>2

\* A subscription and a poller are added to what there was.
LEMMA OpenIs ==
  ASSUME TypeOK, NEW W \in SUBSET Calls, NEW x \in Searches, NEW cursor \in Nat
  PROVE  /\ Open(W, x, cursor) \subseteq Calls
         /\ \E v \in Open(W, x, cursor) : v.gen = view.generation
         /\ \A v \in Open(W, x, cursor) : (\E w \in W : Alike(v, w)) \/ Present(v, "sub", x)
<1>1. Drop(W, "poll") \subseteq W
  BY WorkSets
<1>2. /\ Forget(Drop(W, "poll"), "sub") \subseteq Calls
      /\ \A v \in Forget(Drop(W, "poll"), "sub") : \E w \in W : Alike(v, w)
  BY <1>1, WorkSets
<1>3. "sub" \in Ops
  BY DEF Ops
<1>4. /\ [Callback("sub", x, cursor) EXCEPT !.held = TRUE] \in Calls
      /\ Present([Callback("sub", x, cursor) EXCEPT !.held = TRUE], "sub", x)
  BY <1>3, CallbackIs, HeldIs DEF Present
<1> QED
  BY <1>2, <1>4 DEF Open, Present

\* A poller is added to what there was.
LEMMA PollIs ==
  ASSUME TypeOK, NEW W \in SUBSET Calls, NEW x \in Searches
  PROVE  /\ Poll(W, x) \subseteq Calls
         /\ \E v \in Poll(W, x) : v.gen = view.generation
         /\ \A v \in Poll(W, x) : (\E w \in W : Alike(v, w)) \/ Present(v, "poll", x)
<1>1. /\ Forget(W, "poll") \subseteq Calls
      /\ \A v \in Forget(W, "poll") : \E w \in W : Alike(v, w)
  BY WorkSets
<1>2. "poll" \in Ops
  BY DEF Ops
<1>3. /\ [Get("poll", x) EXCEPT !.held = TRUE] \in Calls
      /\ Present([Get("poll", x) EXCEPT !.held = TRUE], "poll", x)
  BY <1>2, GetIs, HeldIs DEF Present
<1> QED
  BY <1>1, <1>3 DEF Poll, Present

\* TypeOK in the words of this module.
LEMMA Typed ==
  TypeOK <=> /\ server \in [Searches -> [rows : Nat, end : Ends \cup {"absent", "none"}]]
             /\ sent \in [create : SUBSET Searches, cancel : SUBSET Searches]
             /\ view \in Views /\ work \subseteq Calls /\ cancels \subseteq Asked
             /\ spent \in Bounds
  BY DEF TypeOK, Views, Calls, Asked, Bounds

-----------------------------------------------------------------------------
(* ClientInv, step by step *)

\* What a step of the event loop owes: its view and its work are well typed, the view is
\* driven, and a callback is made under the present generation or kept.
Kept(v) == \E w \in work : Alike(v, w)
Made(v) == v.op \notin Creates /\ v.gen = view.generation /\ (v.op = "final" => v.end \in Ends)
Runs == \E v \in work' : v.gen = view.generation
Driven ==
  /\ view'.status \in Ends => view'.screen \in Ends
  /\ view'.canceling => view.canceling
  /\ view'.generation = view.generation
  /\ view'.phase \in Waiting /\ view'.screen \notin Ends =>
       Runs \/ cancels # {} \/ view'.cancelError

\* The conditions under which a step of the event loop keeps ClientInv.
LEMMA LoopStep ==
  ASSUME ClientInv, UNCHANGED <<server, sent, cancels>>, spent' \in Bounds,
         view' \in Views, Driven,
         work' \subseteq Calls, \A v \in work' : Kept(v) \/ Made(v)
  PROVE  ClientInv'
<1>1. TypeOK'
  BY DEF ClientInv, TypeOK, Views, Calls, Bounds
<1>2. Backed'
  <2>1. ASSUME NEW v \in work', v.op = "final"
        PROVE  v.end \in Ends
    <3>1. CASE Made(v)
      BY <2>1, <3>1 DEF Made
    <3>2. CASE Kept(v)
      BY <2>1, <3>2 DEF Kept, Alike, ClientInv, Backed
    <3> QED
      BY <3>1, <3>2
  <2> QED
    BY <2>1 DEF Backed
<1>3. Flagged' /\ WaitingViewIsDriven'
  BY DEF Driven, Runs, Live, ClientInv, Flagged, WaitingViewIsDriven, Waiting
<1> QED
  BY <1>1, <1>2, <1>3 DEF ClientInv

\* The sound values of the bounds.
LEMMA FaultIs ==
  ASSUME TypeOK, Fault \/ UNCHANGED spent
  PROVE  spent' \in Bounds /\ spent'.cancels = spent.cancels
  BY ClientAssumption DEF TypeOK, Fault, Bounds

\* A failed call counts, or is one the routes refuse.
LEMMA FaultyIs ==
  ASSUME NEW w, Faulty(w)
  PROVE  Fault \/ UNCHANGED spent
  BY DEF Faulty

\* A status read from the log is an end only if the search has ended so.
LEMMA StatusIs ==
  ASSUME TypeOK, NEW x \in Searches, NEW k
  PROVE  /\ StatusAt(x, k) \in Ends \cup {"RUNNING"}
         /\ StatusAt(x, k) \in Ends => Ended(x) /\ server[x].end = StatusAt(x, k)
  BY DEF StatusAt, Ended, Ends

\* What every callback of an action needs to know of itself.
LEMMA CallIs ==
  ASSUME ClientInv, NEW w \in work
  PROVE  /\ TypeOK /\ w \in Calls /\ w.id \in Searches /\ w.id \in Known /\ w.id # None
         /\ view \in Views /\ work \subseteq Calls
         /\ \A S \in SUBSET work : \A v \in S : Kept(v)
         /\ \A v : v.gen = view.generation /\ v \in work' => Runs
  BY ClientAssumption
     DEF ClientInv, Typed, TypeOK, Views, Calls, Known, Kept, Alike, Runs

\* The server writes its own log only.
LEMMA ServerInv ==
  ASSUME ClientInv, ServerNext
  PROVE  ClientInv'
<1>1. UNCHANGED <<sent, view, work, cancels, spent>>
  BY DEF ServerNext, Created, Grow, End
<1>2. server' \in [Searches -> [rows : Nat, end : Ends \cup {"absent", "none"}]]
  <2>1. PICK x \in Searches : Created(x) \/ Grow(x) \/ \E end \in Ends : End(x, end)
    BY DEF ServerNext
  <2>2. CASE Created(x)
    BY <2>2 DEF Created, ClientInv, TypeOK
  <2>3. CASE Grow(x)
    BY <2>3 DEF Grow, ClientInv, TypeOK
  <2>4. CASE \E end \in Ends : End(x, end)
    BY <2>4 DEF End, ClientInv, TypeOK
  <2> QED
    BY <2>1, <2>2, <2>3, <2>4
<1> QED
  BY <1>1, <1>2 DEF ClientInv, TypeOK, Backed, Flagged, WaitingViewIsDriven, Live

\* What a start does, and the create it waits for.
LEMMA StartIs ==
  ASSUME TypeOK, NEW x \in Searches, Start(x)
  PROVE  \E w \in Calls :
           /\ work' = Teardown(work) \cup {w} /\ work' \subseteq Calls
           /\ w.op \in Creates /\ w.id = x /\ w.gen = view.generation + 1
           /\ view' \in Views /\ view'.phase = "creating"
           /\ view'.generation = view.generation + 1
           /\ view'.status = view.status /\ view'.screen = view.screen
           /\ view'.searchId = view.searchId /\ view'.canceling = view.canceling
           /\ view'.answer = None
           /\ sent' = [sent EXCEPT !.create = @ \cup {x}]
           /\ spent' \in Bounds /\ UNCHANGED <<server, cancels>>
           /\ x \notin sent.create \/ view.searchId = None
<1>1. view \in Views /\ work \subseteq Calls /\ spent \in Bounds /\ view.generation \in Nat
  BY Typed DEF Views
<1>2. PICK op \in Creates :
        /\ spent.starts < MaxStarts
        /\ IF op = "replay" THEN view.pending = x /\ view.searchId = None
                            ELSE x \notin sent.create
        /\ spent' = [spent EXCEPT !.starts = @ + 1]
        /\ sent' = [sent EXCEPT !.create = @ \cup {x}]
        /\ view' = [Enter(view, "creating") EXCEPT
                      !.pending = x, !.cursor = 0, !.answer = None, !.generation = @ + 1]
        /\ work' = Teardown(work)
                     \cup {[Callback(op, x, 0) EXCEPT
                              !.gen = @ + 1,
                              !.answer = IF op = "update" THEN view.answer ELSE None]}
        /\ UNCHANGED <<server, cancels>>
  BY DEF Start
<1> DEFINE a == IF op = "update" THEN view.answer ELSE None
<1> DEFINE w == [Callback(op, x, 0) EXCEPT !.gen = @ + 1, !.answer = a]
<1>3. a \in Known /\ op \in Ops /\ "creating" \in Phases /\ x \in Known /\ None \in Known
  BY <1>1 DEF Views, Known, Ops, Phases
<1> HIDE DEF a
<1>4. /\ Callback(op, x, 0) \in Calls /\ Callback(op, x, 0).op = op
      /\ Callback(op, x, 0).id = x /\ Callback(op, x, 0).gen = view.generation
  <2>1. 0 \in Nat
    OBVIOUS
  <2> QED
    BY <1>3, <2>1, CallbackIs
<1>5. w \in Calls /\ w.op = op /\ w.id = x /\ w.gen = view.generation + 1
  <2> DEFINE next(c, n) == [c EXCEPT !.gen = n, !.answer = a]
  <2>1. ASSUME NEW c \in Calls, NEW n \in Nat
        PROVE  /\ next(c, n) \in Calls /\ next(c, n).op = c.op
               /\ next(c, n).id = c.id /\ next(c, n).gen = n
    BY <1>3 DEF Calls
  <2>2. w = next(Callback(op, x, 0), view.generation + 1) /\ view.generation + 1 \in Nat
    <3>1. w = next(Callback(op, x, 0), view.generation + 1)
      BY <1>4
    <3> QED
      BY <1>1, <3>1
  <2> HIDE DEF next, w
  <2> QED
    BY <1>4, <2>1, <2>2
<1>6. /\ Enter(view, "creating") \in Views /\ Enter(view, "creating").phase = "creating"
      /\ Enter(view, "creating").status = view.status
      /\ Enter(view, "creating").screen = view.screen
      /\ Enter(view, "creating").searchId = view.searchId
      /\ Enter(view, "creating").canceling = view.canceling
      /\ Enter(view, "creating").generation = view.generation
  BY <1>1, <1>3, EnterIs
<1>7. /\ view' \in Views /\ view'.phase = "creating" /\ view'.generation = view.generation + 1
      /\ view'.status = view.status /\ view'.screen = view.screen
      /\ view'.searchId = view.searchId /\ view'.canceling = view.canceling
      /\ view'.answer = None
  <2> DEFINE next(v, n) == [v EXCEPT !.pending = x, !.cursor = 0, !.answer = None,
                                     !.generation = n]
  <2>1. ASSUME NEW v \in Views, NEW n \in Nat
        PROVE  /\ next(v, n) \in Views /\ next(v, n).phase = v.phase
               /\ next(v, n).generation = n /\ next(v, n).status = v.status
               /\ next(v, n).screen = v.screen /\ next(v, n).searchId = v.searchId
               /\ next(v, n).canceling = v.canceling /\ next(v, n).answer = None
    BY <1>3 DEF Views
  <2>2. view' = next(Enter(view, "creating"), view.generation + 1)
    BY <1>2, <1>6
  <2>3. view.generation + 1 \in Nat
    BY <1>1
  <2> HIDE DEF next
  <2> QED
    BY <1>6, <2>1, <2>2, <2>3
<1>8. spent' \in Bounds
  BY <1>1, <1>2, ClientAssumption DEF Bounds
<1>9. work' = Teardown(work) \cup {w} /\ Teardown(work) \subseteq work
  BY <1>1, <1>2, WorkSets DEF a
<1> HIDE DEF w
<1>10. x \notin sent.create \/ view.searchId = None
  BY <1>2
<1> QED
  BY <1>1, <1>2, <1>5, <1>7, <1>8, <1>9, <1>10

\* A start waits for its create.
LEMMA StartInv ==
  ASSUME ClientInv, NEW x \in Searches, Start(x)
  PROVE  ClientInv'
<1>1. PICK w \in Calls :
         /\ work' = Teardown(work) \cup {w} /\ work' \subseteq Calls
         /\ w.op \in Creates /\ w.gen = view.generation + 1
         /\ view' \in Views /\ view'.generation = view.generation + 1
         /\ view'.status = view.status /\ view'.screen = view.screen
         /\ view'.canceling = view.canceling
         /\ sent' = [sent EXCEPT !.create = @ \cup {x}]
         /\ spent' \in Bounds /\ UNCHANGED <<server, cancels>>
  BY StartIs DEF ClientInv
<1>2. Teardown(work) \subseteq work /\ w \in work'
  BY <1>1, Typed, WorkSets DEF ClientInv
<1>3. sent' \in [create : SUBSET Searches, cancel : SUBSET Searches]
  BY <1>1 DEF ClientInv, TypeOK
<1>4. TypeOK'
  BY <1>1, <1>3 DEF ClientInv, TypeOK, Views, Calls, Bounds
<1>5. Backed' /\ Flagged'
  BY <1>1, <1>2 DEF ClientInv, Backed, Flagged, Creates
<1>6. WaitingViewIsDriven'
  BY <1>1, <1>2 DEF WaitingViewIsDriven, Live
<1> QED
  BY <1>4, <1>5, <1>6 DEF ClientInv

\* A reset waits for nothing.
LEMMA ResetInv ==
  ASSUME ClientInv, Reset
  PROVE  ClientInv'
<1>1. /\ view' = Blank /\ UNCHANGED <<server, sent, work, cancels>>
      /\ spent.resets < MaxResets /\ spent' = [spent EXCEPT !.resets = @ + 1]
  BY DEF Reset
<1>2. Blank \in Views
  BY DEF Blank, Views, Phases, Known
<1>3. spent' \in Bounds
  BY <1>1, ClientAssumption DEF ClientInv, TypeOK, Bounds
<1>4. TypeOK'
  BY <1>1, <1>2, <1>3 DEF ClientInv, TypeOK, Views, Bounds
<1>5. Backed' /\ Flagged' /\ WaitingViewIsDriven'
  BY <1>1 DEF ClientInv, Backed, Flagged, WaitingViewIsDriven, Blank, Ends
<1> QED
  BY <1>4, <1>5 DEF ClientInv

\* The created search is put on view, and reconciled.
LEMMA CreateReplyIs ==
  ASSUME ClientInv, NEW w \in work, CreateReply(w)
  PROVE  /\ view' \in Views /\ view'.status = "RUNNING" /\ view'.screen = "none"
         /\ view'.phase = "reconciling" /\ view'.searchId = w.id
         /\ view'.canceling = view.canceling /\ view'.generation = view.generation
         /\ work' = (work \ {w}) \cup {Get("first", w.id)}
         /\ Get("first", w.id) \in Calls /\ Present(Get("first", w.id), "first", w.id)
         /\ w.op \in Creates /\ w.gen = view.generation /\ Exists(w.id)
         /\ UNCHANGED <<server, sent, cancels, spent>>
<1>1. TypeOK /\ view \in Views /\ w.id \in Searches /\ w.id \in Known
  BY CallIs
<1>2. /\ view' = [Enter(view, "reconciling") EXCEPT
                    !.searchId = w.id, !.status = "RUNNING", !.screen = "none",
                    !.pending = None, !.cancelError = FALSE]
      /\ work' = (work \ {w}) \cup {Get("first", w.id)}
      /\ UNCHANGED <<server, sent, cancels, spent>>
      /\ w.op \in Creates /\ w.gen = view.generation /\ Exists(w.id)
  BY DEF CreateReply, Own
<1>3. "reconciling" \in Phases /\ None \in Known /\ "first" \in Ops
  BY DEF Phases, Known, Ops
<1>4. /\ Enter(view, "reconciling") \in Views
      /\ Enter(view, "reconciling").phase = "reconciling"
      /\ Enter(view, "reconciling").canceling = view.canceling
      /\ Enter(view, "reconciling").generation = view.generation
  BY <1>1, <1>3, EnterIs
<1>5. /\ view' \in Views /\ view'.status = "RUNNING" /\ view'.screen = "none"
      /\ view'.phase = "reconciling" /\ view'.searchId = w.id
      /\ view'.canceling = view.canceling /\ view'.generation = view.generation
  BY <1>1, <1>2, <1>3, <1>4 DEF Views
<1>6. Get("first", w.id) \in Calls /\ Present(Get("first", w.id), "first", w.id)
  BY <1>1, <1>3, GetIs
<1> QED
  BY <1>2, <1>5, <1>6

LEMMA CreateReplyInv ==
  ASSUME ClientInv, NEW w \in work, CreateReply(w)
  PROVE  ClientInv'
<1>1. /\ view' \in Views /\ view'.status = "RUNNING"
      /\ view'.canceling = view.canceling /\ view'.generation = view.generation
      /\ work' = (work \ {w}) \cup {Get("first", w.id)}
      /\ Get("first", w.id) \in Calls /\ Present(Get("first", w.id), "first", w.id)
      /\ UNCHANGED <<server, sent, cancels, spent>>
  BY CreateReplyIs
<1>2. spent' \in Bounds /\ work \subseteq Calls /\ \A v \in work \ {w} : Kept(v)
  BY <1>1, Typed, CallIs DEF ClientInv
<1>3. Made(Get("first", w.id)) /\ Runs
  BY <1>1 DEF Made, Present, Creates, Runs
<1>4. Driven
  BY <1>1, <1>3 DEF Driven, Ends
<1>5. work' \subseteq Calls /\ \A v \in work' : Kept(v) \/ Made(v)
  BY <1>1, <1>2, <1>3
<1> QED
  BY <1>1, <1>2, <1>4, <1>5, LoopStep

\* A failed create goes back to the form, with the answer an update took.
LEMMA CreateFailsIs ==
  ASSUME ClientInv, NEW w \in work, CreateFails(w)
  PROVE  /\ view' \in Views /\ view'.phase = "idle" /\ view'.status = view.status
         /\ view'.screen = view.screen /\ view'.searchId = view.searchId
         /\ view'.canceling = FALSE /\ view'.generation = view.generation
         /\ work' = work \ {w} /\ UNCHANGED <<server, sent, cancels>>
         /\ spent' \in Bounds /\ spent'.cancels = spent.cancels
         /\ w.op \in Creates /\ w.gen = view.generation
<1>1. TypeOK /\ view \in Views /\ w.answer \in Known
  BY CallIs DEF Calls
<1> DEFINE v == IF w.op = "update" THEN [view EXCEPT !.answer = w.answer] ELSE view
<1>2. /\ view' = Fail(v) /\ work' = work \ {w} /\ UNCHANGED <<server, sent, cancels>>
      /\ (Fault \/ UNCHANGED spent) /\ w.op \in Creates /\ w.gen = view.generation
  BY FaultyIs DEF CreateFails, Own
<1>3. /\ v \in Views /\ v.status = view.status /\ v.screen = view.screen
      /\ v.searchId = view.searchId /\ v.generation = view.generation
  BY <1>1 DEF Views
<1> HIDE DEF v
<1>4. /\ Fail(v) \in Views /\ Fail(v).phase = "idle" /\ Fail(v).status = v.status
      /\ Fail(v).screen = v.screen /\ Fail(v).searchId = v.searchId
      /\ Fail(v).canceling = FALSE /\ Fail(v).generation = v.generation
  BY <1>3, FailIs
<1> QED
  BY <1>1, <1>2, <1>3, <1>4, FaultIs

LEMMA CreateFailsInv ==
  ASSUME ClientInv, NEW w \in work, CreateFails(w)
  PROVE  ClientInv'
<1>1. /\ view' \in Views /\ view'.phase = "idle" /\ view'.status = view.status
      /\ view'.screen = view.screen /\ view'.canceling = FALSE
      /\ view'.generation = view.generation
      /\ work' = work \ {w} /\ UNCHANGED <<server, sent, cancels>> /\ spent' \in Bounds
  BY CreateFailsIs
<1>2. Driven
  BY <1>1 DEF Driven, ClientInv, Flagged, Waiting
<1>3. work' \subseteq Calls /\ \A v \in work' : Kept(v)
  BY <1>1, CallIs
<1> QED
  BY <1>1, <1>2, <1>3, LoopStep

\* A return to the foreground reconciles again.
LEMMA ResumeInv ==
  ASSUME ClientInv, Resume
  PROVE  ClientInv'
<1>1. /\ TypeOK /\ view \in Views /\ work \subseteq Calls
      /\ view.searchId \in Searches /\ Drop(work, "sub") \subseteq work
  BY Typed, WorkSets DEF ClientInv, Resume, Views, Known
<1>2. /\ view' = Enter(view, "reconciling")
      /\ work' = Drop(work, "sub") \cup {Get("again", view.searchId)}
      /\ UNCHANGED <<server, sent, cancels>>
      /\ spent.resumes < MaxResumes /\ spent' = [spent EXCEPT !.resumes = @ + 1]
  BY DEF Resume, Again
<1>3. "reconciling" \in Phases /\ "again" \in Ops \ Creates /\ "again" # "final"
  BY DEF Phases, Ops, Creates
<1>4. Get("again", view.searchId) \in Calls /\ Made(Get("again", view.searchId)) /\ Runs
  BY <1>1, <1>2, <1>3, GetIs DEF Made, Present, Runs
<1>5. \A v \in work' : v \in Calls /\ (Kept(v) \/ Made(v))
  BY <1>1, <1>2, <1>4 DEF Kept, Alike
<1>6. Driven
  BY <1>1, <1>2, <1>3, <1>4, EnterIs DEF Driven, ClientInv, Flagged
<1>7. spent' \in Bounds
  BY <1>1, <1>2, ClientAssumption DEF TypeOK, Bounds
<1> QED
  BY <1>1, <1>2, <1>3, <1>5, <1>6, <1>7, EnterIs, LoopStep

\* An end shown ends the wait.
LEMMA RevealDrives ==
  ASSUME ClientInv, NEW end \in Ends, NEW a \in Known, view' = Reveal(view, end, a)
  PROVE  Driven /\ view' \in Views /\ view'.searchId = view.searchId
<1>1. view \in Views
  BY Typed DEF ClientInv
<1>2. /\ Reveal(view, end, a) \in Views
      /\ Reveal(view, end, a).searchId = view.searchId
      /\ Reveal(view, end, a).generation = view.generation
      /\ Reveal(view, end, a).screen = end /\ Reveal(view, end, a).canceling = FALSE
  <2>1. Reveal(view, end, a) \in Views
    BY <1>1, RevealIs
  <2>2. Reveal(view, end, a).searchId = view.searchId /\ Reveal(view, end, a).screen = end
    BY <1>1, RevealIs
  <2>3. /\ Reveal(view, end, a).canceling = FALSE
        /\ Reveal(view, end, a).generation = view.generation
    BY <1>1, RevealIs
  <2> QED
    BY <2>1, <2>2, <2>3
<1> QED
  BY <1>2 DEF Driven

\* Another phase, with work to wait for.
LEMMA EnterDrives ==
  ASSUME ClientInv, NEW phase \in Phases, view' = Enter(view, phase), Runs
  PROVE  Driven /\ view' \in Views /\ view'.searchId = view.searchId
<1>1. view \in Views
  BY Typed DEF ClientInv
<1> QED
  BY <1>1, EnterIs DEF Driven, ClientInv, Flagged

\* A failure shown ends the wait.
LEMMA FailDrives ==
  ASSUME ClientInv, view' = Fail(view)
  PROVE  Driven /\ view' \in Views /\ view'.searchId = view.searchId
<1>1. view \in Views
  BY Typed DEF ClientInv
<1> QED
  BY <1>1, FailIs DEF Driven, ClientInv, Flagged, Waiting

\* The running status leaves the wait as it is: its callback goes on, or the phase is over.
LEMMA RunningDrives ==
  ASSUME ClientInv, view' = [view EXCEPT !.status = "RUNNING"],
         Runs \/ view.phase = "terminal"
  PROVE  Driven /\ view' \in Views /\ view'.searchId = view.searchId
<1>1. view \in Views
  BY Typed DEF ClientInv
<1>2. /\ view' \in Views /\ view'.searchId = view.searchId /\ view'.status = "RUNNING"
      /\ view'.phase = view.phase /\ view'.canceling = view.canceling
      /\ view'.generation = view.generation
  BY <1>1 DEF Views
<1> QED
  BY <1>2 DEF Driven, Ends, Waiting

\* A callback returns without a word: the end was on screen.
LEMMA SilenceDrives ==
  ASSUME ClientInv, UNCHANGED view, Runs \/ view.status \in Ends
  PROVE  Driven /\ view' \in Views /\ view'.searchId = view.searchId
<1>1. view \in Views
  BY Typed DEF ClientInv
<1> QED
  BY <1>1 DEF Driven, ClientInv, Flagged

\* A get shows the end, or opens the subscription, or leaves an end on screen alone.
LEMMA ReconciledInv ==
  ASSUME ClientInv, NEW w \in work, Reconciled(w)
  PROVE  ClientInv'
<1>1. /\ TypeOK /\ view \in Views /\ work \subseteq Calls
      /\ w.id \in Searches /\ w.id \in Known
      /\ \A S \in SUBSET work : \A v \in S : Kept(v)
      /\ UNCHANGED <<server, sent, cancels, spent>>
  BY CallIs DEF Reconciled
<1>2. PICK k : LET status == StatusAt(w.id, k) IN
       \/ /\ status \in Ends \ {"CANCELLED"}
          /\ view' = Reveal(view, status, w.id)
          /\ work' = Teardown(work \ {w})
       \/ /\ status = "RUNNING" /\ view.phase = "terminal"
          /\ view' = [view EXCEPT !.status = "RUNNING"]
          /\ work' = work \ {w}
       \/ /\ status = "RUNNING" /\ view.phase # "terminal"
          /\ view' = [Enter(view, "streaming") EXCEPT !.status = "RUNNING"]
          /\ work' = Open(work \ {w}, w.id, view.cursor)
  BY DEF Reconciled
<1> DEFINE status == StatusAt(w.id, k)
<1>3. spent' \in Bounds
  BY <1>1, FaultIs
<1> HIDE DEF status
<1>4. CASE status \in Ends /\ view' = Reveal(view, status, w.id) /\ work' = Teardown(work \ {w})
  <2>1. work' \in SUBSET work
    BY <1>1, <1>4, WorkSets
  <2> QED
    BY <1>1, <1>3, <1>4, <2>1, RevealDrives, LoopStep
<1>5. CASE /\ view.phase = "terminal" /\ work' = work \ {w}
           /\ view' = [view EXCEPT !.status = "RUNNING"]
  BY <1>1, <1>3, <1>5, RunningDrives, LoopStep
<1>6. CASE /\ view' = [Enter(view, "streaming") EXCEPT !.status = "RUNNING"]
           /\ work' = Open(work \ {w}, w.id, view.cursor)
  <2>1. "streaming" \in Phases /\ view.cursor \in Nat /\ work \ {w} \in SUBSET Calls
    BY <1>1 DEF Phases, Views
  <2>2. /\ work' \subseteq Calls /\ Runs
        /\ \A v \in work' : (\E u \in work \ {w} : Alike(v, u)) \/ Present(v, "sub", w.id)
    BY <1>1, <1>6, <2>1, OpenIs DEF Runs
  <2>3. \A v \in work' : Kept(v) \/ Made(v)
    BY <2>2 DEF Kept, Made, Present, Creates
  <2>4. /\ Enter(view, "streaming") \in Views
        /\ Enter(view, "streaming").canceling = view.canceling
        /\ Enter(view, "streaming").generation = view.generation
    BY <1>1, <2>1, EnterIs
  <2>5. /\ view' \in Views /\ view'.status = "RUNNING" /\ view'.canceling = view.canceling
        /\ view'.generation = view.generation
    BY <1>6, <2>4 DEF Views
  <2>6. Driven
    BY <2>2, <2>5 DEF Driven, Ends
  <2> QED
    BY <1>1, <1>3, <2>2, <2>3, <2>5, <2>6, LoopStep
<1> QED
  BY <1>2, <1>4, <1>5, <1>6 DEF status

\* A poller drives the view.
LEMMA PollDrives ==
  ASSUME ClientInv, NEW w \in work, UNCHANGED <<server, sent, cancels>>, spent' \in Bounds,
         view' = Enter(view, "polling"), work' = Poll(work \ {w}, w.id)
  PROVE  ClientInv'
<1>1. TypeOK /\ work \ {w} \in SUBSET Calls /\ w.id \in Searches /\ "polling" \in Phases
  BY CallIs DEF Phases
<1>2. /\ work' \subseteq Calls /\ Runs
      /\ \A v \in work' : (\E u \in work \ {w} : Alike(v, u)) \/ Present(v, "poll", w.id)
  BY <1>1, PollIs DEF Runs
<1>3. \A v \in work' : Kept(v) \/ Made(v)
  BY <1>2 DEF Kept, Made, Present, Creates
<1> QED
  BY <1>1, <1>2, <1>3, EnterDrives, LoopStep

\* A failed get is shown, or falls back to polling, or an end is on screen.
LEMMA ReconcileFailsInv ==
  ASSUME ClientInv, NEW w \in work, ReconcileFails(w)
  PROVE  ClientInv'
<1>1. /\ TypeOK /\ view \in Views /\ work \subseteq Calls /\ w.id \in Searches
      /\ \A S \in SUBSET work : \A v \in S : Kept(v)
  BY CallIs
<1>2. UNCHANGED <<server, sent, cancels>> /\ (Fault \/ UNCHANGED spent)
  BY FaultyIs DEF ReconcileFails
<1>3. spent' \in Bounds
  BY <1>1, <1>2, FaultIs
<1>4. CASE view' = Fail(view) /\ (work' = work \ {w} \/ work' = Teardown(work \ {w}))
  <2>1. work' \in SUBSET work
    BY <1>1, <1>4, WorkSets
  <2> QED
    BY <1>1, <1>2, <1>3, <1>4, <2>1, FailDrives, LoopStep
<1>5. CASE view' = Enter(view, "polling") /\ work' = Poll(work \ {w}, w.id)
  BY <1>2, <1>3, <1>5, PollDrives
<1>6. CASE view.status \in Ends /\ work' = work \ {w} /\ UNCHANGED view
  BY <1>1, <1>2, <1>3, <1>6, SilenceDrives, LoopStep
<1> QED
  BY <1>4, <1>5, <1>6 DEF ReconcileFails

\* A feed moves to its next row ...
LEMMA RowIs ==
  ASSUME NEW w \in Calls, NEW seq \in Nat
  PROVE  /\ [w EXCEPT !.at = seq, !.heard = TRUE] \in Calls
         /\ Alike([w EXCEPT !.at = seq, !.heard = TRUE], w)
<1>1. [w EXCEPT !.at = seq, !.heard = TRUE] \in Calls
  BY DEF Calls
<1> QED
  BY <1>1 DEF Calls, Alike

\* ... and the view's cursor with it.
LEMMA SeenIs ==
  ASSUME NEW v \in Views, NEW seq \in Nat
  PROVE  /\ [v EXCEPT !.cursor = seq] \in Views
         /\ [v EXCEPT !.cursor = seq].searchId = v.searchId
         /\ [v EXCEPT !.cursor = seq].phase = v.phase
         /\ [v EXCEPT !.cursor = seq].status = v.status
         /\ [v EXCEPT !.cursor = seq].screen = v.screen
         /\ [v EXCEPT !.cursor = seq].answer = v.answer
         /\ [v EXCEPT !.cursor = seq].canceling = v.canceling
         /\ [v EXCEPT !.cursor = seq].generation = v.generation
  BY DEF Views

\* The re-read that keeps what the terminal event carried.
Final(x, end, a) == [Get("final", x) EXCEPT !.end = end, !.answer = a]

LEMMA FinalIs ==
  ASSUME TypeOK, NEW x \in Searches, NEW end \in Ends, NEW a \in Searches
  PROVE  /\ Final(x, end, a) \in Calls /\ Present(Final(x, end, a), "final", x)
         /\ Final(x, end, a).end = end /\ Final(x, end, a).answer = a
<1>1. Get("final", x) \in Calls /\ Present(Get("final", x), "final", x)
  BY GetIs DEF Ops
<1>2. ASSUME NEW c \in Calls
      PROVE  LET f == [c EXCEPT !.end = end, !.answer = a] IN
               /\ f \in Calls /\ f.op = c.op /\ f.id = c.id /\ f.gen = c.gen
               /\ f.end = end /\ f.answer = a
  BY DEF Calls, Known
<1> QED
  BY <1>1, <1>2 DEF Final, Present

\* A row is followed by the next; the last by the re-read of the result, or, with no search
\* on view, by the end.
LEMMA SubEventInv ==
  ASSUME ClientInv, NEW w \in work, SubEvent(w)
  PROVE  ClientInv'
<1> DEFINE seq == w.at + 1
<1> DEFINE status == StatusAt(w.id, seq)
<1> DEFINE seen == [view EXCEPT !.cursor = seq]
<1> DEFINE final == Final(view.searchId, status, w.id)
<1>1. /\ TypeOK /\ view \in Views /\ work \subseteq Calls /\ w.id \in Searches /\ w.id \in Known
      /\ \A S \in SUBSET work : \A v \in S : Kept(v)
      /\ w \in Calls
  BY CallIs
<1>2. /\ UNCHANGED <<server, sent, cancels, spent>> /\ w.gen = view.generation
      /\ \/ /\ view' = seen /\ work' = (work \ {w}) \cup {[w EXCEPT !.at = seq, !.heard = TRUE]}
         \/ /\ status \in Ends /\ view.searchId # None
            /\ view' = seen /\ work' = Teardown(work \ {w}) \cup {final}
         \/ /\ status \in Ends
            /\ view' = Reveal(seen, status, w.id) /\ work' = Teardown(work \ {w})
  BY DEF SubEvent, Own, Final
<1>3. spent' \in Bounds
  BY <1>1, <1>2, FaultIs
<1>4. seq \in Nat
  BY <1>1 DEF Calls
<1> HIDE DEF seq, status, final
<1>5. /\ seen \in Views /\ seen.phase = view.phase /\ seen.status = view.status
      /\ seen.screen = view.screen /\ seen.canceling = view.canceling
      /\ seen.generation = view.generation
  BY <1>1, <1>4, SeenIs
<1>6. /\ [w EXCEPT !.at = seq, !.heard = TRUE] \in Calls
      /\ Alike([w EXCEPT !.at = seq, !.heard = TRUE], w)
  BY <1>1, <1>4, RowIs
<1> HIDE DEF seen
<1>7. ASSUME view' = seen, Runs
      PROVE  Driven /\ view' \in Views
  BY <1>5, <1>7 DEF Driven, ClientInv, Flagged
<1>8. CASE view' = seen /\ work' = (work \ {w}) \cup {[w EXCEPT !.at = seq, !.heard = TRUE]}
  <2>1. Runs
    BY <1>2, <1>6, <1>8 DEF Runs, Alike
  <2>2. work' \subseteq Calls /\ \A v \in work' : Kept(v)
    BY <1>1, <1>6, <1>8 DEF Kept
  <2> QED
    BY <1>2, <1>3, <1>7, <1>8, <2>1, <2>2, LoopStep
<1>9. CASE /\ status \in Ends /\ view.searchId # None
           /\ view' = seen /\ work' = Teardown(work \ {w}) \cup {final}
  <2>1. view.searchId \in Searches
    BY <1>1, <1>9 DEF Views, Known
  <2>2. final \in Calls /\ Made(final)
    <3>1. /\ final \in Calls /\ Present(final, "final", view.searchId)
          /\ final.end = status
      BY <1>1, <1>9, <2>1, FinalIs DEF final
    <3> QED
      BY <1>9, <3>1 DEF Made, Present, Creates
  <2>3. Teardown(work \ {w}) \subseteq work
    BY <1>1, WorkSets
  <2>4. Runs
    BY <1>9, <2>2 DEF Runs, Made
  <2>5. work' \subseteq Calls /\ \A v \in work' : Kept(v) \/ Made(v)
    BY <1>1, <1>9, <2>2, <2>3
  <2> QED
    BY <1>2, <1>3, <1>7, <1>9, <2>4, <2>5, LoopStep
<1>10. CASE /\ status \in Ends
            /\ view' = Reveal(seen, status, w.id) /\ work' = Teardown(work \ {w})
  <2>1. view' \in Views
    BY <1>1, <1>5, <1>10, RevealIs
  <2>2. view'.screen = status /\ view'.canceling = FALSE /\ view'.generation = seen.generation
    BY <1>1, <1>5, <1>10, RevealIs
  <2>3. Driven
    BY <1>5, <1>10, <2>2 DEF Driven
  <2>4. work' \in SUBSET work
    BY <1>1, <1>10, WorkSets
  <2> QED
    BY <1>1, <1>2, <1>3, <2>1, <2>3, <2>4, LoopStep
<1> QED
  BY <1>2, <1>8, <1>9, <1>10

\* A broken feed is shown, polled or reconciled, or an end is on screen.
LEMMA SubFailsInv ==
  ASSUME ClientInv, NEW w \in work, SubFails(w)
  PROVE  ClientInv'
<1>1. /\ TypeOK /\ view \in Views /\ work \subseteq Calls /\ w.id \in Searches
      /\ \A S \in SUBSET work : \A v \in S : Kept(v)
  BY CallIs
<1>2. UNCHANGED <<server, sent, cancels>> /\ Fault
  BY DEF SubFails
<1>3. spent' \in Bounds
  BY <1>1, <1>2, FaultIs
<1>4. CASE view' = Fail(view) /\ work' = Teardown(work \ {w})
  <2>1. work' \in SUBSET work
    BY <1>1, <1>4, WorkSets
  <2> QED
    BY <1>1, <1>2, <1>3, <1>4, <2>1, FailDrives, LoopStep
<1>5. CASE view' = Enter(view, "polling") /\ work' = Poll(work \ {w}, w.id)
  BY <1>2, <1>3, <1>5, PollDrives
<1>6. CASE /\ view' = Enter(view, "reconciling")
           /\ work' = Drop(work \ {w}, "sub") \cup {Get("again", w.id)}
  <2>1. "again" \in Ops /\ "reconciling" \in Phases /\ Drop(work \ {w}, "sub") \subseteq work
    BY <1>1, WorkSets DEF Ops, Phases
  <2>2. Get("again", w.id) \in Calls /\ Made(Get("again", w.id))
    BY <1>1, <2>1, GetIs DEF Made, Present, Creates
  <2>3. work' \subseteq Calls /\ Runs /\ \A v \in work' : Kept(v) \/ Made(v)
    BY <1>1, <1>6, <2>1, <2>2 DEF Runs, Made
  <2> QED
    BY <1>2, <1>3, <1>6, <2>1, <2>3, EnterDrives, LoopStep
<1>7. CASE view.status \in Ends /\ work' = work \ {w} /\ UNCHANGED view
  BY <1>1, <1>2, <1>3, <1>7, SilenceDrives, LoopStep
<1> QED
  BY <1>4, <1>5, <1>6, <1>7 DEF SubFails

\* The re-read shows an end whether it succeeds or fails.
LEMMA SettleInv ==
  ASSUME ClientInv, NEW w \in work, Settle(w)
  PROVE  ClientInv'
<1>1. /\ TypeOK /\ view \in Views /\ work \subseteq Calls
      /\ w.id \in Searches /\ w.id \in Known /\ w.answer \in Known
      /\ \A v \in work \ {w} : Kept(v)
  BY CallIs DEF Calls
<1>2. UNCHANGED <<server, sent, cancels>> /\ w.op = "final" /\ work' = work \ {w}
  BY DEF Settle, Own
<1>3. Fault \/ UNCHANGED spent
  BY FaultyIs DEF Settle
<1>4. w.end \in Ends
  BY <1>2 DEF ClientInv, Backed
<1>5. \E end \in Ends, a \in Known : view' = Reveal(view, end, a)
  <2>1. CASE view' = Reveal(view, w.end, w.answer)
    BY <1>1, <1>4, <2>1
  <2>2. CASE \E k : StatusAt(w.id, k) \in Ends /\ view' = Reveal(view, StatusAt(w.id, k), w.id)
    BY <1>1, <2>2
  <2> QED
    BY <2>1, <2>2 DEF Settle
<1>6. Driven /\ view' \in Views
  BY <1>5, RevealDrives
<1> QED
  BY <1>1, <1>2, <1>3, <1>6, FaultIs, LoopStep

\* A poller ticks on.
LEMMA TickIs ==
  ASSUME NEW w \in Calls, NEW n \in 0..(PollBudget - 1), NEW at \in Nat
  PROVE  /\ [w EXCEPT !.fails = n, !.at = at] \in Calls
         /\ Alike([w EXCEPT !.fails = n, !.at = at], w)
<1>1. [w EXCEPT !.fails = n, !.at = at] \in Calls
  BY DEF Calls
<1> QED
  BY <1>1 DEF Calls, Alike

\* A poll shows an end, or polls on.
LEMMA PollReplyInv ==
  ASSUME ClientInv, NEW w \in work, PollReply(w)
  PROVE  ClientInv'
<1>1. /\ TypeOK /\ view \in Views /\ work \subseteq Calls /\ w \in Calls
      /\ w.id \in Searches /\ w.id \in Known /\ server[w.id].rows \in Nat
      /\ \A S \in SUBSET work : \A v \in S : Kept(v)
  BY CallIs DEF TypeOK
<1>2. UNCHANGED <<server, sent, cancels, spent>> /\ w.gen = view.generation
  BY DEF PollReply, Own
<1>3. spent' \in Bounds
  BY <1>1, <1>2, FaultIs
<1> DEFINE next == [w EXCEPT !.fails = 0, !.at = server[w.id].rows]
<1>4. CASE \E k : /\ StatusAt(w.id, k) \in Ends
                  /\ view' = Reveal(view, StatusAt(w.id, k), w.id)
                  /\ work' = Teardown(work \ {w})
  <2>1. work' \in SUBSET work
    BY <1>1, <1>4, WorkSets
  <2> QED
    BY <1>1, <1>2, <1>3, <1>4, <2>1, RevealDrives, LoopStep
<1>5. CASE view' = [view EXCEPT !.status = "RUNNING"] /\ work' = (work \ {w}) \cup {next}
  <2>1. 0 \in 0..(PollBudget - 1)
    BY ClientAssumption
  <2>2. next \in Calls /\ Alike(next, w)
    BY <1>1, <2>1, TickIs
  <2> HIDE DEF next
  <2>3. work' \subseteq Calls /\ Runs /\ \A v \in work' : Kept(v)
    BY <1>1, <1>2, <1>5, <2>2 DEF Kept, Runs, Alike
  <2> QED
    BY <1>2, <1>3, <1>5, <2>3, RunningDrives, LoopStep
<1> QED
  BY <1>4, <1>5 DEF PollReply

\* A failed poll polls on within its budget, and is shown beyond it.
LEMMA PollFailsInv ==
  ASSUME ClientInv, NEW w \in work, PollFails(w)
  PROVE  ClientInv'
<1>1. /\ TypeOK /\ view \in Views /\ work \subseteq Calls /\ w \in Calls
      /\ w.id \in Searches /\ server[w.id].rows \in Nat
      /\ \A S \in SUBSET work : \A v \in S : Kept(v)
  BY CallIs DEF TypeOK
<1>2. /\ UNCHANGED <<server, sent, cancels>> /\ (Fault \/ UNCHANGED spent)
      /\ w.gen = view.generation
  BY FaultyIs DEF PollFails, Own
<1>3. spent' \in Bounds
  BY <1>1, <1>2, FaultIs
<1> DEFINE next == [w EXCEPT !.fails = @ + 1, !.at = server[w.id].rows]
<1>4. CASE view' = Fail(view) /\ work' = work \ {w}
  BY <1>1, <1>2, <1>3, <1>4, FailDrives, LoopStep
<1>5. CASE w.fails + 1 < PollBudget /\ UNCHANGED view /\ work' = (work \ {w}) \cup {next}
  <2>1. w.fails + 1 \in 0..(PollBudget - 1)
    BY <1>1, <1>5, ClientAssumption DEF Calls
  <2>2. next \in Calls /\ Alike(next, w)
    BY <1>1, <2>1, TickIs
  <2> HIDE DEF next
  <2>3. work' \subseteq Calls /\ Runs /\ \A v \in work' : Kept(v)
    BY <1>1, <1>2, <1>5, <2>2 DEF Kept, Runs, Alike
  <2> QED
    BY <1>2, <1>3, <1>5, <2>3, SilenceDrives, LoopStep
<1> QED
  BY <1>4, <1>5 DEF PollFails

\* What the fence drops is not what drives the view.
LEMMA IgnoredIs ==
  ASSUME ClientInv, NEW w \in work, Ignored(w)
  PROVE  /\ UNCHANGED <<server, sent, view, cancels, spent>> /\ w.gen # view.generation
         /\ work' \subseteq Calls /\ \A v \in work' : Kept(v)
         /\ Live' = Live
<1>1. w \in Calls /\ work \subseteq Calls /\ \A S \in SUBSET work : \A v \in S : Kept(v)
  BY CallIs
<1>2. /\ UNCHANGED <<server, sent, view, cancels, spent>> /\ w.gen # view.generation
      /\ \/ work' = (work \ {w}) \cup {[w EXCEPT !.at = @ + 1]}
         \/ work' = work \ {w}
  BY DEF Ignored
<1>3. [w EXCEPT !.at = @ + 1] \in Calls /\ Alike([w EXCEPT !.at = @ + 1], w)
  <2>1. ASSUME NEW n \in Nat
        PROVE  [w EXCEPT !.at = n] \in Calls /\ Alike([w EXCEPT !.at = n], w)
    BY <1>1 DEF Calls, Alike
  <2>2. w.at + 1 \in Nat
    BY <1>1 DEF Calls
  <2> QED
    BY <2>1, <2>2
<1>4. work' \subseteq Calls /\ \A v \in work' : Kept(v)
  BY <1>1, <1>2, <1>3 DEF Kept
<1>5. Live' = Live
  BY <1>2, <1>3 DEF Live, Alike
<1> QED
  BY <1>2, <1>4, <1>5

LEMMA IgnoredInv ==
  ASSUME ClientInv, NEW w \in work, Ignored(w)
  PROVE  ClientInv'
<1>1. /\ UNCHANGED <<server, sent, view, cancels, spent>>
      /\ work' \subseteq Calls /\ (\A v \in work' : Kept(v)) /\ Live' = Live
  BY IgnoredIs
<1>2. TypeOK'
  BY <1>1, Typed DEF ClientInv, TypeOK, Calls
<1>3. Backed'
  BY <1>1 DEF ClientInv, Backed, Kept, Alike
<1>4. Flagged' /\ WaitingViewIsDriven'
  BY <1>1 DEF ClientInv, Flagged, WaitingViewIsDriven
<1> QED
  BY <1>2, <1>3, <1>4 DEF ClientInv

\* A press fences the work; the view waits for the cancel instead.
LEMMA PressIs ==
  ASSUME ClientInv, PressCancel \/ PressAgain
  PROVE  /\ view' \in Views /\ view'.phase = view.phase /\ view'.status = view.status
         /\ view'.screen = view.screen /\ view'.searchId = view.searchId
         /\ view'.generation = view.generation + 1
         /\ UNCHANGED <<server, work>> /\ spent' \in Bounds
         /\ spent'.cancels = spent.cancels + 1 /\ spent.cancels \in Nat
         /\ sent' \in [create : SUBSET Searches, cancel : SUBSET Searches]
         /\ sent'.create = sent.create
         /\ cancels' \subseteq Asked /\ cancels' # {} /\ view.searchId \in Searches
         /\ \A c \in cancels' : c \in cancels \/ c.id = view.searchId
<1>1. /\ TypeOK /\ view \in Views /\ cancels \subseteq Asked /\ UNCHANGED <<server, work>>
      /\ spent.cancels < MaxCancels /\ spent' = [spent EXCEPT !.cancels = @ + 1]
      /\ view.searchId # None
  BY Typed DEF ClientInv, PressCancel, PressAgain
<1>2. spent' \in Bounds /\ spent'.cancels = spent.cancels + 1 /\ spent.cancels \in Nat
  BY <1>1, ClientAssumption DEF TypeOK, Bounds
<1>3. view.searchId \in Searches /\ view.generation + 1 \in Nat
  BY <1>1 DEF Views, Known
<1>4. Bump = [view EXCEPT !.generation = view.generation + 1]
  BY DEF Bump
<1>5. /\ Bump \in Views /\ Bump.phase = view.phase /\ Bump.status = view.status
      /\ Bump.screen = view.screen /\ Bump.searchId = view.searchId
      /\ Bump.generation = view.generation + 1
  <2> DEFINE n == view.generation + 1
  <2>1. n \in Nat
    BY <1>3
  <2> HIDE DEF n
  <2>2. /\ [view EXCEPT !.generation = n] \in Views
        /\ [view EXCEPT !.generation = n].phase = view.phase
        /\ [view EXCEPT !.generation = n].status = view.status
        /\ [view EXCEPT !.generation = n].screen = view.screen
        /\ [view EXCEPT !.generation = n].searchId = view.searchId
        /\ [view EXCEPT !.generation = n].generation = n
    BY <1>1, <2>1 DEF Views
  <2> QED
    BY <1>4, <2>2 DEF n
<1>6. CASE PressCancel
  <2>1. /\ cancels' = cancels \cup
                        {[step |-> "asked", id |-> view.searchId, press |-> spent.cancels]}
        /\ sent' = [sent EXCEPT !.cancel = @ \cup {view.searchId}]
        /\ view' = [Bump EXCEPT !.canceling = TRUE, !.cancelError = FALSE]
    BY <1>6 DEF PressCancel
  <2>2. /\ view' \in Views /\ view'.phase = Bump.phase /\ view'.status = Bump.status
        /\ view'.screen = Bump.screen /\ view'.searchId = Bump.searchId
        /\ view'.generation = Bump.generation
    BY <1>5, <2>1 DEF Views
  <2>3. /\ sent' \in [create : SUBSET Searches, cancel : SUBSET Searches]
        /\ sent'.create = sent.create
    BY <1>1, <1>3, <2>1 DEF TypeOK
  <2>4. /\ cancels' \subseteq Asked /\ cancels' # {}
        /\ \A c \in cancels' : c \in cancels \/ c.id = view.searchId
    <3> DEFINE c == [step |-> "asked", id |-> view.searchId, press |-> spent.cancels]
    <3>1. c \in Asked /\ c.id = view.searchId
      BY <1>2, <1>3 DEF Asked
    <3>2. cancels' = cancels \cup {c}
      BY <2>1
    <3> HIDE DEF c
    <3> QED
      BY <1>1, <3>1, <3>2
  <2> QED
    BY <1>1, <1>2, <1>3, <1>5, <2>2, <2>3, <2>4
<1>7. CASE PressAgain
  <2>1. UNCHANGED <<sent, cancels>> /\ view' = Bump /\ view.canceling
    BY <1>7 DEF PressAgain
  <2>2. cancels' # {} /\ sent' \in [create : SUBSET Searches, cancel : SUBSET Searches]
    BY <1>1, <2>1 DEF ClientInv, Flagged, TypeOK
  <2> QED
    BY <1>1, <1>2, <1>3, <1>5, <2>1, <2>2
<1> QED
  BY <1>6, <1>7

LEMMA PressInv ==
  ASSUME ClientInv, PressCancel \/ PressAgain
  PROVE  ClientInv'
<1>1. /\ view' \in Views /\ view'.status = view.status /\ view'.screen = view.screen
      /\ UNCHANGED <<server, work>> /\ spent' \in Bounds
      /\ sent' \in [create : SUBSET Searches, cancel : SUBSET Searches]
      /\ cancels' \subseteq Asked /\ cancels' # {}
  BY PressIs
<1>2. TypeOK'
  BY <1>1 DEF ClientInv, TypeOK, Views, Bounds, Asked
<1>3. Backed' /\ Flagged' /\ WaitingViewIsDriven'
  BY <1>1 DEF ClientInv, Backed, Flagged, WaitingViewIsDriven
<1> QED
  BY <1>2, <1>3 DEF ClientInv

\* The cancel's answer shows an end; without one it leaves an error or a probe.
LEMMA CancelIs ==
  ASSUME ClientInv, NEW c \in cancels,
         CancelReply(c) \/ CancelFails(c) \/ ProbeReply(c) \/ ProbeFails(c)
  PROVE  /\ UNCHANGED <<server, sent>> /\ spent' \in Bounds /\ spent'.cancels = spent.cancels
         /\ cancels' \subseteq Asked /\ work' \in SUBSET work
         /\ \A d \in cancels' : \E e \in cancels : d.id = e.id
         /\ \/ /\ \E end \in Ends : /\ server[c.id].end = end
                                    /\ view' = Reveal(view, end, None)
            \/ view' = [view EXCEPT !.canceling = FALSE, !.cancelError = TRUE]
            \/ UNCHANGED view /\ cancels' # {} /\ UNCHANGED work
<1>1. /\ TypeOK /\ view \in Views /\ work \subseteq Calls /\ cancels \subseteq Asked
      /\ c \in Asked /\ c.id \in Searches /\ "CANCELLED" \in Ends
  BY Typed DEF ClientInv, Asked, Ends
<1>2. UNCHANGED <<server, sent>> /\ spent' \in Bounds /\ spent'.cancels = spent.cancels
  BY <1>1, FaultIs DEF CancelReply, CancelFails, ProbeReply, ProbeFails
<1>3. work' \in SUBSET work
  BY <1>1, WorkSets DEF CancelReply, CancelFails, ProbeReply, ProbeFails
<1>4. [c EXCEPT !.step = "probing"] \in Asked /\ [c EXCEPT !.step = "probing"].id = c.id
  BY <1>1 DEF Asked
<1>5. \/ cancels' = cancels \ {c}
      \/ cancels' = (cancels \ {c}) \cup {[c EXCEPT !.step = "probing"]}
  BY DEF CancelReply, CancelFails, ProbeReply, ProbeFails
<1>6. cancels' \subseteq Asked /\ \A d \in cancels' : \E e \in cancels : d.id = e.id
  BY <1>1, <1>4, <1>5
<1>7. CASE CancelReply(c)
  BY <1>2, <1>3, <1>6, <1>7 DEF CancelReply, Ended
<1>8. CASE CancelFails(c)
  BY <1>2, <1>3, <1>6, <1>8 DEF CancelFails
<1>9. CASE ProbeReply(c)
  BY <1>1, <1>2, <1>3, <1>6, <1>9 DEF ProbeReply
<1>10. CASE ProbeFails(c)
  BY <1>2, <1>3, <1>6, <1>10 DEF ProbeFails
<1> QED
  BY <1>7, <1>8, <1>9, <1>10

LEMMA CancelInv ==
  ASSUME ClientInv, NEW c \in cancels,
         CancelReply(c) \/ CancelFails(c) \/ ProbeReply(c) \/ ProbeFails(c)
  PROVE  ClientInv'
<1>1. /\ TypeOK /\ view \in Views /\ UNCHANGED <<server, sent>> /\ spent' \in Bounds
      /\ cancels' \subseteq Asked /\ work' \in SUBSET work /\ None \in Known
      /\ \/ \E end \in Ends : view' = Reveal(view, end, None)
         \/ view' = [view EXCEPT !.canceling = FALSE, !.cancelError = TRUE]
         \/ UNCHANGED view /\ cancels' # {} /\ UNCHANGED work
  BY CancelIs, Typed DEF ClientInv, Known
<1>2. view \in Views /\ None \in Known
  BY <1>1
<1>3. ASSUME view' \in Views
      PROVE  TypeOK' /\ Backed'
  BY <1>1, <1>3 DEF ClientInv, TypeOK, Views, Bounds, Asked, Backed
<1>4. CASE \E end \in Ends : view' = Reveal(view, end, None)
  <2>1. PICK end \in Ends : view' = Reveal(view, end, None)
    BY <1>4
  <2>2. view' \in Views
    BY <1>2, <2>1, RevealIs
  <2>3. view'.screen \in Ends /\ view'.canceling = FALSE
    BY <1>2, <2>1, RevealIs
  <2>4. Flagged' /\ WaitingViewIsDriven'
    BY <2>3 DEF Flagged, WaitingViewIsDriven
  <2> QED
    BY <1>3, <2>2, <2>4 DEF ClientInv
<1>5. CASE view' = [view EXCEPT !.canceling = FALSE, !.cancelError = TRUE]
  <2>1. /\ view' \in Views /\ view'.canceling = FALSE
        /\ view'.status = view.status /\ view'.screen = view.screen /\ view'.cancelError = TRUE
    BY <1>1, <1>5 DEF Views
  <2>2. Flagged' /\ WaitingViewIsDriven'
    BY <2>1 DEF ClientInv, Flagged, WaitingViewIsDriven
  <2> QED
    BY <1>3, <2>1, <2>2 DEF ClientInv
<1>6. CASE UNCHANGED view /\ cancels' # {} /\ UNCHANGED work
  <2>1. Flagged' /\ WaitingViewIsDriven'
    BY <1>6 DEF ClientInv, Flagged, WaitingViewIsDriven
  <2> QED
    BY <1>1, <1>3, <1>6, <2>1 DEF ClientInv
<1> QED
  BY <1>1, <1>4, <1>5, <1>6

\* The view before the first search is driven by nothing and waits for nothing.
LEMMA InitClientInv == Init => ClientInv
<1> SUFFICES ASSUME Init PROVE ClientInv
  OBVIOUS
<1>1. view = Blank /\ work = {} /\ cancels = {}
  BY DEF Init
<1>2. Blank \in Views
  BY DEF Blank, Views, Phases, Known
<1>3. spent \in Bounds
  BY ClientAssumption DEF Init, Bounds
<1>4. /\ server \in [Searches -> [rows : Nat, end : Ends \cup {"absent", "none"}]]
      /\ sent \in [create : SUBSET Searches, cancel : SUBSET Searches]
  BY DEF Init
<1>5. TypeOK
  BY <1>1, <1>2, <1>3, <1>4, Typed
<1>6. Backed /\ Flagged /\ WaitingViewIsDriven
  BY <1>1 DEF Backed, Flagged, WaitingViewIsDriven, Blank, Ends
<1> QED
  BY <1>5, <1>6 DEF ClientInv

\* Every step keeps ClientInv.
LEMMA StepClientInv ==
  ASSUME ClientInv, [Next]_vars
  PROVE  ClientInv'
<1>1. CASE UNCHANGED vars
  BY <1>1 DEF ClientInv, TypeOK, Backed, Flagged, WaitingViewIsDriven, Live
<1>2. CASE ServerNext
  BY <1>2, ServerInv
<1>3. CASE User
  BY <1>3, ResumeInv, ResetInv, PressInv, StartInv DEF User
<1>4. CASE Callbacks
  <2>1. ASSUME NEW w \in work,
               \/ CreateReply(w) \/ Reconciled(w) \/ SubEvent(w) \/ Settle(w) \/ PollReply(w)
               \/ CreateFails(w) \/ ReconcileFails(w) \/ SubFails(w) \/ PollFails(w)
               \/ Ignored(w)
        PROVE  ClientInv'
    BY <2>1, CreateReplyInv, ReconciledInv, SubEventInv, SettleInv, PollReplyInv,
       CreateFailsInv, ReconcileFailsInv, SubFailsInv, PollFailsInv, IgnoredInv
  <2> QED
    BY <1>4, <2>1, CancelInv DEF Callbacks
<1> QED
  BY <1>1, <1>2, <1>3, <1>4 DEF Next

\* ClientInv holds in every reachable state, for any number of searches, starts, resets,
\* returns to the foreground and cancels.
THEOREM ClientInvariance == Spec => []ClientInv
  BY InitClientInv, StepClientInv, PTL DEF Spec

\* The store, the callbacks in flight, the server's log and the bounds keep their types:
\* no callback is made for the missing search, no end is shown that is none.
THEOREM ClientTypesCorrect == Spec => []TypeOK
<1>1. ClientInv => TypeOK
  BY DEF ClientInv
<1> QED
  BY <1>1, ClientInvariance, PTL

\* A view that waits for an end is driven: by a callback that the fence lets run, by a
\* cancel in flight, or it shows the error of the cancel that fenced its work.
THEOREM WaitingViewsAreDriven == Spec => []WaitingViewIsDriven
<1>1. ClientInv => WaitingViewIsDriven
  BY DEF ClientInv
<1> QED
  BY <1>1, ClientInvariance, PTL

-----------------------------------------------------------------------------
(* The search on view is the one that everything in flight is about *)

\* A callback is about the search on view, and what a re-read keeps of the terminal event
\* is the end that search had.
Carries(w) ==
  /\ w.id = view.searchId
  /\ w.op = "final" => w.end \in Ends /\ server[w.id].end = w.end /\ w.answer = w.id

TruthInv ==
  /\ \A w \in work : w.gen <= view.generation
  /\ \A w \in Live : w.op \notin Creates => Carries(w)
  /\ \A w \in Live : w.op \in Creates => Live = {w} /\ cancels = {}
  /\ \A c \in cancels : c.id = view.searchId
  /\ cancels # {} => spent.cancels > 0
  /\ view.searchId # None => Exists(view.searchId)
  /\ ShownEndIsTrue
  /\ EndComesWithAnswer

\* A step shows what was shown, or the end and the answer of the search on view.
Shows ==
  \/ /\ view'.screen = view.screen /\ view'.answer = view.answer
     /\ view'.phase = "terminal" => view.phase = "terminal"
  \/ server[view.searchId].end = view'.screen /\ view'.answer = view.searchId

\* ... and no create is in flight after it.
Settled == \A v \in Live' : v.op \notin Creates

\* A callback made by a callback of the search on view.
Follows(v) == v.op \notin Creates /\ v.gen = view.generation /\ Carries(v)

\* What a step leaves alone.
Aside == UNCHANGED <<server, cancels>> /\ spent'.cancels = spent.cancels

\* The conditions under which a step of the event loop keeps TruthInv.
LEMMA LoopTruth ==
  ASSUME ClientInv, TruthInv, Aside, Shows, view.searchId # None,
         view'.searchId = view.searchId, view'.generation = view.generation,
         \A v \in Live : v.op \notin Creates,
         \A v \in work' : Kept(v) \/ Follows(v)
  PROVE  TruthInv' /\ Settled
<1>1. ASSUME NEW v \in work'
      PROVE  /\ v.gen <= view'.generation
             /\ v.gen = view'.generation =>
                  /\ v.op \notin Creates /\ v.id = view'.searchId
                  /\ v.op = "final" => /\ v.end \in Ends /\ server'[v.id].end = v.end
                                       /\ v.answer = v.id
  <2>0. view.generation \in Nat
    BY DEF ClientInv, TypeOK
  <2>1. CASE Follows(v)
    BY <2>0, <2>1 DEF Follows, Carries, Aside
  <2>2. CASE Kept(v)
    <3>1. PICK w \in work : Alike(v, w)
      BY <2>2 DEF Kept
    <3>2. w.gen <= view.generation
      BY DEF TruthInv
    <3>3. w.gen = view.generation => w.op \notin Creates /\ Carries(w)
      BY DEF TruthInv, Live
    <3> QED
      BY <3>1, <3>2, <3>3 DEF Alike, Carries, Aside
  <2> QED
    BY <1>1, <2>1, <2>2
<1>2. ShownEndIsTrue' /\ EndComesWithAnswer'
  BY DEF Shows, TruthInv, ShownEndIsTrue, EndComesWithAnswer, Aside
<1>3. \A v \in Live' : v.op \notin Creates /\ Carries(v)'
  BY <1>1 DEF Live, Carries
<1>4. /\ \A v \in work' : v.gen <= view'.generation
      /\ \A c \in cancels' : c.id = view'.searchId
      /\ cancels' # {} => spent'.cancels > 0
      /\ (view.searchId # None => Exists(view.searchId))'
  BY <1>1 DEF TruthInv, Aside, Exists
<1> QED
  BY <1>2, <1>3, <1>4 DEF TruthInv, Settled

\* A callback of the search on view is not beside a create that the fence lets run.
LEMMA OwnCall ==
  ASSUME ClientInv, TruthInv, NEW w \in work, w.gen = view.generation, w.op \notin Creates
  PROVE  /\ \A v \in Live : v.op \notin Creates
         /\ Carries(w) /\ w.id = view.searchId /\ view.searchId # None
         /\ w.id \in Known /\ w.id # None /\ w.id \in Searches /\ view \in Views
         /\ TypeOK /\ work \subseteq Calls /\ w \in Calls
<1>1. w \in Live
  BY DEF Live
<1>2. \A v \in Live : v.op \notin Creates
  BY <1>1 DEF TruthInv
<1> QED
  BY <1>1, <1>2, CallIs DEF TruthInv, Carries

\* The server changes no end, and forgets no search.
LEMMA ServerTruth ==
  ASSUME ClientInv, TruthInv, ServerNext
  PROVE  /\ TruthInv' /\ UNCHANGED <<sent, view, work, cancels, spent>>
         /\ \A x \in Searches : Exists(x)' => Exists(x) \/ x \in sent.create
<1>1. UNCHANGED <<sent, view, work, cancels, spent>>
  BY DEF ServerNext, Created, Grow, End
<1>2. ASSUME NEW y \in Searches
      PROVE  /\ server[y].end \in Ends => server'[y].end = server[y].end
             /\ server[y].end # "absent" => server'[y].end # "absent"
             /\ server'[y].end # "absent" => server[y].end # "absent" \/ y \in sent.create
  <2>0. "absent" \notin Ends /\ TypeOK
    BY DEF Ends, ClientInv
  <2>1. PICK x \in Searches : Created(x) \/ Grow(x) \/ \E end \in Ends : End(x, end)
    BY DEF ServerNext
  <2>2. CASE Created(x)
    BY <2>0, <2>2 DEF Created, Exists, TypeOK
  <2>3. CASE Grow(x)
    BY <2>0, <2>3 DEF Grow, TypeOK
  <2>4. CASE \E end \in Ends : End(x, end)
    <3>1. PICK end \in Ends : End(x, end)
      BY <2>4
    <3>2. server[x].end \notin Ends /\ server[x].end # "absent"
      BY <3>1 DEF End, Ended, Exists
    <3>3. server' = [server EXCEPT ![x] = [rows |-> server[x].rows + 1, end |-> end]]
      BY <3>1 DEF End
    <3>4. CASE y = x
      BY <2>0, <3>2, <3>3, <3>4 DEF TypeOK
    <3>5. CASE y # x
      BY <2>0, <3>3, <3>5 DEF TypeOK
    <3> QED
      BY <3>4, <3>5
  <2> QED
    BY <2>1, <2>2, <2>3, <2>4
<1>3. view.searchId # None => view.searchId \in Searches
  BY DEF ClientInv, TypeOK, Known
<1>4. \A w \in work : w.id \in Searches
  BY CallIs
<1>5. Live' = Live /\ \A w \in Live : w.op \notin Creates => Carries(w)'
  BY <1>1, <1>2, <1>4 DEF TruthInv, Carries, Live
<1>6. view.searchId # None => Exists(view.searchId)'
  BY <1>1, <1>2, <1>3 DEF TruthInv, Exists
<1>7. ShownEndIsTrue' /\ EndComesWithAnswer'
  BY <1>1, <1>2, <1>3 DEF TruthInv, ShownEndIsTrue, EndComesWithAnswer
<1>8. TruthInv'
  BY <1>1, <1>5, <1>6, <1>7 DEF TruthInv
<1> QED
  BY <1>1, <1>2, <1>8 DEF Exists

\* A start fences what was in flight; no cancel is.
LEMMA StartTruth ==
  ASSUME ClientInv, TruthInv, cancels = {}, NEW x \in Searches, Start(x)
  PROVE  TruthInv'
<1>1. PICK w \in Calls :
         /\ work' = Teardown(work) \cup {w}
         /\ w.op \in Creates /\ w.gen = view.generation + 1
         /\ view'.generation = view.generation + 1
         /\ view'.screen = view.screen /\ view'.searchId = view.searchId
         /\ view'.phase = "creating" /\ UNCHANGED <<server, cancels>>
  BY StartIs DEF ClientInv
<1>2. /\ Teardown(work) \subseteq work /\ view.generation \in Nat
      /\ \A v \in work : v.gen \in Nat /\ v.gen <= view.generation
  BY Typed, WorkSets DEF ClientInv, TruthInv, Calls, Views
<1>3. Live' = {w} /\ \A v \in work' : v.gen <= view'.generation
  BY <1>1, <1>2 DEF Live
<1>4. /\ ShownEndIsTrue' /\ EndComesWithAnswer'
      /\ (view.searchId # None => Exists(view.searchId))'
  BY <1>1 DEF TruthInv, ShownEndIsTrue, EndComesWithAnswer, Exists
<1> QED
  BY <1>1, <1>3, <1>4 DEF TruthInv

\* A reset of a store that nothing is in flight for.
LEMMA ResetTruth ==
  ASSUME cancels = {}, work = {}, Reset
  PROVE  TruthInv'
<1>1. view' = Blank /\ work' = {} /\ cancels' = {}
  BY DEF Reset
<1> QED
  BY <1>1 DEF TruthInv, ShownEndIsTrue, EndComesWithAnswer, Blank, Ends, Live

\* The created search becomes the view's; no cancel of another is in flight.
LEMMA CreateReplyTruth ==
  ASSUME ClientInv, TruthInv, NEW w \in work, CreateReply(w)
  PROVE  TruthInv' /\ Settled
<1>1. /\ view'.screen = "none" /\ view'.searchId = w.id
      /\ view'.generation = view.generation
      /\ work' = (work \ {w}) \cup {Get("first", w.id)}
      /\ Present(Get("first", w.id), "first", w.id)
      /\ w.op \in Creates /\ w.gen = view.generation /\ Exists(w.id)
      /\ UNCHANGED <<server, sent, cancels, spent>>
  BY CreateReplyIs
<1>2. Live = {w} /\ cancels = {} /\ view.generation \in Nat
  BY <1>1, Typed DEF ClientInv, TruthInv, Live, Views
<1>3. Live' = {Get("first", w.id)} /\ \A v \in work' : v.gen <= view'.generation
  BY <1>1, <1>2 DEF TruthInv, Live, Present
<1>4. \A v \in Live' : v.op \notin Creates /\ Carries(v)'
  BY <1>1, <1>3 DEF Present, Creates, Carries
<1>5. "none" \notin Ends
  BY DEF Ends
<1>6. ShownEndIsTrue' /\ EndComesWithAnswer'
  BY <1>1, <1>5 DEF ShownEndIsTrue, EndComesWithAnswer
<1> QED
  BY <1>1, <1>2, <1>3, <1>4, <1>6 DEF TruthInv, Settled, Exists

\* A create was alone in flight: its failure leaves nothing.
LEMMA CreateFailsTruth ==
  ASSUME ClientInv, TruthInv, NEW w \in work, CreateFails(w)
  PROVE  TruthInv' /\ Live' = {} /\ w \in Live
<1>1. /\ view'.screen = view.screen /\ view'.searchId = view.searchId
      /\ view'.generation = view.generation /\ view'.phase = "idle"
      /\ work' = work \ {w} /\ UNCHANGED <<server, sent, cancels>>
      /\ spent'.cancels = spent.cancels
      /\ w.op \in Creates /\ w.gen = view.generation
  BY CreateFailsIs
<1>2. Live = {w} /\ cancels = {}
  BY <1>1 DEF TruthInv, Live
<1>3. Live' = {} /\ \A v \in work' : v.gen <= view'.generation
  BY <1>1, <1>2 DEF TruthInv, Live
<1>4. /\ ShownEndIsTrue' /\ EndComesWithAnswer'
      /\ (view.searchId # None => Exists(view.searchId))'
  BY <1>1 DEF TruthInv, ShownEndIsTrue, EndComesWithAnswer, Exists
<1> QED
  BY <1>1, <1>2, <1>3, <1>4 DEF TruthInv

\* A return to the foreground, beside no create.
LEMMA ResumeTruth ==
  ASSUME ClientInv, TruthInv, \A w \in Live : w.op \notin Creates, Resume
  PROVE  TruthInv' /\ Settled
<1>1. /\ view \in Views /\ TypeOK /\ work \subseteq Calls /\ "reconciling" \in Phases
      /\ Drop(work, "sub") \subseteq work
  BY Typed, WorkSets DEF ClientInv, Phases
<1>2. /\ view.searchId # None /\ view' = Enter(view, "reconciling")
      /\ work' = Drop(work, "sub") \cup {Get("again", view.searchId)}
      /\ UNCHANGED <<server, cancels>> /\ spent' = [spent EXCEPT !.resumes = @ + 1]
  BY DEF Resume, Again
<1>3. Follows(Get("again", view.searchId))
  BY <1>1, <1>2, GetIs DEF Follows, Present, Carries, Creates, Ops, Views, Known
<1>4. \A v \in work' : Kept(v) \/ Follows(v)
  BY <1>1, <1>2, <1>3 DEF Kept, Alike
<1>5. Aside
  BY <1>1, <1>2 DEF TypeOK, Aside
<1>6. /\ view'.searchId = view.searchId /\ view'.screen = view.screen
      /\ view'.answer = view.answer /\ view'.generation = view.generation
      /\ view'.phase = "reconciling"
  BY <1>1, <1>2, EnterIs
<1> QED
  BY <1>2, <1>4, <1>5, <1>6, LoopTruth DEF Shows

\* An end that was read from the log is shown with its answer.
LEMMA RevealShows ==
  ASSUME ClientInv, view.searchId \in Searches, view.searchId # None,
         NEW end \in Ends, server[view.searchId].end = end,
         view' = Reveal(view, end, view.searchId)
  PROVE  Shows /\ view'.searchId = view.searchId /\ view'.generation = view.generation
<1>1. view \in Views /\ view.searchId \in Known
  BY Typed DEF ClientInv, Known
<1>2. Reveal(view, end, view.searchId).answer = view.searchId
  BY <1>1, RevealAnswers
<1>3. /\ view'.screen = end /\ view'.searchId = view.searchId
      /\ view'.generation = view.generation
  BY <1>1 DEF Reveal, Views
<1> QED
  BY <1>2, <1>3 DEF Shows

\* Entering a phase, failing, and the running status show what was shown.
LEMMA NothingShown ==
  ASSUME ClientInv,
         \/ \E phase \in Phases \ {"terminal"} : view' = Enter(view, phase)
         \/ view' = Fail(view)
         \/ view' = [view EXCEPT !.status = "RUNNING"]
         \/ UNCHANGED view
  PROVE  Shows /\ view'.searchId = view.searchId /\ view'.generation = view.generation
<1>1. view \in Views
  BY Typed DEF ClientInv
<1>2. CASE \E phase \in Phases \ {"terminal"} : view' = Enter(view, phase)
  BY <1>1, <1>2, EnterIs DEF Shows
<1>3. CASE view' = Fail(view)
  BY <1>1, <1>3, FailIs DEF Shows
<1>4. CASE view' = [view EXCEPT !.status = "RUNNING"]
  BY <1>1, <1>4 DEF Shows, Views
<1>5. CASE UNCHANGED view
  BY <1>5 DEF Shows
<1> QED
  BY <1>2, <1>3, <1>4, <1>5

\* What is kept is kept, what is made follows.
LEMMA SubsetKept ==
  ASSUME NEW W \in SUBSET work
  PROVE  /\ \A v \in W : Kept(v)
         /\ \A u : (\E v \in W : Alike(u, v)) => Kept(u)
  BY DEF Kept, Alike

\* The end that the log shows: by a get or a poll.
LEMMA AnswerTruth ==
  ASSUME ClientInv, TruthInv, NEW w \in work, w.gen = view.generation, w.op \notin Creates,
         UNCHANGED <<server, sent, cancels, spent>>,
         \E k : /\ StatusAt(w.id, k) \in Ends
                /\ view' = Reveal(view, StatusAt(w.id, k), w.id)
                /\ work' = Teardown(work \ {w})
  PROVE  TruthInv' /\ Settled
<1>1. /\ (\A v \in Live : v.op \notin Creates) /\ w.id = view.searchId
      /\ w.id \in Searches /\ w.id # None /\ TypeOK /\ work \ {w} \in SUBSET Calls
  BY OwnCall
<1>2. PICK end \in Ends : server[w.id].end = end /\ view' = Reveal(view, end, w.id)
  BY <1>1, StatusIs
<1>3. Shows /\ view'.searchId = view.searchId /\ view'.generation = view.generation
  BY <1>1, <1>2, RevealShows
<1>4. work' \in SUBSET work
  BY <1>1, WorkSets
<1>5. (\A v \in work' : Kept(v)) /\ Aside
  BY <1>4, SubsetKept DEF Aside
<1> QED
  BY <1>1, <1>3, <1>5, LoopTruth

\* A get answers with the end of the search on view, or subscribes to that search.
LEMMA ReconciledTruth ==
  ASSUME ClientInv, TruthInv, NEW w \in work, Reconciled(w)
  PROVE  TruthInv' /\ Settled
<1>1. /\ w.gen = view.generation /\ w.op \notin Creates
      /\ UNCHANGED <<server, sent, cancels, spent>>
  BY DEF Reconciled, Own, Creates
<1>2. /\ (\A v \in Live : v.op \notin Creates) /\ w.id = view.searchId /\ w.id \in Searches
      /\ w.id # None /\ view \in Views /\ TypeOK /\ work \subseteq Calls
  BY <1>1, OwnCall
<1>3. Aside
  BY <1>1 DEF Aside
<1>4. CASE \E k : /\ StatusAt(w.id, k) \in Ends
                  /\ view' = Reveal(view, StatusAt(w.id, k), w.id)
                  /\ work' = Teardown(work \ {w})
  BY <1>1, <1>4, AnswerTruth
<1>5. CASE view' = [view EXCEPT !.status = "RUNNING"] /\ work' = work \ {w}
  <2>1. \A v \in work' : Kept(v)
    BY <1>5, SubsetKept
  <2> QED
    BY <1>2, <1>3, <1>5, <2>1, NothingShown, LoopTruth
<1>6. CASE /\ view' = [Enter(view, "streaming") EXCEPT !.status = "RUNNING"]
           /\ work' = Open(work \ {w}, w.id, view.cursor)
  <2>1. "streaming" \in Phases /\ view.cursor \in Nat /\ work \ {w} \in SUBSET Calls
    BY <1>2 DEF Phases, Views
  <2>2. \A v \in work' : (\E u \in work \ {w} : Alike(v, u)) \/ Present(v, "sub", w.id)
    BY <1>2, <1>6, <2>1, OpenIs
  <2>3. \A v \in work' : Kept(v) \/ Follows(v)
    BY <1>2, <2>2, SubsetKept DEF Follows, Present, Creates, Carries
  <2>4. /\ Enter(view, "streaming") \in Views
        /\ Enter(view, "streaming").searchId = view.searchId
        /\ Enter(view, "streaming").screen = view.screen
        /\ Enter(view, "streaming").answer = view.answer
        /\ Enter(view, "streaming").phase = "streaming"
        /\ Enter(view, "streaming").generation = view.generation
    BY <1>2, <2>1, EnterIs
  <2>5. /\ view'.searchId = view.searchId /\ view'.screen = view.screen
        /\ view'.answer = view.answer /\ view'.generation = view.generation
        /\ view'.phase = "streaming"
    BY <1>6, <2>4 DEF Views
  <2> QED
    BY <1>2, <1>3, <2>3, <2>5, LoopTruth DEF Shows
<1> QED
  BY <1>4, <1>5, <1>6 DEF Reconciled

\* A callback polls, or reconciles again, for the search it was made for.
LEMMA FallBackTruth ==
  ASSUME ClientInv, TruthInv, NEW w \in work, w.gen = view.generation, w.op \notin Creates,
         UNCHANGED <<server, cancels>>, Fault \/ UNCHANGED spent,
         \/ view' = Fail(view)
         \/ \E phase \in Phases \ {"terminal"} : view' = Enter(view, phase)
         \/ UNCHANGED view,
         \/ work' = work \ {w} \/ work' = Teardown(work \ {w})
         \/ work' = Poll(work \ {w}, w.id)
         \/ work' = Drop(work \ {w}, "sub") \cup {Get("again", w.id)}
  PROVE  TruthInv' /\ Settled
<1>1. /\ (\A v \in Live : v.op \notin Creates) /\ w.id = view.searchId
      /\ w.id \in Searches /\ w.id # None /\ TypeOK /\ work \ {w} \in SUBSET Calls
  BY OwnCall
<1>2. Aside
  BY <1>1, FaultIs DEF Aside
<1>3. Shows /\ view'.searchId = view.searchId /\ view'.generation = view.generation
  BY NothingShown
<1>4. \A v \in work' : Kept(v) \/ Follows(v)
  <2>1. CASE work' = work \ {w} \/ work' = Teardown(work \ {w})
    <3>1. work' \in SUBSET work
      BY <1>1, <2>1, WorkSets
    <3> QED
      BY <3>1, SubsetKept
  <2>2. CASE work' = Poll(work \ {w}, w.id)
    <3>1. \A v \in work' : (\E u \in work \ {w} : Alike(v, u)) \/ Present(v, "poll", w.id)
      BY <1>1, <2>2, PollIs
    <3> QED
      BY <1>1, <3>1, SubsetKept DEF Follows, Present, Creates, Carries
  <2>3. CASE work' = Drop(work \ {w}, "sub") \cup {Get("again", w.id)}
    <3>1. Drop(work \ {w}, "sub") \in SUBSET work
      BY <1>1, WorkSets
    <3>2. Follows(Get("again", w.id))
      BY <1>1, GetIs DEF Follows, Present, Carries, Creates, Ops
    <3> QED
      BY <2>3, <3>1, <3>2, SubsetKept
  <2> QED
    BY <2>1, <2>2, <2>3
<1> QED
  BY <1>1, <1>2, <1>3, <1>4, LoopTruth

\* A failed get polls for its own search.
LEMMA ReconcileFailsTruth ==
  ASSUME ClientInv, TruthInv, NEW w \in work, ReconcileFails(w)
  PROVE  TruthInv' /\ Settled
<1>1. /\ w.gen = view.generation /\ w.op \notin Creates
      /\ UNCHANGED <<server, cancels>> /\ (Fault \/ UNCHANGED spent)
      /\ "polling" \in Phases
  BY FaultyIs DEF ReconcileFails, Own, Creates, Phases
<1>2. /\ \/ view' = Fail(view)
         \/ \E phase \in Phases \ {"terminal"} : view' = Enter(view, phase)
         \/ UNCHANGED view
      /\ \/ work' = work \ {w} \/ work' = Teardown(work \ {w})
         \/ work' = Poll(work \ {w}, w.id)
  BY <1>1 DEF ReconcileFails
<1> QED
  BY <1>1, <1>2, FallBackTruth

\* A broken feed polls or reconciles its own search.
LEMMA SubFailsTruth ==
  ASSUME ClientInv, TruthInv, NEW w \in work, SubFails(w)
  PROVE  TruthInv' /\ Settled
<1>1. /\ w.gen = view.generation /\ w.op \notin Creates
      /\ UNCHANGED <<server, cancels>> /\ Fault
      /\ "polling" \in Phases /\ "reconciling" \in Phases
  BY DEF SubFails, Own, Creates, Phases
<1>2. /\ \/ view' = Fail(view)
         \/ \E phase \in Phases \ {"terminal"} : view' = Enter(view, phase)
         \/ UNCHANGED view
      /\ \/ work' = work \ {w} \/ work' = Teardown(work \ {w})
         \/ work' = Poll(work \ {w}, w.id)
         \/ work' = Drop(work \ {w}, "sub") \cup {Get("again", w.id)}
  BY <1>1 DEF SubFails
<1> QED
  BY <1>1, <1>2, FallBackTruth

\* The re-read after the terminal event keeps the end the event carried.
LEMMA SubEventTruth ==
  ASSUME ClientInv, TruthInv, NEW w \in work, SubEvent(w)
  PROVE  TruthInv' /\ Settled
<1> DEFINE seq == w.at + 1
<1> DEFINE status == StatusAt(w.id, seq)
<1> DEFINE seen == [view EXCEPT !.cursor = seq]
<1> DEFINE final == Final(view.searchId, status, w.id)
<1>1. /\ w.gen = view.generation /\ w.op \notin Creates
      /\ UNCHANGED <<server, sent, cancels, spent>>
  BY DEF SubEvent, Own, Creates
<1>2. /\ (\A v \in Live : v.op \notin Creates) /\ w.id = view.searchId
      /\ w.id \in Searches /\ w.id # None /\ w \in Calls
      /\ view \in Views /\ TypeOK /\ work \subseteq Calls /\ work \ {w} \in SUBSET Calls
  BY <1>1, OwnCall
<1>3. /\ view' = seen
      /\ \/ work' = (work \ {w}) \cup {[w EXCEPT !.at = seq, !.heard = TRUE]}
         \/ status \in Ends /\ work' = Teardown(work \ {w}) \cup {final}
  BY <1>2 DEF SubEvent, Final
<1>4. seq \in Nat
  BY <1>2 DEF Calls
<1> HIDE DEF seq
<1>5. /\ view'.searchId = view.searchId /\ view'.screen = view.screen
      /\ view'.answer = view.answer /\ view'.generation = view.generation
      /\ view'.phase = view.phase
  BY <1>2, <1>3, <1>4, SeenIs
<1>6. CASE work' = (work \ {w}) \cup {[w EXCEPT !.at = seq, !.heard = TRUE]}
  <2>1. Alike([w EXCEPT !.at = seq, !.heard = TRUE], w)
    BY <1>2, <1>4, RowIs
  <2>2. \A v \in work' : Kept(v)
    BY <1>6, <2>1, SubsetKept DEF Kept
  <2> QED
    BY <1>1, <1>2, <1>5, <2>2, LoopTruth DEF Shows, Aside
<1>7. CASE status \in Ends /\ work' = Teardown(work \ {w}) \cup {final}
  <2>1. server[w.id].end = status
    BY <1>2, <1>7, StatusIs
  <2> HIDE DEF status
  <2>2. /\ Present(final, "final", view.searchId) /\ final.end = status /\ final.answer = w.id
    BY <1>2, <1>7, FinalIs
  <2> HIDE DEF final
  <2>3. Follows(final)
    BY <1>2, <1>7, <2>1, <2>2 DEF Follows, Present, Creates, Carries
  <2>4. Teardown(work \ {w}) \in SUBSET work
    BY <1>2, WorkSets
  <2>5. \A v \in work' : Kept(v) \/ Follows(v)
    BY <1>7, <2>3, <2>4, SubsetKept
  <2> QED
    BY <1>1, <1>2, <1>5, <2>5, LoopTruth DEF Shows, Aside
<1> QED
  BY <1>3, <1>6, <1>7

\* The re-read and the event it backs up carry the same end.
LEMMA SettleTruth ==
  ASSUME ClientInv, TruthInv, NEW w \in work, Settle(w)
  PROVE  TruthInv' /\ Settled
<1>1. /\ w.gen = view.generation /\ w.op \notin Creates /\ w.op = "final"
      /\ UNCHANGED <<server, cancels>> /\ work' = work \ {w}
  BY DEF Settle, Own, Creates
<1>2. /\ (\A v \in Live : v.op \notin Creates) /\ w.id = view.searchId /\ w.id \in Searches
      /\ w.id # None /\ TypeOK /\ w.end \in Ends /\ server[w.id].end = w.end
      /\ w.answer = w.id
  BY <1>1, OwnCall DEF Carries
<1>3. Aside
  BY <1>1, <1>2, FaultIs, FaultyIs DEF Settle, Aside
<1>4. PICK end \in Ends : server[w.id].end = end /\ view' = Reveal(view, end, w.id)
  <2>1. CASE view' = Reveal(view, w.end, w.answer)
    BY <1>2, <2>1
  <2>2. CASE \E k : StatusAt(w.id, k) \in Ends /\ view' = Reveal(view, StatusAt(w.id, k), w.id)
    BY <1>2, <2>2, StatusIs
  <2> QED
    BY <2>1, <2>2 DEF Settle
<1>5. Shows /\ view'.searchId = view.searchId /\ view'.generation = view.generation
  BY <1>2, <1>4, RevealShows
<1>6. \A v \in work' : Kept(v)
  BY <1>1, SubsetKept
<1> QED
  BY <1>2, <1>3, <1>5, <1>6, LoopTruth

\* A poll answers with the end of the search on view.
LEMMA PollReplyTruth ==
  ASSUME ClientInv, TruthInv, NEW w \in work, PollReply(w)
  PROVE  TruthInv' /\ Settled
<1> DEFINE next == [w EXCEPT !.fails = 0, !.at = server[w.id].rows]
<1>1. /\ w.gen = view.generation /\ w.op \notin Creates
      /\ UNCHANGED <<server, sent, cancels, spent>>
  BY DEF PollReply, Own, Creates
<1>2. /\ (\A v \in Live : v.op \notin Creates) /\ w.id = view.searchId /\ w.id \in Searches
      /\ w.id # None /\ TypeOK /\ w \in Calls /\ server[w.id].rows \in Nat
  BY <1>1, OwnCall DEF TypeOK
<1>3. CASE \E k : /\ StatusAt(w.id, k) \in Ends
                  /\ view' = Reveal(view, StatusAt(w.id, k), w.id)
                  /\ work' = Teardown(work \ {w})
  BY <1>1, <1>3, AnswerTruth
<1>4. CASE view' = [view EXCEPT !.status = "RUNNING"] /\ work' = (work \ {w}) \cup {next}
  <2>1. 0 \in 0..(PollBudget - 1)
    BY ClientAssumption
  <2>2. Alike(next, w)
    BY <1>2, <2>1, TickIs
  <2> HIDE DEF next
  <2>3. \A v \in work' : Kept(v)
    BY <1>4, <2>2, SubsetKept DEF Kept
  <2> QED
    BY <1>1, <1>2, <1>4, <2>3, NothingShown, LoopTruth DEF Aside
<1> QED
  BY <1>3, <1>4 DEF PollReply

\* A failed poll goes on for its own search.
LEMMA PollFailsTruth ==
  ASSUME ClientInv, TruthInv, NEW w \in work, PollFails(w)
  PROVE  TruthInv' /\ Settled
<1> DEFINE next == [w EXCEPT !.fails = @ + 1, !.at = server[w.id].rows]
<1>1. /\ w.gen = view.generation /\ w.op \notin Creates
      /\ UNCHANGED <<server, cancels>> /\ (Fault \/ UNCHANGED spent)
  BY FaultyIs DEF PollFails, Own, Creates
<1>2. /\ (\A v \in Live : v.op \notin Creates) /\ w.id = view.searchId /\ w.id \in Searches
      /\ w.id # None /\ TypeOK /\ w \in Calls /\ server[w.id].rows \in Nat
  BY <1>1, OwnCall DEF TypeOK
<1>3. CASE view' = Fail(view) /\ work' = work \ {w}
  BY <1>1, <1>3, FallBackTruth
<1>4. CASE w.fails + 1 < PollBudget /\ UNCHANGED view /\ work' = (work \ {w}) \cup {next}
  <2>1. w.fails + 1 \in 0..(PollBudget - 1)
    BY <1>2, <1>4, ClientAssumption DEF Calls
  <2>2. Alike(next, w)
    BY <1>2, <2>1, TickIs
  <2> HIDE DEF next
  <2>3. \A v \in work' : Kept(v)
    BY <1>4, <2>2, SubsetKept DEF Kept
  <2>4. Aside
    BY <1>1, <1>2, FaultIs DEF Aside
  <2> QED
    BY <1>2, <1>4, <2>3, <2>4, NothingShown, LoopTruth
<1> QED
  BY <1>3, <1>4 DEF PollFails

\* What the fence drops is nothing to the view.
LEMMA IgnoredTruth ==
  ASSUME ClientInv, TruthInv, NEW w \in work, Ignored(w)
  PROVE  TruthInv' /\ UNCHANGED <<server, sent, view, cancels, spent>> /\ Live' = Live
<1>1. /\ UNCHANGED <<server, sent, view, cancels, spent>>
      /\ (\A v \in work' : Kept(v)) /\ Live' = Live
  BY IgnoredIs
<1>2. \A v \in work' : v.gen <= view'.generation
  BY <1>1 DEF Kept, Alike, TruthInv
<1>3. \A v \in Live' : v.op \notin Creates => Carries(v)'
  BY <1>1 DEF TruthInv, Carries
<1> QED
  BY <1>1, <1>2, <1>3 DEF TruthInv, ShownEndIsTrue, EndComesWithAnswer, Exists

\* A press is counted, fences what runs, and its cancel is of the search on view.
LEMMA PressTruth ==
  ASSUME ClientInv, TruthInv, PressCancel \/ PressAgain
  PROVE  TruthInv' /\ Live' = {} /\ spent'.cancels > 0
<1>1. /\ view'.screen = view.screen /\ view'.searchId = view.searchId
      /\ view'.generation = view.generation + 1
      /\ UNCHANGED <<server, work>>
      /\ spent'.cancels = spent.cancels + 1 /\ spent.cancels \in Nat
      /\ \A c \in cancels' : c \in cancels \/ c.id = view.searchId
  BY PressIs
<1>2. view.generation \in Nat /\ \A v \in work : v.gen \in Nat /\ v.gen <= view.generation
  BY Typed DEF ClientInv, TruthInv, Calls, Views
<1>3. Live' = {} /\ \A v \in work' : v.gen <= view'.generation
  BY <1>1, <1>2 DEF Live
<1>4. /\ ShownEndIsTrue' /\ EndComesWithAnswer'
      /\ (view.searchId # None => Exists(view.searchId))'
  BY <1>1 DEF TruthInv, ShownEndIsTrue, EndComesWithAnswer, Exists
<1> QED
  BY <1>1, <1>3, <1>4 DEF TruthInv

\* A cancel shows the end of the search it is of, which is the one on view.
LEMMA CancelTruth ==
  ASSUME ClientInv, TruthInv, NEW c \in cancels,
         CancelReply(c) \/ CancelFails(c) \/ ProbeReply(c) \/ ProbeFails(c)
  PROVE  /\ TruthInv' /\ Live' \subseteq Live /\ view'.searchId = view.searchId
         /\ UNCHANGED <<server, sent>> /\ spent'.cancels > 0
<1>1. /\ UNCHANGED <<server, sent>> /\ spent'.cancels = spent.cancels
      /\ work' \in SUBSET work /\ \A d \in cancels' : \E e \in cancels : d.id = e.id
      /\ \/ /\ \E end \in Ends : /\ server[c.id].end = end
                                 /\ view' = Reveal(view, end, None)
         \/ view' = [view EXCEPT !.canceling = FALSE, !.cancelError = TRUE]
         \/ UNCHANGED view
  BY CancelIs
<1>2. view \in Views /\ None \in Known /\ c.id \in Searches
  BY Typed DEF ClientInv, Known, Asked
<1>3. c.id = view.searchId /\ spent.cancels > 0 /\ view.searchId # None
  BY <1>2, ClientAssumption DEF TruthInv
<1>4. /\ view'.searchId = view.searchId /\ view'.generation = view.generation
      /\ \/ view'.screen = view.screen
         \/ view'.screen \in Ends /\ server[view.searchId].end = view'.screen
  <2>1. CASE \E end \in Ends : server[c.id].end = end /\ view' = Reveal(view, end, None)
    <3>1. PICK end \in Ends : server[c.id].end = end /\ view' = Reveal(view, end, None)
      BY <2>1
    <3>2. /\ Reveal(view, end, None).screen = end
          /\ Reveal(view, end, None).searchId = view.searchId
          /\ Reveal(view, end, None).generation = view.generation
      BY <1>2, RevealIs
    <3> QED
      BY <1>3, <3>1, <3>2
  <2>2. CASE view' = [view EXCEPT !.canceling = FALSE, !.cancelError = TRUE]
    BY <1>2, <2>2 DEF Views
  <2> QED
    BY <1>1, <2>1, <2>2
<1>5. /\ Live' \subseteq Live /\ \A v \in work' : v.gen <= view'.generation
      /\ \A w \in Live : w.op \notin Creates
  BY <1>1, <1>4 DEF TruthInv, Live
<1>6. \A v \in Live' : v.op \notin Creates /\ Carries(v)'
  BY <1>1, <1>4, <1>5 DEF TruthInv, Carries
<1>7. \A d \in cancels' : d.id = view'.searchId
  BY <1>1, <1>4 DEF TruthInv
<1>8. /\ ShownEndIsTrue' /\ EndComesWithAnswer'
      /\ (view.searchId # None => Exists(view.searchId))'
  <2>1. spent'.cancels # 0
    BY <1>1, <1>3
  <2> QED
    BY <1>1, <1>3, <1>4, <2>1 DEF TruthInv, ShownEndIsTrue, EndComesWithAnswer, Exists
<1> QED
  BY <1>1, <1>3, <1>4, <1>5, <1>6, <1>7, <1>8 DEF TruthInv

\* A callback keeps TruthInv, and no create is in flight after it unless it was before.
LEMMA CallbackTruth ==
  ASSUME ClientInv, TruthInv, NEW w \in work,
         \/ CreateReply(w) \/ Reconciled(w) \/ SubEvent(w) \/ Settle(w) \/ PollReply(w)
         \/ CreateFails(w) \/ ReconcileFails(w) \/ SubFails(w) \/ PollFails(w) \/ Ignored(w)
  PROVE  /\ TruthInv' /\ UNCHANGED <<server, sent>>
         /\ \/ Settled
            \/ CreateFails(w) /\ Live' = {} /\ w \in Live
            \/ UNCHANGED <<view, spent>> /\ Live' = Live
<1>1. UNCHANGED <<server, sent>>
  BY DEF CreateReply, Reconciled, SubEvent, Settle, PollReply, CreateFails, ReconcileFails,
         SubFails, PollFails, Ignored
<1>2. CASE \/ CreateReply(w) \/ Reconciled(w) \/ SubEvent(w) \/ Settle(w) \/ PollReply(w)
           \/ ReconcileFails(w) \/ SubFails(w) \/ PollFails(w)
  BY <1>1, <1>2, CreateReplyTruth, ReconciledTruth, SubEventTruth, SettleTruth,
     PollReplyTruth, ReconcileFailsTruth, SubFailsTruth, PollFailsTruth
<1>3. CASE CreateFails(w)
  BY <1>1, <1>3, CreateFailsTruth
<1>4. CASE Ignored(w)
  BY <1>1, <1>4, IgnoredTruth
<1> QED
  BY <1>2, <1>3, <1>4

\* Every calm step keeps TruthInv.
LEMMA StepTruth ==
  ASSUME ClientInv, TruthInv, [CalmNext]_vars
  PROVE  TruthInv'
<1>1. CASE UNCHANGED vars
  BY <1>1 DEF TruthInv, Carries, Exists, ShownEndIsTrue, EndComesWithAnswer, Live
<1>2. CASE ServerNext
  BY <1>2, ServerTruth
<1>3. CASE PressCancel \/ PressAgain
  BY <1>3, PressTruth
<1>4. CASE (\A w \in Live : w.op \notin Creates) /\ Resume
  BY <1>4, ResumeTruth
<1>5. CASE cancels = {} /\ \E x \in Searches : Start(x)
  BY <1>5, StartTruth
<1>6. CASE cancels = {} /\ work = {} /\ Reset
  BY <1>6, ResetTruth
<1>7. CASE Callbacks
  BY <1>7, CallbackTruth, CancelTruth DEF Callbacks
<1> QED
  BY <1>1, <1>2, <1>3, <1>4, <1>5, <1>6, <1>7 DEF CalmNext

LEMMA InitTruth == Init => TruthInv
<1> SUFFICES ASSUME Init PROVE TruthInv
  OBVIOUS
<1>1. view = Blank /\ work = {} /\ cancels = {}
  BY DEF Init
<1> QED
  BY <1>1 DEF TruthInv, ShownEndIsTrue, EndComesWithAnswer, Blank, Ends, Live

\* TruthInv holds in every state that a calm use reaches, for any number of searches.
THEOREM TruthInvariance == CalmSpec => []TruthInv
<1>1. CalmNext => Next
  BY DEF CalmNext, Next, User
<1>2. ClientInv /\ [CalmNext]_vars => ClientInv'
  BY <1>1, StepClientInv
<1>3. ClientInv /\ TruthInv /\ [CalmNext]_vars => TruthInv'
  BY StepTruth
<1> QED
  BY InitClientInv, InitTruth, <1>2, <1>3, PTL DEF CalmSpec

\* However many searches a user runs one after another, cancels, resumes and resets, the end
\* on screen is the one the search on view had, whichever of the feed, a poll, a get, a
\* cancel's echo and a probe came first, if the user waits for what the fence does not
\* cover: the create before a return to the foreground, the cancel before a start, and
\* everything before a reset.
THEOREM ShownEndsAreTrue == CalmSpec => []ShownEndIsTrue
<1>1. TruthInv => ShownEndIsTrue
  BY DEF TruthInv
<1> QED
  BY <1>1, TruthInvariance, PTL

\* Under the same use, and unless the user pressed cancel, a view that ended shows its end
\* with the answer of its own search, also when the re-read after the terminal event failed
\* or an earlier search had left its answer behind.
THEOREM EndsComeWithAnswers == CalmSpec => []EndComesWithAnswer
<1>1. TruthInv => EndComesWithAnswer
  BY DEF TruthInv
<1> QED
  BY <1>1, TruthInvariance, PTL

-----------------------------------------------------------------------------
(* One search, whose store is not reset, is used calmly whatever the user does *)

Single == MaxResets = 0 /\ \A x, y \in Searches : x = y

\* A create is in flight only before the search is on view.
SoleInv ==
  /\ \A x \in Searches : Exists(x) => x \in sent.create
  /\ (\E w \in Live : w.op \in Creates) => view.searchId = None

\* Once the one search is on view, nothing starts it again.
LEMMA NotAgain ==
  ASSUME Single, ClientInv, TruthInv, SoleInv, NEW x \in Searches, Start(x)
  PROVE  view.searchId = None /\ cancels = {}
<1>1. x \notin sent.create \/ view.searchId = None
  BY StartIs DEF ClientInv
<1>2. view.searchId # None => view.searchId = x /\ Exists(x)
  BY Typed DEF Single, ClientInv, TruthInv, Views, Known
<1>3. view.searchId = None
  BY <1>1, <1>2 DEF SoleInv
<1>4. \A c \in cancels : c.id \in Searches /\ c.id = None
  BY <1>3, Typed DEF ClientInv, TruthInv, Asked
<1> QED
  BY <1>3, <1>4, ClientAssumption

LEMMA SoleIsCalm ==
  ASSUME Single, ClientInv, TruthInv, SoleInv, [Next]_vars
  PROVE  [CalmNext]_vars
<1>1. ~Reset
  <2>1. spent.resets \in 0..MaxResets
    BY DEF ClientInv, TypeOK
  <2> QED
    BY <2>1 DEF Reset, Single
<1>2. Resume => \A w \in Live : w.op \notin Creates
  BY DEF Resume, SoleInv
<1>3. (\E x \in Searches : Start(x)) => cancels = {}
  BY NotAgain
<1> QED
  BY <1>1, <1>2, <1>3 DEF Next, User, CalmNext

\* Every step keeps SoleInv.
LEMMA StepSole ==
  ASSUME Single, ClientInv, TruthInv, SoleInv, [Next]_vars
  PROVE  SoleInv'
<1>1. CASE UNCHANGED vars
  BY <1>1 DEF SoleInv, Exists, Live
<1>2. CASE ServerNext
  <2>1. /\ UNCHANGED <<sent, view, work, cancels, spent>>
        /\ \A x \in Searches : Exists(x)' => Exists(x) \/ x \in sent.create
    BY <1>2, ServerTruth
  <2> QED
    BY <2>1 DEF SoleInv, Live
<1>3. CASE PressCancel \/ PressAgain
  <2>1. Live' = {} /\ UNCHANGED server /\ sent'.create = sent.create
    BY <1>3, PressTruth, PressIs
  <2> QED
    BY <2>1 DEF SoleInv, Exists
<1>4. CASE Resume
  <2>1. \A w \in Live : w.op \notin Creates
    BY <1>4 DEF Resume, SoleInv
  <2>2. Settled /\ UNCHANGED <<server, sent>>
    BY <1>4, <2>1, ResumeTruth DEF Resume
  <2> QED
    BY <2>2 DEF SoleInv, Settled, Exists
<1>5. CASE \E x \in Searches : Start(x)
  <2>1. PICK x \in Searches : Start(x)
    BY <1>5
  <2>2. view.searchId = None
    BY <2>1, NotAgain
  <2>3. /\ view'.searchId = view.searchId
        /\ sent' = [sent EXCEPT !.create = @ \cup {x}] /\ UNCHANGED server
    BY <2>1, StartIs DEF ClientInv
  <2>4. sent.create \subseteq sent'.create
    BY <2>3 DEF ClientInv, TypeOK
  <2> QED
    BY <2>2, <2>3, <2>4 DEF SoleInv, Exists
<1>6. CASE Reset
  BY <1>6, ClientAssumption DEF Reset, Single, ClientInv, TypeOK
<1>7. CASE \E w \in work :
             \/ CreateReply(w) \/ Reconciled(w) \/ SubEvent(w) \/ Settle(w) \/ PollReply(w)
             \/ CreateFails(w) \/ ReconcileFails(w) \/ SubFails(w) \/ PollFails(w) \/ Ignored(w)
  <2>1. PICK w \in work :
             \/ CreateReply(w) \/ Reconciled(w) \/ SubEvent(w) \/ Settle(w) \/ PollReply(w)
             \/ CreateFails(w) \/ ReconcileFails(w) \/ SubFails(w) \/ PollFails(w) \/ Ignored(w)
    BY <1>7
  <2>2. /\ UNCHANGED <<server, sent>>
        /\ \/ Settled
           \/ CreateFails(w) /\ Live' = {} /\ w \in Live
           \/ UNCHANGED <<view, spent>> /\ Live' = Live
    BY <2>1, CallbackTruth
  <2>3. CASE Settled
    BY <2>2, <2>3 DEF SoleInv, Settled, Exists
  <2>4. CASE CreateFails(w) /\ Live' = {} /\ w \in Live
    BY <2>2, <2>4 DEF SoleInv, Exists
  <2>5. CASE UNCHANGED <<view, spent>> /\ Live' = Live
    BY <2>2, <2>5 DEF SoleInv, Exists
  <2> QED
    BY <2>2, <2>3, <2>4, <2>5
<1>8. CASE \E c \in cancels : CancelReply(c) \/ CancelFails(c) \/ ProbeReply(c) \/ ProbeFails(c)
  <2>1. /\ Live' \subseteq Live /\ view'.searchId = view.searchId
        /\ UNCHANGED <<server, sent>>
    BY <1>8, CancelTruth
  <2> QED
    BY <2>1 DEF SoleInv, Exists
<1> QED
  BY <1>1, <1>2, <1>3, <1>4, <1>5, <1>6, <1>7, <1>8 DEF Next, User, Callbacks

\* With one search and no reset, every step is calm and keeps both invariants.
THEOREM SoleInvariance ==
  ASSUME Single
  PROVE  Spec => [](TruthInv /\ SoleInv)
<1>1. Init => SoleInv
  <2> SUFFICES ASSUME Init PROVE SoleInv
    OBVIOUS
  <2>1. view = Blank /\ work = {} /\ \A x \in Searches : ~Exists(x)
    BY DEF Init, Exists
  <2> QED
    BY <2>1 DEF SoleInv, Blank, Live
<1>2. ClientInv /\ TruthInv /\ SoleInv /\ [Next]_vars => TruthInv' /\ SoleInv'
  BY SoleIsCalm, StepTruth, StepSole
<1> QED
  BY InitTruth, <1>1, <1>2, ClientInvariance, PTL DEF Spec

\* However often the user starts, cancels and resumes it, and whenever, the end on screen
\* is the one that the search had, and without a cancel it comes with its answer.
THEOREM SoleEndIsTrue ==
  ASSUME Single
  PROVE  Spec => [](ShownEndIsTrue /\ EndComesWithAnswer)
<1>1. TruthInv => ShownEndIsTrue /\ EndComesWithAnswer
  BY DEF TruthInv
<1>2. Spec => [](TruthInv /\ SoleInv)
  BY SoleInvariance
<1> QED
  BY <1>1, <1>2, PTL
=============================================================================
