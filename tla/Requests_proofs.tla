-------------------------- MODULE Requests_proofs --------------------------
(***************************************************************************)
(* Proofs about the requests of the proxy: what the registry of them       *)
(* promises its handlers and tabs, for any number of both, any ring and    *)
(* any number of requests (Registry); what one turn of an Anthropic client *)
(* is answered, for any stream of chunks, and what its conversation is     *)
(* sent to the engine as, for any length of it (AnthropicMessages).  The   *)
(* registry row of AnthropicMessages is one of Registry's, seen from its   *)
(* handler; the two share no variable.                                     *)
(***************************************************************************)
EXTENDS Registry, AnthropicMessages, FiniteSetTheorems, SequenceTheorems, TLAPS

---------------------------------------------------------------------------
(* Registry *)

\* The part of the types that the arguments below need.
Shapes ==
    /\ seq \in Nat
    /\ pc \in [Handlers -> {"idle", "minted", "running", "answered"}]
    /\ id \in [Handlers -> Nat]
    /\ owes \in [Handlers -> BOOLEAN]
    /\ tab \in [Tabs -> {"closed", "fetched", "waiting", "snap"}]
    /\ signal \in [Tabs -> BOOLEAN]
    /\ view = [t \in Tabs |-> view[t]] /\ since = [t \in Tabs |-> since[t]]

\* The inductive form of QuietIsFresh: a waiting tab that shows older rows, while
\* something has changed since it subscribed, has a signal in its channel or a
\* handler that is about to notify.
FreshOrTold ==
    \A t \in Tabs :
        tab[t] = "waiting" =>
            \/ view[t] = Rows
            \/ since[t] = Rows
            \/ signal[t]
            \/ \E h \in Handlers : Changing(h)

FeedInv == Shapes /\ FreshOrTold

Running == {g \in Handlers : pc[g] \in {"running", "answered"}}

\* An id in use is no larger than the counter, so the next one is new.
IdsMinted == \A h \in Handlers : pc[h] # "idle" => id[h] <= seq

RowsInv == Shapes /\ LiveIsRunning /\ IdsMinted

---------------------------------------------------------------------------

LEMMA InitShapes == Init => Shapes
<1> SUFFICES ASSUME Init PROVE Shapes
  OBVIOUS
<1>1. /\ pc \in [Handlers -> {"idle", "minted", "running", "answered"}]
      /\ tab \in [Tabs -> {"closed", "fetched", "waiting", "snap"}]
  BY DEF Init
<1>2. seq \in Nat /\ id \in [Handlers -> Nat]
  BY DEF Init
<1>3. owes \in [Handlers -> BOOLEAN] /\ signal \in [Tabs -> BOOLEAN]
  BY DEF Init
<1>4. view = [t \in Tabs |-> view[t]] /\ since = [t \in Tabs |-> since[t]]
  BY DEF Init
<1> QED
  BY <1>1, <1>2, <1>3, <1>4 DEF Shapes

LEMMA StepShapes == Shapes /\ [Next]_vars => Shapes'
<1> SUFFICES ASSUME Shapes, [Next]_vars PROVE Shapes'
  OBVIOUS
<1> USE DEF Shapes
<1>1. ASSUME NEW h \in Handlers, Handler(h) PROVE Shapes'
  <2>1. CASE NextID(h)
    BY <2>1, <1>1 DEF NextID, At, Goto, tabVars
  <2>2. CASE Add(h)
    BY <2>2 DEF Add, At, Goto, Owe, tabVars
  <2>3. CASE Update(h)
    BY <2>3 DEF Update, At, Owe, tabVars
  <2>4. CASE AnswerJSON(h)
    BY <2>4 DEF AnswerJSON, At, Goto, tabVars
  <2>5. CASE Finish(h)
    BY <2>5 DEF Finish, At, Goto, Owe, tabVars
  <2>6. CASE Notify(h)
    BY <2>6 DEF Notify, regVars
  <2> QED
    BY <1>1, <2>1, <2>2, <2>3, <2>4, <2>5, <2>6 DEF Handler
<1>2. ASSUME NEW t \in Tabs, Tab(t) PROVE Shapes'
  <2>1. view' = [u \in Tabs |-> view'[u]] /\ since' = [u \in Tabs |-> since'[u]]
    BY <1>2 DEF Tab, Fetch, Subscribe, Receive, Snapshot, Unsubscribe
  <2>2. CASE Fetch(t) \/ Unsubscribe(t) \/ Receive(t)
    BY <2>1, <2>2 DEF Fetch, Unsubscribe, Receive, handlerVars, regVars
  <2>3. CASE Subscribe(t) \/ Snapshot(t)
    BY <2>1, <2>3 DEF Subscribe, Snapshot, handlerVars, regVars
  <2> QED
    BY <1>2, <2>2, <2>3 DEF Tab
<1>3. CASE UNCHANGED vars
  BY <1>3 DEF vars
<1> QED
  BY <1>1, <1>2, <1>3 DEF Next

LEMMA ShapesHold == Spec => []Shapes
  BY InitShapes, StepShapes, PTL DEF Spec

---------------------------------------------------------------------------
(* No change is lost *)

\* A handler that has just changed a row is Changing.
LEMMA ChangeIsOwed ==
    ASSUME Shapes, NEW h \in Handlers, Handler(h), ~Notify(h)
    PROVE  /\ UNCHANGED tabVars
           /\ Rows' = Rows \/ Changing(h)'
           /\ \A g \in Handlers : Changing(g) => Changing(g)'
<1> USE DEF Shapes
<1>1. CASE NextID(h)
  <2>1. \A g \in Handlers : Changing(g) => Changing(g)'
    BY <1>1 DEF NextID, At, Goto, Changing
  <2> QED
    BY <1>1, <2>1 DEF NextID, Rows
<1>2. CASE Add(h) \/ Update(h) \/ Finish(h)
  <2>1. owes' = [owes EXCEPT ![h] = TRUE] /\ UNCHANGED tabVars
    BY <1>2 DEF Add, Update, Finish, Owe
  <2>2. Changing(h)'
    BY <2>1 DEF Changing
  <2>3. ASSUME NEW g \in Handlers, g # h, Changing(g) PROVE Changing(g)'
    BY <1>2, <2>1, <2>3 DEF Changing, Add, Update, Finish, Goto
  <2> QED
    BY <2>1, <2>2, <2>3
<1>3. CASE AnswerJSON(h)
  <2>1. pc' = [pc EXCEPT ![h] = "answered"] /\ owes' = owes /\ UNCHANGED tabVars
    BY <1>3 DEF AnswerJSON, Goto
  <2> QED
    BY <2>1 DEF Changing
<1> QED
  BY <1>1, <1>2, <1>3 DEF Handler

LEMMA StepFresh == FeedInv /\ [Next]_vars => FeedInv'
<1> SUFFICES ASSUME FeedInv, [Next]_vars PROVE FeedInv'
  OBVIOUS
<1>0. Shapes /\ Shapes' /\ FreshOrTold
  BY StepShapes DEF FeedInv
<1>1. ASSUME NEW h \in Handlers, Handler(h), ~Notify(h) PROVE FreshOrTold'
  <2>1. /\ UNCHANGED tabVars
        /\ Rows' = Rows \/ Changing(h)'
        /\ \A g \in Handlers : Changing(g) => Changing(g)'
    BY <1>0, <1>1, ChangeIsOwed
  <2> QED
    BY <1>0, <2>1 DEF FreshOrTold, tabVars
<1>2. ASSUME NEW h \in Handlers, Notify(h) PROVE FreshOrTold'
  <2>1. \A t \in Tabs : tab'[t] = "waiting" => signal'[t]
    BY <1>0, <1>2 DEF Notify, Shapes
  <2> QED
    BY <2>1 DEF FreshOrTold
<1>3. ASSUME NEW t \in Tabs, Tab(t) PROVE FreshOrTold'
  <2>1. UNCHANGED handlerVars
    BY <1>3 DEF Tab, Fetch, Subscribe, Receive, Snapshot, Unsubscribe
  <2>2. Rows' = Rows /\ \A h \in Handlers : Changing(h)' <=> Changing(h)
    BY <2>1 DEF Rows, Changing, handlerVars, regVars
  <2>3. \A u \in Tabs \ {t} : /\ tab'[u] = tab[u] /\ signal'[u] = signal[u]
                            /\ view'[u] = view[u] /\ since'[u] = since[u]
    BY <1>0, <1>3 DEF Shapes, Tab, Fetch, Subscribe, Receive, Snapshot, Unsubscribe
  <2>4. tab'[t] = "waiting" => view'[t] = Rows \/ since'[t] = Rows
    BY <1>0, <1>3 DEF Shapes, Tab, Fetch, Subscribe, Receive, Snapshot, Unsubscribe
  <2> QED
    BY <1>0, <2>2, <2>3, <2>4 DEF FreshOrTold
<1>4. ASSUME UNCHANGED vars PROVE FreshOrTold'
  BY <1>0, <1>4 DEF FreshOrTold, vars, Rows, Changing
<1>5. FreshOrTold'
  BY <1>1, <1>2, <1>3, <1>4, Zenon DEF Next
<1> QED
  BY <1>0, <1>5 DEF FeedInv

\* Registry.notify after every change: for any handlers and tabs, a tab whose
\* channel is empty while no handler is about to notify shows the current rows, or
\* nothing has changed since it subscribed.
THEOREM NoChangeLost == Spec => []QuietIsFresh
<1>1. Init => FeedInv
  BY InitShapes DEF Init, FeedInv, FreshOrTold, Shapes
<1>2. FeedInv => QuietIsFresh
  BY DEF FeedInv, FreshOrTold, QuietIsFresh, Quiet
<1> QED
  BY <1>1, <1>2, StepFresh, PTL DEF Spec

---------------------------------------------------------------------------
(* Live rows *)

LEMMA StepRows == RowsInv /\ [Next]_vars => RowsInv'
<1> SUFFICES ASSUME RowsInv, [Next]_vars PROVE RowsInv'
  OBVIOUS
<1>0. Shapes /\ Shapes' /\ LiveIsRunning /\ IdsMinted
  BY StepShapes DEF RowsInv
<1> USE DEF Shapes
<1>1. ASSUME NEW h \in Handlers, NextID(h) PROVE LiveIsRunning' /\ IdsMinted'
  <2>1. /\ seq' = seq + 1 /\ id' = [id EXCEPT ![h] = seq + 1]
        /\ pc' = [pc EXCEPT ![h] = "minted"] /\ live' = live /\ pc[h] = "idle"
    BY <1>1 DEF NextID, At, Goto
  <2>2. IdsMinted'
    BY <1>0, <2>1 DEF IdsMinted
  <2>3. \A g \in Handlers \ {h} : pc'[g] # "idle" => id'[g] # id'[h]
    BY <1>0, <2>1 DEF IdsMinted
  <2>4. \A f, g \in Handlers \ {h} : f # g /\ pc'[f] # "idle" /\ pc'[g] # "idle" => id'[f] # id'[g]
    BY <1>0, <2>1 DEF LiveIsRunning
  <2>5. DOMAIN live' = {id'[g] : g \in Running'}
    <3>1. Running' = Running
      BY <1>0, <2>1 DEF Running
    <3>2. \A g \in Running : id'[g] = id[g]
      BY <1>0, <2>1 DEF Running
    <3> QED
      BY <1>0, <2>1, <3>1, <3>2 DEF LiveIsRunning, Running
  <2> QED
    BY <2>2, <2>3, <2>4, <2>5 DEF LiveIsRunning, Running
<1>2. ASSUME NEW h \in Handlers, Add(h) PROVE LiveIsRunning' /\ IdsMinted'
  <2>1. /\ pc[h] = "minted" /\ pc' = [pc EXCEPT ![h] = "running"]
        /\ id' = id /\ seq' = seq /\ DOMAIN live' = DOMAIN live \cup {id[h]}
    BY <1>2 DEF Add, At, Goto
  <2>2. Running' = Running \cup {h}
    BY <1>0, <2>1 DEF Running
  <2>3. DOMAIN live' = {id'[g] : g \in Running'}
    BY <1>0, <2>1, <2>2 DEF LiveIsRunning, Running
  <2> QED
    BY <1>0, <2>1, <2>3 DEF LiveIsRunning, IdsMinted, Running
<1>3. ASSUME NEW h \in Handlers, Update(h) \/ AnswerJSON(h) PROVE LiveIsRunning' /\ IdsMinted'
  <2>1. DOMAIN live' = DOMAIN live /\ id' = id /\ seq' = seq
    BY <1>3 DEF Update, AnswerJSON
  <2>2. Running' = Running /\ \A g \in Handlers : pc'[g] # "idle" <=> pc[g] # "idle"
    BY <1>0, <1>3 DEF Running, Update, AnswerJSON, At, Goto
  <2> QED
    BY <1>0, <2>1, <2>2 DEF LiveIsRunning, IdsMinted, Running
<1>4. ASSUME NEW h \in Handlers, Finish(h) PROVE LiveIsRunning' /\ IdsMinted'
  <2>1. /\ h \in Running /\ pc' = [pc EXCEPT ![h] = "idle"]
        /\ id' = id /\ seq' = seq /\ DOMAIN live' = DOMAIN live \ {id[h]}
    BY <1>4 DEF Finish, At, Goto, Running
  <2>2. Running' = Running \ {h}
    BY <1>0, <2>1 DEF Running
  <2>3. \A g \in Running \ {h} : id[g] # id[h]
    BY <1>0, <2>1 DEF LiveIsRunning, Running
  <2>4. DOMAIN live' = {id'[g] : g \in Running'}
    BY <1>0, <2>1, <2>2, <2>3 DEF LiveIsRunning, Running
  <2> QED
    BY <1>0, <2>1, <2>4 DEF LiveIsRunning, IdsMinted, Running
<1>5. ASSUME \/ \E h \in Handlers : Notify(h)
             \/ \E t \in Tabs : Tab(t)
             \/ UNCHANGED vars
      PROVE  LiveIsRunning' /\ IdsMinted'
  <2>1. UNCHANGED <<seq, live, pc, id>>
    BY <1>5 DEF Notify, regVars, vars, Tab, Fetch, Subscribe, Receive, Snapshot, Unsubscribe, handlerVars
  <2> QED
    BY <1>0, <2>1 DEF LiveIsRunning, IdsMinted
<1> QED
  BY <1>0, <1>1, <1>2, <1>3, <1>4, <1>5 DEF Next, Handler, RowsInv

\* Registry.NextID and Add run under two separate locks, Finish under a third: for
\* any number of handlers no two share an id, and the live map holds exactly the
\* requests that are being served.
THEOREM LiveRowsAreRequests == Spec => []LiveIsRunning
<1>1. Init => RowsInv
  <2> SUFFICES ASSUME Init PROVE RowsInv
    OBVIOUS
  <2>1. DOMAIN live = {} /\ \A h \in Handlers : pc[h] = "idle"
    BY DEF Init
  <2> QED
    BY <2>1, InitShapes DEF RowsInv, LiveIsRunning, IdsMinted
<1>2. RowsInv => LiveIsRunning
  BY DEF RowsInv
<1> QED
  BY <1>1, <1>2, StepRows, PTL DEF Spec

---------------------------------------------------------------------------
(* The ring *)

AnyRow == [id : Nat, phase : {"prefill", "decoding", "done"}, tokens : Nat]

\* Each live row carries the id it is kept under.
Named == \A i \in DOMAIN live : live[i] \in AnyRow /\ live[i].id = i

RingShapes == done \in Seq(AnyRow) /\ finished \in Seq(Nat)

RingInv == Shapes /\ Named /\ RingShapes /\ RingHoldsNewest

LEMMA RingMoves ==
    ASSUME RingShapes, RingHoldsNewest, NEW r \in AnyRow,
           done' = Trim(Append(done, r)), finished' = Append(finished, r.id)
    PROVE  RingShapes' /\ RingHoldsNewest'
<1> DEFINE all == Append(done, r)
           f == Append(finished, r.id)
           kept == IF Len(finished) < Cap THEN Len(finished) ELSE Cap
<1>1. /\ Cap \in Nat /\ Cap > 0 /\ Len(finished) \in Nat
      /\ Len(done) = kept /\ \A k \in 1..kept : done[k].id = finished[Len(finished) - kept + k]
  <2>1. Cap \in Nat /\ Cap > 0 /\ Len(finished) \in Nat
    BY CapAssumption DEF RingShapes
  <2> QED
    BY <2>1 DEF RingHoldsNewest
<1>2. r.id \in Nat
  BY DEF AnyRow
<1>3. /\ f \in Seq(Nat) /\ Len(f) = Len(finished) + 1 /\ f[Len(finished) + 1] = r.id
      /\ \A k \in 1..Len(finished) : f[k] = finished[k]
  BY <1>2 DEF RingShapes
<1>4. /\ all \in Seq(AnyRow) /\ Len(all) = kept + 1 /\ all[kept + 1] = r
      /\ \A k \in 1..kept : all[k] = done[k]
  BY <1>1 DEF RingShapes
<1>5. kept \in Nat /\ kept <= Len(finished)
  BY <1>1
<1>9. done' = Trim(all) /\ finished' = f
  OBVIOUS
<1> HIDE DEF all, f
<1>6. \A k \in 1..(kept + 1) : all[k].id = f[Len(f) - (kept + 1) + k]
  <2> SUFFICES ASSUME NEW k \in 1..(kept + 1) PROVE all[k].id = f[Len(f) - (kept + 1) + k]
    OBVIOUS
  <2> HIDE DEF kept
  <2>1. CASE k = kept + 1
    BY <1>1, <1>3, <1>4, <1>5, <2>1
  <2>2. CASE k <= kept
    <3>1. Len(finished) - kept + k \in 1..Len(finished) /\ k \in 1..kept
      BY <1>1, <1>5, <2>2
    <3>2. Len(f) - (kept + 1) + k = Len(finished) - kept + k
      BY <1>1, <1>3, <1>5, <2>2
    <3>3. all[k] = done[k] /\ done[k].id = finished[Len(finished) - kept + k]
      BY <1>1, <1>4, <3>1, Zenon DEF kept
    <3>4. f[Len(finished) - kept + k] = finished[Len(finished) - kept + k]
      BY <1>3, <3>1, Zenon
    <3> QED
      BY <3>2, <3>3, <3>4, Zenon
  <2>3. k = kept + 1 \/ k <= kept
    BY <1>5
  <2> QED
    BY <2>1, <2>2, <2>3, Zenon
<1>7. CASE Len(finished) < Cap
  <2>1. kept = Len(finished) /\ Len(all) <= Cap /\ Len(f) <= Cap
    BY <1>1, <1>3, <1>4, <1>7
  <2>2. done' = all
    <3>1. Len(all) \in Nat /\ ~(Len(all) > Cap)
      BY <1>1, <1>4, <2>1
    <3> QED
      BY <1>9, <3>1, Zenon DEF Trim
  <2>3. Len(f) = kept + 1 /\ (IF Len(f) < Cap THEN Len(f) ELSE Cap) = kept + 1
    BY <1>1, <1>3, <2>1
  <2>4. finished' = f
    BY <1>9
  <2> QED
    BY <1>3, <1>4, <1>6, <2>2, <2>3, <2>4 DEF RingShapes, RingHoldsNewest
<1>8. CASE ~(Len(finished) < Cap)
  <2>1. kept = Cap /\ Len(all) = Cap + 1 /\ Len(all) > Cap /\ Len(all) - Cap + 1 = 2
    BY <1>1, <1>4, <1>8
  <2>2. done' = SubSeq(all, 2, Cap + 1)
    BY <1>4, <1>9, <2>1 DEF Trim
  <2>3. /\ SubSeq(all, 2, Cap + 1) \in Seq(AnyRow) /\ Len(SubSeq(all, 2, Cap + 1)) = Cap
        /\ \A k \in 1..Cap : SubSeq(all, 2, Cap + 1)[k] = all[k + 1]
    <3>0. all \in Seq(AnyRow) /\ Len(all) = Cap + 1 /\ Cap \in Nat
      BY <1>1, <1>4, <2>1
    <3> HIDE DEF kept
    <3>1. SubSeq(all, 2, Cap + 1) = [k \in 1..Cap |-> all[k + 1]]
      BY <3>0
    <3>2. \A k \in 1..Cap : k + 1 \in 1..Len(all)
      BY <1>1, <2>1
    <3>3. \A k \in 1..Cap : all[k + 1] \in AnyRow
      BY <3>0, <3>2
    <3> QED
      BY <3>0, <3>1, <3>3
  <2>4. finished' = f /\ ~(Len(f) < Cap)
    BY <1>1, <1>3, <1>8, <1>9
  <2>5. \A k \in 1..Cap : all[k + 1].id = f[Len(f) - Cap + k]
    <3> SUFFICES ASSUME NEW k \in 1..Cap PROVE all[k + 1].id = f[Len(f) - Cap + k]
      OBVIOUS
    <3>1. kept + 1 = Cap + 1 /\ Cap \in Nat /\ Len(f) \in Nat
      BY <1>1, <1>3, <2>1
    <3>2. \A i \in 1..(Cap + 1) : all[i].id = f[Len(f) - (Cap + 1) + i]
      BY <1>6, <3>1, Zenon
    <3>3. k + 1 \in 1..(Cap + 1) /\ Len(f) - (Cap + 1) + (k + 1) = Len(f) - Cap + k
      BY <3>1
    <3> QED
      BY <3>2, <3>3
  <2> QED
    BY <1>3, <2>2, <2>3, <2>4, <2>5 DEF RingShapes, RingHoldsNewest
<1> QED
  BY <1>7, <1>8

LEMMA StepRing == RingInv /\ [Next]_vars => RingInv'
<1> SUFFICES ASSUME RingInv, [Next]_vars PROVE RingInv'
  OBVIOUS
<1>0. Shapes /\ Shapes' /\ Named /\ RingShapes /\ RingHoldsNewest
  BY StepShapes DEF RingInv
<1>1. ASSUME NEW h \in Handlers, Add(h) PROVE RingInv'
  <2>1. /\ DOMAIN live' = DOMAIN live \cup {id[h]} /\ UNCHANGED <<done, finished>>
        /\ \A i \in DOMAIN live' : live'[i] = IF i = id[h] THEN [id |-> i, phase |-> "prefill", tokens |-> 0] ELSE live[i]
    BY <1>1 DEF Add
  <2>2. id[h] \in Nat
    BY <1>0 DEF Shapes
  <2>3. \A i \in Nat : [id |-> i, phase |-> "prefill", tokens |-> 0] \in AnyRow
    BY DEF AnyRow
  <2>4. ASSUME NEW i \in DOMAIN live' PROVE live'[i] \in AnyRow /\ live'[i].id = i
    <3>1. CASE i = id[h]
      <4>1. live'[i] = [id |-> i, phase |-> "prefill", tokens |-> 0]
        BY <2>1, <3>1
      <4> QED
        BY <2>2, <2>3, <3>1, <4>1
    <3>2. CASE i # id[h]
      BY <1>0, <2>1, <3>2 DEF Named
    <3> QED
      BY <3>1, <3>2
  <2>5. Named'
    BY <2>4 DEF Named
  <2> QED
    BY <1>0, <2>1, <2>5 DEF RingInv, RingShapes, RingHoldsNewest
<1>2. ASSUME NEW h \in Handlers, Update(h) \/ AnswerJSON(h) PROVE RingInv'
  <2>1. /\ id[h] \in DOMAIN live /\ DOMAIN live' = DOMAIN live /\ UNCHANGED <<done, finished>>
        /\ \A i \in DOMAIN live \ {id[h]} : live'[i] = live[i]
    BY <1>2 DEF Update, AnswerJSON
  <2> DEFINE old == live[id[h]]
  <2>2. old \in AnyRow /\ old.id = id[h]
    BY <1>0, <2>1 DEF Named
  <2>3. /\ old.phase \in {"prefill", "decoding", "done"} /\ old.tokens \in Nat
        /\ old = [id |-> id[h], phase |-> old.phase, tokens |-> old.tokens]
    BY <2>2 DEF AnyRow
  <2>4. live'[id[h]] \in AnyRow /\ live'[id[h]].id = id[h]
    <3>1. CASE Update(h)
      <4>1. live'[id[h]] = [old EXCEPT !.phase = "decoding", !.tokens = old.tokens + 1]
        BY <2>1, <3>1 DEF Update
      <4> HIDE DEF old
      <4> DEFINE decoding == [old EXCEPT !.phase = "decoding"]
      <4>2. decoding = [id |-> id[h], phase |-> "decoding", tokens |-> old.tokens]
        BY <2>3
      <4>3. live'[id[h]] = [decoding EXCEPT !.tokens = old.tokens + 1]
        BY <4>1
      <4> HIDE DEF decoding
      <4>4. live'[id[h]] = [id |-> id[h], phase |-> "decoding", tokens |-> old.tokens + 1]
        BY <4>2, <4>3
      <4> QED
        BY <1>0, <2>3, <4>4 DEF AnyRow, Shapes
    <3>2. CASE AnswerJSON(h)
      <4>1. live'[id[h]] = [old EXCEPT !.tokens = MaxTokens]
        BY <2>1, <3>2 DEF AnswerJSON
      <4> HIDE DEF old
      <4>2. live'[id[h]] = [id |-> id[h], phase |-> old.phase, tokens |-> MaxTokens]
        BY <2>3, <4>1
      <4> QED
        BY <1>0, <2>3, <4>2, BoundsAssumption DEF AnyRow, Shapes
    <3> QED
      BY <1>2, <3>1, <3>2
  <2>5. Named'
    BY <1>0, <2>1, <2>4 DEF Named
  <2> QED
    BY <1>0, <2>1, <2>5 DEF RingInv, RingShapes, RingHoldsNewest
<1>3. ASSUME NEW h \in Handlers, Finish(h) PROVE RingInv'
  <2> DEFINE old == [live[id[h]] EXCEPT !.phase = "done"]
  <2>1. /\ id[h] \in DOMAIN live /\ DOMAIN live' = DOMAIN live \ {id[h]}
        /\ \A i \in DOMAIN live' : live'[i] = live[i]
        /\ done' = Trim(Append(done, old)) /\ finished' = Append(finished, id[h])
    BY <1>3 DEF Finish
  <2>2. old \in AnyRow /\ old.id = id[h]
    BY <1>0, <2>1 DEF Named, AnyRow
  <2> HIDE DEF old
  <2>3. Named'
    BY <1>0, <2>1 DEF Named
  <2>4. RingShapes' /\ RingHoldsNewest'
    BY <1>0, <2>1, <2>2, RingMoves
  <2> QED
    BY <1>0, <2>3, <2>4 DEF RingInv
<1>4. ASSUME \/ \E h \in Handlers : NextID(h) \/ Notify(h)
             \/ \E t \in Tabs : Tab(t)
             \/ UNCHANGED vars
      PROVE  RingInv'
  <2>1. UNCHANGED <<live, done, finished>>
    BY <1>4 DEF NextID, Notify, regVars, vars, Tab, Fetch, Subscribe, Receive, Snapshot, Unsubscribe, handlerVars
  <2> QED
    BY <1>0, <2>1 DEF RingInv, Named, RingShapes, RingHoldsNewest
<1> QED
  BY <1>1, <1>2, <1>3, <1>4 DEF Next, Handler

\* Registry.Finish: for any capacity and any number of requests the ring holds the
\* newest finished ones, in the order they finished.
THEOREM NewestAreKept == Spec => []RingHoldsNewest
<1>1. Init => RingInv
  <2> SUFFICES ASSUME Init PROVE RingInv
    OBVIOUS
  <2>1. DOMAIN live = {} /\ done = << >> /\ finished = << >>
    BY DEF Init
  <2>2. RingShapes /\ Named
    BY <2>1 DEF RingShapes, Named
  <2>3. RingHoldsNewest
    BY <2>1, CapAssumption DEF RingHoldsNewest
  <2> QED
    BY <2>2, <2>3, InitShapes DEF RingInv
<1>2. RingInv => RingHoldsNewest
  BY DEF RingInv
<1> QED
  BY <1>1, <1>2, StepRing, PTL DEF Spec

---------------------------------------------------------------------------
(* AnthropicMessages: the events keep the protocol *)

Kinds == {"thinking", "text", "tool_use"}
Blocks == [type : Kinds \cup {"any"}, call : Calls \cup {NoCall}]
Events ==
    [ev : {"message_start", "ping", "error", "message_delta", "message_stop"}]
      \cup [ev : {"block_start", "block_stop", "block_delta"}, index : Int, block : Blocks]
Parsers ==
    [phase : {"none", "open", "stopping", "ended"}, blocks : Seq(Blocks), open : Int,
     late : BOOLEAN, broken : {FALSE}]
Streamers ==
    [idx : Nat, open : Kinds \cup {Closed}, cur : Ids \cup {NoId, Generated}, tool : [Calls -> Int]]
Steps == [s : Streamers, ev : Seq(Events)]

\* The events are accepted one after the other, and bring a parser from c to d.
Leads(c, events, d) ==
    \E run \in [0..Len(events) -> Parsers] :
        /\ run[0] = c /\ run[Len(events)] = d
        /\ \A i \in 1..Len(events) :
              Accepts(run[i - 1], events[i]) /\ run[i] = Parse(run[i - 1], events[i])

\* The parser has a block for each the streamer has numbered, the same one open, and
\* for each tool call the block that was noted.
Mirrors(c, st) ==
    /\ c.phase = "open" /\ Len(c.blocks) = st.idx
    /\ c.open = IF st.open = Closed THEN -1 ELSE st.idx - 1
    /\ st.open # Closed => st.idx > 0 /\ c.blocks[st.idx].type = st.open
    /\ st.open \in {"thinking", "text"} => c.blocks[st.idx] = Block(st.open, NoCall)
    /\ \A k \in Calls : /\ st.tool[k] \in -1..(st.idx - 1)
                        /\ st.tool[k] # -1 => c.blocks[st.tool[k] + 1] = Block("tool_use", k)

\* What is to be written brings the parser to where the streamer is.
Follows(c, x) == \E d \in Parsers : Leads(c, x.ev, d) /\ Mirrors(d, x.s)

ParserInv ==
    /\ client \in Parsers /\ unsent \in Seq(Events) /\ s \in Streamers
    /\ stage \in {"recv", "count", "dial", "json", "relay", "tail", "end", "closed"}
    /\ stage \in {"recv", "count", "dial", "json"} => client = Fresh /\ unsent = <<>> /\ s = NewStreamer
    /\ stage \in {"relay", "tail"} => Follows(client, Step(s, unsent))
    /\ stage = "end" => \E d \in Parsers : Leads(client, unsent, d) /\ d.phase = "ended"
    /\ stage = "closed" => unsent = <<>>

---------------------------------------------------------------------------
(* Runs of the parser *)

LEMMA LeadsNowhere == ASSUME NEW c \in Parsers PROVE Leads(c, <<>>, c)
<1> DEFINE run == [i \in 0..0 |-> c]
<1>1. run \in [0..Len(<<>>) -> Parsers] /\ run[0] = c /\ run[Len(<<>>)] = c
  OBVIOUS
<1>2. \A i \in 1..Len(<<>>) : FALSE
  OBVIOUS
<1> QED
  BY <1>1, <1>2, Zenon DEF Leads

LEMMA LeadsOn ==
    ASSUME NEW c, NEW events \in Seq(Events), NEW d \in Parsers, NEW e \in Events,
           Leads(c, events, d), Accepts(d, e), Parse(d, e) \in Parsers
    PROVE  Leads(c, Append(events, e), Parse(d, e))
<1> DEFINE n1 == Len(events) + 1
           all == Append(events, e)
<1>1. PICK run \in [0..Len(events) -> Parsers] :
        /\ run[0] = c /\ run[Len(events)] = d
        /\ \A i \in 1..Len(events) :
              Accepts(run[i - 1], events[i]) /\ run[i] = Parse(run[i - 1], events[i])
  BY Zenon DEF Leads
<1>2. /\ Len(events) \in Nat /\ Len(all) = n1 /\ all[n1] = e
      /\ \A i \in 1..Len(events) : all[i] = events[i]
  OBVIOUS
<1> HIDE DEF all
<1> DEFINE more == [i \in 0..n1 |-> IF i = n1 THEN Parse(d, e) ELSE run[i]]
<1>3. more \in [0..n1 -> Parsers]
  BY <1>2
<1>4. more[0] = c /\ more[n1] = Parse(d, e) /\ \A i \in 0..Len(events) : more[i] = run[i]
  BY <1>1, <1>2
<1> HIDE DEF more
<1>5. ASSUME NEW i \in 1..n1 PROVE Accepts(more[i - 1], all[i]) /\ more[i] = Parse(more[i - 1], all[i])
  <2>1. CASE i \in 1..Len(events)
    <3>1. more[i - 1] = run[i - 1] /\ more[i] = run[i] /\ all[i] = events[i]
      BY <1>2, <1>4, <2>1
    <3> QED
      BY <1>1, <2>1, <3>1, Zenon
  <2>2. CASE i = n1
    <3>1. more[i - 1] = d /\ more[i] = Parse(d, e) /\ all[i] = e
      BY <1>1, <1>2, <1>4, <2>2
    <3> QED
      BY <3>1, Zenon
  <2> QED
    BY <1>2, <2>1, <2>2
<1> QED
  BY <1>2, <1>3, <1>4, <1>5, Zenon DEF Leads, all

LEMMA LeadsFrom ==
    ASSUME NEW c, NEW events \in Seq(Events), NEW d, Leads(c, events, d), events # <<>>
    PROVE  LET next == Parse(c, Head(events))
           IN  next \in Parsers /\ Leads(next, Tail(events), d)
<1>1. PICK run \in [0..Len(events) -> Parsers] :
        /\ run[0] = c /\ run[Len(events)] = d
        /\ \A i \in 1..Len(events) :
              Accepts(run[i - 1], events[i]) /\ run[i] = Parse(run[i - 1], events[i])
  BY Zenon DEF Leads
<1> DEFINE rest == Tail(events)
           m == Len(events) - 1
<1>2. /\ m \in Nat /\ Len(events) = m + 1 /\ Len(rest) = m /\ Head(events) = events[1]
      /\ \A i \in 1..m : rest[i] = events[i + 1]
  OBVIOUS
<1> HIDE DEF rest, m
<1> DEFINE less == [i \in 0..m |-> run[i + 1]]
<1>3. less \in [0..m -> Parsers] /\ less[0] = run[1] /\ less[m] = d
  BY <1>1, <1>2
<1>4. run[1] = Parse(c, Head(events)) /\ run[1] \in Parsers
  <2>1. 1 \in 1..Len(events) /\ 1 \in 0..Len(events) /\ 1 - 1 = 0
    BY <1>2
  <2> QED
    BY <1>1, <1>2, <2>1
<1>5. ASSUME NEW i \in 1..m PROVE Accepts(less[i - 1], rest[i]) /\ less[i] = Parse(less[i - 1], rest[i])
  <2>1. less[i - 1] = run[i] /\ less[i] = run[i + 1] /\ rest[i] = events[i + 1]
    BY <1>2
  <2>2. i + 1 \in 1..Len(events) /\ (i + 1) - 1 = i
    BY <1>2
  <2>3. Accepts(run[i], events[i + 1]) /\ run[i + 1] = Parse(run[i], events[i + 1])
    BY <1>1, <2>2
  <2> QED
    BY <2>1, <2>3, Zenon
<1> HIDE DEF less
<1>6. Leads(run[1], rest, d)
  BY <1>2, <1>3, <1>5, Zenon DEF Leads
<1> QED
  BY <1>4, <1>6, Zenon DEF rest

---------------------------------------------------------------------------
(* Events *)

LEMMA ParserFields ==
    ASSUME NEW d \in Parsers
    PROVE  /\ d.broken = FALSE /\ d.blocks \in Seq(Blocks) /\ d.open \in Int /\ d.late \in BOOLEAN
           /\ d.phase \in {"none", "open", "stopping", "ended"}
BY DEF Parsers

LEMMA IsParser ==
    ASSUME NEW phase \in {"none", "open", "stopping", "ended"}, NEW blocks \in Seq(Blocks),
           NEW open \in Int, NEW late \in BOOLEAN
    PROVE  [phase |-> phase, blocks |-> blocks, open |-> open, late |-> late, broken |-> FALSE]
              \in Parsers
<1> DEFINE all == Seq(Blocks)
<1>1. blocks \in all
  OBVIOUS
<1> HIDE DEF all
<1>2. [phase |-> phase, blocks |-> blocks, open |-> open, late |-> late, broken |-> FALSE]
         \in [phase : {"none", "open", "stopping", "ended"}, blocks : all, open : Int,
              late : BOOLEAN, broken : {FALSE}]
  BY <1>1
<1> QED
  BY <1>2, Zenon DEF Parsers, all

LEMMA PlainEvents ==
    ASSUME NEW d \in Parsers, NEW ev \in {"message_start", "ping", "error", "message_delta", "message_stop"}
    PROVE  LET e == Event(ev)
           IN  /\ e \in Events
               /\ ev = "message_start" /\ d.phase = "none" =>
                     /\ Accepts(d, e) /\ Parse(d, e) = [d EXCEPT !.phase = "open"]
                     /\ Parse(d, e) \in Parsers
               /\ ev \in {"ping", "error"} /\ d.phase = "open" => Accepts(d, e) /\ Parse(d, e) = d
               /\ ev = "message_delta" /\ d.phase = "open" /\ d.open = -1 =>
                     /\ Accepts(d, e) /\ Parse(d, e) = [d EXCEPT !.phase = "stopping"]
                     /\ Parse(d, e) \in Parsers
               /\ ev = "message_stop" /\ d.phase = "stopping" =>
                     /\ Accepts(d, e) /\ Parse(d, e) = [d EXCEPT !.phase = "ended"]
                     /\ Parse(d, e) \in Parsers
<1> DEFINE e == Event(ev)
<1>1. e \in Events /\ e.ev = ev
  BY DEF Event, Events
<1> HIDE DEF e
<1>2. d.broken = FALSE
  BY ParserFields
<1>3. ASSUME ev = "message_start", d.phase = "none"
      PROVE  Accepts(d, e) /\ Parse(d, e) = [d EXCEPT !.phase = "open"] /\ Parse(d, e) \in Parsers
  <2>1. Accepts(d, e)
    BY <1>1, <1>3 DEF Accepts
  <2>2. Parse(d, e) = [d EXCEPT !.phase = "open"]
    BY <1>1, <1>2, <1>3, <2>1 DEF Parse
  <2> QED
    BY <2>1, <2>2 DEF Parsers
<1>4. ASSUME ev \in {"ping", "error"}, d.phase = "open" PROVE Accepts(d, e) /\ Parse(d, e) = d
  <2>1. Accepts(d, e)
    BY <1>1, <1>4 DEF Accepts
  <2> QED
    BY <1>1, <1>2, <1>4, <2>1 DEF Parse
<1>5. ASSUME ev = "message_delta", d.phase = "open", d.open = -1
      PROVE  Accepts(d, e) /\ Parse(d, e) = [d EXCEPT !.phase = "stopping"] /\ Parse(d, e) \in Parsers
  <2>1. Accepts(d, e)
    BY <1>1, <1>5 DEF Accepts
  <2>2. Parse(d, e) = [d EXCEPT !.phase = "stopping"]
    BY <1>1, <1>2, <1>5, <2>1 DEF Parse
  <2> QED
    BY <2>1, <2>2 DEF Parsers
<1>6. ASSUME ev = "message_stop", d.phase = "stopping"
      PROVE  Accepts(d, e) /\ Parse(d, e) = [d EXCEPT !.phase = "ended"] /\ Parse(d, e) \in Parsers
  <2>1. Accepts(d, e)
    BY <1>1, <1>6 DEF Accepts
  <2>2. Parse(d, e) = [d EXCEPT !.phase = "ended"]
    BY <1>1, <1>2, <1>6, <2>1 DEF Parse
  <2> QED
    BY <2>1, <2>2 DEF Parsers
<1> QED
  BY <1>1, <1>3, <1>4, <1>5, <1>6 DEF e

BlockEventIs(ev, k, x) ==
    LET e == BlockEvent(ev, k, x)
    IN  e \in Events /\ e.ev = ev /\ e.index = k /\ e.block = x

LEMMA BlockEvents ==
    ASSUME NEW k \in Int, NEW x \in Blocks
    PROVE  BlockEventIs("block_start", k, x) /\ BlockEventIs("block_stop", k, x)
               /\ BlockEventIs("block_delta", k, x)
BY DEF BlockEventIs, BlockEvent, Events

LEMMA StopAccepted ==
    ASSUME NEW d \in Parsers, NEW i \in Int, NEW b \in Blocks, d.open = i
    PROVE  LET e == BlockEvent("block_stop", i, b)
           IN  /\ e \in Events /\ Accepts(d, e) /\ Parse(d, e) \in Parsers
               /\ Parse(d, e) = [d EXCEPT !.open = -1]
<1> DEFINE e == BlockEvent("block_stop", i, b)
<1>1. e \in Events /\ e.ev = "block_stop" /\ e.index = i
  <2>1. BlockEventIs("block_stop", i, b)
    BY BlockEvents
  <2> QED
    BY <2>1, Zenon DEF BlockEventIs
<1> HIDE DEF e
<1>2. d.broken = FALSE
  BY ParserFields
<1>3. Accepts(d, e)
  BY <1>1 DEF Accepts
<1>4. Parse(d, e) = [d EXCEPT !.open = -1]
  BY <1>1, <1>2, <1>3 DEF Parse
<1>5. Parse(d, e) = [phase |-> d.phase, blocks |-> d.blocks, open |-> -1, late |-> d.late, broken |-> FALSE]
  BY <1>2, <1>4 DEF Parsers
<1>6. Parse(d, e) \in Parsers
  <2>1. /\ d.blocks \in Seq(Blocks) /\ d.late \in BOOLEAN
        /\ d.phase \in {"none", "open", "stopping", "ended"}
    BY ParserFields, Zenon
  <2>2. -1 \in Int
    OBVIOUS
  <2> QED
    BY <1>5, <2>1, <2>2, IsParser
<1> QED
  BY <1>1, <1>3, <1>4, <1>6, Zenon DEF e

LEMMA StartAccepted ==
    ASSUME NEW d \in Parsers, NEW b \in Blocks, d.phase = "open", d.open = -1
    PROVE  LET e == BlockEvent("block_start", Len(d.blocks), b)
           IN  /\ e \in Events /\ Accepts(d, e) /\ Parse(d, e) \in Parsers
               /\ Parse(d, e).phase = "open" /\ Parse(d, e).open = Len(d.blocks)
               /\ Parse(d, e).blocks = Append(d.blocks, b)
<1> DEFINE i == Len(d.blocks)
           e == BlockEvent("block_start", i, b)
           all == Append(d.blocks, b)
<1>1. d.broken = FALSE /\ d.blocks \in Seq(Blocks) /\ d.late \in BOOLEAN
  BY ParserFields
<1>2. i \in Int /\ all \in Seq(Blocks)
  BY <1>1
<1>3. e \in Events /\ e.ev = "block_start" /\ e.index = i /\ e.block = b
  <2>1. BlockEventIs("block_start", i, b)
    BY <1>2, BlockEvents
  <2> QED
    BY <2>1, Zenon DEF BlockEventIs
<1> HIDE DEF e
<1>4. Accepts(d, e)
  BY <1>3 DEF Accepts
<1>5. Parse(d, e) = [d EXCEPT !.blocks = all, !.open = i]
  BY <1>1, <1>3, <1>4 DEF Parse
<1> HIDE DEF i, all
<1>6. Parse(d, e) = [phase |-> d.phase, blocks |-> all, open |-> i, late |-> d.late, broken |-> FALSE]
  BY <1>1, <1>5 DEF Parsers
<1>7. Parse(d, e) \in Parsers
  BY <1>1, <1>2, <1>6, ParserFields, IsParser
<1> QED
  BY <1>3, <1>4, <1>6, <1>7 DEF e, i, all

\* A delta into the open block, or one with arguments into a block of its call.
LEMMA DeltaAccepted ==
    ASSUME NEW d \in Parsers, NEW i \in Int, NEW b \in Blocks, d.phase = "open",
           i \in 0..(Len(d.blocks) - 1), d.blocks[i + 1] = b, b.type = "tool_use" \/ d.open = i
    PROVE  LET e == BlockEvent("block_delta", i, b)
           IN  /\ e \in Events /\ Accepts(d, e) /\ Parse(d, e) \in Parsers
               /\ Parse(d, e).phase = "open" /\ Parse(d, e).open = d.open
               /\ Parse(d, e).blocks = d.blocks
<1> DEFINE e == BlockEvent("block_delta", i, b)
           l == d.late \/ d.open # i
<1>1. d.broken = FALSE /\ d.blocks \in Seq(Blocks) /\ l \in BOOLEAN
  BY ParserFields
<1>2. e \in Events /\ e.ev = "block_delta" /\ e.index = i /\ e.block = b
  <2>1. BlockEventIs("block_delta", i, b)
    BY BlockEvents
  <2> QED
    BY <2>1, Zenon DEF BlockEventIs
<1> HIDE DEF e
<1>3. Accepts(d, e)
  BY <1>2 DEF Accepts
<1>4. Parse(d, e) = [d EXCEPT !.late = @ \/ d.open # e.index]
  BY <1>1, <1>2, <1>3 DEF Parse
<1>5. Parse(d, e) = [d EXCEPT !.late = l]
  BY <1>2, <1>4, Zenon
<1> HIDE DEF l
<1>6. Parse(d, e) = [phase |-> d.phase, blocks |-> d.blocks, open |-> d.open, late |-> l, broken |-> FALSE]
  BY <1>1, <1>5 DEF Parsers
<1>7. Parse(d, e) \in Parsers
  <2>1. /\ d.blocks \in Seq(Blocks) /\ d.open \in Int
        /\ d.phase \in {"none", "open", "stopping", "ended"}
    BY ParserFields, Zenon
  <2>2. [phase |-> d.phase, blocks |-> d.blocks, open |-> d.open, late |-> l, broken |-> FALSE] \in Parsers
    BY <1>1, <2>1, IsParser, Zenon
  <2> QED
    BY <1>6, <2>2, Zenon
<1> QED
  BY <1>2, <1>3, <1>6, <1>7 DEF e

---------------------------------------------------------------------------
(* The streamer *)

LEMMA StepFields ==
    ASSUME NEW x \in Steps
    PROVE  /\ x.s \in Streamers /\ x.ev \in Seq(Events) /\ x.s.idx \in Nat
           /\ x.s.open \in Kinds \cup {Closed} /\ x.s.cur \in Ids \cup {NoId, Generated}
           /\ x.s.tool \in [Calls -> Int]
           /\ x.s = [idx |-> x.s.idx, open |-> x.s.open, cur |-> x.s.cur, tool |-> x.s.tool]
<1>1. x.s \in Streamers /\ x.ev \in Seq(Events)
  BY DEF Steps
<1> QED
  BY <1>1 DEF Streamers

LEMMA IsStreamer ==
    ASSUME NEW idx \in Nat, NEW open \in Kinds \cup {Closed}, NEW cur \in Ids \cup {NoId, Generated},
           NEW tool \in [Calls -> Int]
    PROVE  [idx |-> idx, open |-> open, cur |-> cur, tool |-> tool] \in Streamers
BY DEF Streamers

LEMMA IsStep ==
    ASSUME NEW st \in Streamers, NEW events \in Seq(Events)
    PROVE  Step(st, events) \in Steps /\ Step(st, events).s = st /\ Step(st, events).ev = events
<1> DEFINE all == Seq(Events)
<1>1. events \in all
  OBVIOUS
<1> HIDE DEF all
<1>2. [s |-> st, ev |-> events] \in [s : Streamers, ev : all]
  BY <1>1
<1>3. [s |-> st, ev |-> events].s = st /\ [s |-> st, ev |-> events].ev = events
  OBVIOUS
<1> QED
  BY <1>2, <1>3, Zenon DEF Step, Steps, all

LEMMA Closes ==
    ASSUME NEW st \in Streamers, NEW open, NEW cur
    PROVE  [st EXCEPT !.open = open, !.cur = cur]
              = [idx |-> st.idx, open |-> open, cur |-> cur, tool |-> st.tool]
<1>1. [st EXCEPT !.open = open] = [idx |-> st.idx, open |-> open, cur |-> st.cur, tool |-> st.tool]
  BY DEF Streamers
<1> DEFINE opened == [idx |-> st.idx, open |-> open, cur |-> st.cur, tool |-> st.tool]
<1>2. [opened EXCEPT !.cur = cur] = [idx |-> st.idx, open |-> open, cur |-> cur, tool |-> st.tool]
  OBVIOUS
<1>3. [st EXCEPT !.open = open, !.cur = cur] = [[st EXCEPT !.open = open] EXCEPT !.cur = cur]
  OBVIOUS
<1> QED
  BY <1>1, <1>2, <1>3, Zenon

LEMMA Notes ==
    ASSUME NEW st \in Streamers, NEW tool
    PROVE  [st EXCEPT !.tool = tool] = [idx |-> st.idx, open |-> st.open, cur |-> st.cur, tool |-> tool]
BY DEF Streamers

LEMMA Opens ==
    ASSUME NEW st \in Streamers, NEW idx, NEW open, NEW cur
    PROVE  [st EXCEPT !.idx = idx, !.open = open, !.cur = cur]
              = [idx |-> idx, open |-> open, cur |-> cur, tool |-> st.tool]
<1>1. [st EXCEPT !.idx = idx] = [idx |-> idx, open |-> st.open, cur |-> st.cur, tool |-> st.tool]
  BY DEF Streamers
<1> DEFINE next == [idx |-> idx, open |-> st.open, cur |-> st.cur, tool |-> st.tool]
           opened == [idx |-> idx, open |-> open, cur |-> st.cur, tool |-> st.tool]
<1>2. [next EXCEPT !.open = open] = opened
  OBVIOUS
<1>3. [opened EXCEPT !.cur = cur] = [idx |-> idx, open |-> open, cur |-> cur, tool |-> st.tool]
  OBVIOUS
<1>4. [st EXCEPT !.idx = idx, !.open = open, !.cur = cur]
         = [[[st EXCEPT !.idx = idx] EXCEPT !.open = open] EXCEPT !.cur = cur]
  OBVIOUS
<1> QED
  BY <1>1, <1>2, <1>3, <1>4, Zenon

\* One more event that the parser accepts.
LEMMA GoesOn ==
    ASSUME NEW c, NEW x \in Steps, NEW d \in Parsers, NEW e \in Events, NEW st \in Streamers,
           Leads(c, x.ev, d), Accepts(d, e), Parse(d, e) \in Parsers, Mirrors(Parse(d, e), st)
    PROVE  Follows(c, Step(st, Append(x.ev, e)))
<1>1. x.ev \in Seq(Events)
  BY StepFields
<1>2. Leads(c, Append(x.ev, e), Parse(d, e))
  BY <1>1, LeadsOn
<1>3. Step(st, Append(x.ev, e)).s = st /\ Step(st, Append(x.ev, e)).ev = Append(x.ev, e)
  BY DEF Step
<1> QED
  BY <1>2, <1>3, Zenon DEF Follows

LEMMA CloseFollows ==
    ASSUME NEW c, NEW x \in Steps, Follows(c, x)
    PROVE  LET y == CloseBlock(x)
           IN  /\ y \in Steps /\ Follows(c, y) /\ y.s.open = Closed
               /\ y.s.idx = x.s.idx /\ y.s.tool = x.s.tool
<1> DEFINE y == CloseBlock(x)
<1>1. CASE x.s.open = Closed
  <2>1. y = x
    BY <1>1 DEF CloseBlock
  <2> QED
    BY <1>1, <2>1, Zenon
<1>2. CASE x.s.open # Closed
  <2>1. PICK d \in Parsers : Leads(c, x.ev, d) /\ Mirrors(d, x.s)
    BY Zenon DEF Follows
  <2>0. /\ x.s \in Streamers /\ x.ev \in Seq(Events) /\ x.s.idx \in Nat /\ x.s.tool \in [Calls -> Int]
        /\ x.s = [idx |-> x.s.idx, open |-> x.s.open, cur |-> x.s.cur, tool |-> x.s.tool]
    BY StepFields, Zenon
  <2> DEFINE i == x.s.idx - 1
             e == BlockEvent("block_stop", i, Block("any", NoCall))
             st == [idx |-> x.s.idx, open |-> Closed, cur |-> NoId, tool |-> x.s.tool]
             more == Append(x.ev, e)
  <2>2. i \in Int /\ Block("any", NoCall) \in Blocks /\ d.open = i
    <3>1. i \in Int
      BY <2>0
    <3>2. Block("any", NoCall) \in Blocks
      BY DEF Block, Blocks
    <3>3. d.open = i
      BY <1>2, <2>1 DEF Mirrors
    <3> QED
      BY <3>1, <3>2, <3>3
  <2>3. /\ e \in Events /\ Accepts(d, e) /\ Parse(d, e) \in Parsers
        /\ Parse(d, e) = [d EXCEPT !.open = -1]
    BY <2>2, StopAccepted
  <2> HIDE DEF e
  <2>4. [x.s EXCEPT !.open = Closed, !.cur = NoId] = st
    BY <2>0, Closes, Zenon
  <2>5. y = Step(st, more)
    BY <1>2, <2>4, Zenon DEF CloseBlock, e
  <2>6. more \in Seq(Events)
    BY <2>0, <2>3
  <2>7. st \in Streamers /\ y \in Steps /\ y.s = st
    <3>1. Closed \in Kinds \cup {Closed} /\ NoId \in Ids \cup {NoId, Generated}
      OBVIOUS
    <3> HIDE DEF more
    <3>2. st \in Streamers
      BY <2>0, <3>1, IsStreamer
    <3>3. Step(st, more) \in Steps /\ Step(st, more).s = st
      BY <2>6, <3>2, IsStep, Zenon
    <3> QED
      BY <2>5, <3>2, <3>3, Zenon
  <2>8. Mirrors(Parse(d, e), st)
    <3>1. Parse(d, e).phase = d.phase /\ Parse(d, e).blocks = d.blocks /\ Parse(d, e).open = -1
      BY <2>3 DEF Parsers
    <3>2. Closed \notin {"thinking", "text"}
      BY DEF Closed
    <3> HIDE DEF Closed
    <3> QED
      BY <2>1, <3>1, <3>2 DEF Mirrors
  <2>9. Follows(c, Step(st, more))
    BY <2>1, <2>3, <2>7, <2>8, GoesOn
  <2> QED
    BY <2>5, <2>7, <2>9
<1> QED
  BY <1>1, <1>2

\* A block is opened under the next number, and is the one that is open.
LEMMA OpenFollows ==
    ASSUME NEW c, NEW x \in Steps, Follows(c, x), NEW type \in Kinds, NEW call \in Calls \cup {NoCall},
           NEW mark \in Ids \cup {NoId, Generated}, type # "tool_use" => call = NoCall
    PROVE  LET y == OpenBlock(x, Block(type, call), mark)
           IN  /\ y \in Steps /\ y.s.open = type /\ y.s.idx = x.s.idx + 1 /\ y.s.tool = x.s.tool
               /\ \E d \in Parsers : /\ Leads(c, y.ev, d) /\ Mirrors(d, y.s)
                                    /\ d.blocks[y.s.idx] = Block(type, call)
<1> DEFINE z == CloseBlock(x)
           b == Block(type, call)
           y == OpenBlock(x, b, mark)
<1>1. /\ z \in Steps /\ Follows(c, z) /\ z.s.open = Closed
      /\ z.s.idx = x.s.idx /\ z.s.tool = x.s.tool
  BY CloseFollows
<1> HIDE DEF z
<1>0. /\ z.s \in Streamers /\ z.ev \in Seq(Events) /\ z.s.idx \in Nat /\ z.s.tool \in [Calls -> Int]
      /\ z.s = [idx |-> z.s.idx, open |-> z.s.open, cur |-> z.s.cur, tool |-> z.s.tool]
  BY <1>1, StepFields, Zenon
<1>2. PICK d \in Parsers : Leads(c, z.ev, d) /\ Mirrors(d, z.s)
  BY <1>1, Zenon DEF Follows
<1>3. b \in Blocks /\ b.type = type /\ b.call = call
  BY DEF Block, Blocks
<1> HIDE DEF b
<1> DEFINE e == BlockEvent("block_start", z.s.idx, b)
           st == [idx |-> z.s.idx + 1, open |-> type, cur |-> mark, tool |-> z.s.tool]
           more == Append(z.ev, e)
<1>4. d.phase = "open" /\ d.open = -1 /\ Len(d.blocks) = z.s.idx
  BY <1>1, <1>2 DEF Mirrors
<1>5. /\ e \in Events /\ Accepts(d, e) /\ Parse(d, e) \in Parsers
      /\ Parse(d, e).phase = "open" /\ Parse(d, e).open = z.s.idx
      /\ Parse(d, e).blocks = Append(d.blocks, b)
  BY <1>3, <1>4, StartAccepted
<1> HIDE DEF e
<1>6. y = Step(st, more)
  <2>1. [z.s EXCEPT !.idx = @ + 1, !.open = type, !.cur = mark] = st
    <3> DEFINE up == z.s.idx + 1
    <3> HIDE DEF up
    <3>0. z.s \in Streamers
      BY <1>0
    <3>1. [z.s EXCEPT !.idx = up, !.open = type, !.cur = mark]
             = [idx |-> up, open |-> type, cur |-> mark, tool |-> z.s.tool]
      BY <3>0, Opens, Zenon
    <3> QED
      BY <3>1, Zenon DEF up
  <2> QED
    BY <1>3, <2>1, Zenon DEF OpenBlock, z, e
<1>7. more \in Seq(Events)
  BY <1>1, <1>5, <1>0
<1>8. st \in Streamers /\ y \in Steps /\ y.s = st /\ y.ev = more
  <2>1. z.s.idx + 1 \in Nat /\ type \in Kinds \cup {Closed} /\ z.s.tool \in [Calls -> Int]
    BY <1>1, <1>0
  <2> HIDE DEF more
  <2>2. st \in Streamers
    BY <2>1, IsStreamer
  <2>3. Step(st, more) \in Steps /\ Step(st, more).s = st /\ Step(st, more).ev = more
    BY <1>7, <2>2, IsStep, Zenon
  <2> QED
    BY <1>6, <2>2, <2>3, Zenon
<1>9. /\ Len(Parse(d, e).blocks) = z.s.idx + 1 /\ Parse(d, e).blocks[z.s.idx + 1] = b
      /\ \A i \in 1..z.s.idx : Parse(d, e).blocks[i] = d.blocks[i]
  <2>1. d.blocks \in Seq(Blocks)
    BY ParserFields
  <2> QED
    BY <1>3, <1>4, <1>5, <2>1
<1>10. Mirrors(Parse(d, e), st)
  <2> DEFINE f == Parse(d, e)
  <2>1. f.phase = "open" /\ Len(f.blocks) = st.idx
    BY <1>5, <1>9
  <2>2. f.open = IF st.open = Closed THEN -1 ELSE st.idx - 1
    <3>1. z.s.idx \in Nat
      BY <1>1, <1>0
    <3> QED
      BY <1>5, <3>1 DEF Kinds, Closed
  <2>3. st.open # Closed => st.idx > 0 /\ f.blocks[st.idx].type = st.open
    BY <1>0, <1>3, <1>9
  <2>4. st.open \in {"thinking", "text"} => f.blocks[st.idx] = Block(st.open, NoCall)
    BY <1>9 DEF b
  <2>5. ASSUME NEW k \in Calls
        PROVE  /\ st.tool[k] \in -1..(st.idx - 1)
               /\ st.tool[k] # -1 => f.blocks[st.tool[k] + 1] = Block("tool_use", k)
    <3>1. /\ z.s.idx \in Nat /\ z.s.tool[k] \in -1..(z.s.idx - 1)
          /\ z.s.tool[k] # -1 => d.blocks[z.s.tool[k] + 1] = Block("tool_use", k)
      BY <1>0, <1>2 DEF Mirrors
    <3>2. st.tool[k] = z.s.tool[k] /\ st.idx = z.s.idx + 1
      OBVIOUS
    <3>3. z.s.tool[k] # -1 => z.s.tool[k] + 1 \in 1..z.s.idx
      BY <3>1
    <3> HIDE DEF st
    <3>4. st.tool[k] \in -1..(st.idx - 1)
      BY <3>1, <3>2
    <3>5. ASSUME st.tool[k] # -1 PROVE f.blocks[st.tool[k] + 1] = Block("tool_use", k)
      <4>1. z.s.tool[k] # -1 /\ st.tool[k] + 1 = z.s.tool[k] + 1 /\ z.s.tool[k] + 1 \in 1..z.s.idx
        BY <3>2, <3>3, <3>5, Zenon
      <4>2. f.blocks[z.s.tool[k] + 1] = d.blocks[z.s.tool[k] + 1]
        BY <1>9, <4>1, Zenon
      <4> QED
        BY <3>1, <4>1, <4>2, Zenon
    <3> QED
      BY <3>4, <3>5, Zenon
  <2> HIDE DEF f, st
  <2> QED
    BY <2>1, <2>2, <2>3, <2>4, <2>5 DEF Mirrors, f
<1>11. Leads(c, more, Parse(d, e))
  <2>1. z.ev \in Seq(Events)
    BY <1>1, <1>0
  <2> QED
    BY <1>2, <1>5, <2>1, LeadsOn
<1>12. Parse(d, e).blocks[y.s.idx] = b
  BY <1>8, <1>9
<1>13. y.s.open = type /\ y.s.idx = x.s.idx + 1 /\ y.s.tool = x.s.tool
  BY <1>1, <1>8
<1> HIDE DEF st, more, y
<1> QED
  BY <1>5, <1>8, <1>10, <1>11, <1>12, <1>13, Zenon DEF y, b

\* Thinking and text reach the open block of their type.
LEMMA DeltaFollows ==
    ASSUME NEW c, NEW x \in Steps, Follows(c, x), NEW type \in {"thinking", "text"}
    PROVE  Delta(x, type) \in Steps /\ Follows(c, Delta(x, type))
<1> DEFINE b == Block(type, NoCall)
           y == IF x.s.open = type THEN x ELSE OpenBlock(x, b, NoId)
           e == BlockEvent("block_delta", y.s.idx - 1, b)
           more == Append(y.ev, e)
<1>1. b \in Blocks /\ b.type = type
  BY DEF Block, Blocks, Kinds
<1>2. /\ y \in Steps /\ y.s.open = type
      /\ \E d \in Parsers : Leads(c, y.ev, d) /\ Mirrors(d, y.s) /\ d.blocks[y.s.idx] = b
  <2>1. CASE x.s.open = type
    <3>1. PICK d \in Parsers : Leads(c, x.ev, d) /\ Mirrors(d, x.s)
      BY Zenon DEF Follows
    <3>2. d.blocks[x.s.idx] = b
      BY <2>1, <3>1 DEF Mirrors
    <3> QED
      BY <2>1, <3>1, <3>2, Zenon
  <2>2. CASE x.s.open # type
    <3>1. type \in Kinds /\ NoCall \in Calls \cup {NoCall} /\ NoId \in Ids \cup {NoId, Generated}
          /\ (type # "tool_use" => NoCall = NoCall)
      BY DEF Kinds
    <3> HIDE DEF b
    <3>2. y = OpenBlock(x, b, NoId)
      BY <2>2
    <3> HIDE DEF y
    <3> QED
      BY <3>1, <3>2, OpenFollows DEF b
  <2> QED
    BY <2>1, <2>2
<1> HIDE DEF y
<1>3. PICK d \in Parsers : Leads(c, y.ev, d) /\ Mirrors(d, y.s) /\ d.blocks[y.s.idx] = b
  BY <1>2, Zenon
<1>4. y.s \in Streamers /\ y.ev \in Seq(Events) /\ y.s.idx \in Nat
  BY <1>2, StepFields, Zenon
<1>5. /\ y.s.idx - 1 \in Int /\ d.phase = "open" /\ y.s.idx - 1 \in 0..(Len(d.blocks) - 1)
      /\ d.blocks[(y.s.idx - 1) + 1] = b /\ d.open = y.s.idx - 1
  BY <1>2, <1>3, <1>4 DEF Mirrors, Closed
<1>6. /\ e \in Events /\ Accepts(d, e) /\ Parse(d, e) \in Parsers
      /\ Parse(d, e).phase = "open" /\ Parse(d, e).open = d.open /\ Parse(d, e).blocks = d.blocks
  <2> HIDE DEF b
  <2> QED
    BY <1>1, <1>5, DeltaAccepted
<1>7. Mirrors(Parse(d, e), y.s)
  <2> HIDE DEF e
  <2> QED
    BY <1>3, <1>6 DEF Mirrors
<1>8. Follows(c, Step(y.s, more))
  <2> HIDE DEF e
  <2> QED
    BY <1>2, <1>3, <1>4, <1>6, <1>7, GoesOn
<1>9. Delta(x, type) = Step(y.s, more)
  BY Zenon DEF Delta, y
<1>10. more \in Seq(Events)
  BY <1>4, <1>6
<1>11. Step(y.s, more) \in Steps
  <2> HIDE DEF more
  <2> QED
    BY <1>4, <1>10, IsStep, Zenon
<1> QED
  BY <1>8, <1>9, <1>11, Zenon

\* The arguments of a tool call reach the block that was opened for it.
LEMMA ToolFollows ==
    ASSUME NEW c, NEW x \in Steps, Follows(c, x), NEW p \in Pieces
    PROVE  ToolDelta(x, p) \in Steps /\ Follows(c, ToolDelta(x, p))
<1> DEFINE new == x.s.tool[p.call] = -1 \/ (p.id # NoId /\ x.s.cur # p.id)
           b == Block("tool_use", p.call)
           mark == IF p.id = NoId THEN Generated ELSE p.id
           o == OpenBlock(x, b, mark)
           noted == [o.s EXCEPT !.tool[p.call] = o.s.idx - 1]
           y == IF new THEN Step(noted, o.ev) ELSE x
<1>1. p.call \in Calls /\ mark \in Ids \cup {NoId, Generated}
  BY DEF Pieces
<1>2. b \in Blocks /\ b.type = "tool_use"
  BY <1>1 DEF Block, Blocks, Kinds
<1>3. /\ y \in Steps
      /\ \E d \in Parsers : Leads(c, y.ev, d) /\ Mirrors(d, y.s) /\ y.s.tool[p.call] # -1
  <2>1. CASE ~new
    <3>1. PICK d \in Parsers : Leads(c, x.ev, d) /\ Mirrors(d, x.s)
      BY Zenon DEF Follows
    <3> QED
      BY <2>1, <3>1
  <2>2. CASE new
    <3>0. "tool_use" \in Kinds /\ p.call \in Calls \cup {NoCall}
          /\ ("tool_use" # "tool_use" => p.call = NoCall)
      BY <1>1 DEF Kinds
    <3>1. /\ o \in Steps /\ o.s.open = "tool_use"
          /\ \E d \in Parsers : Leads(c, o.ev, d) /\ Mirrors(d, o.s) /\ d.blocks[o.s.idx] = b
      <4> HIDE DEF mark
      <4> QED
        BY <1>1, <3>0, OpenFollows
    <3> HIDE DEF o
    <3>2. PICK d \in Parsers : Leads(c, o.ev, d) /\ Mirrors(d, o.s) /\ d.blocks[o.s.idx] = b
      BY <3>1, Zenon
    <3>3. /\ o.s \in Streamers /\ o.ev \in Seq(Events) /\ o.s.idx \in Nat
          /\ o.s.open \in Kinds \cup {Closed} /\ o.s.cur \in Ids \cup {NoId, Generated}
          /\ o.s.tool \in [Calls -> Int]
          /\ o.s = [idx |-> o.s.idx, open |-> o.s.open, cur |-> o.s.cur, tool |-> o.s.tool]
      BY <3>1, StepFields, Zenon
    <3> DEFINE tool == [o.s.tool EXCEPT ![p.call] = o.s.idx - 1]
               st == [idx |-> o.s.idx, open |-> o.s.open, cur |-> o.s.cur, tool |-> tool]
    <3>4. noted = st
      <4>1. o.s \in Streamers
        BY <3>3
      <4>2. [o.s EXCEPT !.tool = tool] = st
        BY <4>1, Notes, Zenon
      <4> QED
        BY <4>2
    <3>5. st \in Streamers
      <4>1. o.s.idx - 1 \in Int /\ o.s.tool \in [Calls -> Int]
        BY <3>3
      <4>2. tool \in [Calls -> Int]
        BY <4>1
      <4> HIDE DEF tool
      <4> QED
        BY <3>3, <4>2, IsStreamer
    <3> HIDE DEF noted
    <3>6. y \in Steps /\ y.s = st /\ y.ev = o.ev
      <4> HIDE DEF st
      <4>1. Step(st, o.ev) \in Steps /\ Step(st, o.ev).s = st /\ Step(st, o.ev).ev = o.ev
        BY <3>3, <3>5, IsStep, Zenon
      <4> QED
        BY <2>2, <3>4, <4>1, Zenon
    <3>7. /\ \A k \in Calls : tool[k] = IF k = p.call THEN o.s.idx - 1 ELSE o.s.tool[k]
          /\ st.idx = o.s.idx /\ st.open = o.s.open /\ st.tool = tool
      BY <3>3
    <3> HIDE DEF tool, st, y
    <3>8. Mirrors(d, st)
      <4>1. /\ d.phase = "open" /\ Len(d.blocks) = o.s.idx
            /\ d.open = (IF o.s.open = Closed THEN -1 ELSE o.s.idx - 1)
            /\ (o.s.open # Closed => o.s.idx > 0 /\ d.blocks[o.s.idx].type = o.s.open)
            /\ (o.s.open \in {"thinking", "text"} => d.blocks[o.s.idx] = Block(o.s.open, NoCall))
        BY <3>2 DEF Mirrors
      <4>2. ASSUME NEW k \in Calls
            PROVE  /\ tool[k] \in -1..(o.s.idx - 1)
                   /\ tool[k] # -1 => d.blocks[tool[k] + 1] = Block("tool_use", k)
        <5>1. /\ o.s.tool[k] \in -1..(o.s.idx - 1)
              /\ o.s.tool[k] # -1 => d.blocks[o.s.tool[k] + 1] = Block("tool_use", k)
          BY <3>2 DEF Mirrors
        <5>2. CASE k = p.call
          <6>1. tool[k] = o.s.idx - 1 /\ tool[k] + 1 = o.s.idx /\ tool[k] \in -1..(o.s.idx - 1)
            BY <3>3, <3>7, <5>2
          <6> QED
            BY <3>2, <5>2, <6>1, Zenon
        <5>3. CASE k # p.call
          BY <3>7, <5>1, <5>3
        <5> QED
          BY <5>2, <5>3
      <4> QED
        BY <3>7, <4>1, <4>2, Zenon DEF Mirrors
    <3>9. y.s.tool[p.call] # -1
      <4>1. y.s.tool[p.call] = o.s.idx - 1
        BY <1>1, <3>6, <3>7
      <4>2. "tool_use" # Closed
        BY DEF Closed
      <4>3. o.s.idx > 0
        BY <3>1, <3>2, <4>2, Zenon DEF Mirrors
      <4> QED
        BY <3>3, <4>1, <4>3
    <3> QED
      BY <3>2, <3>6, <3>8, <3>9, Zenon
  <2> QED
    BY <2>1, <2>2
<1> HIDE DEF y
<1>4. PICK d \in Parsers : Leads(c, y.ev, d) /\ Mirrors(d, y.s) /\ y.s.tool[p.call] # -1
  BY <1>3, Zenon
<1>5. CASE ~p.args
  <2>1. ToolDelta(x, p) = y
    BY <1>5, Zenon DEF ToolDelta, y
  <2> QED
    BY <1>3, <2>1, Zenon DEF Follows
<1>6. CASE p.args
  <2> DEFINE i == y.s.tool[p.call]
             e == BlockEvent("block_delta", i, b)
             more == Append(y.ev, e)
  <2>1. /\ y.s \in Streamers /\ y.ev \in Seq(Events) /\ y.s.idx \in Nat
        /\ y.s.tool \in [Calls -> Int]
    BY <1>3, StepFields, Zenon
  <2>2. /\ i \in Int /\ d.phase = "open" /\ i \in 0..(Len(d.blocks) - 1) /\ d.blocks[i + 1] = b
    BY <1>1, <1>4, <2>1 DEF Mirrors
  <2> HIDE DEF i
  <2>3. /\ e \in Events /\ Accepts(d, e) /\ Parse(d, e) \in Parsers
        /\ Parse(d, e).phase = "open" /\ Parse(d, e).open = d.open /\ Parse(d, e).blocks = d.blocks
    <3> HIDE DEF b
    <3> QED
      BY <1>2, <2>2, DeltaAccepted
  <2> HIDE DEF e
  <2>4. Mirrors(Parse(d, e), y.s)
    BY <1>4, <2>3 DEF Mirrors
  <2>5. Follows(c, Step(y.s, more))
    BY <1>3, <1>4, <2>1, <2>3, <2>4, GoesOn
  <2>6. ToolDelta(x, p) = Step(y.s, more)
    BY <1>6, Zenon DEF ToolDelta, y, e, i
  <2>7. more \in Seq(Events)
    BY <2>1, <2>3
  <2>8. Step(y.s, more) \in Steps
    <3> HIDE DEF more
    <3> QED
      BY <2>1, <2>7, IsStep, Zenon
  <2> QED
    BY <2>5, <2>6, <2>8, Zenon
<1>7. p.args \in BOOLEAN
  BY DEF Pieces
<1> QED
  BY <1>5, <1>6, <1>7, Zenon

LEMMA TranslatedFollows ==
    ASSUME NEW k \in Chunks, s \in Streamers, Follows(client, Step(s, <<>>))
    PROVE  Translated(k) \in Steps /\ Follows(client, Translated(k))
<1>1. <<>> \in Seq(Events)
  OBVIOUS
<1>2. Step(s, <<>>) \in Steps
  BY <1>1, IsStep, Zenon
<1>3. CASE k \in {[type |-> "thinking"], [type |-> "text"]}
  <2>1. "type" \in DOMAIN k /\ k.type \in {"thinking", "text"}
    BY <1>3
  <2>2. Translated(k) = Delta(Step(s, <<>>), k.type)
    BY <2>1, Zenon DEF Translated
  <2> QED
    BY <1>2, <2>1, <2>2, DeltaFollows, Zenon
<1>4. CASE k \in [piece : Pieces]
  <2>1. "type" \notin DOMAIN k /\ k.piece \in Pieces
    BY <1>4
  <2>2. Translated(k) = ToolDelta(Step(s, <<>>), k.piece)
    BY <2>1, Zenon DEF Translated
  <2> QED
    BY <1>2, <2>1, <2>2, ToolFollows, Zenon
<1> QED
  BY <1>3, <1>4, Zenon DEF Chunks

\* One more event on its own, or at the end of others.
LEMMA LeadsOnPlain ==
    ASSUME NEW c, NEW events \in Seq(Events), NEW d \in Parsers, Leads(c, events, d),
           NEW ev \in {"message_start", "ping", "error", "message_delta", "message_stop"},
           Accepts(d, Event(ev)), Parse(d, Event(ev)) \in Parsers
    PROVE  /\ Append(events, Event(ev)) \in Seq(Events)
           /\ Leads(c, Append(events, Event(ev)), Parse(d, Event(ev)))
<1>1. Event(ev) \in Events
  BY PlainEvents
<1>2. Append(events, Event(ev)) \in Seq(Events)
  BY <1>1
<1> QED
  BY <1>1, <1>2, LeadsOn, Zenon

LEMMA TwoMore ==
    ASSUME NEW q \in Seq(Events), NEW a \in Events, NEW b \in Events
    PROVE  Append(Append(q, a), b) = q \o <<a, b>>
OBVIOUS

\* message_start and ping leave a parser that mirrors a new streamer.
LEMMA StartFollows ==
    LET events == <<Event("message_start"), Event("ping")>>
    IN  events \in Seq(Events) /\ Follows(Fresh, Step(NewStreamer, events))
<1> DEFINE a == Event("message_start")
           b == Event("ping")
           d == [Fresh EXCEPT !.phase = "open"]
<1>1. Fresh \in Parsers /\ Fresh.phase = "none"
  <2>1. <<>> \in Seq(Blocks) /\ -1 \in Int /\ FALSE \in BOOLEAN
    OBVIOUS
  <2>2. "none" \in {"none", "open", "stopping", "ended"}
    OBVIOUS
  <2> QED
    BY <2>1, <2>2, IsParser DEF Fresh
<1>2. d \in Parsers /\ Accepts(Fresh, a) /\ Parse(Fresh, a) = d
  BY <1>1, PlainEvents
<1>3. d.phase = "open" /\ d.blocks = <<>> /\ d.open = -1
  BY DEF Fresh
<1> HIDE DEF d
<1>4. Accepts(d, b) /\ Parse(d, b) = d
  BY <1>2, <1>3, PlainEvents
<1>5. <<>> \in Seq(Events) /\ Leads(Fresh, <<>>, Fresh)
  BY <1>1, LeadsNowhere
<1>6. Append(<<>>, a) \in Seq(Events) /\ Leads(Fresh, Append(<<>>, a), d)
  BY <1>1, <1>2, <1>5, LeadsOnPlain
<1>7. Append(Append(<<>>, a), b) \in Seq(Events) /\ Leads(Fresh, Append(Append(<<>>, a), b), d)
  BY <1>2, <1>4, <1>6, LeadsOnPlain
<1>8. Append(Append(<<>>, a), b) = <<a, b>>
  <2>1. a \in Events /\ b \in Events
    BY <1>2, PlainEvents
  <2> HIDE DEF a, b
  <2>2. Append(Append(<<>>, a), b) = <<>> \o <<a, b>>
    BY <1>5, <2>1, TwoMore, Zenon
  <2>3. <<>> \o <<a, b>> = <<a, b>>
    BY <2>1
  <2> QED
    BY <2>2, <2>3, Zenon
<1>9. Mirrors(d, NewStreamer)
  BY <1>3 DEF Mirrors, NewStreamer, Closed
<1>10. Step(NewStreamer, <<a, b>>).s = NewStreamer /\ Step(NewStreamer, <<a, b>>).ev = <<a, b>>
  BY DEF Step
<1> HIDE DEF a, b
<1> QED
  BY <1>2, <1>7, <1>8, <1>9, <1>10, Zenon DEF Follows, a, b

\* A ping or an error leaves the parser where it was.
LEMMA PlainFollows ==
    ASSUME NEW c, NEW st \in Streamers, Follows(c, Step(st, <<>>)), NEW ev \in {"ping", "error"}
    PROVE  <<Event(ev)>> \in Seq(Events) /\ Follows(c, Step(st, <<Event(ev)>>))
<1>1. Step(st, <<>>).s = st /\ Step(st, <<>>).ev = <<>>
  BY DEF Step
<1>2. PICK d \in Parsers : Leads(c, <<>>, d) /\ Mirrors(d, st)
  BY <1>1, Zenon DEF Follows
<1>3. d.phase = "open"
  BY <1>2 DEF Mirrors
<1>4. Accepts(d, Event(ev)) /\ Parse(d, Event(ev)) = d
  BY <1>3, PlainEvents
<1>5. <<>> \in Seq(Events) /\ Append(<<>>, Event(ev)) = <<Event(ev)>>
  OBVIOUS
<1>6. /\ Append(<<>>, Event(ev)) \in Seq(Events)
      /\ Leads(c, Append(<<>>, Event(ev)), d)
  <2>1. Parse(d, Event(ev)) \in Parsers /\ Leads(c, <<>>, d)
    BY <1>2, <1>4, Zenon
  <2>2. /\ Append(<<>>, Event(ev)) \in Seq(Events)
        /\ Leads(c, Append(<<>>, Event(ev)), Parse(d, Event(ev)))
    BY <1>4, <1>5, <2>1, LeadsOnPlain
  <2> QED
    BY <1>4, <2>2, Zenon
<1>7. Step(st, <<Event(ev)>>).s = st /\ Step(st, <<Event(ev)>>).ev = <<Event(ev)>>
  BY DEF Step
<1> QED
  BY <1>2, <1>5, <1>6, <1>7, Zenon DEF Follows

\* The tail: what is open is closed, then message_delta and message_stop.
LEMMA TailLeads ==
    ASSUME NEW c, NEW x \in Steps, Follows(c, x)
    PROVE  LET y == CloseBlock(x)
               events == y.ev \o <<Event("message_delta"), Event("message_stop")>>
           IN  /\ y.s \in Streamers /\ events \in Seq(Events)
               /\ \E d \in Parsers : Leads(c, events, d) /\ d.phase = "ended"
<1> DEFINE y == CloseBlock(x)
           a == Event("message_delta")
           b == Event("message_stop")
<1>1. y \in Steps /\ Follows(c, y) /\ y.s.open = Closed
  BY CloseFollows
<1> HIDE DEF y
<1>2. y.s \in Streamers /\ y.ev \in Seq(Events)
  BY <1>1, StepFields, Zenon
<1>3. PICK d \in Parsers : Leads(c, y.ev, d) /\ Mirrors(d, y.s)
  BY <1>1, Zenon DEF Follows
<1>4. d.phase = "open" /\ d.open = -1
  BY <1>1, <1>3 DEF Mirrors
<1> DEFINE f == [d EXCEPT !.phase = "stopping"]
           g == [f EXCEPT !.phase = "ended"]
<1>5. f \in Parsers /\ Accepts(d, a) /\ Parse(d, a) = f
  BY <1>4, PlainEvents
<1>6. f.phase = "stopping"
  BY DEF Parsers
<1> HIDE DEF f
<1>7. g \in Parsers /\ Accepts(f, b) /\ Parse(f, b) = g
  BY <1>5, <1>6, PlainEvents
<1>11. g.phase = "ended"
  BY <1>5 DEF Parsers
<1> HIDE DEF g
<1>8. Append(y.ev, a) \in Seq(Events) /\ Leads(c, Append(y.ev, a), f)
  BY <1>2, <1>3, <1>5, LeadsOnPlain
<1>9. Append(Append(y.ev, a), b) \in Seq(Events) /\ Leads(c, Append(Append(y.ev, a), b), g)
  BY <1>5, <1>7, <1>8, LeadsOnPlain
<1>10. Append(Append(y.ev, a), b) = y.ev \o <<a, b>>
  <2>1. a \in Events /\ b \in Events
    BY PlainEvents
  <2> HIDE DEF a, b
  <2> QED
    BY <1>2, <2>1, TwoMore, Zenon
<1> HIDE DEF a, b
<1> QED
  BY <1>2, <1>7, <1>9, <1>10, <1>11, Zenon DEF y, a, b

---------------------------------------------------------------------------
(* The protocol *)

LEMMA ParserInit == TurnInit => ParserInv
<1> SUFFICES ASSUME TurnInit PROVE ParserInv
  OBVIOUS
<1>1. Fresh \in Parsers
  <2>1. <<>> \in Seq(Blocks) /\ -1 \in Int /\ FALSE \in BOOLEAN
    OBVIOUS
  <2>2. "none" \in {"none", "open", "stopping", "ended"}
    OBVIOUS
  <2> QED
    BY <2>1, <2>2, IsParser DEF Fresh
<1>2. NewStreamer \in Streamers
  <2>1. /\ 0 \in Nat /\ Closed \in Kinds \cup {Closed} /\ NoId \in Ids \cup {NoId, Generated}
        /\ [k \in Calls |-> -1] \in [Calls -> Int]
    OBVIOUS
  <2> QED
    BY <2>1, IsStreamer DEF NewStreamer
<1>3. unsent = <<>> /\ unsent \in Seq(Events) /\ client = Fresh /\ s = NewStreamer /\ stage = "recv"
  BY DEF TurnInit
<1> QED
  BY <1>1, <1>2, <1>3 DEF ParserInv

LEMMA ParserNext == ParserInv /\ [TurnNext]_turnVars => ParserInv'
<1> SUFFICES ASSUME ParserInv, [TurnNext]_turnVars PROVE ParserInv'
  OBVIOUS
<1>1. client \in Parsers /\ unsent \in Seq(Events) /\ s \in Streamers
  BY DEF ParserInv
<1>2. CASE Translate \/ CheckCeiling \/ RelayJSON
  <2>1. /\ stage \in {"recv", "count", "json"} /\ stage' \in {"count", "dial", "closed"}
        /\ UNCHANGED <<client, unsent, s>>
    BY <1>2 DEF Translate, CheckCeiling, RelayJSON
  <2> QED
    BY <2>1 DEF ParserInv
<1>3. CASE Dial
  <2>1. stage = "dial" /\ client = Fresh /\ unsent = <<>> /\ s = NewStreamer
    BY <1>3 DEF Dial, ParserInv
  <2>2. CASE stage' \in {"closed", "json"} /\ UNCHANGED <<unsent, client, s>>
    BY <1>1, <2>1, <2>2 DEF ParserInv
  <2>3. CASE /\ stage' = "relay" /\ UNCHANGED <<client, s>>
             /\ unsent' = <<Event("message_start"), Event("ping")>>
    <3> DEFINE events == <<Event("message_start"), Event("ping")>>
    <3>1. events \in Seq(Events) /\ Follows(Fresh, Step(NewStreamer, events))
      BY StartFollows, Zenon
    <3> HIDE DEF events
    <3>2. unsent' = events /\ client' = Fresh /\ s' = NewStreamer /\ stage' = "relay"
      BY <2>1, <2>3, Zenon DEF events
    <3>3. client' \in Parsers /\ unsent' \in Seq(Events) /\ s' \in Streamers
      BY <1>1, <2>3, <3>1, <3>2, Zenon
    <3>4. Follows(client', Step(s', unsent'))
      BY <3>1, <3>2, Zenon
    <3> QED
      BY <3>2, <3>3, <3>4 DEF ParserInv
  <2> QED
    BY <1>3, <2>2, <2>3 DEF Dial, Writes
<1>4. CASE WriteEvent
  <2>1. unsent # <<>> /\ unsent' = Tail(unsent) /\ client' = Parse(client, Head(unsent))
        /\ UNCHANGED <<stage, s>>
    BY <1>4 DEF WriteEvent
  <2>2. stage \notin {"recv", "count", "dial", "json", "closed"}
    BY <2>1 DEF ParserInv
  <2>3. unsent' \in Seq(Events)
    BY <1>1, <2>1
  <2>4. ASSUME NEW d, Leads(client, unsent, d) PROVE client' \in Parsers /\ Leads(client', unsent', d)
    BY <1>1, <2>1, <2>4, LeadsFrom
  <2>5. CASE stage \in {"relay", "tail"}
    <3>1. Step(s, unsent).s = s /\ Step(s, unsent).ev = unsent
      BY DEF Step
    <3>2. PICK d \in Parsers : Leads(client, unsent, d) /\ Mirrors(d, s)
      BY <2>5, <3>1, Zenon DEF ParserInv, Follows
    <3>3. client' \in Parsers /\ Leads(client', unsent', d)
      BY <2>4, <3>2, Zenon
    <3>4. Step(s, unsent').s = s /\ Step(s, unsent').ev = unsent'
      BY DEF Step
    <3>5. Follows(client', Step(s, unsent'))
      BY <3>2, <3>3, <3>4, Zenon DEF Follows
    <3> QED
      BY <1>1, <2>1, <2>3, <2>5, <3>3, <3>5 DEF ParserInv
  <2>6. CASE stage = "end"
    <3>1. PICK d \in Parsers : Leads(client, unsent, d) /\ d.phase = "ended"
      BY <2>6, Zenon DEF ParserInv
    <3>2. client' \in Parsers /\ Leads(client', unsent', d)
      BY <2>4, <3>1, Zenon
    <3> QED
      BY <1>1, <2>1, <2>3, <2>6, <3>1, <3>2 DEF ParserInv
  <2> QED
    BY <2>1, <2>2, <2>5, <2>6 DEF ParserInv
<1>5. CASE WriteTail
  <2>1. stage = "tail" /\ unsent = <<>> /\ stage' = "end" /\ client' = client
    BY <1>5 DEF WriteTail, Idle, Writes
  <2> DEFINE x == Step(s, <<>>)
             y == CloseBlock(x)
             events == y.ev \o <<Event("message_delta"), Event("message_stop")>>
  <2>2. x \in Steps /\ Follows(client, x)
    <3>1. <<>> \in Seq(Events)
      OBVIOUS
    <3>2. x \in Steps
      BY <1>1, <3>1, IsStep, Zenon
    <3>3. Follows(client, x)
      BY <2>1 DEF ParserInv
    <3> QED
      BY <3>2, <3>3
  <2>3. s' = y.s /\ unsent' = events
    BY <1>5 DEF WriteTail, Writes
  <2> HIDE DEF x
  <2>4. /\ y.s \in Streamers /\ events \in Seq(Events)
        /\ \E d \in Parsers : Leads(client, events, d) /\ d.phase = "ended"
    BY <2>2, TailLeads
  <2> HIDE DEF y, events
  <2> QED
    BY <1>1, <2>1, <2>3, <2>4 DEF ParserInv
<1>6. CASE CloseRow \/ ClientGone
  <2>1. unsent = <<>> /\ stage' = "closed" /\ UNCHANGED <<client, unsent, s>>
    BY <1>6 DEF CloseRow, ClientGone, Idle
  <2> QED
    BY <1>1, <2>1 DEF ParserInv
<1>7. CASE TakeChunk
  <2>1. stage = "relay" /\ unsent = <<>> /\ hand \in Chunks /\ stage' = stage /\ client' = client
    BY <1>7 DEF TakeChunk, Received, Idle, Writes
  <2> DEFINE x == Translated(hand)
  <2>2. s' = x.s /\ unsent' = x.ev
    BY <1>7 DEF TakeChunk, Writes
  <2>3. Follows(client, Step(s, <<>>))
    BY <2>1 DEF ParserInv
  <2>4. x \in Steps /\ Follows(client, x)
    BY <1>1, <2>1, <2>3, TranslatedFollows, Zenon
  <2> HIDE DEF x
  <2>5. x.s \in Streamers /\ x.ev \in Seq(Events)
    BY <2>4, StepFields, Zenon
  <2>6. Step(x.s, x.ev).s = x.s /\ Step(x.s, x.ev).ev = x.ev
    BY DEF Step
  <2>7. Follows(client, Step(x.s, x.ev))
    BY <2>4, <2>6, Zenon DEF Follows
  <2>8. s' \in Streamers /\ unsent' \in Seq(Events) /\ Follows(client', Step(s', unsent'))
    BY <2>1, <2>2, <2>5, <2>7, Zenon
  <2> QED
    BY <1>1, <2>1, <2>8 DEF ParserInv
<1>8. CASE TakeError \/ Ping
  <2>1. PICK ev \in {"ping", "error"} :
          /\ stage = "relay" /\ unsent = <<>> /\ unsent' = <<Event(ev)>> /\ UNCHANGED <<stage, client, s>>
    BY <1>8 DEF TakeError, Ping, Received, Idle, Writes
  <2>2. Follows(client, Step(s, <<>>))
    BY <2>1 DEF ParserInv
  <2> DEFINE events == <<Event(ev)>>
  <2>3. events \in Seq(Events) /\ Follows(client, Step(s, events))
    BY <1>1, <2>2, PlainFollows
  <2> HIDE DEF events
  <2>4. unsent' = events
    BY <2>1 DEF events
  <2>5. unsent' \in Seq(Events) /\ Follows(client', Step(s', unsent'))
    BY <2>1, <2>3, <2>4, Zenon
  <2> QED
    BY <1>1, <2>1, <2>5 DEF ParserInv
<1>9. CASE TakeDone \/ LinesClosed
  <2>1. stage = "relay" /\ stage' = "tail" /\ UNCHANGED <<unsent, client, s>>
    BY <1>9 DEF TakeDone, LinesClosed, Received
  <2> QED
    BY <1>1, <2>1 DEF ParserInv
<1>10. CASE TakeIgnored \/ ReaderScan \/ ReaderEnd \/ ReaderFails \/ EndBody \/ ClientLeaves \/ UNCHANGED turnVars
  <2>1. UNCHANGED <<stage, client, unsent, s>>
    BY <1>10 DEF TakeIgnored, ReaderScan, ReaderEnd, ReaderFails, EndBody, ClientLeaves, turnVars
  <2> QED
    BY <2>1 DEF ParserInv
<1> QED
  BY <1>2, <1>3, <1>4, <1>5, <1>6, <1>7, <1>8, <1>9, <1>10 DEF TurnNext, ServeMessages, Loop

\* The events that the proxy writes are the protocol, whatever the chunks mix.
THEOREM EventsKeepProtocol == TurnSpec => []ProtocolKept
<1>1. ParserInv => ProtocolKept
  BY ParserFields DEF ParserInv, ProtocolKept
<1> QED
  BY ParserInit, ParserNext, <1>1, PTL DEF TurnSpec

---------------------------------------------------------------------------
(* AnthropicMessages: how a turn ends *)

\* A handler that has returned has no live row, and its stream was finished with a
\* message_stop, unless the client had gone: then the row says aborted.
TurnFinished ==
    stage = "closed" =>
        /\ row.in # "live"
        /\ reader # "none" => IF row.aborted THEN ctxDone /\ client.phase = "open"
                                             ELSE client.phase = "ended"

\* Only a stream has a reader, and a row is aborted with the end of its handler.
EndInv ==
    /\ row \in [in : {"none", "live", "ring"}, first : BOOLEAN, aborted : BOOLEAN,
                phase : {"prefill", "decoding", "done", "error", "aborted"}]
    /\ stage \in {"recv", "count", "dial", "json"} => reader = "none"
    /\ stage \in {"recv", "count", "dial"} => row.in = "none"
    /\ stage # "closed" => ~row.aborted
    /\ TurnFinished

LEMMA NothingLeads == ASSUME NEW c, NEW d, Leads(c, <<>>, d) PROVE d = c
<1>1. Len(<<>>) = 0
  OBVIOUS
<1> QED
  BY <1>1, Zenon DEF Leads

\* Steps of others than the handler
LEMMA SameEnd ==
    ASSUME EndInv, UNCHANGED <<stage, row>>, ctxDone => ctxDone', reader' = "none" <=> reader = "none",
           stage = "closed" => client' = client
    PROVE  EndInv'
BY Zenon DEF EndInv, TurnFinished

LEMMA EndNext == ParserInv /\ EndInv /\ [TurnNext]_turnVars => EndInv'
<1> SUFFICES ASSUME ParserInv, EndInv, [TurnNext]_turnVars PROVE EndInv'
  OBVIOUS
<1> DEFINE TurnRows == [in : {"none", "live", "ring"}, first : BOOLEAN, aborted : BOOLEAN,
                        phase : {"prefill", "decoding", "done", "error", "aborted"}]
<1>0. row \in TurnRows
  BY DEF EndInv
<1>1. CASE Translate \/ CheckCeiling
  <2>1. /\ stage \in {"recv", "count"} /\ stage' \in {"count", "dial", "closed"}
        /\ UNCHANGED <<reader, row>>
    BY <1>1 DEF Translate, CheckCeiling, pipeVars
  <2> QED
    BY <2>1 DEF EndInv, TurnFinished
<1>2. CASE Dial
  <2>1. /\ stage = "dial"
        /\ \/ stage' = "closed" /\ UNCHANGED <<reader, row>>
           \/ stage' = "json" /\ UNCHANGED reader /\ row' = [row EXCEPT !.in = "live"]
           \/ stage' = "relay" /\ row' = [row EXCEPT !.in = "live"]
    BY <1>2 DEF Dial
  <2>2. reader = "none" /\ row.in = "none" /\ ~row.aborted
    BY <2>1 DEF EndInv
  <2>3. CASE stage' = "closed" /\ UNCHANGED <<reader, row>>
    BY <2>2, <2>3 DEF EndInv, TurnFinished
  <2>4. CASE row' = [row EXCEPT !.in = "live"]
    <3>1. row' \in TurnRows /\ ~row'.aborted
      BY <1>0, <2>2, <2>4
    <3>2. stage' \in {"json", "relay"} /\ (stage' = "json" => reader' = reader)
      BY <1>0, <2>1, <2>2, <2>4
    <3> QED
      BY <2>2, <3>1, <3>2 DEF EndInv, TurnFinished
  <2> QED
    BY <2>1, <2>3, <2>4
<1>3. CASE RelayJSON
  <2>1. /\ stage = "json" /\ stage' = "closed" /\ UNCHANGED reader
        /\ \E p \in {"done", "error"} : row' = [row EXCEPT !.in = "ring", !.first = TRUE, !.phase = p]
    BY <1>3 DEF RelayJSON, pipeVars
  <2>2. row' \in TurnRows /\ row'.in = "ring"
    BY <1>0, <2>1
  <2> QED
    BY <2>1, <2>2 DEF EndInv, TurnFinished
<1>4. CASE TakeChunk \/ TakeError
  <2>1. stage = "relay" /\ UNCHANGED stage
    BY <1>4 DEF TakeChunk, TakeError, Received
  <2>2. \/ row' = row
        \/ row' = [row EXCEPT !.first = TRUE, !.phase = "decoding"]
        \/ row' = [row EXCEPT !.phase = "error"]
    BY <1>4 DEF TakeChunk, TakeError
  <2>3. row' \in TurnRows /\ row'.aborted = row.aborted
    BY <1>0, <2>2
  <2> QED
    BY <2>1, <2>3 DEF EndInv, TurnFinished
<1>5. CASE TakeDone \/ LinesClosed \/ WriteTail
  <2>1. stage \in {"relay", "tail"} /\ stage' \in {"tail", "end"} /\ UNCHANGED row
    BY <1>5 DEF TakeDone, LinesClosed, WriteTail, Received
  <2> QED
    BY <2>1 DEF EndInv, TurnFinished
<1>6. CASE ClientGone
  <2>1. /\ stage = "relay" /\ stage' = "closed" /\ ctxDone /\ unsent = <<>>
        /\ UNCHANGED <<client, ctxDone>>
        /\ row' = [row EXCEPT !.in = "ring", !.aborted = TRUE, !.phase = "aborted"]
    BY <1>6 DEF ClientGone, Idle
  <2>2. row' \in TurnRows /\ row'.in = "ring" /\ row'.aborted
    BY <1>0, <2>1
  <2>3. client.phase = "open"
    <3>1. Step(s, <<>>).s = s /\ Step(s, <<>>).ev = <<>>
      BY DEF Step
    <3>2. \E d \in Parsers : Leads(client, <<>>, d) /\ Mirrors(d, s)
      BY <2>1, <3>1 DEF ParserInv, Follows
    <3>3. Mirrors(client, s)
      BY <3>2, NothingLeads
    <3> QED
      BY <3>3 DEF Mirrors
  <2> QED
    BY <2>1, <2>2, <2>3 DEF EndInv, TurnFinished
<1>7. CASE CloseRow
  <2>1. /\ stage = "end" /\ stage' = "closed" /\ unsent = <<>> /\ UNCHANGED client
        /\ \E p \in {"error", "done"} : row' = [row EXCEPT !.in = "ring", !.phase = p]
    BY <1>7 DEF CloseRow, Idle
  <2>2. row' \in TurnRows /\ row'.in = "ring" /\ ~row'.aborted
    BY <1>0, <2>1 DEF EndInv
  <2>3. client.phase = "ended"
    <3>1. \E d \in Parsers : Leads(client, <<>>, d) /\ d.phase = "ended"
      BY <2>1 DEF ParserInv
    <3> QED
      BY <3>1, NothingLeads
  <2> QED
    BY <2>1, <2>2, <2>3 DEF EndInv, TurnFinished
<1>8. CASE \/ WriteEvent \/ TakeIgnored \/ ReaderScan \/ ReaderEnd \/ ReaderFails
           \/ EndBody \/ ClientLeaves \/ Ping \/ UNCHANGED turnVars
  <2>1. UNCHANGED <<stage, row>> /\ (ctxDone => ctxDone') /\ (reader' = "none" <=> reader = "none")
    BY <1>8 DEF WriteEvent, TakeIgnored, ReaderScan, ReaderEnd, ReaderFails, EndBody, ClientLeaves, Ping,
                Received, pipeVars, turnVars
  <2>2. ASSUME stage = "closed" PROVE client' = client
    <3>1. unsent = <<>>
      BY <2>2 DEF ParserInv
    <3> QED
      BY <1>8, <3>1 DEF WriteEvent, TakeIgnored, ReaderScan, ReaderEnd, ReaderFails, EndBody, ClientLeaves, Ping,
                        Writes, turnVars
  <2> QED
    BY <2>1, <2>2, SameEnd
<1> QED
  BY <1>1, <1>2, <1>3, <1>4, <1>5, <1>6, <1>7, <1>8 DEF TurnNext, ServeMessages, Loop

\* "the turn never just stops", the part that does not need fairness: whatever the engine
\* sends and wherever it breaks off, a stream is over only with a message_stop, or with
\* a client that had gone and a row that says so.
THEOREM TurnsAreFinished == TurnSpec => []TurnFinished
<1>1. TurnInit => EndInv
  BY DEF TurnInit, EndInv, TurnFinished
<1>2. EndInv => TurnFinished
  BY DEF EndInv
<1> QED
  BY ParserInit, ParserNext, EndNext, <1>1, <1>2, PTL DEF TurnSpec

---------------------------------------------------------------------------
(* AnthropicMessages: results follow calls *)

AllBlocks == UserBlocks \cup AssistantBlocks
Ask == [i \in 1..Len(turns) |-> TurnToMessages(turns[i])]
Said == [i \in 1..Len(turns) |-> turns[i].blocks]

\* As long as the conversation is not sent, it is there, and what has been
\* translated is all of it.
AskInv ==
    /\ stage \in {"recv", "count", "dial", "json", "relay", "tail", "end", "closed"}
    /\ stage \in {"recv", "count"} => turns \in Seq(Turns) /\ Len(turns) > 0
    /\ stage = "count" => msgs = FlattenSeq(Ask)

\* The first conjunct of ResultsFollowCalls.
Ordered(q) == \A i \in 1..Len(q) : q[i] = "tool" => i > 1 /\ q[i - 1] \in {"tool", "calls"}
Calling(t) == t.role = "assistant" /\ Has(t, "tool_use")

\* FlattenSeq joins its sequences from left to right: f[i] is the first i of them.
Joins(f, q, m) == f = [i \in 1..m |-> IF i = 1 THEN q[i] ELSE f[i - 1] \o q[i]]

LEMMA ReachesAll ==
    ASSUME NEW S \in SUBSET Nat, 0 \in S, \A k \in S : k + 1 \in S
    PROVE  \A k \in Nat : k \in S
<1> DEFINE R == OpToRel(<, Nat)
<1>1. IsWellFoundedOn(R, Nat)
  BY NatLessThanWellFounded
<1>2. \A x \in Nat, y \in Nat : x < y => <<x, y>> \in R
  BY DEF OpToRel
<1> HIDE DEF R
<1>3. SUFFICES ASSUME Nat \ S # {} PROVE FALSE
  OBVIOUS
<1>4. PICK x \in Nat \ S : \A y \in Nat \ S : <<y, x>> \notin R
  BY <1>1, <1>3, WFMin, Zenon
<1>5. x - 1 \in Nat /\ x - 1 < x
  BY <1>4, SMT
<1>6. x - 1 \in S
  BY <1>2, <1>4, <1>5
<1> QED
  BY <1>4, <1>5, <1>6

LEMMA JoinsExist == ASSUME NEW q, NEW m \in Nat PROVE \E f : Joins(f, q, m)
<1> DEFINE S == {k \in Nat : \E f : Joins(f, q, k)}
<1>1. 0 \in S
  <2> DEFINE f == [i \in 1..0 |-> q[i]]
  <2>1. Joins(f, q, 0)
    BY DEF Joins
  <2> QED
    BY <2>1
<1>2. ASSUME NEW k \in S PROVE k + 1 \in S
  <2>1. PICK f : Joins(f, q, k)
    OBVIOUS
  <2> DEFINE last == IF k = 0 THEN q[1] ELSE f[k] \o q[k + 1]
             g == [i \in 1..(k + 1) |-> IF i = k + 1 THEN last ELSE f[i]]
  <2>2. f = [i \in 1..k |-> IF i = 1 THEN q[i] ELSE f[i - 1] \o q[i]]
    BY <2>1, Zenon DEF Joins
  <2>3. \A i \in 1..k : f[i] = IF i = 1 THEN q[i] ELSE f[i - 1] \o q[i]
    BY <2>2, Zenon
  <2>4. /\ g = [i \in 1..(k + 1) |-> g[i]] /\ g[k + 1] = last
        /\ \A i \in 1..k : g[i] = f[i]
    <3>1. k + 1 \in 1..(k + 1) /\ \A i \in 1..k : i \in 1..(k + 1) /\ i # k + 1
      OBVIOUS
    <3> QED
      BY <3>1, Zenon
  <2> HIDE DEF g, last
  <2>5. ASSUME NEW i \in 1..(k + 1)
        PROVE  g[i] = IF i = 1 THEN q[i] ELSE g[i - 1] \o q[i]
    <3>1. CASE i = k + 1 /\ k = 0
      BY <2>4, <3>1 DEF last
    <3>2. CASE i = k + 1 /\ k # 0
      <4>1. i - 1 = k /\ k \in 1..k /\ i # 1
        BY <3>2
      <4>2. g[i - 1] = f[k]
        BY <2>4, <4>1, Zenon
      <4>3. g[i] = f[k] \o q[i]
        BY <2>4, <3>2, Zenon DEF last
      <4> QED
        BY <4>1, <4>2, <4>3, Zenon
    <3>3. CASE i \in 1..k
      <4>1. g[i] = IF i = 1 THEN q[i] ELSE f[i - 1] \o q[i]
        BY <2>3, <2>4, <3>3, Zenon
      <4>2. i # 1 => i - 1 \in 1..k
        BY <3>3
      <4>3. i # 1 => g[i - 1] = f[i - 1]
        BY <2>4, <4>2, Zenon
      <4> QED
        BY <4>1, <4>3, Zenon
    <3>4. i \in 1..k \/ i = k + 1
      OBVIOUS
    <3> QED
      BY <3>1, <3>2, <3>3, <3>4, Zenon
  <2>6. g = [i \in 1..(k + 1) |-> IF i = 1 THEN q[i] ELSE g[i - 1] \o q[i]]
    BY <2>4, <2>5
  <2>7. Joins(g, q, k + 1)
    BY <2>6, Zenon DEF Joins
  <2> QED
    BY <2>7
<1> HIDE DEF S
<1>3. m \in S
  BY <1>1, <1>2, ReachesAll DEF S
<1> QED
  BY <1>3 DEF S

LEMMA FlattenJoins ==
    ASSUME NEW q, Len(q) \in Nat, Len(q) # 0
    PROVE  \E f : Joins(f, q, Len(q)) /\ FlattenSeq(q) = f[Len(q)]
<1> DEFINE f == CHOOSE g : Joins(g, q, Len(q))
<1>1. Joins(f, q, Len(q))
  BY JoinsExist, Zenon
<1>2. FlattenSeq(q) = f[Len(q)]
  BY Zenon DEF FlattenSeq, Joins
<1> QED
  BY <1>1, <1>2, Zenon

LEMMA CountType ==
    ASSUME NEW M, NEW q \in Seq(M), NEW x
    PROVE  /\ IsFiniteSet({i \in 1..Len(q) : q[i] = x}) /\ Count(q, x) \in Nat
           /\ (\A i \in 1..Len(q) : q[i] # x) => Count(q, x) = 0
<1> DEFINE A == {i \in 1..Len(q) : q[i] = x}
<1>1. IsFiniteSet(1..Len(q)) /\ A \in SUBSET (1..Len(q))
  BY FS_Interval
<1>2. IsFiniteSet(A) /\ Cardinality(A) \in Nat
  BY <1>1, FS_Subset, FS_CardinalityType
<1>3. (\A i \in 1..Len(q) : q[i] # x) => A = {}
  OBVIOUS
<1> QED
  BY <1>2, <1>3, FS_EmptySet DEF Count

LEMMA CountJoins ==
    ASSUME NEW M, NEW a \in Seq(M), NEW b \in Seq(M), NEW x
    PROVE  Count(a \o b, x) = Count(a, x) + Count(b, x)
<1> DEFINE A == {i \in 1..Len(a) : a[i] = x}
           B == {i \in 1..Len(b) : b[i] = x}
           Moved == {i \in (Len(a) + 1)..(Len(a) + Len(b)) : b[i - Len(a)] = x}
           shift == [i \in B |-> i + Len(a)]
<1>1. Len(a) \in Nat /\ Len(b) \in Nat /\ Len(a \o b) = Len(a) + Len(b)
  OBVIOUS
<1>2. \A i \in 1..(Len(a) + Len(b)) : (a \o b)[i] = IF i <= Len(a) THEN a[i] ELSE b[i - Len(a)]
  OBVIOUS
<1>3. {i \in 1..Len(a \o b) : (a \o b)[i] = x} = A \cup Moved
  BY <1>1, <1>2
<1>4. A \cap Moved = {}
  BY <1>1
<1>5. shift \in Bijection(B, Moved)
  <2>1. shift \in [B -> Moved]
    BY <1>1
  <2>2. \A i, j \in B : shift[i] = shift[j] => i = j
    BY <1>1
  <2>3. ASSUME NEW k \in Moved PROVE \E i \in B : shift[i] = k
    <3>1. k - Len(a) \in B /\ shift[k - Len(a)] = k
      BY <1>1
    <3> QED
      BY <3>1
  <2> HIDE DEF shift, B, Moved
  <2> QED
    BY <2>1, <2>2, <2>3, Zenon DEF Bijection, Injection, Surjection, IsInjective
<1>6. /\ IsFiniteSet(A) /\ IsFiniteSet(B)
      /\ Cardinality(A) = Count(a, x) /\ Cardinality(B) = Count(b, x)
      /\ Count(a, x) \in Nat /\ Count(b, x) \in Nat
  BY CountType, Zenon DEF Count
<1>7. Count(a \o b, x) = Cardinality(A \cup Moved)
  BY <1>3, Zenon DEF Count
<1> HIDE DEF A, B, Moved, shift
<1>8. IsFiniteSet(Moved) /\ Cardinality(Moved) = Cardinality(B)
  BY <1>5, <1>6, FS_Bijection, Zenon DEF ExistsBijection
<1>9. Cardinality(A \cup Moved) = Cardinality(A) + Cardinality(Moved) - Cardinality({})
  BY <1>4, <1>6, <1>8, FS_Union
<1> QED
  BY <1>6, <1>7, <1>8, <1>9, FS_EmptySet

LEMMA BoundedIsSeq == ASSUME NEW S, NEW k \in Nat PROVE BoundedSeq(S, k) \subseteq Seq(S)
  BY DEF BoundedSeq, SeqOf

LEMMA TurnFields ==
    ASSUME NEW t \in Turns
    PROVE  t.blocks \in Seq(AllBlocks)
<1>1. BoundedSeq(UserBlocks, MaxBlocks) \subseteq Seq(UserBlocks)
      /\ BoundedSeq(AssistantBlocks, MaxBlocks) \subseteq Seq(AssistantBlocks)
  BY BoundedIsSeq, TurnBounds
<1>2. t.blocks \in Seq(UserBlocks) \/ t.blocks \in Seq(AssistantBlocks)
  BY <1>1 DEF Turns
<1>3. Seq(UserBlocks) \subseteq Seq(AllBlocks) /\ Seq(AssistantBlocks) \subseteq Seq(AllBlocks)
  BY DEF AllBlocks
<1> QED
  BY <1>2, <1>3

\* What a turn without images is sent as: its results, then its own message.
LEMMA TurnSends ==
    ASSUME NEW t \in Turns, ~Has(t, "image")
    PROVE  LET r == TurnToMessages(t)
           IN  /\ r \in Seq(Messages)
               /\ Count(r, "tool") = Count(t.blocks, "tool_result")
               /\ \A i \in 1..Len(r) : r[i] = "tool" =>
                     IF i = 1 THEN Has(t, "tool_result") ELSE r[i - 1] = "tool"
               /\ Calling(t) => Len(r) > 0 /\ r[Len(r)] = "calls"
<1> DEFINE own == OwnMessage(t)
           k == Count(t.blocks, "tool_result")
           r == TurnToMessages(t)
<1>1. t.blocks \in Seq(AllBlocks)
  BY TurnFields
<1>2. Count(t.blocks, "image") = 0
  BY <1>1, CountType DEF Has
<1>3. k \in Nat /\ (k # 0 => Has(t, "tool_result"))
  BY <1>1, CountType DEF Has
<1>4. own \in {<<>>, <<"calls">>, <<"assistant">>, <<"user">>} /\ (Calling(t) => own = <<"calls">>)
  BY Zenon DEF OwnMessage, Calling
<1>5. own \in Seq(Messages) /\ Len(own) \in 0..1
      /\ \A i \in 1..Len(own) : own[i] # "tool"
  <2> HIDE DEF own
  <2>1. CASE own = <<>>
    BY <2>1
  <2>2. CASE own = <<"calls">>
    BY <2>2 DEF Messages
  <2>3. CASE own = <<"assistant">>
    BY <2>3 DEF Messages
  <2>4. CASE own = <<"user">>
    BY <2>4 DEF Messages
  <2> QED
    BY <1>4, <2>1, <2>2, <2>3, <2>4
<1> HIDE DEF own, k
<1> DEFINE tools == [i \in 1..k |-> "tool"]
<1>6. tools \in Seq(Messages) /\ Len(tools) = k /\ \A i \in 1..k : tools[i] = "tool"
  BY <1>3 DEF Messages
<1>7. r = tools \o own
  <2>1. Each(t, "image", "image") = <<>>
    BY <1>2 DEF Each
  <2>2. Each(t, "tool_result", "tool") = tools
    BY Zenon DEF Each, k
  <2>3. r = (<<>> \o tools) \o own
    BY <2>1, <2>2, Zenon DEF TurnToMessages, own
  <2> HIDE DEF tools
  <2>4. <<>> \o tools = tools
    BY <1>6
  <2> QED
    BY <2>3, <2>4, Zenon
<1> HIDE DEF tools, r
<1>8. /\ r \in Seq(Messages) /\ Len(r) = k + Len(own)
      /\ \A i \in 1..Len(r) : r[i] = IF i <= k THEN "tool" ELSE own[i - k]
  <2>1. /\ r \in Seq(Messages) /\ Len(r) = Len(tools) + Len(own)
        /\ \A i \in 1..(Len(tools) + Len(own)) :
              r[i] = IF i <= Len(tools) THEN tools[i] ELSE own[i - Len(tools)]
    BY <1>5, <1>6, <1>7, ConcatProperties, Zenon
  <2>2. /\ Len(r) = k + Len(own)
        /\ \A i \in 1..Len(r) : r[i] = IF i <= k THEN tools[i] ELSE own[i - k]
    BY <1>6, <2>1, Zenon
  <2>3. ASSUME NEW i \in 1..Len(r), i <= k PROVE tools[i] = "tool"
    <3>1. i \in 1..k
      BY <1>3, <2>3
    <3> QED
      BY <1>6, <3>1, Zenon
  <2> QED
    BY <2>1, <2>2, <2>3, Zenon
<1>9. \A i \in 1..Len(r) : r[i] = "tool" <=> i <= k
  BY <1>3, <1>5, <1>8
<1>10. {i \in 1..Len(r) : r[i] = "tool"} = 1..k
  BY <1>3, <1>5, <1>8, <1>9
<1>11. Count(r, "tool") = k
  <2>1. Count(r, "tool") = Cardinality(1..k)
    BY <1>10, Zenon DEF Count
  <2>2. 1 \in Int /\ k \in Int /\ (IF 1 > k THEN 0 ELSE k - 1 + 1) = k
    BY <1>3
  <2>3. Cardinality(1..k) = IF 1 > k THEN 0 ELSE k - 1 + 1
    BY <2>2, FS_Interval, Zenon
  <2> QED
    BY <2>1, <2>2, <2>3, Zenon
<1>12. Calling(t) => Len(r) > 0 /\ r[Len(r)] = "calls"
  <2> SUFFICES ASSUME Calling(t) PROVE Len(r) > 0 /\ r[Len(r)] = "calls"
    OBVIOUS
  <2>1. own = <<"calls">>
    BY <1>4
  <2>2. Len(own) = 1 /\ own[1] = "calls"
    BY <2>1
  <2>3. Len(r) = k + 1 /\ k + 1 \in 1..Len(r) /\ ~(k + 1 <= k) /\ (k + 1) - k = 1 /\ Len(r) > 0
    BY <1>3, <1>8, <2>2
  <2>4. r[k + 1] = own[(k + 1) - k]
    BY <1>8, <2>3, Zenon
  <2> QED
    BY <2>2, <2>3, <2>4, Zenon
<1>13. ASSUME NEW i \in 1..Len(r), r[i] = "tool"
       PROVE  IF i = 1 THEN Has(t, "tool_result") ELSE r[i - 1] = "tool"
  BY <1>3, <1>8, <1>9, <1>13
<1> QED
  BY <1>8, <1>11, <1>12, <1>13 DEF r, k

\* A turn sent after what came before it.
LEMMA SendsNext ==
    ASSUME NEW a \in Seq(Messages), NEW r \in Seq(Messages), Ordered(a),
           \A i \in 1..Len(r) : r[i] = "tool" =>
               IF i = 1 THEN Len(a) > 0 /\ a[Len(a)] = "calls" ELSE r[i - 1] = "tool"
    PROVE  /\ a \o r \in Seq(Messages) /\ Ordered(a \o r)
           /\ Len(r) > 0 => Len(a \o r) > 0 /\ (a \o r)[Len(a \o r)] = r[Len(r)]
<1> DEFINE q == a \o r
<1>1. /\ q \in Seq(Messages) /\ Len(q) = Len(a) + Len(r) /\ Len(a) \in Nat /\ Len(r) \in Nat
      /\ \A i \in 1..Len(q) : q[i] = IF i <= Len(a) THEN a[i] ELSE r[i - Len(a)]
  OBVIOUS
<1> HIDE DEF q
<1>2. ASSUME NEW i \in 1..Len(q), q[i] = "tool" PROVE i > 1 /\ q[i - 1] \in {"tool", "calls"}
  <2>1. CASE i <= Len(a)
    <3>1. i \in 1..Len(a) /\ (i > 1 => i - 1 \in 1..Len(q) /\ i - 1 <= Len(a))
      BY <1>1, <2>1
    <3>2. a[i] = "tool"
      BY <1>1, <1>2, <2>1, Zenon
    <3>3. i > 1 /\ a[i - 1] \in {"tool", "calls"}
      BY <3>1, <3>2, Zenon DEF Ordered
    <3>4. q[i - 1] = a[i - 1]
      BY <1>1, <3>1, <3>3, Zenon
    <3> QED
      BY <3>3, <3>4, Zenon
  <2>2. CASE i = Len(a) + 1
    BY <1>1, <1>2, <2>2
  <2>3. CASE i > Len(a) + 1
    <3>1. i - Len(a) \in 1..Len(r) /\ r[i - Len(a)] = "tool" /\ i - Len(a) # 1
      BY <1>1, <1>2, <2>3
    <3>2. r[(i - Len(a)) - 1] = "tool"
      BY <3>1
    <3>3. /\ i > 1 /\ i - 1 \in 1..Len(q) /\ ~(i - 1 <= Len(a))
          /\ (i - 1) - Len(a) = (i - Len(a)) - 1
      BY <1>1, <2>3
    <3>4. q[i - 1] = r[(i - 1) - Len(a)]
      BY <1>1, <3>3, Zenon
    <3> QED
      BY <3>2, <3>3, <3>4, Zenon
  <2>4. i \in Int /\ Len(a) \in Int
    BY <1>1
  <2>5. i <= Len(a) \/ i = Len(a) + 1 \/ i > Len(a) + 1
    BY <2>4
  <2> QED
    BY <2>1, <2>2, <2>3, <2>5, Zenon
<1>3. Len(r) > 0 => Len(q) > 0 /\ q[Len(q)] = r[Len(r)]
  BY <1>1
<1> QED
  BY <1>1, <1>2, <1>3 DEF Ordered, q

\* The conversation is sent turn by turn.
LEMMA AllSent ==
    ASSUME turns \in Seq(Turns), Len(turns) > 0, WellFormed, ~HasImage,
           NEW f, Joins(f, Ask, Len(turns)), NEW g, Joins(g, Said, Len(turns))
    PROVE  \A i \in 1..Len(turns) :
              /\ f[i] \in Seq(Messages) /\ g[i] \in Seq(AllBlocks) /\ Ordered(f[i])
              /\ Count(f[i], "tool") = Count(g[i], "tool_result")
              /\ Calling(turns[i]) => Len(f[i]) > 0 /\ f[i][Len(f[i])] = "calls"
<1> DEFINE P(i) ==
              /\ f[i] \in Seq(Messages) /\ g[i] \in Seq(AllBlocks) /\ Ordered(f[i])
              /\ Count(f[i], "tool") = Count(g[i], "tool_result")
              /\ Calling(turns[i]) => Len(f[i]) > 0 /\ f[i][Len(f[i])] = "calls"
           S == {k \in Nat : k + 1 \in 1..Len(turns) => P(k + 1)}
<1>1. \A i \in 1..Len(turns) :
         /\ turns[i] \in Turns /\ ~Has(turns[i], "image")
         /\ Has(turns[i], "tool_result") => i > 1 /\ Calling(turns[i - 1])
         /\ Ask[i] = TurnToMessages(turns[i]) /\ Said[i] = turns[i].blocks
  BY DEF WellFormed, HasImage, Answering, Calling, Ask, Said
<1>2. \A i \in 1..Len(turns) :
         /\ f[i] = IF i = 1 THEN Ask[i] ELSE f[i - 1] \o Ask[i]
         /\ g[i] = IF i = 1 THEN Said[i] ELSE g[i - 1] \o Said[i]
  <2>1. f = [i \in 1..Len(turns) |-> IF i = 1 THEN Ask[i] ELSE f[i - 1] \o Ask[i]]
    BY Zenon DEF Joins
  <2>2. g = [i \in 1..Len(turns) |-> IF i = 1 THEN Said[i] ELSE g[i - 1] \o Said[i]]
    BY Zenon DEF Joins
  <2>3. \A i \in 1..Len(turns) : f[i] = IF i = 1 THEN Ask[i] ELSE f[i - 1] \o Ask[i]
    BY <2>1, Zenon
  <2>4. \A i \in 1..Len(turns) : g[i] = IF i = 1 THEN Said[i] ELSE g[i - 1] \o Said[i]
    BY <2>2, Zenon
  <2> QED
    BY <2>3, <2>4, Zenon
<1>3. \A i \in 1..Len(turns) :
         /\ Ask[i] \in Seq(Messages) /\ Said[i] \in Seq(AllBlocks)
         /\ Count(Ask[i], "tool") = Count(Said[i], "tool_result")
         /\ \A j \in 1..Len(Ask[i]) : Ask[i][j] = "tool" =>
               IF j = 1 THEN Has(turns[i], "tool_result") ELSE Ask[i][j - 1] = "tool"
         /\ Calling(turns[i]) => Len(Ask[i]) > 0 /\ Ask[i][Len(Ask[i])] = "calls"
  <2> TAKE i \in 1..Len(turns)
  <2>1. /\ turns[i] \in Turns /\ ~Has(turns[i], "image")
        /\ Ask[i] = TurnToMessages(turns[i]) /\ Said[i] = turns[i].blocks
    BY <1>1, Zenon
  <2>2. LET r == TurnToMessages(turns[i])
        IN  /\ r \in Seq(Messages)
            /\ Count(r, "tool") = Count(turns[i].blocks, "tool_result")
            /\ \A j \in 1..Len(r) : r[j] = "tool" =>
                  IF j = 1 THEN Has(turns[i], "tool_result") ELSE r[j - 1] = "tool"
            /\ Calling(turns[i]) => Len(r) > 0 /\ r[Len(r)] = "calls"
    BY <2>1, TurnSends, Zenon
  <2>3. turns[i].blocks \in Seq(AllBlocks)
    BY <2>1, TurnFields, Zenon
  <2> QED
    BY <2>1, <2>2, <2>3, Zenon
<1>4. 0 \in S
  <2>1. 1 \in 1..Len(turns) /\ f[1] = Ask[1] /\ g[1] = Said[1]
    BY <1>2
  <2>2. ~Has(turns[1], "tool_result")
    BY <1>1, <2>1
  <2>3. \A j \in 1..Len(Ask[1]) : Ask[1][j] = "tool" => j # 1 /\ Ask[1][j - 1] = "tool"
    BY <1>3, <2>1, <2>2, Zenon
  <2>4. Ordered(Ask[1])
    BY <2>3 DEF Ordered
  <2>5. P(1)
    BY <1>3, <2>1, <2>4, Zenon
  <2> QED
    BY <2>5
<1>5. ASSUME NEW k \in S PROVE k + 1 \in S
  <2> SUFFICES ASSUME k + 2 \in 1..Len(turns) PROVE P(k + 2)
    OBVIOUS
  <2> DEFINE i == k + 2
  <2>1. i \in 1..Len(turns) /\ i - 1 = k + 1 /\ i - 1 \in 1..Len(turns) /\ i # 1
    OBVIOUS
  <2>2. P(i - 1)
    BY <2>1
  <2> HIDE DEF i
  <2>3. f[i] = f[i - 1] \o Ask[i] /\ g[i] = g[i - 1] \o Said[i]
    BY <1>2, <2>1, Zenon
  <2>4. \A j \in 1..Len(Ask[i]) : Ask[i][j] = "tool" =>
           IF j = 1 THEN Len(f[i - 1]) > 0 /\ f[i - 1][Len(f[i - 1])] = "calls" ELSE Ask[i][j - 1] = "tool"
    BY <1>1, <1>3, <2>1, <2>2, Zenon
  <2>5. /\ f[i - 1] \o Ask[i] \in Seq(Messages) /\ Ordered(f[i - 1] \o Ask[i])
        /\ Len(Ask[i]) > 0 =>
              /\ Len(f[i - 1] \o Ask[i]) > 0
              /\ (f[i - 1] \o Ask[i])[Len(f[i - 1] \o Ask[i])] = Ask[i][Len(Ask[i])]
    BY <1>3, <2>1, <2>2, <2>4, SendsNext, Zenon
  <2>6. /\ Count(f[i - 1] \o Ask[i], "tool") = Count(f[i - 1], "tool") + Count(Ask[i], "tool")
        /\ Count(g[i - 1] \o Said[i], "tool_result")
             = Count(g[i - 1], "tool_result") + Count(Said[i], "tool_result")
    <3>1. f[i - 1] \in Seq(Messages) /\ Ask[i] \in Seq(Messages)
      BY <1>3, <2>1, <2>2, Zenon
    <3>2. g[i - 1] \in Seq(AllBlocks) /\ Said[i] \in Seq(AllBlocks)
      BY <1>3, <2>1, <2>2, Zenon
    <3>3. Count(f[i - 1] \o Ask[i], "tool") = Count(f[i - 1], "tool") + Count(Ask[i], "tool")
      BY <3>1, CountJoins
    <3>4. Count(g[i - 1] \o Said[i], "tool_result")
            = Count(g[i - 1], "tool_result") + Count(Said[i], "tool_result")
      BY <3>2, CountJoins
    <3> QED
      BY <3>3, <3>4, Zenon
  <2>7. Count(f[i], "tool") = Count(g[i], "tool_result")
    BY <1>3, <2>1, <2>2, <2>3, <2>6, Zenon
  <2>8. g[i] \in Seq(AllBlocks)
    <3>1. g[i - 1] \in Seq(AllBlocks) /\ Said[i] \in Seq(AllBlocks)
      BY <1>3, <2>1, <2>2, Zenon
    <3> QED
      BY <2>3, <3>1
  <2>9. P(i)
    BY <1>3, <2>1, <2>3, <2>5, <2>7, <2>8, Zenon
  <2> QED
    BY <2>9 DEF i
<1> HIDE DEF P
<1>6. S \in SUBSET Nat
  OBVIOUS
<1>7. ASSUME NEW i \in 1..Len(turns) PROVE P(i)
  <2>1. i - 1 \in Nat /\ (i - 1) + 1 = i
    OBVIOUS
  <2>2. i - 1 \in S
    BY <1>4, <1>5, <1>6, <2>1, ReachesAll, Zenon
  <2> QED
    BY <2>1, <2>2
<1> QED
  BY <1>7 DEF P

LEMMA AskInit == TurnInit => AskInv
<1> SUFFICES ASSUME TurnInit PROVE AskInv
  OBVIOUS
<1>1. turns \in Seq(Turns) /\ turns # <<>> /\ stage = "recv"
  BY BoundedIsSeq, TurnBounds DEF TurnInit
<1> QED
  BY <1>1 DEF AskInv

LEMMA AskNext == AskInv /\ [TurnNext]_turnVars => AskInv'
<1> SUFFICES ASSUME AskInv, [TurnNext]_turnVars PROVE AskInv'
  OBVIOUS
<1>1. CASE Translate
  <2>1. stage = "recv" /\ turns' = turns /\ Ask' = Ask
    BY <1>1 DEF Translate, Ask
  <2>2. \/ stage' = "closed"
        \/ stage' = "count" /\ msgs' = FlattenSeq(Ask)
    BY <1>1, Zenon DEF Translate, Ask
  <2> QED
    BY <2>1, <2>2 DEF AskInv
<1>2. CASE CheckCeiling \/ Dial \/ RelayJSON \/ WriteEvent \/ WriteTail \/ CloseRow
           \/ Loop \/ ReaderScan \/ ReaderEnd \/ ReaderFails \/ EndBody \/ ClientLeaves \/ Ping \/ ClientGone
           \/ UNCHANGED turnVars
  <2>1. \/ stage' \in {"dial", "json", "relay", "tail", "end", "closed"}
        \/ stage' = stage /\ turns' = turns /\ msgs' = msgs
    BY <1>2 DEF CheckCeiling, Dial, RelayJSON, WriteEvent, WriteTail, CloseRow, Loop, TakeChunk,
         TakeError, TakeDone, TakeIgnored, LinesClosed, ReaderScan, ReaderEnd, ReaderFails, EndBody, ClientLeaves,
         Ping, ClientGone, askVars, turnVars, AskInv
  <2>2. turns' = turns => Ask' = Ask
    BY DEF Ask
  <2> QED
    BY <2>1, <2>2, Zenon DEF AskInv
<1> QED
  BY <1>1, <1>2 DEF TurnNext, ServeMessages

\* anthropic.go, buildOpenAIChat: whatever the turns hold, in any number, each
\* result of a well-formed conversation reaches the engine behind the calls it answers.
THEOREM ResultsReachTheEngine == TurnSpec => []ResultsFollowCalls
<1>1. ASSUME AskInv PROVE ResultsFollowCalls
  <2> SUFFICES ASSUME stage = "count", WellFormed, ~HasImage
               PROVE  Ordered(msgs) /\ Count(msgs, "tool") = Count(FlattenSeq(Said), "tool_result")
    BY Zenon DEF ResultsFollowCalls, Ordered, Said
  <2>1. turns \in Seq(Turns) /\ Len(turns) > 0 /\ msgs = FlattenSeq(Ask)
    BY <1>1 DEF AskInv
  <2>2. Len(turns) \in Nat /\ Len(turns) # 0 /\ Len(turns) \in 1..Len(turns)
    BY <2>1
  <2>3. Len(Ask) = Len(turns) /\ Len(Said) = Len(turns)
    BY <2>2 DEF Ask, Said
  <2>4. PICK f : Joins(f, Ask, Len(turns)) /\ FlattenSeq(Ask) = f[Len(turns)]
    BY <2>2, <2>3, FlattenJoins
  <2>5. PICK g : Joins(g, Said, Len(turns)) /\ FlattenSeq(Said) = g[Len(turns)]
    BY <2>2, <2>3, FlattenJoins
  <2> QED
    BY <2>1, <2>2, <2>4, <2>5, AllSent, Zenon
<1> QED
  BY AskInit, AskNext, <1>1, PTL DEF TurnSpec
=============================================================================
