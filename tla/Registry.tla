------------------------------ MODULE Registry ------------------------------
(***************************************************************************)
(* The proxy's request registry and the console tabs that follow it:       *)
(* handlers add, update and finish rows under the registry's mutex and     *)
(* notify after they have released it; a tab holds a channel of one        *)
(* signal, and takes a snapshot each time it receives one (hEvents), after *)
(* one fetch of the whole state when it opens (hState).                    *)
(***************************************************************************)
EXTENDS Naturals, Sequences, SequencesExt

CONSTANTS
    Handlers,   \* goroutines of ServeHTTP
    Tabs,       \* open pages
    Cap,        \* the ring's capacity (200 in the code)
    MaxReqs,    \* bound: requests in one behaviour
    MaxTokens   \* bound: tokens of one request

ASSUME CapAssumption == Cap \in Nat \ {0}
ASSUME BoundsAssumption == MaxReqs \in Nat /\ MaxTokens \in Nat

VARIABLES
    seq,        \* ids minted
    live,       \* Registry.live: id -> row
    done,       \* Registry.done, oldest first
    pc,         \* per handler: "idle", "minted", "running", "answered" or "over"
    id,         \* per handler: the id of its request
    owes,       \* per handler: it has changed a row and not notified yet
    tab,        \* per tab: "closed", "fetched", "waiting" or "snap"
    signal,     \* per tab: its channel holds a signal
    view,       \* per tab: the rows it shows
    since,      \* history, per tab: the rows when it subscribed
    finished    \* history: ids in the order they finished

regVars == <<seq, live, done, finished>>
tabVars == <<tab, signal, view, since>>
vars == <<seq, live, done, pc, id, owes, tab, signal, view, since, finished>>

Row == [id : 1..MaxReqs, phase : {"prefill", "decoding", "done"}, tokens : 0..MaxTokens]
NoRows == [live |-> {}, done |-> <<>>]

\* what Snapshot copies: the live rows, in map order, and the ring
Rows == [live |-> {live[i] : i \in DOMAIN live}, done |-> done]

TypeOK ==
    /\ seq \in 0..MaxReqs
    /\ DOMAIN live \subseteq 1..seq /\ \A i \in DOMAIN live : live[i] \in Row
    /\ done \in Seq(Row) /\ Len(done) <= Cap
    /\ pc \in [Handlers -> {"idle", "minted", "running", "answered"}]
    /\ id \in [Handlers -> 0..MaxReqs]
    /\ owes \in [Handlers -> BOOLEAN]
    /\ tab \in [Tabs -> {"closed", "fetched", "waiting", "snap"}]
    /\ signal \in [Tabs -> BOOLEAN]
    /\ finished \in Seq(1..MaxReqs)

Init ==
    /\ seq = 0 /\ live = <<>> /\ done = <<>> /\ finished = <<>>
    /\ pc = [h \in Handlers |-> "idle"]
    /\ id = [h \in Handlers |-> 0]
    /\ owes = [h \in Handlers |-> FALSE]
    /\ tab = [t \in Tabs |-> "closed"]
    /\ signal = [t \in Tabs |-> FALSE]
    /\ view = [t \in Tabs |-> NoRows] /\ since = [t \in Tabs |-> NoRows]

---------------------------------------------------------------------------
(* The handlers.  A handler that owes a notification does that first. *)

At(h, here) == pc[h] = here /\ ~owes[h]
Goto(h, there) == pc' = [pc EXCEPT ![h] = there]
Owe(h) == owes' = [owes EXCEPT ![h] = TRUE]

\* mutant: the id is read, and counted only when the row is added
NextIDUncounted(h) ==
    /\ At(h, "idle") /\ seq < MaxReqs
    /\ id' = [id EXCEPT ![h] = seq + 1]
    /\ seq' = IF \E g \in Handlers \ {h} : pc[g] = "minted" THEN seq ELSE seq + 1
    /\ Goto(h, "minted")
    /\ UNCHANGED <<live, done, finished, owes, tabVars>>

NextID(h) ==
    /\ At(h, "idle") /\ seq < MaxReqs
    /\ seq' = seq + 1
    /\ id' = [id EXCEPT ![h] = seq + 1]
    /\ Goto(h, "minted")
    /\ UNCHANGED <<live, done, finished, owes, tabVars>>

Add(h) ==
    /\ At(h, "minted")
    /\ live' = [i \in DOMAIN live \cup {id[h]} |->
                  IF i = id[h] THEN [id |-> i, phase |-> "prefill", tokens |-> 0] ELSE live[i]]
    /\ Goto(h, "running") /\ Owe(h)
    /\ UNCHANGED <<seq, done, finished, id, tabVars>>

\* mutant: an update is not notified
UpdateQuiet(h) ==
    /\ At(h, "running")
    /\ id[h] \in DOMAIN live /\ live[id[h]].tokens < MaxTokens
    /\ live' = [live EXCEPT ![id[h]].phase = "decoding", ![id[h]].tokens = @ + 1]
    /\ UNCHANGED <<seq, done, finished, pc, id, owes, tabVars>>

\* consumeData: a token
Update(h) ==
    /\ At(h, "running")
    /\ id[h] \in DOMAIN live /\ live[id[h]].tokens < MaxTokens
    /\ live' = [live EXCEPT ![id[h]].phase = "decoding", ![id[h]].tokens = @ + 1]
    /\ Owe(h)
    /\ UNCHANGED <<seq, done, finished, pc, id, tabVars>>

\* relayJSON and relayAnthropicJSON fill in the live row itself, without the lock
\* and without a notification, before they finish it
AnswerJSON(h) ==
    /\ At(h, "running")
    /\ id[h] \in DOMAIN live /\ live[id[h]].tokens = 0
    /\ live' = [live EXCEPT ![id[h]].tokens = MaxTokens]
    /\ Goto(h, "answered")
    /\ UNCHANGED <<seq, done, finished, id, owes, tabVars>>

\* mutants of the ring: it keeps its oldest rows; it is trimmed before the append
TrimOldest(s) == IF Len(s) > Cap THEN SubSeq(s, 1, Cap) ELSE s
Trim(s) == IF Len(s) > Cap THEN SubSeq(s, Len(s) - Cap + 1, Len(s)) ELSE s

Finish(h) ==
    /\ (At(h, "running") \/ At(h, "answered")) /\ id[h] \in DOMAIN live
    /\ live' = [i \in DOMAIN live \ {id[h]} |-> live[i]]
    /\ done' = Trim(Append(done, [live[id[h]] EXCEPT !.phase = "done"]))
    /\ finished' = Append(finished, id[h])
    /\ Goto(h, "idle") /\ Owe(h)
    /\ UNCHANGED <<seq, id, tabVars>>

\* notify: a signal into every channel that has room
Notify(h) ==
    /\ owes[h]
    /\ owes' = [owes EXCEPT ![h] = FALSE]
    /\ signal' = [t \in Tabs |-> signal[t] \/ tab[t] \in {"waiting", "snap"}]
    /\ UNCHANGED <<regVars, pc, id, tab, view, since>>

---------------------------------------------------------------------------
(* The tabs *)

handlerVars == <<regVars, pc, id, owes>>

\* the page's one fetch of /api/state
Fetch(t) ==
    /\ tab[t] = "closed"
    /\ tab' = [tab EXCEPT ![t] = "fetched"]
    /\ view' = [view EXCEPT ![t] = Rows]
    /\ UNCHANGED <<handlerVars, signal, since>>

\* hEvents.  It sends no rows when a stream opens: the tab is told of later changes.
Subscribe(t) ==
    /\ tab[t] = "fetched"
    /\ tab' = [tab EXCEPT ![t] = "waiting"]
    /\ signal' = [signal EXCEPT ![t] = FALSE]
    /\ since' = [since EXCEPT ![t] = Rows]
    /\ UNCHANGED <<handlerVars, view>>

Receive(t) ==
    /\ tab[t] = "waiting" /\ signal[t]
    /\ tab' = [tab EXCEPT ![t] = "snap"]
    /\ signal' = [signal EXCEPT ![t] = FALSE]
    /\ UNCHANGED <<handlerVars, view, since>>

Snapshot(t) ==
    /\ tab[t] = "snap"
    /\ tab' = [tab EXCEPT ![t] = "waiting"]
    /\ view' = [view EXCEPT ![t] = Rows]
    /\ UNCHANGED <<handlerVars, signal, since>>

\* the page closes, or its stream breaks: the browser opens the stream again
\* without a new fetch
Unsubscribe(t) ==
    /\ tab[t] \in {"waiting", "snap"}
    /\ tab' = [tab EXCEPT ![t] = "fetched"]
    /\ signal' = [signal EXCEPT ![t] = FALSE]
    /\ UNCHANGED <<handlerVars, view, since>>

---------------------------------------------------------------------------

Handler(h) == NextID(h) \/ Add(h) \/ Update(h) \/ AnswerJSON(h) \/ Finish(h) \/ Notify(h)
Tab(t) == Fetch(t) \/ Subscribe(t) \/ Receive(t) \/ Snapshot(t) \/ Unsubscribe(t)

Next == (\E h \in Handlers : Handler(h)) \/ (\E t \in Tabs : Tab(t))

Spec == Init /\ [][Next]_vars

---------------------------------------------------------------------------
(* Properties *)

\* The live rows are exactly the requests whose handlers are running, each its own.
LiveIsRunning ==
    /\ DOMAIN live = {id[h] : h \in {g \in Handlers : pc[g] \in {"running", "answered"}}}
    /\ \A g, h \in Handlers : g # h /\ pc[g] # "idle" /\ pc[h] # "idle" => id[g] # id[h]

\* The ring holds the newest finished requests, in the order they finished: a row
\* is gone only when Cap newer ones have finished.
RingHoldsNewest ==
    LET n == IF Len(finished) < Cap THEN Len(finished) ELSE Cap
    IN  /\ Len(done) = n
        /\ \A k \in 1..n : done[k].id = finished[Len(finished) - n + k]

Changing(h) == owes[h] \/ pc[h] = "answered"

Quiet(t) == tab[t] = "waiting" /\ ~signal[t] /\ \A h \in Handlers : ~Changing(h)

\* Signals are coalesced and dropped, changes are not: a tab that waits with an
\* empty channel, with no handler about to notify, shows the current rows.  But what
\* changed between its last look and its (re)subscription it is not told: it may
\* show older rows for as long as nothing has changed since it subscribed.
QuietIsFresh == \A t \in Tabs : Quiet(t) => view[t] = Rows \/ since[t] = Rows

\* Refuted (Registry_said): app.js paints the rows it fetched once and then follows
\* the events, as if nothing could change before its stream opens, or while it is
\* broken.
QuietShowsAll == \A t \in Tabs : Quiet(t) => view[t] = Rows
=============================================================================
