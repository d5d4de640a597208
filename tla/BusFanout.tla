------------------------------ MODULE BusFanout ------------------------------
(***************************************************************************)
(* The fan-out half of the console's logBus: publish and setRunning under  *)
(* its mutex, the ring of log lines, the viewers of /api/engine/logs       *)
(* (hEngineLogs) and the tabs of /api/events (hEvents) that follow the     *)
(* boot status, each behind a bounded channel that drops when it is full.  *)
(*                                                                         *)
(* Lines are numbered.  A status is its phase, with a number for the rest  *)
(* of the record (detail, percent); only some phases have a percent that   *)
(* is neither 0 nor 100, and only those are sent again by the ETA tick.    *)
(***************************************************************************)
EXTENDS Naturals, Sequences, SequencesExt

CONSTANTS
    Viewers, Tabs,
    Ring,        \* ringLines
    SubBuf,      \* a viewer's channel
    StatusBuf,   \* a tab's channel (8 in the code)
    MaxLines,    \* bound: lines published
    MaxChanges   \* bound: status changes

ASSUME CapAssumption == Ring \in Nat \ {0} /\ SubBuf \in Nat \ {0} /\ StatusBuf \in Nat \ {0}
ASSUME BoundsAssumption == MaxLines \in Nat /\ MaxChanges \in Nat

VARIABLES
    n,        \* lines published so far
    buf,      \* the ring
    st,       \* the status
    viewing,  \* the viewers that are subscribed
    lineCh,   \* per viewer: its channel
    got,      \* per viewer: the lines it was shown, the replay first
    lost,     \* history, per viewer: a line was dropped for it in this visit
    tabOpen,  \* the tabs that are subscribed
    statusCh, \* per tab: its channel
    shown,    \* per tab: the status it shows
    missed    \* history, per tab: a status was dropped for it since its last resend

lineVars == <<n, buf, viewing, lineCh, got, lost>>
statusVars == <<st, tabOpen, statusCh, shown, missed>>
vars == <<n, buf, viewing, lineCh, got, lost, st, tabOpen, statusCh, shown, missed>>

Phases == {"down", "booting", "ready", "failed"}
Statuses == [phase : Phases, nr : 0..MaxChanges]

TypeOK ==
    /\ n \in 0..MaxLines /\ buf \in Seq(1..MaxLines) /\ Len(buf) <= Ring
    /\ viewing \subseteq Viewers
    /\ \A v \in Viewers : /\ lineCh[v] \in Seq(1..MaxLines) /\ Len(lineCh[v]) <= SubBuf
                          /\ got[v] \in Seq(1..MaxLines)
    /\ lost \in [Viewers -> BOOLEAN]
    /\ st \in Statuses /\ tabOpen \subseteq Tabs
    /\ \A t \in Tabs : statusCh[t] \in Seq(Statuses) /\ Len(statusCh[t]) <= StatusBuf
    /\ shown \in [Tabs -> Statuses] /\ missed \in [Tabs -> BOOLEAN]

Init ==
    /\ n = 0 /\ buf = <<>> /\ st = [phase |-> "down", nr |-> 0]
    /\ viewing = {} /\ lineCh = [v \in Viewers |-> <<>>]
    /\ got = [v \in Viewers |-> <<>>] /\ lost = [v \in Viewers |-> FALSE]
    /\ tabOpen = {} /\ statusCh = [t \in Tabs |-> <<>>]
    /\ shown = [t \in Tabs |-> [phase |-> "down", nr |-> 0]] /\ missed = [t \in Tabs |-> FALSE]

---------------------------------------------------------------------------
(* The pump's side *)

Trim(s) == IF Len(s) > Ring THEN SubSeq(s, Len(s) - Ring + 1, Len(s)) ELSE s

\* a line goes to the ring and to every viewer whose channel has room
SendLine ==
    /\ n < MaxLines
    /\ n' = n + 1
    /\ buf' = Trim(Append(buf, n + 1))
    /\ LET hasRoom(v) == v \in viewing /\ Len(lineCh[v]) < SubBuf
       IN  /\ lineCh' = [v \in Viewers |->
                           IF hasRoom(v) THEN Append(lineCh[v], n + 1) ELSE lineCh[v]]
           /\ lost' = [v \in Viewers |-> lost[v] \/ (v \in viewing /\ ~hasRoom(v))]
    /\ UNCHANGED <<viewing, got>>

\* mutant: a full channel is emptied instead
SendStatusFlushes(p) ==
    /\ st.nr < MaxChanges
    /\ st' = [phase |-> p, nr |-> st.nr + 1]
    /\ statusCh' = [t \in Tabs |->
                      IF t \notin tabOpen THEN statusCh[t]
                      ELSE IF Len(statusCh[t]) < StatusBuf THEN Append(statusCh[t], st') ELSE <<>>]
    /\ UNCHANGED <<tabOpen, shown, missed>>

\* a changed status goes to every tab whose channel has room
SendStatus(p) ==
    /\ st.nr < MaxChanges
    /\ st' = [phase |-> p, nr |-> st.nr + 1]
    /\ LET hasRoom(t) == t \in tabOpen /\ Len(statusCh[t]) < StatusBuf
       IN  /\ statusCh' = [t \in Tabs |->
                             IF hasRoom(t) THEN Append(statusCh[t], st') ELSE statusCh[t]]
           /\ missed' = [t \in Tabs |-> missed[t] \/ (t \in tabOpen /\ ~hasRoom(t))]
    /\ UNCHANGED <<tabOpen, shown>>

\* one critical section: the line, and the status if its phase or detail changed
Publish ==
    /\ SendLine
    /\ \/ UNCHANGED statusVars
       \/ \E p \in Phases \ {"down"} : SendStatus(p)

SetRunning ==
    /\ SendStatus(IF st.phase = "down" THEN "booting" ELSE "down")
    /\ UNCHANGED lineVars

---------------------------------------------------------------------------
(* hEngineLogs *)

\* mutant: the replay goes through the channel, which holds fewer lines
SubscribeThroughChannel(v) ==
    /\ v \notin viewing
    /\ viewing' = viewing \cup {v}
    /\ got' = [got EXCEPT ![v] = IF Len(buf) > SubBuf THEN SubSeq(buf, 1, SubBuf) ELSE buf]
    /\ lineCh' = [lineCh EXCEPT ![v] = <<>>]
    /\ lost' = [lost EXCEPT ![v] = FALSE]
    /\ UNCHANGED <<n, buf, statusVars>>

\* one critical section: the ring is copied and the channel registered; the copy
\* is the first thing the viewer is shown
Subscribe(v) ==
    /\ v \notin viewing
    /\ viewing' = viewing \cup {v}
    /\ got' = [got EXCEPT ![v] = buf]
    /\ lineCh' = [lineCh EXCEPT ![v] = <<>>]
    /\ lost' = [lost EXCEPT ![v] = FALSE]
    /\ UNCHANGED <<n, buf, statusVars>>

ShowLine(v) ==
    /\ v \in viewing /\ lineCh[v] # <<>>
    /\ got' = [got EXCEPT ![v] = Append(@, Head(lineCh[v]))]
    /\ lineCh' = [lineCh EXCEPT ![v] = Tail(@)]
    /\ UNCHANGED <<n, buf, viewing, lost, statusVars>>

Unsubscribe(v) ==
    /\ v \in viewing
    /\ viewing' = viewing \ {v}
    /\ UNCHANGED <<n, buf, lineCh, got, lost, statusVars>>

---------------------------------------------------------------------------
(* hEvents *)

OpenTab(t) ==
    /\ t \notin tabOpen
    /\ tabOpen' = tabOpen \cup {t}
    /\ shown' = [shown EXCEPT ![t] = st]
    /\ statusCh' = [statusCh EXCEPT ![t] = <<>>]
    /\ missed' = [missed EXCEPT ![t] = FALSE]
    /\ UNCHANGED <<lineVars, st>>

ShowStatus(t) ==
    /\ t \in tabOpen /\ statusCh[t] # <<>>
    /\ shown' = [shown EXCEPT ![t] = Head(statusCh[t])]
    /\ statusCh' = [statusCh EXCEPT ![t] = Tail(@)]
    /\ UNCHANGED <<lineVars, st, tabOpen, missed>>

\* mutant: only a climbing percent is sent again
HasEtaClimbing == st.phase = "booting"

\* 0 < Pct < 100: a booting engine, or one that failed while it booted
HasEta == st.phase \in {"booting", "failed"}

EtaTick(t) ==
    /\ t \in tabOpen /\ HasEta
    /\ shown' = [shown EXCEPT ![t] = st]
    /\ missed' = [missed EXCEPT ![t] = @ /\ statusCh[t] # <<>>]
    /\ UNCHANGED <<lineVars, st, tabOpen, statusCh>>

CloseTab(t) ==
    /\ t \in tabOpen
    /\ tabOpen' = tabOpen \ {t}
    /\ UNCHANGED <<lineVars, st, statusCh, shown, missed>>

---------------------------------------------------------------------------

Next ==
    \/ Publish \/ SetRunning
    \/ \E v \in Viewers : Subscribe(v) \/ ShowLine(v) \/ Unsubscribe(v)
    \/ \E t \in Tabs : OpenTab(t) \/ ShowStatus(t) \/ EtaTick(t) \/ CloseTab(t)

Spec == Init /\ [][Next]_vars

\* select picks among its ready cases at random, and the ticker keeps ticking
FairSpec == Spec /\ \A t \in Tabs : SF_vars(ShowStatus(t)) /\ SF_vars(EtaTick(t))

---------------------------------------------------------------------------
(* Properties *)

\* the ring holds the last Ring lines, all of them
RingIsTail == buf = [i \in 1..(IF n < Ring THEN n ELSE Ring) |-> (IF n < Ring THEN 0 ELSE n - Ring) + i]

\* "They resync from the ring on next visit": the ring holds the last Ring lines, and
\* the replay and the live lines of a viewer join without a gap and without a line
\* twice; a gap is a line that was dropped from the viewer's full channel.
Joined ==
    /\ RingIsTail
    /\ \A v \in viewing :
          LET all == got[v] \o lineCh[v]
          IN  /\ \A i \in 1..(Len(all) - 1) : all[i] < all[i + 1]
              /\ ~lost[v] /\ all # <<>> => Last(all) = n /\ Len(all) = n - all[1] + 1

\* A tab for which nothing was dropped shows the status once its channel is empty,
\* though an ETA tick may have shown it ahead of older ones.
NothingMissed ==
    \A t \in tabOpen : ~missed[t] /\ statusCh[t] = <<>> => shown[t] = st

\* A boot or a failed boot is shown in the end whatever was dropped.
BootHeals ==
    \A t \in Tabs :
        <>[](t \in tabOpen /\ st.phase \in {"booting", "failed"}) => <>[](shown[t] = st)
=============================================================================
