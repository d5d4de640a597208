--------------------------- MODULE Streams_proofs ---------------------------
(***************************************************************************)
(* Proofs about the streams that are followed: the console's log and       *)
(* status, for any number of viewers and tabs and any capacities           *)
(* (BusFanout), and an answer on its way through the proxy, for any number *)
(* of lines and ticks (SseRelay).  The two share no state.                 *)
(***************************************************************************)
EXTENDS BusFanout, SseRelay, FiniteSetTheorems, SequenceTheorems, TLAPS

---------------------------------------------------------------------------
(* BusFanout: the replay and the live lines join, and a tab for which      *)
(* nothing was dropped is up to date.                                      *)

AnyStatus == [phase : Phases, nr : Nat]

LinesTyped ==
    /\ n \in Nat /\ buf \in Seq(Nat) /\ viewing \subseteq Viewers
    /\ lineCh \in [Viewers -> Seq(Nat)] /\ got \in [Viewers -> Seq(Nat)]
    /\ lost \in [Viewers -> BOOLEAN]

\* What a viewer has been shown and what waits for it, in order
All(v) == got[v] \o lineCh[v]

\* The numbers ascend, none is yet to come, and without a drop they are the last ones.
Ascends(s, m) ==
    /\ \A i \in 1..Len(s) : s[i] <= m
    /\ \A i \in 1..(Len(s) - 1) : s[i] < s[i + 1]
IsTail(s, m) == \A i \in 1..Len(s) : s[i] = m - Len(s) + i
ViewerOk(v) == Ascends(All(v), n) /\ (~lost[v] => IsTail(All(v), n))

LinesInv == LinesTyped /\ RingIsTail /\ \A v \in viewing : ViewerOk(v)

StatusTyped ==
    /\ st \in AnyStatus /\ tabOpen \subseteq Tabs
    /\ statusCh \in [Tabs -> Seq(AnyStatus)] /\ shown \in [Tabs -> AnyStatus]
    /\ missed \in [Tabs -> BOOLEAN]

\* The newest status is the last in the channel, or shown when that is empty.
NewestIsKept(t) ==
    ~missed[t] => IF statusCh[t] = << >> THEN shown[t] = st ELSE statusCh[t][Len(statusCh[t])] = st

StatusInv == StatusTyped /\ \A t \in tabOpen : NewestIsKept(t)

---------------------------------------------------------------------------
(* Sequences *)

LEMMA ConcatAppend ==
    ASSUME NEW s \in Seq(Nat), NEW t \in Seq(Nat), NEW x \in Nat
    PROVE  s \o Append(t, x) = Append(s \o t, x)
OBVIOUS

LEMMA NoElements == ASSUME NEW S, NEW s \in Seq(S), Len(s) = 0 PROVE s = << >>
OBVIOUS

LEMMA MoveHead ==
    ASSUME NEW s \in Seq(Nat), NEW t \in Seq(Nat), t # << >>
    PROVE  Append(s, Head(t)) \o Tail(t) = s \o t
<1> DEFINE a == Append(s, Head(t))
           b == Tail(t)
<1>1. /\ Len(s) \in Nat /\ Len(t) \in Nat /\ Len(t) > 0 /\ Head(t) = t[1] /\ t[1] \in Nat
      /\ b \in Seq(Nat) /\ Len(b) = Len(t) - 1 /\ \A i \in 1..(Len(t) - 1) : b[i] = t[i + 1]
  OBVIOUS
<1>2. /\ a \in Seq(Nat) /\ Len(a) = Len(s) + 1 /\ a[Len(s) + 1] = t[1]
      /\ \A i \in 1..Len(s) : a[i] = s[i]
  BY <1>1
<1> HIDE DEF a, b
<1>3. /\ a \o b \in Seq(Nat) /\ Len(a \o b) = Len(a) + Len(b)
      /\ \A i \in 1..(Len(a) + Len(b)) : (a \o b)[i] = IF i <= Len(a) THEN a[i] ELSE b[i - Len(a)]
  BY <1>1, <1>2, ConcatProperties, Zenon
<1>4. /\ s \o t \in Seq(Nat) /\ Len(s \o t) = Len(s) + Len(t)
      /\ \A i \in 1..(Len(s) + Len(t)) : (s \o t)[i] = IF i <= Len(s) THEN s[i] ELSE t[i - Len(s)]
  BY ConcatProperties, Zenon
<1>5. Len(a) + Len(b) = Len(s) + Len(t)
  BY <1>1, <1>2
<1>6. ASSUME NEW i \in 1..Len(a \o b) PROVE (a \o b)[i] = (s \o t)[i]
  <2>1. i \in 1..(Len(a) + Len(b)) /\ i \in 1..(Len(s) + Len(t))
    BY <1>3, <1>5
  <2>2. /\ (a \o b)[i] = IF i <= Len(a) THEN a[i] ELSE b[i - Len(a)]
        /\ (s \o t)[i] = IF i <= Len(s) THEN s[i] ELSE t[i - Len(s)]
    BY <1>3, <1>4, <2>1, Zenon
  <2>3. CASE i <= Len(s)
    BY <1>1, <1>2, <2>1, <2>2, <2>3
  <2>4. CASE i = Len(s) + 1
    BY <1>1, <1>2, <2>1, <2>2, <2>4
  <2>5. CASE i > Len(s) + 1
    <3>1. i - Len(a) \in 1..(Len(t) - 1) /\ i - Len(a) + 1 = i - Len(s)
      BY <1>1, <1>2, <2>1, <2>5
    <3>2. b[i - Len(a)] = t[i - Len(s)]
      BY <1>1, <3>1
    <3> QED
      BY <1>1, <1>2, <2>1, <2>2, <2>5, <3>2
  <2>6. Len(s) \in Nat /\ i \in Nat
    BY <1>1, <2>1
  <2>7. i <= Len(s) \/ i = Len(s) + 1 \/ i > Len(s) + 1
    BY <2>6
  <2> QED
    BY <2>3, <2>4, <2>5, <2>7, Zenon
<1>7. Len(a \o b) = Len(s \o t)
  BY <1>3, <1>4, <1>5
<1>8. a \o b = s \o t
  BY <1>3, <1>4, <1>6, <1>7, SeqEqual
<1> QED
  BY <1>8 DEF a, b

\* the next line after all the others
LEMMA AppendNext ==
    ASSUME NEW s \in Seq(Nat), NEW m \in Nat, Ascends(s, m)
    PROVE  Ascends(Append(s, m + 1), m + 1) /\ (IsTail(s, m) => IsTail(Append(s, m + 1), m + 1))
<1> DEFINE t == Append(s, m + 1)
<1>1. /\ Len(t) = Len(s) + 1 /\ Len(s) \in Nat /\ t[Len(s) + 1] = m + 1
      /\ \A i \in 1..Len(s) : t[i] = s[i] /\ s[i] \in Nat
  OBVIOUS
<1> HIDE DEF t
<1>2. Ascends(t, m + 1)
  <2>1. ASSUME NEW i \in 1..Len(t) PROVE t[i] <= m + 1
    <3>1. CASE i = Len(s) + 1
      <4>1. t[i] = m + 1
        BY <1>1, <3>1, Zenon
      <4> QED
        BY <4>1
    <3>2. CASE i # Len(s) + 1
      <4>1. i \in 1..Len(s)
        BY <1>1, <3>2
      <4>2. t[i] = s[i] /\ s[i] \in Nat /\ s[i] <= m
        BY <1>1, <4>1, Zenon DEF Ascends
      <4> QED
        BY <4>2
    <3> QED
      BY <3>1, <3>2, Zenon
  <2>2. ASSUME NEW i \in 1..(Len(t) - 1) PROVE t[i] < t[i + 1]
    <3>1. CASE i = Len(s)
      BY <1>1, <3>1, SMTT(20) DEF Ascends
    <3>2. CASE i < Len(s)
      BY <1>1, <3>2, SMTT(20) DEF Ascends
    <3>3. i = Len(s) \/ i < Len(s)
      BY <1>1
    <3> QED
      BY <3>1, <3>2, <3>3, Zenon
  <2> QED
    BY <2>1, <2>2 DEF Ascends
<1>3. ASSUME IsTail(s, m), NEW i \in 1..Len(t) PROVE t[i] = m + 1 - Len(t) + i
  <2>1. CASE i = Len(s) + 1
    BY <1>1, <2>1
  <2>2. CASE i <= Len(s)
    BY <1>1, <1>3, <2>2 DEF IsTail
  <2> QED
    BY <1>1, <1>3, <2>1, <2>2
<1> QED
  BY <1>2, <1>3 DEF IsTail, t

LEMMA DropNext ==
    ASSUME NEW s \in Seq(Nat), NEW m \in Nat, Ascends(s, m) PROVE Ascends(s, m + 1)
<1>1. Len(s) \in Nat /\ \A i \in 1..Len(s) : s[i] \in Nat
  OBVIOUS
<1> QED
  BY <1>1 DEF Ascends

---------------------------------------------------------------------------
(* Lines *)

LEMMA RingAscends == ASSUME LinesTyped, RingIsTail PROVE Ascends(buf, n) /\ IsTail(buf, n)
<1>1. Len(buf) = IF n < Ring THEN n ELSE Ring
  BY CapAssumption DEF LinesTyped, RingIsTail
<1>2. \A i \in 1..Len(buf) : buf[i] = n - Len(buf) + i
  BY <1>1, CapAssumption DEF LinesTyped, RingIsTail
<1>3. n \in Nat /\ Len(buf) \in Nat
  BY DEF LinesTyped
<1> QED
  BY <1>2, <1>3 DEF Ascends, IsTail

LEMMA RingMoves ==
    ASSUME LinesTyped, RingIsTail, n' = n + 1, buf' = Trim(Append(buf, n + 1))
    PROVE  RingIsTail' /\ buf' \in Seq(Nat)
<1> DEFINE s == Append(buf, n + 1)
<1>1. n \in Nat /\ buf \in Seq(Nat) /\ Ring \in Nat /\ Ring > 0
  BY CapAssumption DEF LinesTyped
<1>2. Len(buf) = IF n < Ring THEN n ELSE Ring
  BY <1>1 DEF RingIsTail
<1>3. \A i \in 1..Len(buf) : buf[i] = n - Len(buf) + i
  BY <1>1, <1>2 DEF RingIsTail
<1>4. /\ s \in Seq(Nat) /\ Len(s) = Len(buf) + 1
      /\ \A i \in 1..Len(s) : s[i] = n - Len(buf) + i
  BY <1>1, <1>3
<1> HIDE DEF s
<1>5. CASE n < Ring
  <2>1. buf' = s
    BY <1>1, <1>2, <1>4, <1>5 DEF Trim, s
  <2>2. s = [i \in 1..(n + 1) |-> i]
    BY <1>1, <1>2, <1>4, <1>5
  <2> QED
    BY <1>1, <1>4, <1>5, <2>1, <2>2 DEF RingIsTail
<1>6. CASE ~(n < Ring)
  <2>0. Len(s) = Ring + 1 /\ Len(s) - Ring + 1 = 2 /\ Len(s) > Ring
    BY <1>1, <1>2, <1>4, <1>6
  <2>1. buf' = SubSeq(s, 2, Ring + 1)
    BY <2>0 DEF Trim, s
  <2>2. SubSeq(s, 2, Ring + 1) = [i \in 1..Ring |-> n + 1 - Ring + i]
    BY <1>1, <1>2, <1>4, <1>6
  <2>3. SubSeq(s, 2, Ring + 1) \in Seq(Nat)
    BY <1>1, <1>2, <1>4, <1>6
  <2>4. ~(n' < Ring) /\ [i \in 1..Ring |-> n + 1 - Ring + i] = [i \in 1..Ring |-> (n' - Ring) + i]
    BY <1>1, <1>6
  <2> QED
    BY <2>1, <2>2, <2>3, <2>4 DEF RingIsTail
<1> QED
  BY <1>5, <1>6

LEMMA SendLineKeeps == ASSUME LinesInv, SendLine PROVE LinesInv'
<1> DEFINE hasRoom(v) == v \in viewing /\ Len(lineCh[v]) < SubBuf
<1>1. /\ n' = n + 1 /\ buf' = Trim(Append(buf, n + 1))
      /\ lineCh' = [v \in Viewers |-> IF hasRoom(v) THEN Append(lineCh[v], n + 1) ELSE lineCh[v]]
      /\ lost' = [v \in Viewers |-> lost[v] \/ (v \in viewing /\ ~hasRoom(v))]
      /\ viewing' = viewing /\ got' = got
  BY DEF SendLine
<1> HIDE DEF hasRoom
<1>2. n \in Nat /\ \A v \in Viewers : lineCh[v] \in Seq(Nat) /\ got[v] \in Seq(Nat) /\ lost[v] \in BOOLEAN
  BY DEF LinesInv, LinesTyped
<1>3. RingIsTail' /\ buf' \in Seq(Nat)
  BY <1>1, RingMoves DEF LinesInv
<1>4. lineCh' \in [Viewers -> Seq(Nat)]
  BY <1>1, <1>2
<1>5. lost' \in [Viewers -> BOOLEAN]
  BY <1>1, <1>2
<1>6. LinesTyped'
  BY <1>1, <1>2, <1>3, <1>4, <1>5 DEF LinesInv, LinesTyped
<1>7. ASSUME NEW v \in viewing PROVE ViewerOk(v)'
  <2>1. v \in Viewers /\ All(v) \in Seq(Nat) /\ Ascends(All(v), n)
    BY <1>2 DEF LinesInv, LinesTyped, ViewerOk, All
  <2>2. CASE hasRoom(v)
    <3>0. got'[v] = got[v] /\ lineCh'[v] = Append(lineCh[v], n + 1)
      BY <1>1, <2>1, <2>2
    <3>1. n + 1 \in Nat /\ lineCh[v] \in Seq(Nat) /\ got[v] \in Seq(Nat)
      BY <1>2, <2>1
    <3>2. got[v] \o Append(lineCh[v], n + 1) = Append(got[v] \o lineCh[v], n + 1)
      BY <3>1, ConcatAppend
    <3>3. All(v)' = Append(All(v), n + 1)
      BY <3>0, <3>2, Zenon DEF All
    <3>4. ~lost'[v] => ~lost[v]
      BY <1>1, <2>1
    <3> QED
      BY <1>1, <1>2, <2>1, <3>3, <3>4, AppendNext DEF LinesInv, ViewerOk
  <2>3. CASE ~hasRoom(v)
    <3>1. All(v)' = All(v) /\ lost'[v]
      BY <1>1, <2>1, <2>3 DEF All
    <3> QED
      BY <1>1, <1>2, <2>1, <3>1, DropNext DEF ViewerOk
  <2> QED
    BY <2>2, <2>3
<1> QED
  BY <1>1, <1>3, <1>6, <1>7 DEF LinesInv

LEMMA SameLines == ASSUME LinesInv, UNCHANGED lineVars PROVE LinesInv'
BY DEF LinesInv, LinesTyped, RingIsTail, ViewerOk, All, lineVars

LEMMA SubscribeKeeps == ASSUME LinesInv, NEW v \in Viewers, Subscribe(v) PROVE LinesInv'
<1>1. /\ viewing' = viewing \cup {v} /\ got' = [got EXCEPT ![v] = buf]
      /\ lineCh' = [lineCh EXCEPT ![v] = << >>] /\ lost' = [lost EXCEPT ![v] = FALSE]
      /\ n' = n /\ buf' = buf
  BY DEF Subscribe
<1>2. LinesTyped'
  BY <1>1 DEF LinesInv, LinesTyped
<1>3. ASSUME NEW w \in viewing' PROVE ViewerOk(w)'
  <2>1. CASE w = v
    <3>1. All(w)' = buf
      BY <1>1, <2>1 DEF All, LinesInv, LinesTyped
    <3> QED
      BY <1>1, <3>1, RingAscends DEF LinesInv, ViewerOk
  <2>2. CASE w # v
    <3>1. w \in viewing /\ All(w)' = All(w) /\ lost'[w] = lost[w]
      BY <1>1, <2>2 DEF All, LinesInv, LinesTyped
    <3> QED
      BY <1>1, <3>1 DEF LinesInv, ViewerOk
  <2> QED
    BY <2>1, <2>2
<1> QED
  BY <1>1, <1>2, <1>3 DEF LinesInv, RingIsTail

LEMMA ShowLineKeeps == ASSUME LinesInv, NEW v \in Viewers, ShowLine(v) PROVE LinesInv'
<1>1. /\ v \in viewing /\ lineCh[v] # << >>
      /\ got' = [got EXCEPT ![v] = Append(got[v], Head(lineCh[v]))]
      /\ lineCh' = [lineCh EXCEPT ![v] = Tail(lineCh[v])]
      /\ UNCHANGED <<n, buf, viewing, lost>>
  BY DEF ShowLine
<1>2. got \in [Viewers -> Seq(Nat)] /\ lineCh \in [Viewers -> Seq(Nat)]
  BY DEF LinesInv, LinesTyped
<1>3. Append(got[v], Head(lineCh[v])) \in Seq(Nat) /\ Tail(lineCh[v]) \in Seq(Nat)
  BY <1>1, <1>2
<1>4. LinesTyped'
  BY <1>1, <1>2, <1>3 DEF LinesInv, LinesTyped
<1>5. \A w \in Viewers : All(w)' = All(w)
  BY <1>1, <1>2, MoveHead, Zenon DEF All
<1> QED
  BY <1>1, <1>4, <1>5 DEF LinesInv, LinesTyped, RingIsTail, ViewerOk

LEMMA UnsubscribeKeeps == ASSUME LinesInv, NEW v \in Viewers, Unsubscribe(v) PROVE LinesInv'
BY DEF LinesInv, LinesTyped, RingIsTail, ViewerOk, All, Unsubscribe

LEMMA LinesStep == ASSUME LinesInv, [Next]_vars PROVE LinesInv'
<1>1. CASE Publish
  BY <1>1, SendLineKeeps DEF Publish
<1>2. CASE SetRunning \/ UNCHANGED vars
  BY <1>2, SameLines DEF SetRunning, vars, lineVars
<1>3. ASSUME NEW v \in Viewers, Subscribe(v) \/ ShowLine(v) \/ Unsubscribe(v) PROVE LinesInv'
  BY <1>3, SubscribeKeeps, ShowLineKeeps, UnsubscribeKeeps
<1>4. ASSUME NEW t \in Tabs, OpenTab(t) \/ ShowStatus(t) \/ EtaTick(t) \/ CloseTab(t) PROVE LinesInv'
  BY <1>4, SameLines DEF OpenTab, ShowStatus, EtaTick, CloseTab
<1> QED
  BY <1>1, <1>2, <1>3, <1>4 DEF Next

\* The ring holds the newest lines, and what a viewer is shown has no gap that is not a
\* drop and no line twice, wherever its visit began and however slow it is.
THEOREM ReplayJoins == Spec => []Joined
<1>1. Init => LinesInv
  BY CapAssumption DEF Init, LinesInv, LinesTyped, RingIsTail
<1>2. LinesInv => Joined
  <2> SUFFICES ASSUME LinesInv, NEW v \in viewing
               PROVE  /\ \A i \in 1..(Len(All(v)) - 1) : All(v)[i] < All(v)[i + 1]
                      /\ ~lost[v] /\ All(v) # << >> => Last(All(v)) = n /\ Len(All(v)) = n - All(v)[1] + 1
    BY DEF Joined, All, LinesInv
  <2>1. All(v) \in Seq(Nat) /\ n \in Nat
    BY DEF LinesInv, LinesTyped, All
  <2>2. ViewerOk(v)
    BY DEF LinesInv
  <2> QED
    BY <2>1, <2>2 DEF ViewerOk, Ascends, IsTail, Last
<1> QED
  BY <1>1, <1>2, LinesStep, PTL DEF Spec

---------------------------------------------------------------------------
(* Statuses *)

LEMMA SendStatusKeeps == ASSUME StatusInv, NEW p \in Phases, SendStatus(p) PROVE StatusInv'
<1> DEFINE hasRoom(t) == t \in tabOpen /\ Len(statusCh[t]) < StatusBuf
<1>1. /\ st' = [phase |-> p, nr |-> st.nr + 1]
      /\ statusCh' = [t \in Tabs |-> IF hasRoom(t) THEN Append(statusCh[t], st') ELSE statusCh[t]]
      /\ missed' = [t \in Tabs |-> missed[t] \/ (t \in tabOpen /\ ~hasRoom(t))]
      /\ tabOpen' = tabOpen /\ shown' = shown
  BY DEF SendStatus
<1> HIDE DEF hasRoom
<1>2. \A t \in Tabs : statusCh[t] \in Seq(AnyStatus) /\ missed[t] \in BOOLEAN
  BY DEF StatusInv, StatusTyped
<1>3. st' \in AnyStatus
  BY <1>1 DEF StatusInv, StatusTyped, AnyStatus
<1>4. statusCh' \in [Tabs -> Seq(AnyStatus)]
  BY <1>1, <1>2, <1>3
<1>5. missed' \in [Tabs -> BOOLEAN]
  BY <1>1, <1>2
<1>6. ASSUME NEW t \in tabOpen PROVE NewestIsKept(t)'
  <2>1. t \in Tabs
    BY DEF StatusInv, StatusTyped
  <2>2. CASE hasRoom(t)
    <3>1. statusCh'[t] = Append(statusCh[t], st')
      BY <1>1, <2>1, <2>2
    <3>2. statusCh'[t] # << >> /\ statusCh'[t][Len(statusCh'[t])] = st'
      BY <1>2, <1>3, <2>1, <3>1
    <3> QED
      BY <3>2 DEF NewestIsKept
  <2>3. CASE ~hasRoom(t)
    BY <1>1, <2>1, <2>3 DEF NewestIsKept
  <2> QED
    BY <2>2, <2>3
<1> QED
  BY <1>1, <1>3, <1>4, <1>5, <1>6 DEF StatusInv, StatusTyped

LEMMA SameStatus == ASSUME StatusInv, UNCHANGED statusVars PROVE StatusInv'
BY DEF StatusInv, StatusTyped, NewestIsKept, statusVars

LEMMA OpenTabKeeps == ASSUME StatusInv, NEW t \in Tabs, OpenTab(t) PROVE StatusInv'
<1>1. /\ tabOpen' = tabOpen \cup {t} /\ shown' = [shown EXCEPT ![t] = st]
      /\ statusCh' = [statusCh EXCEPT ![t] = << >>] /\ missed' = [missed EXCEPT ![t] = FALSE]
      /\ st' = st
  BY DEF OpenTab
<1>2. StatusTyped'
  BY <1>1 DEF StatusInv, StatusTyped
<1>3. ASSUME NEW u \in tabOpen' PROVE NewestIsKept(u)'
  BY <1>1 DEF StatusInv, StatusTyped, NewestIsKept
<1> QED
  BY <1>2, <1>3 DEF StatusInv

LEMMA ShowStatusKeeps == ASSUME StatusInv, NEW t \in Tabs, ShowStatus(t) PROVE StatusInv'
<1>1. /\ t \in tabOpen /\ statusCh[t] # << >>
      /\ shown' = [shown EXCEPT ![t] = Head(statusCh[t])]
      /\ statusCh' = [statusCh EXCEPT ![t] = Tail(statusCh[t])]
      /\ UNCHANGED <<st, tabOpen, missed>>
  BY DEF ShowStatus
<1> DEFINE q == statusCh[t]
<1>2. q \in Seq(AnyStatus) /\ q # << >>
  BY <1>1 DEF StatusInv, StatusTyped
<1>3. /\ Head(q) \in AnyStatus /\ Tail(q) \in Seq(AnyStatus)
      /\ Tail(q) = << >> => Head(q) = q[Len(q)]
      /\ Tail(q) # << >> => Tail(q)[Len(Tail(q))] = q[Len(q)]
  <2> HIDE DEF q
  <2>1. /\ Len(q) \in Nat /\ Len(q) >= 1 /\ Tail(q) \in Seq(AnyStatus)
        /\ Len(Tail(q)) = Len(q) - 1 /\ Head(q) = q[1] /\ q[1] \in AnyStatus
    BY <1>2
  <2>2. CASE Len(q) = 1
    <3>1. Len(Tail(q)) = 0
      BY <2>1, <2>2
    <3>2. Tail(q) = << >>
      BY <2>1, <3>1, NoElements
    <3> QED
      BY <2>1, <2>2, <3>2
  <2>3. CASE Len(q) > 1
    <3>1. Tail(q)[Len(q) - 1] = q[Len(q)]
      BY <1>2, <2>1, <2>3
    <3> QED
      BY <2>1, <2>3, <3>1
  <2> QED
    BY <2>1, <2>2, <2>3
<1>4. StatusTyped'
  BY <1>1, <1>3 DEF StatusInv, StatusTyped
<1>5. shown'[t] = Head(q) /\ statusCh'[t] = Tail(q)
  BY <1>1 DEF StatusInv, StatusTyped
<1>6. ~missed[t] => q[Len(q)] = st
  BY <1>1, <1>2 DEF StatusInv, NewestIsKept
<1> HIDE DEF q
<1>7. ASSUME NEW u \in tabOpen' PROVE NewestIsKept(u)'
  <2>1. CASE u = t
    BY <1>1, <1>3, <1>5, <1>6, <2>1 DEF NewestIsKept
  <2>2. CASE u # t
    BY <1>1, <2>2 DEF StatusInv, StatusTyped, NewestIsKept
  <2> QED
    BY <2>1, <2>2
<1> QED
  BY <1>4, <1>7 DEF StatusInv

LEMMA EtaTickKeeps == ASSUME StatusInv, NEW t \in Tabs, EtaTick(t) PROVE StatusInv'
<1>1. /\ t \in tabOpen /\ shown' = [shown EXCEPT ![t] = st]
      /\ missed' = [missed EXCEPT ![t] = missed[t] /\ statusCh[t] # << >>]
      /\ UNCHANGED <<st, tabOpen, statusCh>>
  BY DEF EtaTick
<1>2. StatusTyped'
  BY <1>1 DEF StatusInv, StatusTyped
<1>3. ASSUME NEW u \in tabOpen' PROVE NewestIsKept(u)'
  BY <1>1 DEF StatusInv, StatusTyped, NewestIsKept
<1> QED
  BY <1>2, <1>3 DEF StatusInv

LEMMA CloseTabKeeps == ASSUME StatusInv, NEW t \in Tabs, CloseTab(t) PROVE StatusInv'
BY DEF StatusInv, StatusTyped, NewestIsKept, CloseTab

LEMMA StatusStep == ASSUME StatusInv, [Next]_vars PROVE StatusInv'
<1>1. CASE Publish
  BY <1>1, SameStatus, SendStatusKeeps DEF Publish
<1>2. CASE SetRunning
  BY <1>2, SendStatusKeeps DEF SetRunning, Phases
<1>3. ASSUME NEW v \in Viewers, Subscribe(v) \/ ShowLine(v) \/ Unsubscribe(v) PROVE StatusInv'
  BY <1>3, SameStatus DEF Subscribe, ShowLine, Unsubscribe
<1>4. ASSUME NEW t \in Tabs, OpenTab(t) \/ ShowStatus(t) \/ EtaTick(t) \/ CloseTab(t) PROVE StatusInv'
  BY <1>4, OpenTabKeeps, ShowStatusKeeps, EtaTickKeeps, CloseTabKeeps
<1>5. CASE UNCHANGED vars
  BY <1>5, SameStatus DEF vars, statusVars
<1> QED
  BY <1>1, <1>2, <1>3, <1>4, <1>5 DEF Next

\* A tab for which nothing was dropped shows the status once its channel is empty.
THEOREM NothingIsMissed == Spec => []NothingMissed
<1>1. Init => StatusInv
  BY DEF Init, StatusInv, StatusTyped, AnyStatus, Phases
<1>2. StatusInv => NothingMissed
  BY DEF StatusInv, NothingMissed, NewestIsKept
<1> QED
  BY <1>1, <1>2, StatusStep, PTL DEF Spec

---------------------------------------------------------------------------
(* SseRelay: a client that stays has the engine's lines, each once and in  *)
(* order, and a silence between two events is pinged.                      *)

\* What the history holds, and where the handler and its reader are.
RelayTyped ==
    /\ emitted \in Seq(LineKinds) /\ out \in Seq(LineKinds \cup {"keepalive"})
    /\ scanned \in Nat /\ taken \in Nat /\ quiet \in Nat
    /\ pc \in {"recv", "dial", "json", "relay", "write", "ping", "closed"}
    /\ reader \in {"none", "scan", "send", "exit"} /\ client \in {"reading", "stalled", "gone"}

\* Lines go from the body to the reader to the loop one by one.
HandOver ==
    /\ scanned = (IF reader = "send" THEN taken + 1 ELSE taken) /\ scanned <= Len(emitted)
    /\ pc \in {"recv", "dial", "json"} => reader = "none" /\ quiet = 0
    /\ pc \in {"relay", "write", "ping"} => reader # "none"

\* The client has the lines in order, up to the one in the loop's hand.
InOrder ==
    /\ \A i \in 1..Len(out) : out[i] # "keepalive" =>
          Lines(out, i) \in 1..taken /\ out[i] = emitted[Lines(out, i)]
    /\ client # "gone" => Lines(out, Len(out)) = IF pc = "write" THEN taken - 1 ELSE taken

\* The reader ends by itself only behind the last line, or at one too long for it.
Whole ==
    /\ cancelled /\ ~ctxDone => pc = "closed"
    /\ reader = "exit" /\ ~ctxDone /\ ~cut => scanned = Len(emitted) /\ up.body # "open"
    /\ reader \in {"scan", "send"} /\ pc = "closed" => ctxDone

\* Between two events either a ping may be sent or one was sent last.
Pinged ==
    /\ wroteSincePing => out # <<>> /\ out[Len(out)] = "keepalive"
    /\ pc \in {"write", "ping"} => ~wroteSincePing
    /\ BetweenEvents => atBoundary \/ wroteSincePing
    /\ pc = "relay" /\ client # "gone" /\ quiet >= 1 /\ BetweenEvents => wroteSincePing

RelayInv == RelayTyped /\ HandOver /\ InOrder /\ Whole /\ Pinged

---------------------------------------------------------------------------
(* Counting lines *)

LEMMA LinesNat ==
    ASSUME NEW q, NEW i \in Nat
    PROVE  IsFiniteSet({j \in 1..i : q[j] # "keepalive"}) /\ Lines(q, i) \in Nat
<1>1. IsFiniteSet(1..i) /\ {j \in 1..i : q[j] # "keepalive"} \in SUBSET (1..i)
  BY FS_Interval
<1> QED
  BY <1>1, FS_Subset, FS_CardinalityType DEF Lines

LEMMA LinesNone == ASSUME NEW q PROVE Lines(q, 0) = 0
<1>1. {j \in 1..0 : q[j] # "keepalive"} = {}
  OBVIOUS
<1> QED
  BY <1>1, FS_EmptySet DEF Lines

\* What is appended counts if it is a line, and changes no earlier count.
LEMMA LinesAppend ==
    ASSUME NEW S, NEW q \in Seq(S), NEW x \in S
    PROVE  LET r == Append(q, x)
           IN  /\ \A i \in 0..Len(q) : Lines(r, i) = Lines(q, i)
               /\ Lines(r, Len(q) + 1) = Lines(q, Len(q)) + (IF x = "keepalive" THEN 0 ELSE 1)
<1> DEFINE r == Append(q, x)
           At(u, i) == {j \in 1..i : u[j] # "keepalive"}
<1>1. /\ Len(q) \in Nat /\ r[Len(q) + 1] = x
      /\ \A j \in 1..Len(q) : r[j] = q[j]
  OBVIOUS
<1> HIDE DEF r
<1>2. \A i \in 0..Len(q) : At(r, i) = At(q, i)
  BY <1>1
<1>3. At(r, Len(q) + 1) = IF x = "keepalive" THEN At(q, Len(q)) ELSE At(q, Len(q)) \cup {Len(q) + 1}
  BY <1>1
<1>4. /\ IsFiniteSet(At(q, Len(q))) /\ Cardinality(At(q, Len(q))) \in Nat
      /\ Len(q) + 1 \notin At(q, Len(q))
  <2>1. IsFiniteSet(At(q, Len(q)))
    BY <1>1, LinesNat, Zenon
  <2>2. Len(q) + 1 \notin 1..Len(q)
    BY <1>1
  <2> QED
    BY <2>1, <2>2, FS_CardinalityType
<1> HIDE DEF At
<1>5. Cardinality(At(r, Len(q) + 1)) = Cardinality(At(q, Len(q))) + (IF x = "keepalive" THEN 0 ELSE 1)
  <2>1. CASE x = "keepalive"
    BY <1>3, <1>4, <2>1
  <2>2. CASE x # "keepalive"
    BY <1>3, <1>4, <2>2, FS_AddElement
  <2> QED
    BY <2>1, <2>2
<1>6. \A i : Lines(r, i) = Cardinality(At(r, i)) /\ Lines(q, i) = Cardinality(At(q, i))
  BY Zenon DEF Lines, At
<1>7. \A i \in 0..Len(q) : Lines(r, i) = Lines(q, i)
  BY <1>2, <1>6
<1>8. Lines(r, Len(q) + 1) = Lines(q, Len(q)) + (IF x = "keepalive" THEN 0 ELSE 1)
  BY <1>5, <1>6
<1> QED
  BY <1>7, <1>8 DEF r

---------------------------------------------------------------------------
(* Each action keeps the invariant *)

LEMMA RelayStarts == RelayInit => RelayInv
<1> SUFFICES ASSUME RelayInit PROVE RelayInv
  OBVIOUS
<1>1. RelayTyped /\ HandOver
  BY DEF RelayInit, RelayTyped, HandOver
<1>2. InOrder
  BY LinesNone DEF RelayInit, InOrder
<1>3. Whole /\ Pinged
  BY DEF RelayInit, Whole, Pinged, BetweenEvents
<1> QED
  BY <1>1, <1>2, <1>3 DEF RelayInv

\* What touches neither the lines nor the loop's hand keeps the order.
LEMMA SameOrder ==
    ASSUME RelayInv, UNCHANGED <<out, emitted, taken>>, client' # "gone" => client # "gone",
           (pc' = "write") = (pc = "write")
    PROVE  InOrder'
BY DEF RelayInv, InOrder, Lines

LEMMA SamePings ==
    ASSUME RelayInv, UNCHANGED <<out, emitted, taken, flags, quiet, pc>>,
           client' # "gone" => client # "gone"
    PROVE  Pinged'
BY DEF RelayInv, Pinged, BetweenEvents, flags

LEMMA EngineKeeps == ASSUME RelayInv, EngineChanges \/ EndBody PROVE RelayInv'
<1>1. /\ UNCHANGED <<out, quiet, cut, emitted, taken, scanned, reader, pc, client, cancelled, ctxDone, flags>>
      /\ up.body # "open" => up' = up
      /\ up.body = "open" => up'.body # "open"
  <2>1. CASE EndBody
    BY <2>1 DEF EndBody, streamVars, worldVars, hist
  <2>2. CASE EngineChanges
    BY <2>2 DEF EngineChanges, streamVars, hist
  <2> QED
    BY <2>1, <2>2
<1>2. RelayTyped' /\ HandOver' /\ Whole'
  BY <1>1 DEF RelayInv, RelayTyped, HandOver, Whole
<1> QED
  BY <1>1, <1>2, SameOrder, SamePings DEF RelayInv

LEMMA EmitKeeps == ASSUME RelayInv, NEW k \in LineKinds, Emit(k) PROVE RelayInv'
<1>1. /\ UNCHANGED <<out, quiet, cut, taken, scanned, reader, pc, client, cancelled, ctxDone, up, flags>>
      /\ up.body = "open" /\ reader # "none" /\ emitted' = Append(emitted, k)
  BY DEF Emit, worldVars, hist
<1>2. /\ emitted' \in Seq(LineKinds) /\ Len(emitted') = Len(emitted) + 1
      /\ \A i \in 1..Len(emitted) : emitted'[i] = emitted[i]
  BY <1>1 DEF RelayInv, RelayTyped
<1>3. RelayTyped' /\ HandOver' /\ Whole'
  BY <1>1, <1>2 DEF RelayInv, RelayTyped, HandOver, Whole
<1>4. taken \in Nat /\ taken <= Len(emitted)
  BY <1>1 DEF RelayInv, RelayTyped, HandOver
<1>5. InOrder'
  BY <1>1, <1>2, <1>4 DEF RelayInv, InOrder, Lines
<1>6. BetweenEvents' = BetweenEvents
  BY <1>1, <1>2, <1>4 DEF BetweenEvents
<1>7. Pinged'
  BY <1>1, <1>6 DEF RelayInv, Pinged, flags
<1> QED
  BY <1>3, <1>5, <1>7 DEF RelayInv

LEMMA ClientKeeps ==
    ASSUME RelayInv, NEW from, NEW to \in {"reading", "stalled", "gone"},
           ClientMoves(from, to), "gone" \notin from
    PROVE  RelayInv'
<1>1. /\ UNCHANGED <<out, quiet, cut, emitted, taken, scanned, reader, pc, cancelled, ctxDone, up, flags>>
      /\ client # "gone" /\ client' = to
  BY DEF ClientMoves, streamVars, hist
<1>2. RelayTyped' /\ HandOver' /\ Whole'
  BY <1>1 DEF RelayInv, RelayTyped, HandOver, Whole
<1> QED
  BY <1>1, <1>2, SameOrder, SamePings DEF RelayInv

LEMMA NoticeKeeps == ASSUME RelayInv, NoticeGone PROVE RelayInv'
<1>1. /\ UNCHANGED <<out, quiet, cut, emitted, taken, scanned, reader, pc, client, cancelled, up, flags>>
      /\ ctxDone' = TRUE
  BY DEF NoticeGone, SeeGone, streamVars, worldVars, hist
<1>2. RelayTyped' /\ HandOver' /\ Whole'
  BY <1>1 DEF RelayInv, RelayTyped, HandOver, Whole
<1> QED
  BY <1>1, <1>2, SameOrder, SamePings DEF RelayInv

\* Before the relay nothing has been written and nobody reads.
LEMMA FrontKeeps == ASSUME RelayInv, CheckCeiling \/ Dial \/ RelayJSON PROVE RelayInv'
<1>1. /\ UNCHANGED <<out, quiet, cut, emitted, taken, scanned, client, ctxDone, flags>>
      /\ pc \in {"recv", "dial", "json"}
      /\ \/ pc' \in {"dial", "json", "closed"} /\ reader' = reader /\ (cancelled' = cancelled \/ pc' = "closed")
         \/ pc' = "relay" /\ reader' = "scan" /\ cancelled' = cancelled
  <2>1. CASE CheckCeiling
    BY <2>1 DEF CheckCeiling, Answer, streamVars, worldVars, hist
  <2>2. CASE Dial
    BY <2>2 DEF Dial, Answer, worldVars, hist
  <2>3. CASE RelayJSON
    BY <2>3 DEF RelayJSON, Answer, streamVars, worldVars, hist
  <2> QED
    BY <2>1, <2>2, <2>3
<1>2. reader = "none" /\ quiet = 0
  BY <1>1 DEF RelayInv, HandOver
<1>3. RelayTyped' /\ HandOver' /\ Whole'
  BY <1>1, <1>2 DEF RelayInv, RelayTyped, HandOver, Whole
<1>4. InOrder'
  BY <1>1, SameOrder
<1>5. Pinged'
  BY <1>1, <1>2 DEF RelayInv, Pinged, BetweenEvents, flags
<1> QED
  BY <1>3, <1>4, <1>5 DEF RelayInv

LEMMA ReaderKeeps == ASSUME RelayInv, ReaderScan \/ ReaderEnd PROVE RelayInv'
<1>1. UNCHANGED <<out, quiet, cut, emitted, taken, pc, client, cancelled, ctxDone, up, flags>>
  BY DEF ReaderScan, ReaderEnd, worldVars, hist
<1>2. RelayTyped' /\ HandOver' /\ Whole'
  BY <1>1 DEF RelayInv, RelayTyped, HandOver, Whole, ReaderScan, ReaderEnd, Exhausted
<1> QED
  BY <1>1, <1>2, SameOrder, SamePings DEF RelayInv

LEMMA FailKeeps == ASSUME RelayInv, ReaderFails PROVE RelayInv'
<1>1. /\ reader = "scan" /\ reader' = "exit" /\ cut' = TRUE
      /\ UNCHANGED <<out, quiet, emitted, scanned, taken, pc, client, cancelled, ctxDone, up, flags>>
  BY DEF ReaderFails, worldVars
<1>2. RelayTyped' /\ HandOver' /\ Whole'
  BY <1>1 DEF RelayInv, RelayTyped, HandOver, Whole
<1> QED
  BY <1>1, <1>2, SameOrder, SamePings DEF RelayInv

LEMMA TakeKeeps == ASSUME RelayInv, TakeLine PROVE RelayInv'
<1>1. /\ pc = "relay" /\ pc' = "write" /\ reader = "send" /\ reader' = "scan" /\ taken' = taken + 1
      /\ wroteSincePing' = FALSE /\ atBoundary' = (atBoundary \/ emitted[scanned] = "blank")
      /\ UNCHANGED <<out, quiet, cut, emitted, scanned, client, cancelled, ctxDone, up>>
  BY DEF TakeLine, worldVars, hist
<1>2. RelayTyped' /\ HandOver' /\ Whole'
  BY <1>1 DEF RelayInv, RelayTyped, HandOver, Whole
<1>3. InOrder'
  BY <1>1 DEF RelayInv, RelayTyped, InOrder, Lines
<1>4. taken' = scanned /\ taken \in Nat
  BY <1>1 DEF RelayInv, HandOver, RelayTyped
<1>5. emitted[scanned] = "blank" => atBoundary'
  BY <1>1, Zenon
<1>6. Pinged'
  BY <1>1, <1>4, <1>5 DEF Pinged, BetweenEvents
<1> QED
  BY <1>2, <1>3, <1>6 DEF RelayInv

LEMMA WriteKeeps == ASSUME RelayInv, WriteLine PROVE RelayInv'
<1>1. /\ pc = "write" /\ pc' = "relay" /\ client # "stalled"
      /\ UNCHANGED <<emitted, taken, scanned, reader, client, up, flags>>
  BY DEF WriteLine, streamVars, worldVars
<1>2. taken \in Nat /\ scanned \in Nat /\ taken <= Len(emitted) /\ Len(out) \in Nat /\ reader # "none"
  BY <1>1 DEF RelayInv, RelayTyped, HandOver
<1>3. CASE client = "reading"
  <2>1. out' = Append(out, emitted[taken]) /\ quiet' = 0 /\ UNCHANGED <<cancelled, ctxDone, cut>>
    BY <1>3 DEF WriteLine
  <2>2. Lines(out, Len(out)) = taken - 1 /\ taken \in 1..Len(emitted)
    <3>1. Lines(out, Len(out)) = taken - 1 /\ Lines(out, Len(out)) \in Nat
      BY <1>1, <1>2, <1>3, LinesNat DEF RelayInv, InOrder
    <3> QED
      BY <1>2, <3>1
  <2>3. emitted[taken] \in LineKinds /\ emitted[taken] # "keepalive" /\ out \in Seq(LineKinds \cup {"keepalive"})
    BY <2>2 DEF RelayInv, RelayTyped, LineKinds
  <2>4. /\ out' \in Seq(LineKinds \cup {"keepalive"}) /\ Len(out') = Len(out) + 1
        /\ out'[Len(out')] = emitted[taken] /\ \A i \in 1..Len(out) : out'[i] = out[i]
    BY <2>1, <2>3
  <2>5. /\ \A i \in 0..Len(out) : Lines(out', i) = Lines(out, i)
        /\ Lines(out', Len(out) + 1) = Lines(out, Len(out)) + 1
    BY <2>1, <2>3, LinesAppend
  <2>6. RelayTyped' /\ HandOver' /\ Whole'
    BY <1>1, <2>1, <2>4 DEF RelayInv, RelayTyped, HandOver, Whole
  <2>7. ASSUME NEW i \in 1..Len(out'), out'[i] # "keepalive"
        PROVE  Lines(out', i) \in 1..taken /\ out'[i] = emitted[Lines(out', i)]
    <3>1. CASE i \in 1..Len(out)
      BY <2>4, <2>5, <2>7, <3>1 DEF RelayInv, InOrder
    <3>2. CASE i = Len(out) + 1
      BY <2>2, <2>4, <2>5, <3>2
    <3> QED
      BY <1>2, <2>4, <3>1, <3>2
  <2>8. InOrder'
    BY <1>1, <1>2, <2>2, <2>4, <2>5, <2>7 DEF InOrder
  <2>9. Pinged'
    BY <1>1, <2>1 DEF RelayInv, Pinged, BetweenEvents, flags
  <2> QED
    BY <2>6, <2>8, <2>9 DEF RelayInv
<1>4. CASE client # "reading"
  <2>1. UNCHANGED <<out, quiet>> /\ cancelled' = TRUE /\ ctxDone' = TRUE
    BY <1>4 DEF WriteLine, SeeGone, hist
  <2>2. RelayTyped' /\ HandOver' /\ Whole'
    BY <1>1, <2>1 DEF RelayInv, RelayTyped, HandOver, Whole
  <2>3. client = "gone"
    BY <1>1, <1>4 DEF RelayInv, RelayTyped
  <2>4. InOrder' /\ Pinged'
    BY <1>1, <2>1, <2>3 DEF RelayInv, InOrder, Pinged, BetweenEvents, flags, Lines
  <2> QED
    BY <2>2, <2>4 DEF RelayInv
<1> QED
  BY <1>3, <1>4

LEMMA TickKeepsRelay == ASSUME RelayInv, Tick PROVE RelayInv'
<1>1. /\ pc = "relay" /\ pc' \in {"relay", "ping"} /\ quiet' \in Nat
      /\ UNCHANGED <<out, cut, emitted, taken, scanned, reader, client, cancelled, ctxDone, up, flags>>
      /\ IF MayPing THEN pc' = "ping" ELSE pc' = "relay"
  BY DEF Tick, RelayInv, RelayTyped, streamVars, worldVars
<1>2. RelayTyped' /\ HandOver' /\ Whole'
  BY <1>1 DEF RelayInv, RelayTyped, HandOver, Whole
<1>3. Pinged'
  BY <1>1 DEF RelayInv, Pinged, BetweenEvents, flags, MayPing
<1> QED
  BY <1>1, <1>2, <1>3, SameOrder DEF RelayInv

LEMMA PingKeeps == ASSUME RelayInv, WritePing PROVE RelayInv'
<1>1. /\ pc = "ping" /\ pc' = "relay" /\ client # "stalled"
      /\ UNCHANGED <<emitted, taken, scanned, reader, client, up, cancelled>>
  BY DEF WritePing, streamVars, worldVars
<1>2. Len(out) \in Nat /\ out \in Seq(LineKinds \cup {"keepalive"})
  BY DEF RelayInv, RelayTyped
<1>3. CASE client = "reading"
  <2>1. /\ out' = Append(out, "keepalive") /\ quiet' = 0 /\ UNCHANGED <<ctxDone, cut>>
        /\ wroteSincePing' = TRUE /\ atBoundary' = FALSE
    BY <1>3 DEF WritePing
  <2>2. /\ out' \in Seq(LineKinds \cup {"keepalive"}) /\ Len(out') = Len(out) + 1
        /\ out'[Len(out')] = "keepalive" /\ \A i \in 1..Len(out) : out'[i] = out[i]
    BY <1>2, <2>1
  <2>3. /\ \A i \in 0..Len(out) : Lines(out', i) = Lines(out, i)
        /\ Lines(out', Len(out) + 1) = Lines(out, Len(out)) + 0
    BY <1>2, <2>1, LinesAppend
  <2>4. RelayTyped' /\ HandOver' /\ Whole'
    BY <1>1, <2>1, <2>2 DEF RelayInv, RelayTyped, HandOver, Whole
  <2>5. Lines(out, Len(out)) \in Nat
    BY <1>2, LinesNat
  <2>6. ASSUME NEW i \in 1..Len(out'), out'[i] # "keepalive"
        PROVE  Lines(out', i) \in 1..taken /\ out'[i] = emitted[Lines(out', i)]
    <3>1. i \in 1..Len(out)
      BY <1>2, <2>2, <2>6
    <3> QED
      BY <2>2, <2>3, <2>6, <3>1 DEF RelayInv, InOrder
  <2>7. InOrder'
    BY <1>1, <2>2, <2>3, <2>5, <2>6 DEF RelayInv, InOrder
  <2>8. out' # <<>>
    BY <1>2, <2>1
  <2>9. Pinged'
    BY <1>1, <2>1, <2>2, <2>8 DEF Pinged
  <2> QED
    BY <2>4, <2>7, <2>9 DEF RelayInv
<1>4. CASE client # "reading"
  <2>1. UNCHANGED <<out, quiet, cut, flags>> /\ ctxDone' = TRUE
    BY <1>4 DEF WritePing, SeeGone, hist
  <2>2. RelayTyped' /\ HandOver' /\ Whole'
    BY <1>1, <2>1 DEF RelayInv, RelayTyped, HandOver, Whole
  <2>3. client = "gone"
    BY <1>1, <1>4 DEF RelayInv, RelayTyped
  <2>4. InOrder' /\ Pinged'
    BY <1>1, <2>1, <2>3 DEF RelayInv, InOrder, Pinged, BetweenEvents, flags, Lines
  <2> QED
    BY <2>2, <2>4 DEF RelayInv
<1> QED
  BY <1>3, <1>4

LEMMA CloseKeeps == ASSUME RelayInv, ClientGone \/ LinesClosed PROVE RelayInv'
<1>1. /\ pc = "relay" /\ pc' = "closed" /\ cancelled' = TRUE /\ (ctxDone \/ reader = "exit")
      /\ UNCHANGED <<out, quiet, cut, emitted, taken, scanned, reader, client, ctxDone, up, flags>>
  BY DEF ClientGone, LinesClosed, streamVars, worldVars, hist
<1>2. RelayTyped' /\ HandOver' /\ Whole'
  BY <1>1 DEF RelayInv, RelayTyped, HandOver, Whole
<1>3. Pinged'
  BY <1>1 DEF RelayInv, Pinged, BetweenEvents, flags
<1> QED
  BY <1>1, <1>2, <1>3, SameOrder DEF RelayInv

LEMMA RelayStep == ASSUME RelayInv, [RelayNext]_relayVars PROVE RelayInv'
<1>1. CASE Proxy
  BY <1>1, FrontKeeps, ReaderKeeps, TakeKeeps, WriteKeeps, PingKeeps, CloseKeeps DEF Proxy
<1>2. CASE \/ ClientMoves({"reading"}, "stalled") \/ ClientMoves({"stalled"}, "reading")
           \/ ClientMoves({"reading", "stalled"}, "gone")
  BY <1>2, ClientKeeps
<1>3. CASE UNCHANGED relayVars
  <2>1. UNCHANGED <<out, quiet, cut, emitted, taken, scanned, reader, pc, client, cancelled, ctxDone, up, flags>>
    BY <1>3 DEF relayVars, flags
  <2>2. RelayTyped' /\ HandOver' /\ Whole'
    BY <2>1 DEF RelayInv, RelayTyped, HandOver, Whole
  <2> QED
    BY <2>1, <2>2, SameOrder, SamePings DEF RelayInv
<1> QED
  BY <1>1, <1>2, <1>3, EngineKeeps, EmitKeeps, NoticeKeeps, FailKeeps, TickKeepsRelay, CloseKeeps DEF RelayNext

\* Without its keepalives, what the client has read is a prefix of the stream, and all
\* of it when the stream ended by itself, the client stayed and no line was too long for
\* the reader: for streams of any length, whatever the engine, the client and the ticker do meanwhile.
THEOREM StreamRelayedFaithfully == RelaySpec => []RelayedFaithfully
<1>1. RelayInv => RelayedFaithfully
  <2> SUFFICES ASSUME RelayInv PROVE RelayedFaithfully
    OBVIOUS
  <2>1. taken \in Nat /\ scanned \in Nat /\ taken <= scanned /\ scanned <= Len(emitted) /\ Len(emitted) \in Nat
    BY DEF RelayInv, RelayTyped, HandOver
  <2>2. \A i \in 1..Len(out) : out[i] # "keepalive" =>
           Lines(out, i) <= Len(emitted) /\ out[i] = emitted[Lines(out, i)]
    <3> SUFFICES ASSUME NEW i \in 1..Len(out), out[i] # "keepalive"
                 PROVE  Lines(out, i) <= Len(emitted) /\ out[i] = emitted[Lines(out, i)]
      OBVIOUS
    <3>1. Lines(out, i) \in 1..taken /\ out[i] = emitted[Lines(out, i)]
      BY DEF RelayInv, InOrder
    <3> QED
      BY <2>1, <3>1
  <2>3. cut \/ WholeAtEnd
    BY DEF RelayInv, HandOver, InOrder, Whole, WholeAtEnd
  <2> QED
    BY <2>2, <2>3 DEF RelayedFaithfully
<1> QED
  BY <1>1, RelayStarts, RelayStep, PTL DEF RelaySpec

\* After one silent period between two events the client has been sent a keepalive.
THEOREM SilenceIsPinged == RelaySpec => []SilencePinged
<1>1. RelayInv => SilencePinged
  <2> SUFFICES ASSUME RelayInv PROVE SilencePinged
    OBVIOUS
  <2>1. Last(out) = out[Len(out)]
    BY DEF Last
  <2> QED
    BY <2>1 DEF RelayInv, Pinged, SilencePinged
<1> QED
  BY <1>1, RelayStarts, RelayStep, PTL DEF RelaySpec
---------------------------------------------------------------------------
(* What a handler leaves behind *)

\* A handler that has returned has no upstream open and no row among the live ones: a
\* refused request never had either, any other one cancelled the one and finished the
\* other, as aborted only if the client had gone.
NothingLeft ==
    /\ pc = "closed" => \/ row.in = "none" /\ up.body = "none"
                        \/ row.in = "ring" /\ cancelled /\ row.phase \in Terminal
    /\ row.aborted => row.in = "ring" /\ ctxDone

\* A finished row is not touched again.
RowIsFinal == row.in = "ring" => UNCHANGED row

\* The row is opened with the answer of the upstream and finished with the handler.
RowInv ==
    /\ row \in [in : {"none", "live", "ring"}, phase : {"prefill", "decoding"} \cup Terminal,
                tokens : Nat, first : BOOLEAN, aborted : BOOLEAN]
    /\ up \in [status : {"none", "ok", "error"}, body : {"none", "open", "eof", "broken"}]
    /\ row.in = "ring" => pc = "closed"
    /\ row.in = "none" => up.body = "none" /\ ~row.aborted /\ pc \in {"recv", "dial", "closed"}
    /\ row.in = "live" => pc \in {"json", "relay", "write", "ping"}
    /\ NothingLeft

LEMMA SameRow ==
    ASSUME RowInv, UNCHANGED row, pc' = pc, cancelled => cancelled', ctxDone => ctxDone',
           up' \in [status : {"none", "ok", "error"}, body : {"none", "open", "eof", "broken"}],
           up.body = "none" => up'.body = "none"
    PROVE  RowInv' /\ RowIsFinal
BY Zenon DEF RowInv, NothingLeft, RowIsFinal

LEMMA RowStep == ASSUME RowInv, [RelayNext]_relayVars PROVE RowInv' /\ RowIsFinal
<1> DEFINE Ups == [status : {"none", "ok", "error"}, body : {"none", "open", "eof", "broken"}]
           Rows == [in : {"none", "live", "ring"}, phase : {"prefill", "decoding"} \cup Terminal,
                    tokens : Nat, first : BOOLEAN, aborted : BOOLEAN]
<1>0. up \in Ups /\ row \in Rows
  BY DEF RowInv
<1>1. CASE EngineChanges \/ EndBody
  <2>1. \/ up' = up
        \/ \E b \in {"eof", "broken"} : up.body = "open" /\ up' = [up EXCEPT !.body = b]
    BY <1>1 DEF EngineChanges, EndBody
  <2>2. up' \in Ups /\ (up.body = "none" => up'.body = "none")
    BY <1>0, <2>1
  <2> QED
    BY <1>1, <2>2, SameRow DEF EngineChanges, EndBody
<1>2. CASE \/ \E k \in LineKinds : Emit(k)
           \/ \E from \in SUBSET {"reading", "stalled"}, to \in {"reading", "stalled", "gone"} : ClientMoves(from, to)
           \/ NoticeGone \/ ReaderScan \/ ReaderEnd \/ ReaderFails \/ UNCHANGED relayVars
  <2>1. UNCHANGED <<pc, row, up, cancelled>> /\ (ctxDone => ctxDone')
    BY <1>2 DEF Emit, ClientMoves, NoticeGone, SeeGone, ReaderScan, ReaderEnd, ReaderFails, relayVars
  <2> QED
    BY <1>0, <2>1, SameRow
<1>3. CASE CheckCeiling
  <2>1. pc = "recv" /\ pc' \in {"closed", "dial"} /\ UNCHANGED <<row, up, cancelled, ctxDone>>
    BY <1>3 DEF CheckCeiling, Answer
  <2> QED
    BY <2>1 DEF RowInv, NothingLeft, RowIsFinal
<1>4. CASE Dial
  <2>1. /\ pc = "dial" /\ UNCHANGED <<cancelled, ctxDone>>
        /\ \/ pc' = "closed" /\ UNCHANGED <<up, row>>
           \/ /\ row' = [row EXCEPT !.in = "live"] /\ pc' \in {"relay", "json"}
              /\ \E c \in {"ok", "error"} : up' = [status |-> c, body |-> "open"]
    BY <1>4 DEF Dial, Answer
  <2>2. row.in = "none" /\ up.body = "none" /\ ~row.aborted
    BY <1>0, <2>1 DEF RowInv
  <2> QED
    BY <1>0, <2>1, <2>2 DEF RowInv, NothingLeft, RowIsFinal
<1>5. CASE RelayJSON
  <2> DEFINE phase == IF up.status = "ok" THEN "done" ELSE "error"
             tokens == IF up = [status |-> "ok", body |-> "eof"] THEN 1 ELSE 0
  <2>1. /\ pc = "json" /\ pc' = "closed" /\ cancelled' = TRUE /\ UNCHANGED <<up, ctxDone>>
        /\ row' = [row EXCEPT !.in = "ring", !.first = TRUE, !.phase = phase, !.tokens = tokens]
    BY <1>5 DEF RelayJSON, Answer
  <2>2. phase \in Terminal /\ tokens \in Nat
    BY DEF Terminal
  <2> HIDE DEF phase, tokens
  <2>3. row.in = "live"
    BY <1>0, <2>1 DEF RowInv
  <2>4. row' = [in |-> "ring", phase |-> phase, tokens |-> tokens, first |-> TRUE, aborted |-> row.aborted]
    BY <1>0, <2>1
  <2>5. row' \in Rows /\ row'.in = "ring" /\ row'.phase = phase /\ ~row'.aborted
    BY <1>0, <2>2, <2>3, <2>4 DEF RowInv, NothingLeft
  <2> QED
    BY <1>0, <2>1, <2>2, <2>3, <2>5 DEF RowInv, NothingLeft, RowIsFinal
<1>6. CASE TakeLine
  <2>1. pc = "relay" /\ pc' = "write" /\ UNCHANGED <<up, cancelled, ctxDone>>
    BY <1>6 DEF TakeLine, worldVars
  <2>2. row.in = "live" /\ ~row.aborted
    BY <1>0, <2>1 DEF RowInv, NothingLeft
  <2>3. row' \in Rows /\ row'.in = "live" /\ ~row'.aborted
    <3>1. \/ row' = [row EXCEPT !.phase = "error"]
          \/ \E p \in {"decoding", row.phase} :
                row' = [row EXCEPT !.tokens = row.tokens + 1, !.first = TRUE, !.phase = p]
          \/ row' = row
      BY <1>6 DEF TakeLine, ConsumeData
    <3>2. CASE row' = [row EXCEPT !.phase = "error"]
      BY <1>0, <2>2, <3>2 DEF Terminal
    <3>3. ASSUME NEW p \in {"decoding", row.phase},
                 row' = [row EXCEPT !.tokens = row.tokens + 1, !.first = TRUE, !.phase = p]
          PROVE  row' \in Rows /\ row'.in = "live" /\ ~row'.aborted
      <4>1. row' = [in |-> row.in, phase |-> p, tokens |-> row.tokens + 1, first |-> TRUE,
                    aborted |-> row.aborted]
        BY <1>0, <3>3
      <4>2. p \in {"prefill", "decoding"} \cup Terminal /\ row.tokens + 1 \in Nat
        BY <1>0
      <4> QED
        BY <1>0, <2>2, <4>1, <4>2
    <3> QED
      BY <1>0, <2>2, <3>1, <3>2, <3>3
  <2> QED
    BY <2>1, <2>2, <2>3 DEF RowInv, NothingLeft, RowIsFinal
<1>7. CASE WriteLine \/ Tick \/ WritePing
  <2>1. /\ pc \in {"relay", "write", "ping"} /\ pc' \in {"relay", "ping"} /\ UNCHANGED <<up, row>>
        /\ (ctxDone => ctxDone')
    BY <1>7 DEF WriteLine, Tick, WritePing, SeeGone, worldVars
  <2>2. row.in = "live" /\ ~row.aborted
    BY <1>0, <2>1 DEF RowInv, NothingLeft
  <2> QED
    BY <2>1, <2>2 DEF RowInv, NothingLeft, RowIsFinal
<1>8. CASE ClientGone \/ LinesClosed
  <2>1. /\ pc = "relay" /\ pc' = "closed" /\ cancelled' = TRUE /\ UNCHANGED <<up, ctxDone>>
        /\ \E p \in Terminal, a \in BOOLEAN :
              (a => ctxDone) /\ row' = [row EXCEPT !.in = "ring", !.aborted = a, !.phase = p]
    BY <1>8 DEF ClientGone, LinesClosed, Finish, Terminal
  <2>2. row.in = "live"
    BY <1>0, <2>1 DEF RowInv
  <2>3. row' \in Rows /\ row'.in = "ring" /\ row'.phase \in Terminal /\ (row'.aborted => ctxDone)
    BY <1>0, <2>1
  <2> QED
    BY <2>1, <2>2, <2>3 DEF RowInv, NothingLeft, RowIsFinal
<1> QED
  BY <1>1, <1>2, <1>3, <1>4, <1>5, <1>6, <1>7, <1>8 DEF RelayNext, Proxy

\* "No zombie generations", the part that does not need fairness: however a request ends,
\* the handler that returns leaves no upstream open and no live row, and the finished row
\* keeps what it says.
THEOREM NothingIsLeft == RelaySpec => []NothingLeft /\ [][RowIsFinal]_relayVars
<1>1. RelayInit => RowInv
  BY DEF RelayInit, RowInv, NothingLeft, NoRow
<1>2. RowInv => NothingLeft
  BY DEF RowInv
<1>3. RowInv /\ [RelayNext]_relayVars => RowInv' /\ [RowIsFinal]_relayVars
  BY RowStep
<1> QED
  BY <1>1, <1>2, <1>3, PTL DEF RelaySpec
=============================================================================
