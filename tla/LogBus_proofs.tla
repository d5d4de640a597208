---------------------------- MODULE LogBus_proofs ----------------------------
(***************************************************************************)
(* The traceback budget of LogBus, for any number of runs, any log and any *)
(* tail.  SwallowOnce and FailureSpendsBudget are not inductive: they need *)
(* that runs only move forward, that what is charged to a run ahead of its *)
(* own budget is an overtaken run's, and that whatever the run at hand has *)
(* spent is remembered in seedSwallow.                                     *)
(***************************************************************************)
EXTENDS LogBus, TLAPS

\* The log that is followed is of the run inspected, or of a later one.
RunsForward ==
    /\ seedRun <= cont.run /\ stream.run <= cont.run
    /\ pc = "read" => /\ seedRun <= stream.run
                      /\ seedRun < stream.run => stream.run \in overtaken
    /\ \A r \in Runs : swallowed[r] > 0 => r <= cont.run

\* A run whose budget has not been armed yet.
Untouched(r) == swallowed[r] <= Late(r) /\ (r \in failedRuns => r \in overtaken)
AheadIsOvertaken ==
    \A r \in Runs : r > seedRun => Untouched(r) /\ (swallowed[r] > 0 => seedSwallow)

SpentRemembered == ~seedSwallow => Untouched(seedRun)

BudgetInv == TypeOK /\ RunsForward /\ AheadIsOvertaken /\ SpentRemembered /\ SwallowOnce

---------------------------------------------------------------------------
(* Types *)

LEMMA RunsAreNats == Runs \subseteq Nat /\ 0 \in Runs /\ 1 \in Runs
  BY BoundsAssumption, SMT DEF Runs

LEMMA FeedType ==
    ASSUME NEW p \in Phases, NEW k \in Kinds
    PROVE  Feed(p, k) \in Phases
<1>1. CASE k = "fail" \/ k = "ready" \/ k = "other"
  BY <1>1 DEF Feed, Phases
<1>2. CASE k = "graphs"
  BY <1>2 DEF Feed, Phases
<1>3. CASE k = "weights"
  BY <1>3 DEF Feed, Phases
<1> QED
  BY <1>1, <1>2, <1>3 DEF Kinds

\* The initial state is well typed and has spent nothing.
LEMMA InitBudget == Init => BudgetInv
<1> SUFFICES ASSUME Init PROVE BudgetInv
  OBVIOUS
<1>1. cont \in [up : BOOLEAN, id : Nat, run : Runs, old : BOOLEAN, log : Seq(Lines)]
  BY RunsAreNats, SMT DEF Init
<1>2. TypeOK
  <2>1. Down \in [phase : Phases \cup {"down"}, running : BOOLEAN, run : Runs]
    BY RunsAreNats, SMT DEF Down, NoRun
  <2>2. stream \in [id : Nat, run : Runs, pos : Nat] /\ seen \in [run : Runs, old : BOOLEAN]
    BY RunsAreNats, SMT DEF Init, NoRun
  <2>3. bt \in Phases /\ pc \in {"inspect", "open", "read", "idle"} /\ seedRun \in Runs
    BY RunsAreNats DEF Init, NoRun, Phases
  <2>4. /\ swallowed \in [Runs -> Nat] /\ failedRuns \subseteq Runs
        /\ overtaken \subseteq Runs /\ blips \in 0..MaxBlips
    BY RunsAreNats, BoundsAssumption DEF Init
  <2>5. seedSwallow \in BOOLEAN
    BY DEF Init
  <2> QED
    BY <1>1, <2>1, <2>2, <2>3, <2>4, <2>5 DEF Init, TypeOK
<1>3. RunsForward /\ AheadIsOvertaken /\ SpentRemembered /\ SwallowOnce
  BY RunsAreNats, SMT
  DEF Init, RunsForward, AheadIsOvertaken, Untouched, Late, SpentRemembered, SwallowOnce, NoRun
<1> QED
  BY <1>2, <1>3 DEF BudgetInv

\* A step of the container leaves the pump alone and its runs never go back.
LEMMA ContainerStep ==
    ASSUME BudgetInv,
           \/ \E k \in Kinds : PrintLine(k)
           \/ PassHorizon \/ Exit \/ StartAgain \/ Replace
    PROVE  /\ cont' \in [up : BOOLEAN, id : Nat, run : Runs, old : BOOLEAN, log : Seq(Lines)]
           /\ cont'.run >= cont.run
           /\ UNCHANGED pumpVars
<1> DEFINE Cont == [up : BOOLEAN, id : Nat, run : Runs, old : BOOLEAN, log : Seq(Lines)]
<1>0. /\ cont \in Cont
      /\ cont.up \in BOOLEAN /\ cont.id \in Nat /\ cont.run \in Nat /\ cont.run \in Runs
      /\ cont.old \in BOOLEAN /\ cont.log \in Seq(Lines)
  BY RunsAreNats DEF BudgetInv, TypeOK
<1>1. ASSUME NEW k \in Kinds, PrintLine(k)
      PROVE  cont' \in Cont /\ cont'.run >= cont.run /\ UNCHANGED pumpVars
  <2>1. [kind |-> k, run |-> cont.run] \in Lines
    BY <1>0 DEF Lines
  <2>2. Append(cont.log, [kind |-> k, run |-> cont.run]) \in Seq(Lines)
    BY <1>0, <2>1, SMT
  <2>3. cont' = [cont EXCEPT !.log = Append(@, [kind |-> k, run |-> cont.run])]
        /\ UNCHANGED pumpVars
    BY <1>1 DEF PrintLine
  <2>4. cont' \in Cont /\ cont'.run = cont.run
    BY <1>0, <2>2, <2>3
  <2> QED
    BY <1>0, <2>3, <2>4, SMT
<1>2. CASE PassHorizon
  <2>1. cont' \in Cont /\ cont'.run = cont.run
    BY <1>0, <1>2 DEF PassHorizon
  <2> QED
    BY <1>0, <1>2, <2>1, SMT DEF PassHorizon
<1>3. CASE Exit
  <2>1. cont' \in Cont /\ cont'.run = cont.run
    BY <1>0, <1>3 DEF Exit
  <2> QED
    BY <1>0, <1>3, <2>1, SMT DEF Exit
<1>4. CASE StartAgain
  <2>1. cont.run + 1 \in Runs
    BY <1>0, <1>4, BoundsAssumption, SMT DEF StartAgain, Runs
  <2>2. cont' \in Cont /\ cont'.run = cont.run + 1
    BY <1>0, <1>4, <2>1 DEF StartAgain
  <2> QED
    BY <1>0, <1>4, <2>2, SMT DEF StartAgain
<1>5. CASE Replace
  <2>1. cont.run + 1 \in Runs
    BY <1>0, <1>5, BoundsAssumption, SMT DEF Replace, Runs
  <2>2. cont' \in Cont /\ cont'.run = cont.run + 1
    BY <1>0, <1>5, <2>1, SMT DEF Replace
  <2> QED
    BY <1>0, <1>5, <2>2, SMT DEF Replace
<1> QED
  BY <1>1, <1>2, <1>3, <1>4, <1>5

---------------------------------------------------------------------------
(* The inductive step *)

LEMMA RunTypes ==
    BudgetInv => /\ cont.run \in Runs /\ seedRun \in Runs /\ stream.run \in Runs
                 /\ cont.run \in Nat /\ seedRun \in Nat /\ stream.run \in Nat
                 /\ \A r \in Runs : r \in Nat /\ swallowed[r] \in Nat
                 /\ cont.run >= cont.run
<1>1. BudgetInv => /\ cont.run \in Runs /\ seedRun \in Runs /\ stream.run \in Runs
                   /\ \A r \in Runs : swallowed[r] \in Nat
  BY DEF BudgetInv, TypeOK
<1>2. \A r \in Runs : r \in Nat /\ r >= r
  BY RunsAreNats, SMT
<1> QED
  BY <1>1, <1>2, Zenon

\* The budget is kept by a step in which no traceback is swallowed or shown.
LEMMA NothingSpent ==
    ASSUME BudgetInv, TypeOK', cont'.run >= cont.run,
           UNCHANGED <<stream, seedRun, seedSwallow, swallowed, failedRuns, overtaken>>,
           pc' = "read" => pc = "read"
    PROVE  BudgetInv'
<1>1. cont'.run \in Nat
  BY RunsAreNats DEF TypeOK
<1>2. RunsForward'
  BY <1>1, RunTypes DEF BudgetInv, RunsForward
<1>3. AheadIsOvertaken' /\ SpentRemembered' /\ SwallowOnce'
  BY DEF BudgetInv, AheadIsOvertaken, SpentRemembered, SwallowOnce, Untouched, Late
<1> QED
  BY <1>2, <1>3 DEF BudgetInv

LEMMA InspectKeeps == BudgetInv /\ Inspect => BudgetInv'
<1> SUFFICES ASSUME BudgetInv, Inspect PROVE BudgetInv'
  OBVIOUS
<1>1. TypeOK'
  <2>1. cont.run \in Runs /\ cont.old \in BOOLEAN
    BY DEF BudgetInv, TypeOK
  <2>2. st' \in [phase : Phases \cup {"down"}, running : BOOLEAN, run : Runs]
    BY <2>1, RunsAreNats DEF BudgetInv, TypeOK, Inspect, SetRunning, Down, NoRun, Phases
  <2>3. /\ seen' \in [run : Runs, old : BOOLEAN]
        /\ bt' \in Phases /\ seedRun' \in Runs
        /\ pc' \in {"inspect", "open", "read", "idle"}
    <3>1. CASE cont.up
      <4>1. bt' = IF cont.old THEN "ready" ELSE "starting"
        BY <3>1 DEF Inspect
      <4>2. bt' \in Phases
        BY <4>1, Zenon DEF Phases
      <4>3. /\ seen' = [run |-> cont.run, old |-> cont.old]
            /\ seedRun' = cont.run /\ pc' = "open"
        BY <3>1 DEF Inspect
      <4> QED
        BY <2>1, <4>2, <4>3
    <3>2. CASE ~cont.up
      BY <3>2, Zenon DEF BudgetInv, TypeOK, Inspect
    <3> QED
      BY <3>1, <3>2
  <2>4. seedSwallow' \in BOOLEAN
    BY DEF BudgetInv, TypeOK, Inspect
  <2> QED
    BY <2>2, <2>3, <2>4, Zenon DEF BudgetInv, TypeOK, Inspect, histVars
<1>2. CASE ~cont.up
  <2>1. /\ pc' = "idle"
        /\ UNCHANGED <<cont, stream, seedRun, seedSwallow, swallowed, failedRuns, overtaken>>
    BY <1>2 DEF Inspect, histVars
  <2>2. cont'.run >= cont.run
    BY <2>1, RunTypes
  <2> QED
    BY <1>1, <2>1, <2>2, NothingSpent
<1>3. CASE cont.up
  <2>1. /\ seedRun' = cont.run /\ pc' = "open"
        /\ seedSwallow' = (seedSwallow /\ seedRun = cont.run)
        /\ UNCHANGED <<cont, stream, swallowed, failedRuns, overtaken>>
    BY <1>3 DEF Inspect, histVars
  <2>2. /\ cont.run \in Runs /\ seedRun \in Runs /\ swallowed \in [Runs -> Nat]
        /\ seedRun <= cont.run /\ \A r \in Runs : swallowed[r] > 0 => r <= cont.run
    BY DEF BudgetInv, TypeOK, RunsForward
  <2>3. RunsForward'
    BY <2>1, <2>2, RunTypes DEF BudgetInv, RunsForward
  <2>4. AheadIsOvertaken'
    <3>1. ASSUME NEW r \in Runs, r > cont.run PROVE r > seedRun /\ ~(swallowed[r] > 0)
      BY <2>2, <3>1, RunTypes
    <3>2. ASSUME NEW r \in Runs, r > cont.run PROVE Untouched(r) /\ ~(swallowed[r] > 0)
      BY <3>1, <3>2 DEF BudgetInv, AheadIsOvertaken
    <3> QED
      BY <2>1, <3>2 DEF AheadIsOvertaken, Untouched, Late
  <2>5. SpentRemembered'
    <3>1. CASE seedRun = cont.run
      BY <2>1, <3>1 DEF BudgetInv, SpentRemembered, Untouched, Late
    <3>2. CASE seedRun # cont.run
      <4>1. cont.run > seedRun
        BY <2>2, <3>2, RunTypes
      <4>2. Untouched(cont.run)
        BY <2>2, <4>1 DEF BudgetInv, AheadIsOvertaken
      <4> QED
        BY <2>1, <4>2 DEF SpentRemembered, Untouched, Late
    <3> QED
      BY <3>1, <3>2
  <2> QED
    BY <1>1, <2>1, <2>3, <2>4, <2>5 DEF BudgetInv, SwallowOnce, Late
<1> QED
  BY <1>2, <1>3

LEMMA OpenKeeps == BudgetInv /\ Open => BudgetInv'
<1> SUFFICES ASSUME BudgetInv, Open PROVE BudgetInv'
  OBVIOUS
<1>1. /\ pc' = "read" /\ stream'.run = cont.run /\ overtaken \subseteq overtaken'
      /\ cont.run # seedRun => cont.run \in overtaken'
      /\ UNCHANGED <<cont, seedRun, seedSwallow, swallowed, failedRuns>>
  BY DEF Open
<1>2. TypeOK'
  <2>1. (IF Len(cont.log) > TailLines THEN Len(cont.log) - TailLines ELSE 0) \in Nat
    BY BoundsAssumption, SMT DEF BudgetInv, TypeOK
  <2>2. stream' \in [id : Nat, run : Runs, pos : Nat]
    BY <2>1 DEF BudgetInv, TypeOK, Open
  <2>3. overtaken' \subseteq Runs
    BY DEF BudgetInv, TypeOK, Open
  <2> QED
    BY <1>1, <2>2, <2>3 DEF BudgetInv, TypeOK, Open
<1>3. RunsForward'
  BY <1>1, RunTypes DEF BudgetInv, RunsForward
<1>4. \A r \in Runs : swallowed[r] \in Nat /\ Late(r) <= Late(r)' /\ Late(r) \in Nat /\ Late(r)' \in Nat
  BY <1>1 DEF BudgetInv, TypeOK, Late
<1>5. \A r \in Runs : Untouched(r) => Untouched(r)'
  BY <1>1, <1>4 DEF Untouched
<1>6. AheadIsOvertaken' /\ SpentRemembered'
  BY <1>1, <1>5 DEF BudgetInv, TypeOK, AheadIsOvertaken, SpentRemembered
<1>7. SwallowOnce'
  BY <1>1, <1>4 DEF BudgetInv, SwallowOnce
<1> QED
  BY <1>2, <1>3, <1>6, <1>7 DEF BudgetInv

\* A swallow is charged to a run whose budget is not spent.
LEMMA SwallowCharges ==
    ASSUME BudgetInv, pc = "read", ~seedSwallow
    PROVE  /\ swallowed[stream.run] <= Late(stream.run)
           /\ stream.run > seedRun => swallowed[stream.run] = 0 /\ stream.run \in overtaken
           /\ stream.run \notin failedRuns \ overtaken
<1>1. stream.run \in Runs /\ seedRun \in Runs /\ seedRun <= stream.run /\ swallowed[stream.run] \in Nat
  BY DEF BudgetInv, TypeOK, RunsForward
<1>2. CASE stream.run = seedRun
  BY <1>1, <1>2, RunsAreNats DEF BudgetInv, SpentRemembered, Untouched
<1>3. CASE stream.run # seedRun
  <2>1. stream.run > seedRun /\ seedRun < stream.run
    BY <1>1, <1>3, RunTypes
  <2>2. Untouched(stream.run) /\ ~(swallowed[stream.run] > 0) /\ stream.run \in overtaken
    BY <1>1, <2>1 DEF BudgetInv, AheadIsOvertaken, RunsForward
  <2> QED
    BY <1>1, <2>2 DEF Untouched
<1> QED
  BY <1>2, <1>3

LEMMA ReadKeeps == BudgetInv /\ ReadLine => BudgetInv'
<1> SUFFICES ASSUME BudgetInv, ReadLine PROVE BudgetInv'
  OBVIOUS
<1> DEFINE k == cont.log[stream.pos + 1].kind
           fed == Feed(bt, k)
           swallow == seen.old /\ fed = "failed" /\ ~seedSwallow
           p == IF swallow THEN "ready" ELSE fed
<1>1. /\ pc = "read"
      /\ stream' = [stream EXCEPT !.pos = @ + 1]
      /\ bt' = p
      /\ st' = [st EXCEPT !.phase = p, !.running = TRUE]
      /\ seedSwallow' = (seedSwallow \/ fed = "failed")
      /\ pc' \in {"idle", "read"}
      /\ swallowed' = IF swallow THEN [swallowed EXCEPT ![stream.run] = @ + 1] ELSE swallowed
      /\ failedRuns' = IF p = "failed" THEN failedRuns \cup {stream.run} ELSE failedRuns
      /\ UNCHANGED <<cont, seen, seedRun, overtaken, blips>>
  BY DEF ReadLine, Publish
<1>2. k \in Kinds
  <2>1. stream.pos + 1 \in 1..Len(cont.log)
    BY SMT DEF ReadLine, Unread, BudgetInv, TypeOK
  <2>2. cont.log[stream.pos + 1] \in Lines
    BY <2>1, SMT DEF BudgetInv, TypeOK
  <2> QED
    BY <2>2 DEF Lines
<1>3. fed \in Phases /\ p \in Phases
  BY <1>2, FeedType DEF BudgetInv, TypeOK, Phases
<1>4. (p = "failed" => fed = "failed") /\ (swallow => ~seedSwallow /\ fed = "failed" /\ p # "failed")
  OBVIOUS
<1> HIDE DEF p, fed, swallow
<1>5. /\ swallowed \in [Runs -> Nat] /\ stream \in [id : Nat, run : Runs, pos : Nat]
      /\ stream.run \in Runs /\ seedRun \in Runs /\ cont.run \in Runs
      /\ seedSwallow \in BOOLEAN
  BY DEF BudgetInv, TypeOK
<1>6. swallowed' \in [Runs -> Nat]
  <2>1. swallowed[stream.run] + 1 \in Nat
    BY <1>5
  <2>2. [swallowed EXCEPT ![stream.run] = @ + 1] \in [Runs -> Nat]
    BY <1>5, <2>1
  <2> QED
    BY <1>1, <1>5, <2>2, Zenon
<1>7. stream'.run = stream.run /\ stream' \in [id : Nat, run : Runs, pos : Nat]
  BY <1>1, <1>5
<1>8. TypeOK'
  <2>1. st' \in [phase : Phases \cup {"down"}, running : BOOLEAN, run : Runs]
    BY <1>1, <1>3 DEF BudgetInv, TypeOK
  <2>2. seedSwallow' \in BOOLEAN /\ failedRuns' \subseteq Runs
    BY <1>1, <1>5, Zenon DEF BudgetInv, TypeOK
  <2> QED
    BY <1>1, <1>3, <1>6, <1>7, <2>1, <2>2, Zenon DEF BudgetInv, TypeOK
<1>9. /\ swallow => swallowed[stream.run] <= Late(stream.run)
      /\ swallow /\ stream.run > seedRun => swallowed[stream.run] = 0 /\ stream.run \in overtaken
  BY <1>1, <1>4, SwallowCharges
<1>10. \A r \in Runs : swallowed'[r] = IF swallow /\ r = stream.run THEN swallowed[r] + 1 ELSE swallowed[r]
  BY <1>1, <1>5
<1>11. \A r \in Runs : Late(r)' = Late(r) /\ Late(r) \in {0, 1} /\ (r \in overtaken => Late(r) = 1)
  BY <1>1 DEF Late
<1>12. RunsForward'
  <2>1. \A r \in Runs : swallowed'[r] > 0 => r <= cont.run
    BY <1>5, <1>10, RunsAreNats, SMT DEF BudgetInv, RunsForward
  <2> QED
    BY <1>1, <1>7, <2>1 DEF BudgetInv, RunsForward
<1>13. AheadIsOvertaken'
  <2> SUFFICES ASSUME NEW r \in Runs, r > seedRun
               PROVE  Untouched(r)' /\ (swallowed'[r] > 0 => seedSwallow')
    BY <1>1 DEF AheadIsOvertaken
  <2>1. Untouched(r) /\ (swallowed[r] > 0 => seedSwallow)
    BY DEF BudgetInv, AheadIsOvertaken
  <2>2. r \in failedRuns' => r \in overtaken'
    <3>1. r = stream.run => r \in overtaken
      BY <1>1, <1>5, RunsAreNats, SMT DEF BudgetInv, RunsForward
    <3> QED
      BY <1>1, <2>1, <3>1, Zenon DEF Untouched
  <2>3. CASE swallow /\ r = stream.run
    <3>1. swallowed[r] = 0 /\ r \in overtaken
      BY <1>9, <2>3
    <3>2. swallowed'[r] = 1 /\ Late(r)' = 1
      BY <1>10, <1>11, <2>3, <3>1
    <3>3. seedSwallow'
      BY <1>1, <1>4, <2>3
    <3> QED
      BY <2>2, <3>2, <3>3 DEF Untouched
  <2>4. CASE ~(swallow /\ r = stream.run)
    <3>1. swallowed'[r] = swallowed[r] /\ (seedSwallow => seedSwallow')
      BY <1>1, <1>10, <2>4, Zenon
    <3> QED
      BY <1>11, <2>1, <2>2, <3>1 DEF Untouched
  <2> QED
    BY <2>3, <2>4
<1>14. SpentRemembered'
  <2> SUFFICES ASSUME ~seedSwallow' PROVE Untouched(seedRun)'
    BY <1>1 DEF SpentRemembered
  <2>1. ~seedSwallow /\ swallowed' = swallowed /\ failedRuns' = failedRuns
    BY <1>1, <1>4, Zenon
  <2> QED
    BY <1>1, <2>1 DEF BudgetInv, SpentRemembered, Untouched, Late
<1>15. SwallowOnce'
  <2> SUFFICES ASSUME NEW r \in Runs PROVE swallowed'[r] <= 1 + Late(r)'
    BY DEF SwallowOnce
  <2>1. swallowed[r] <= 1 + Late(r) /\ swallowed[r] \in Nat
    BY <1>5 DEF BudgetInv, SwallowOnce
  <2> QED
    BY <1>9, <1>10, <1>11, <2>1
<1> QED
  BY <1>8, <1>12, <1>13, <1>14, <1>15 DEF BudgetInv

LEMMA StepBudget == BudgetInv /\ [Next]_vars => BudgetInv'
<1> SUFFICES ASSUME BudgetInv, [Next]_vars PROVE BudgetInv'
  OBVIOUS
<1>0. cont.run >= cont.run
  BY RunTypes
<1>1. CASE \/ \E k \in Kinds : PrintLine(k)
           \/ PassHorizon \/ Exit \/ StartAgain \/ Replace
  <2>1. /\ cont' \in [up : BOOLEAN, id : Nat, run : Runs, old : BOOLEAN, log : Seq(Lines)]
        /\ cont'.run >= cont.run
        /\ UNCHANGED pumpVars
    BY <1>1, ContainerStep
  <2>2. TypeOK'
    BY <2>1, Zenon DEF BudgetInv, TypeOK, pumpVars, histVars
  <2>3. UNCHANGED <<pc, stream, seedRun, seedSwallow, swallowed, failedRuns, overtaken>>
    BY <2>1 DEF pumpVars, histVars
  <2> QED
    BY <2>1, <2>2, <2>3, NothingSpent
<1>2. CASE InspectFails
  <2>1. /\ pc' = "idle" /\ st' = Down
        /\ blips' = blips + 1 /\ blips < MaxBlips
        /\ UNCHANGED <<cont, seen, stream, bt, seedRun, seedSwallow, swallowed, failedRuns, overtaken>>
    BY <1>2 DEF InspectFails, SetRunning
  <2>2. Down \in [phase : Phases \cup {"down"}, running : BOOLEAN, run : Runs]
    BY RunsAreNats DEF Down, NoRun
  <2>3. blips' \in 0..MaxBlips
    BY <2>1, BoundsAssumption, SMT DEF BudgetInv, TypeOK
  <2>4. TypeOK'
    BY <2>1, <2>2, <2>3 DEF BudgetInv, TypeOK
  <2> QED
    BY <1>0, <2>1, <2>4, NothingSpent
<1>3. CASE StreamEnds \/ Wake \/ UNCHANGED vars
  <2>1. /\ pc' \in {"idle", "inspect", "open", "read"} /\ (pc' = "read" => pc = "read")
        /\ UNCHANGED <<cont, seen, stream, bt, seedRun, seedSwallow, st, histVars>>
    BY <1>3 DEF StreamEnds, Wake, vars, histVars, BudgetInv, TypeOK
  <2>2. TypeOK'
    BY <2>1 DEF BudgetInv, TypeOK, histVars
  <2> QED
    BY <1>0, <2>1, <2>2, NothingSpent DEF histVars
<1> QED
  BY <1>1, <1>2, <1>3, InspectKeeps, OpenKeeps, ReadKeeps DEF Next, Pump

LEMMA BudgetHolds == Spec => []BudgetInv
  BY InitBudget, StepBudget, PTL DEF Spec

---------------------------------------------------------------------------

\* Every variable of the boot-story pump (logBus.run, bootlog.go) keeps its
\* type: no status is published with a phase that no phase name stands for.
THEOREM LogBusTypeCorrect == Spec => []TypeOK
<1>1. BudgetInv => TypeOK
  BY DEF BudgetInv
<1> QED
  BY <1>1, BudgetHolds, PTL

\* The swallow budget of logBus.run belongs to a container run: whatever the
\* container prints and however often its log is re-attached, at most one
\* traceback is swallowed from the log of a run, and one more if the run was
\* started between an inspect and the attach that follows it.
THEOREM BudgetIsPerRun == Spec => []SwallowOnce
<1>1. BudgetInv => SwallowOnce
  BY DEF BudgetInv
<1> QED
  BY <1>1, BudgetHolds, PTL

\* A run whose log has had the status called failed (logbus.go:145-151) never gets a
\* traceback swallowed afterwards, at whatever attach it passes the boot horizon,
\* unless it was started between an inspect and the attach that follows it.
THEOREM FailureIsSpent == Spec => FailureSpendsBudget
<1>1. BudgetInv /\ [Next]_vars
        => [swallowed' # swallowed => stream.run \notin failedRuns \ overtaken]_vars
  <2> SUFFICES ASSUME BudgetInv, [Next]_vars, swallowed' # swallowed
               PROVE  stream.run \notin failedRuns \ overtaken
    OBVIOUS
  <2>1. ReadLine
    BY ContainerStep
    DEF Next, Pump, Inspect, InspectFails, Open, Wake, StreamEnds, histVars, vars, pumpVars
  <2>2. pc = "read" /\ ~seedSwallow
    BY <2>1 DEF ReadLine
  <2> QED
    BY <2>2, SwallowCharges
<1> QED
  BY <1>1, BudgetHolds, PTL DEF Spec, FailureSpendsBudget
=============================================================================
