------------------------------- MODULE LogBus -------------------------------
(***************************************************************************)
(* The console's boot story: logBus.run, the one pump goroutine that       *)
(* inspects the engine container, replays and follows its log, feeds every *)
(* line to a BootTracker and publishes the phase; with the budget that     *)
(* lets one stale traceback of a long-running container be swallowed.      *)
(* The container, its runs and the lines it prints are external.           *)
(*                                                                         *)
(* A run is one value of docker's StartedAt. A container that is restarted *)
(* in place starts a new run and keeps its log; a removed one loses it.    *)
(***************************************************************************)
EXTENDS Naturals, Sequences

CONSTANTS
    MaxRuns,    \* bound: container runs in one behaviour
    MaxLines,   \* bound: lines in a container's log
    TailLines,  \* docker logs --tail (200 in the code)
    MaxBlips    \* bound: inspects that fail

ASSUME BoundsAssumption ==
    MaxRuns \in Nat \ {0} /\ MaxLines \in Nat /\ TailLines \in Nat \ {0} /\ MaxBlips \in Nat

VARIABLES
    cont,         \* the container: up, id, run, past the boot horizon, log
    pc,           \* the pump: "inspect", "open", "read" or "idle"
    seen,         \* the run the last inspect found, and whether it was past the horizon
    stream,       \* the followed log: container, run at opening, position
    bt,           \* BootTracker.phase of the current attach
    seedRun, seedSwallow,
    st,           \* Status: phase, running, and the run its story was started in
    swallowed,    \* history: how often a traceback was swallowed from the log of a run
    failedRuns,   \* history: the runs whose log has had the status called failed
    overtaken,    \* history: the runs followed on the inspect of an earlier run
    blips

contVars == <<cont>>
histVars == <<swallowed, failedRuns, overtaken, blips>>
vars == <<cont, pc, seen, stream, bt, seedRun, seedSwallow, st,
          swallowed, failedRuns, overtaken, blips>>

Kinds == {"weights", "graphs", "ready", "fail", "other"}
Runs == 0..MaxRuns
Lines == [kind : Kinds, run : Runs]
Phases == {"starting", "loading weights", "capturing cuda graphs", "ready", "failed"}
NoRun == 0
Down == [phase |-> "down", running |-> FALSE, run |-> NoRun]

Rank(p) == CASE p = "starting" -> 0
             [] p = "loading weights" -> 1
             [] p = "capturing cuda graphs" -> 2
             [] p = "ready" -> 3
             [] p = "failed" -> 4

TypeOK ==
    /\ cont \in [up : BOOLEAN, id : Nat, run : Runs, old : BOOLEAN, log : Seq(Lines)]
    /\ pc \in {"inspect", "open", "read", "idle"}
    /\ seen \in [run : Runs, old : BOOLEAN]
    /\ stream \in [id : Nat, run : Runs, pos : Nat]
    /\ bt \in Phases
    /\ seedRun \in Runs /\ seedSwallow \in BOOLEAN
    /\ st \in [phase : Phases \cup {"down"}, running : BOOLEAN, run : Runs]
    /\ swallowed \in [Runs -> Nat]
    /\ failedRuns \subseteq Runs /\ overtaken \subseteq Runs
    /\ blips \in 0..MaxBlips

\* The console may start beside a container that has been up for any time.
Init ==
    /\ \E u, o \in BOOLEAN :
          cont = [up |-> u, id |-> 0, run |-> 1, old |-> u /\ o, log |-> <<>>]
    /\ pc = "inspect"
    /\ seen = [run |-> NoRun, old |-> FALSE]
    /\ stream = [id |-> 0, run |-> NoRun, pos |-> 0]
    /\ bt = "starting"
    /\ seedRun = NoRun /\ seedSwallow = FALSE
    /\ st = Down
    /\ swallowed = [r \in Runs |-> 0]
    /\ failedRuns = {} /\ overtaken = {} /\ blips = 0

---------------------------------------------------------------------------
(* The container *)

pumpVars == <<pc, seen, stream, bt, seedRun, seedSwallow, st, histVars>>

Printed(k) == \E i \in 1..Len(cont.log) :
                 cont.log[i].kind = k /\ cont.log[i].run = cont.run

\* a boot prints weights, graphs, ready in this order; an engine that has died
\* prints no boot marker any more; anything else is printed at any time
PrintLine(k) ==
    /\ cont.up /\ Len(cont.log) < MaxLines
    /\ k \in {"weights", "graphs", "ready"} => ~Printed("ready") /\ ~Printed("fail")
    /\ k = "weights" => ~Printed("graphs")
    /\ cont' = [cont EXCEPT !.log = Append(@, [kind |-> k, run |-> cont.run])]
    /\ UNCHANGED pumpVars

PassHorizon ==
    /\ cont.up /\ ~cont.old
    /\ cont' = [cont EXCEPT !.old = TRUE]
    /\ UNCHANGED pumpVars

Exit ==
    /\ cont.up
    /\ cont' = [cont EXCEPT !.up = FALSE, !.old = FALSE]
    /\ UNCHANGED pumpVars

\* docker starts the same container again (--restart unless-stopped)
StartAgain ==
    /\ ~cont.up /\ cont.run < MaxRuns
    /\ cont' = [cont EXCEPT !.up = TRUE, !.run = @ + 1]
    /\ UNCHANGED pumpVars

\* docker rm -f, docker run
Replace ==
    /\ cont.run < MaxRuns
    /\ cont' = [up |-> TRUE, id |-> cont.id + 1, run |-> cont.run + 1,
                old |-> FALSE, log |-> <<>>]
    /\ UNCHANGED pumpVars

---------------------------------------------------------------------------
(* BootTracker.Feed: a fail or ready marker always sets the phase, the others *)
(* only ever raise it                                                         *)

Feed(p, k) ==
    CASE k = "fail" -> "failed"
      [] k = "ready" -> "ready"
      [] k = "graphs" /\ Rank(p) < 2 -> "capturing cuda graphs"
      [] k = "weights" /\ Rank(p) < 1 -> "loading weights"
      [] OTHER -> p

\* mutant: a container that went down is not recorded
SetRunningUpOnly(up, run) ==
    st' = IF up /\ ~st.running THEN [phase |-> "starting", running |-> TRUE, run |-> run]
          ELSE st

\* mutant: the story starts in a phase the tracker does not have
SetRunningCreated(up, run) ==
    st' = IF up /\ ~st.running THEN [phase |-> "created", running |-> TRUE, run |-> run]
          ELSE IF ~up THEN Down
          ELSE st

\* setRunning: a container seen up after being seen down starts a new story
SetRunning(up, run) ==
    st' = IF up /\ ~st.running THEN [phase |-> "starting", running |-> TRUE, run |-> run]
          ELSE IF ~up THEN Down
          ELSE st

\* mutant: the budget is armed at every attach
InspectRearms ==
    /\ pc = "inspect"
    /\ SetRunning(cont.up, cont.run)
    /\ IF cont.up
       THEN /\ pc' = "open"
            /\ seen' = [run |-> cont.run, old |-> cont.old]
            /\ bt' = IF cont.old THEN "ready" ELSE "starting"
            /\ seedRun' = cont.run
            /\ seedSwallow' = FALSE
       ELSE /\ pc' = "idle"
            /\ UNCHANGED <<seen, bt, seedRun, seedSwallow>>
    /\ UNCHANGED <<cont, stream, histVars>>

\* one turn of the loop up to the attach: inspect, setRunning, arm the budget
Inspect ==
    /\ pc = "inspect"
    /\ SetRunning(cont.up, cont.run)
    /\ IF cont.up
       THEN /\ pc' = "open"
            /\ seen' = [run |-> cont.run, old |-> cont.old]
            /\ bt' = IF cont.old THEN "ready" ELSE "starting"
            /\ seedRun' = cont.run
            /\ seedSwallow' = (seedSwallow /\ seedRun = cont.run)
       ELSE /\ pc' = "idle"
            /\ UNCHANGED <<seen, bt, seedRun, seedSwallow>>
    /\ UNCHANGED <<cont, stream, histVars>>

\* inspect returns an error: the container counts as down, whatever it is
InspectFails ==
    /\ pc = "inspect" /\ blips < MaxBlips
    /\ SetRunning(FALSE, NoRun)
    /\ pc' = "idle"
    /\ blips' = blips + 1
    /\ UNCHANGED <<cont, seen, stream, bt, seedRun, seedSwallow,
                   swallowed, failedRuns, overtaken>>

\* docker logs -f --tail N of whatever container has the name by now
Open ==
    /\ pc = "open"
    /\ pc' = "read"
    /\ stream' = [id |-> cont.id, run |-> cont.run,
                  pos |-> IF Len(cont.log) > TailLines THEN Len(cont.log) - TailLines ELSE 0]
    /\ overtaken' = IF cont.run # seedRun THEN overtaken \cup {cont.run} ELSE overtaken
    /\ UNCHANGED <<cont, seen, bt, seedRun, seedSwallow, st, swallowed, failedRuns, blips>>

\* a follower sees the lines printed up to the end of the run it was opened in
Unread ==
    /\ stream.id = cont.id
    /\ stream.pos < Len(cont.log)
    /\ cont.log[stream.pos + 1].run <= stream.run

Publish(p) == st' = [st EXCEPT !.phase = p, !.running = TRUE]

\* mutant: only a swallowed traceback spends the budget
ReadLineShownKeeps ==
    /\ pc = "read" /\ Unread
    /\ stream' = [stream EXCEPT !.pos = @ + 1]
    /\ LET fed == Feed(bt, cont.log[stream.pos + 1].kind)
           swallow == seen.old /\ fed = "failed" /\ ~seedSwallow
           p == IF swallow THEN "ready" ELSE fed
       IN  /\ bt' = p
           /\ Publish(p)
           /\ seedSwallow' = (seedSwallow \/ swallow)
           /\ pc' = IF p = "failed" THEN "idle" ELSE "read"
           /\ swallowed' = IF swallow THEN [swallowed EXCEPT ![stream.run] = @ + 1]
                           ELSE swallowed
           /\ failedRuns' = IF p = "failed" THEN failedRuns \cup {stream.run} ELSE failedRuns
    /\ UNCHANGED <<cont, seen, seedRun, overtaken, blips>>

\* mutant: a swallowed traceback does not spend the budget
ReadLineNeverSpends ==
    /\ pc = "read" /\ Unread
    /\ stream' = [stream EXCEPT !.pos = @ + 1]
    /\ LET fed == Feed(bt, cont.log[stream.pos + 1].kind)
           swallow == seen.old /\ fed = "failed" /\ ~seedSwallow
           p == IF swallow THEN "ready" ELSE fed
       IN  /\ bt' = p
           /\ Publish(p)
           /\ seedSwallow' = (seedSwallow \/ p = "failed")
           /\ pc' = IF p = "failed" THEN "idle" ELSE "read"
           /\ swallowed' = IF swallow THEN [swallowed EXCEPT ![stream.run] = @ + 1]
                           ELSE swallowed
           /\ failedRuns' = IF p = "failed" THEN failedRuns \cup {stream.run} ELSE failedRuns
    /\ UNCHANGED <<cont, seen, seedRun, overtaken, blips>>

\* one scanned line: feed it, maybe swallow it, publish, and stop at a failure
ReadLine ==
    /\ pc = "read" /\ Unread
    /\ stream' = [stream EXCEPT !.pos = @ + 1]
    /\ LET fed == Feed(bt, cont.log[stream.pos + 1].kind)
           swallow == seen.old /\ fed = "failed" /\ ~seedSwallow
           p == IF swallow THEN "ready" ELSE fed
       IN  /\ bt' = p
           /\ Publish(p)
           /\ seedSwallow' = (seedSwallow \/ fed = "failed")
           /\ pc' = IF p = "failed" THEN "idle" ELSE "read"
           /\ swallowed' = IF swallow THEN [swallowed EXCEPT ![stream.run] = @ + 1]
                           ELSE swallowed
           /\ failedRuns' = IF p = "failed" THEN failedRuns \cup {stream.run} ELSE failedRuns
    /\ UNCHANGED <<cont, seen, seedRun, overtaken, blips>>

\* the pipe closes: the run is over, or the docker logs process itself ended
StreamEnds ==
    /\ pc = "read" /\ ~Unread
    /\ pc' = "idle"
    /\ UNCHANGED <<cont, seen, stream, bt, seedRun, seedSwallow, st, histVars>>

FollowedRunOver == stream.id # cont.id \/ ~cont.up \/ stream.run # cont.run

\* waitEvent: a docker event, or the timer
Wake ==
    /\ pc = "idle"
    /\ pc' = "inspect"
    /\ UNCHANGED <<cont, seen, stream, bt, seedRun, seedSwallow, st, histVars>>

---------------------------------------------------------------------------

Pump == Inspect \/ InspectFails \/ Open \/ ReadLine \/ Wake

Next ==
    \/ Pump \/ StreamEnds
    \/ \E k \in Kinds : PrintLine(k)
    \/ PassHorizon \/ Exit \/ StartAgain \/ Replace

Spec == Init /\ [][Next]_vars

\* The pump is scheduled, a stream whose run is over does end, time passes.
\* The container and the docker logs process owe nothing else.
FairSpec == Spec /\ WF_vars(Pump) /\ WF_vars(FollowedRunOver /\ StreamEnds)
                 /\ WF_vars(PassHorizon)

---------------------------------------------------------------------------
(* Properties *)

InTail(i) == i > Len(cont.log) - TailLines
Fails == {i \in 1..Len(cont.log) : cont.log[i].kind = "fail"}

\* The budget is one traceback per container run, however often the log of that run
\* is attached.  A run that is followed on the inspect of an earlier one (the
\* container was started again in between) can be swallowed on that budget as well.
Late(r) == IF r \in overtaken THEN 1 ELSE 0
SwallowOnce == \A r \in Runs : swallowed[r] <= 1 + Late(r)

\* A run whose log has had the status called failed does not get its traceback
\* swallowed later, when it has passed the boot horizon; but for an overtaken run,
\* whose failure was charged to the earlier one.
FailureSpendsBudget ==
    [][swallowed' # swallowed => stream.run \notin failedRuns \ overtaken]_vars

\* A container that goes down is shown down, unless it is back before that.
DownShown == ~cont.up ~> (st.phase = "down" \/ cont.up)

\* Once the log tail of a container that stays up holds two tracebacks of its
\* run, the console keeps coming back to "failed": only one can be swallowed.
SecondFailureShows ==
    \A r \in Runs :
        <>[](/\ cont.up /\ cont.run = r
             /\ \E i, j \in Fails : i # j /\ InTail(i) /\ InTail(j)
                                    /\ cont.log[i].run = r /\ cont.log[j].run = r)
            => []<>(st.phase = "failed")

\* logbus.go:62, "the fail-marker swallow budget belongs to a container RUN": refuted
\* by a run that is overtaken between the inspect and the attach.
SwallowOncePerRun == \A r \in Runs : swallowed[r] <= 1

\* logbus.go:62 and TestLogBusSeededSwallowSurvivesReattach: a run that was
\* called failed is not called ready again (it printed no ready marker since:
\* a dead engine prints none).
DeadStaysFailed ==
    [][st.phase = "failed" /\ st'.phase # "failed" => st'.phase # "ready"
          \/ seedRun' # seedRun]_vars

\* TestLogBusSwallowBudgetResetsOnNewRun: a run is not called failed by a
\* traceback that an earlier run left in the log.
NotBornFailed ==
    \A r \in failedRuns : r = cont.run => \E i \in Fails : cont.log[i].run = r

\* logbus.go:264: while a run's log is followed, percentages and elapsed time
\* count from that run.
StoryIsOfThisRun == pc = "read" => st.run = seen.run

\* bootlog.go:104: a serving engine is not reported "starting" for ever because
\* its markers have scrolled out of the tail.
ServingShows ==
    \A r \in Runs :
        <>[](/\ cont.up /\ cont.run = r /\ Fails = {} /\ Printed("ready"))
            => <>(st.phase = "ready")
=============================================================================
