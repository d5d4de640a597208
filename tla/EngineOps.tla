----------------------------- MODULE EngineOps -----------------------------
(***************************************************************************)
(* Engine lifecycle operations: engine.Manager (the op lock, its last-op   *)
(* record and its event fan-out), the console handlers that drive it       *)
(* (server.engineOp: one goroutine per accepted request), the CLI commands *)
(* that drive it (each CLI process owns a Manager of its own), and the     *)
(* docker daemon's view of the one engine container (external).            *)
(*                                                                         *)
(* A job is one request: a console request or one CLI command. Every       *)
(* docker call is one step; TryBegin and Finish are one step each, because *)
(* the code runs them under opMu; the publish of Finish is a step of its   *)
(* own, because the code runs it after unlocking.                          *)
(***************************************************************************)
EXTENDS Naturals, Sequences, FiniteSets

CONSTANTS
    ConsoleReqs,   \* POST /api/engine/{up,restart,down} requests
    CliCmds,       \* qfn up / down / restart processes
    Console,       \* the console process's Manager
    Kinds,         \* the operations that are requested
    Subs,          \* browser tabs on /api/events
    SubCap         \* capacity of a subscriber channel (16 in the code)

Jobs == ConsoleReqs \cup CliCmds
Managers == {Console} \cup CliCmds

ASSUME JobsAssumption == ConsoleReqs \cap CliCmds = {} /\ Console \notin Jobs
ASSUME KindsAssumption == Kinds \subseteq {"up", "down", "restart"}
ASSUME SubCapAssumption == SubCap \in Nat \ {0}

VARIABLES
    busy,       \* Manager.busy: the running or most recent op, NoOp when nil
    opSeq,      \* Manager.opSeq
    pc,         \* where a job's goroutine is
    held,       \* the OpInfo the job got from TryBegin
    nested,     \* the OpInfo a restart's Down got from mustBegin
    inDown,     \* the job is inside Manager.Down
    ok,         \* no step of the current Up or Down call has failed
    todo,       \* what a CLI restart still has to do after its down
    container,  \* docker's view: status, and the job whose `run` created it
    subs,       \* the subscribed tabs
    inbox       \* their event channels

mgrVars == <<busy, opSeq>>
jobVars == <<pc, held, nested, inDown, ok, todo>>
subVars == <<subs, inbox>>
vars == <<busy, opSeq, pc, held, nested, inDown, ok, todo, container, subs, inbox>>

OpKinds == {"up", "down", "restart"}
Op(s, k) == [seq |-> s, kind |-> k]
NoOp == [seq |-> 0, kind |-> "none", done |-> TRUE, ok |-> TRUE]
NoBody == "nobody"

ASSUME NoBodyAssumption == NoBody \notin Jobs

Absent == [st |-> "absent", by |-> NoBody]

\* the goroutine steps, from acceptance to the end of Finish
DownPcs == {"inspect", "stop", "rm"}
UpPcs == {"upRm", "run"}
Pcs == {"idle", "refused", "resolve", "nest", "finish", "publish", "done"}
           \cup DownPcs \cup UpPcs

OpInfo == [seq : Nat, kind : OpKinds \cup {"none"}]
Events == [seq : Nat, kind : OpKinds \cup {"none"}, ev : {"start", "finish"}]

TypeOK ==
    /\ busy \in [Managers -> [seq : Nat, kind : OpKinds \cup {"none"},
                              done : BOOLEAN, ok : BOOLEAN]]
    /\ opSeq \in [Managers -> Nat]
    /\ pc \in [Jobs -> Pcs]
    /\ held \in [Jobs -> OpInfo]
    /\ nested \in [Jobs -> OpInfo]
    /\ inDown \in [Jobs -> BOOLEAN]
    /\ ok \in [Jobs -> BOOLEAN]
    /\ todo \in [Jobs -> {"nothing", "up"}]
    /\ container \in [st : {"absent", "running", "exited", "stopped"},
                      by : Jobs \cup {NoBody}]
    /\ subs \subseteq Subs
    /\ inbox \in [Subs -> Seq(Events)]

Init ==
    /\ busy = [m \in Managers |-> NoOp]
    /\ opSeq = [m \in Managers |-> 0]
    /\ pc = [j \in Jobs |-> "idle"]
    /\ held = [j \in Jobs |-> Op(0, "none")]
    /\ nested = [j \in Jobs |-> Op(0, "none")]
    /\ inDown = [j \in Jobs |-> FALSE]
    /\ ok = [j \in Jobs |-> TRUE]
    /\ todo = [j \in Jobs |-> "nothing"]
    /\ container = Absent
    /\ subs = {}
    /\ inbox = [s \in Subs |-> <<>>]

ManagerOf(j) == IF j \in ConsoleReqs THEN Console ELSE j

---------------------------------------------------------------------------
(* Manager *)

\* mutated: the lock is not consulted
FreeUnchecked(m) == TRUE

Free(m) == busy[m].done

\* publish: a full channel loses the event, never the publisher's time
Publish(m, e) ==
    inbox' = [s \in Subs |->
                IF m = Console /\ s \in subs /\ Len(inbox[s]) < SubCap
                THEN Append(inbox[s], e) ELSE inbox[s]]

\* mutated: the sequence number is not advanced
TakeLockSameSeq(m, k) ==
    /\ UNCHANGED opSeq
    /\ busy' = [busy EXCEPT ![m] =
                  [seq |-> opSeq[m] + 1, kind |-> k, done |-> FALSE, ok |-> TRUE]]
    /\ Publish(m, [seq |-> opSeq[m] + 1, kind |-> k, ev |-> "start"])

\* mutated: the sequence number counts down
TakeLockDown(m, k) ==
    /\ opSeq' = [opSeq EXCEPT ![m] = @ - 1]
    /\ busy' = [busy EXCEPT ![m] =
                  [seq |-> opSeq[m] - 1, kind |-> k, done |-> FALSE, ok |-> TRUE]]
    /\ Publish(m, [seq |-> opSeq[m] - 1, kind |-> k, ev |-> "start"])

\* TryBegin when the lock is free, and the "start" event under the same lock
TakeLock(m, k) ==
    /\ opSeq' = [opSeq EXCEPT ![m] = @ + 1]
    /\ busy' = [busy EXCEPT ![m] =
                  [seq |-> opSeq[m] + 1, kind |-> k, done |-> FALSE, ok |-> TRUE]]
    /\ Publish(m, [seq |-> opSeq[m] + 1, kind |-> k, ev |-> "start"])

\* Finish, the part under opMu: only the op that holds the slot closes it
Release(m, op, success) ==
    busy' = IF busy[m].seq = op.seq
            THEN [busy EXCEPT ![m] = [seq |-> op.seq, kind |-> op.kind,
                                      done |-> TRUE, ok |-> success]]
            ELSE busy

---------------------------------------------------------------------------
(* Requests: engineOp up to the goroutine, downNow, runUp *)

\* where an accepted op goes first. The console resolves the profile and runs
\* the preflight with the lock held; the CLI did both before TryBegin.
FirstPc(j, k) ==
    CASE k = "down" -> "inspect"
      [] k = "up" /\ j \in CliCmds -> "upRm"
      [] OTHER -> "resolve"

Accept(j, k) ==
    /\ Free(ManagerOf(j))
    /\ TakeLock(ManagerOf(j), k)
    /\ held' = [held EXCEPT ![j] = Op(opSeq[ManagerOf(j)] + 1, k)]
    /\ pc' = [pc EXCEPT ![j] = FirstPc(j, k)]
    /\ inDown' = [inDown EXCEPT ![j] = (k = "down")]
    /\ ok' = [ok EXCEPT ![j] = TRUE]
    /\ UNCHANGED <<nested, container, subs>>

\* a console request; ErrBusy becomes a 409
ConsoleBegin(j, k) ==
    /\ pc[j] = "idle"
    /\ Accept(j, k)
    /\ UNCHANGED todo

ConsoleConflict(j) ==
    /\ pc[j] = "idle"
    /\ ~Free(Console)
    /\ pc' = [pc EXCEPT ![j] = "refused"]
    /\ UNCHANGED <<mgrVars, held, nested, inDown, ok, todo, container, subVars>>

\* a CLI command; `qfn restart` is a down followed by an up, two separate ops
CliBegin(j, k) ==
    /\ pc[j] = "idle"
    /\ IF todo[j] = "up"
       THEN Accept(j, "up") /\ todo' = [todo EXCEPT ![j] = "nothing"]
       ELSE /\ Accept(j, IF k = "restart" THEN "down" ELSE k)
            /\ todo' = [todo EXCEPT ![j] = IF k = "restart" THEN "up" ELSE "nothing"]

\* mutated: the refusal returns without Finish
RefuseNoFinish(j) ==
    /\ pc[j] = "resolve"
    /\ pc' = [pc EXCEPT ![j] = "done"]
    /\ ok' = [ok EXCEPT ![j] = FALSE]
    /\ UNCHANGED <<mgrVars, held, nested, inDown, todo, container, subVars>>

\* mutated: Finish(op, nil) on the refusal path
RefuseAsSuccess(j) ==
    /\ pc[j] = "resolve"
    /\ pc' = [pc EXCEPT ![j] = "finish"]
    /\ UNCHANGED <<mgrVars, held, nested, inDown, ok, todo, container, subVars>>

\* Resolve, Preflight or DockerArgs refuses: Finish(op, err) and a 412
Refuse(j) ==
    /\ pc[j] = "resolve"
    /\ pc' = [pc EXCEPT ![j] = "finish"]
    /\ ok' = [ok EXCEPT ![j] = FALSE]
    /\ UNCHANGED <<mgrVars, held, nested, inDown, todo, container, subVars>>

\* the arguments are ready and the goroutine starts
Launch(j) ==
    /\ pc[j] = "resolve"
    /\ pc' = [pc EXCEPT ![j] = IF held[j].kind = "restart" THEN "nest" ELSE "upRm"]
    /\ UNCHANGED <<mgrVars, held, nested, inDown, ok, todo, container, subVars>>

\* mutated: a restart waits for the lock it holds itself
MustBeginBlocks(j) ==
    /\ pc[j] = "nest"
    /\ Free(ManagerOf(j))
    /\ TakeLock(ManagerOf(j), "down")
    /\ nested' = [nested EXCEPT ![j] = Op(opSeq[ManagerOf(j)] + 1, "down")]
    /\ pc' = [pc EXCEPT ![j] = "inspect"]
    /\ inDown' = [inDown EXCEPT ![j] = TRUE]
    /\ UNCHANGED <<held, ok, todo, container, subs>>

\* mustBegin: a second TryBegin for the restart's Down, and when that is
\* refused the op that already sits in the slot
MustBegin(j) ==
    LET m == ManagerOf(j) IN
    /\ pc[j] = "nest"
    /\ IF Free(m)
       THEN /\ TakeLock(m, "down")
            /\ nested' = [nested EXCEPT ![j] = Op(opSeq[m] + 1, "down")]
       ELSE /\ nested' = [nested EXCEPT ![j] = Op(busy[m].seq, busy[m].kind)]
            /\ UNCHANGED <<mgrVars, inbox>>
    /\ pc' = [pc EXCEPT ![j] = "inspect"]
    /\ inDown' = [inDown EXCEPT ![j] = TRUE]
    /\ UNCHANGED <<held, ok, todo, container, subs>>

---------------------------------------------------------------------------
(* The docker calls of down and up *)

Goto(j, p, success) ==
    /\ pc' = [pc EXCEPT ![j] = p]
    /\ ok' = [ok EXCEPT ![j] = success]
    /\ UNCHANGED <<mgrVars, held, nested, inDown, todo, subVars>>

\* Stop's Inspect: any error at all reads as "not found" and skips the stop
Inspect(j) ==
    /\ pc[j] = "inspect"
    /\ UNCHANGED container
    /\ \/ container.st # "absent" /\ Goto(j, "stop", TRUE)
       \/ Goto(j, "rm", TRUE)

\* docker stop: a container that is gone by now is tolerated
Stop(j) ==
    /\ pc[j] = "stop"
    /\ \/ /\ container' = IF container.st = "absent" THEN container
                          ELSE [container EXCEPT !.st = "stopped"]
          /\ Goto(j, "rm", TRUE)
       \/ UNCHANGED container /\ Goto(j, "finish", FALSE)

\* mutated: every error of the last rm -f is tolerated
RemoveToleratesAll(j) ==
    /\ pc[j] = "rm"
    /\ container' \in {Absent, container}
    /\ Goto(j, "finish", TRUE)

\* docker rm -f at the end of down: not-found is tolerated, anything else fails
Remove(j) ==
    /\ pc[j] = "rm"
    /\ \/ container' = Absent /\ Goto(j, "finish", TRUE)
       \/ UNCHANGED container /\ Goto(j, "finish", FALSE)

\* docker rm -f at the start of up: its outcome is ignored
ClearOld(j) ==
    /\ pc[j] = "upRm"
    /\ container' \in {Absent, container}
    /\ Goto(j, "run", TRUE)

\* docker run -d --name N: refused while a container N exists; a container that
\* is created but cannot start is left behind
Run(j) ==
    /\ pc[j] = "run"
    /\ \/ /\ container.st = "absent"
          /\ container' = [st |-> "running", by |-> j]
          /\ Goto(j, "finish", TRUE)
       \/ /\ container' \in {container} \cup
                (IF container.st = "absent" THEN {[st |-> "stopped", by |-> j]} ELSE {})
          /\ Goto(j, "finish", FALSE)

---------------------------------------------------------------------------
(* Finish and what follows *)

Closing(j) == IF held[j].kind = "restart" /\ inDown[j] THEN nested[j] ELSE held[j]

FinishLock(j) ==
    /\ pc[j] = "finish"
    /\ Release(ManagerOf(j), Closing(j), ok[j])
    /\ pc' = [pc EXCEPT ![j] = "publish"]
    /\ UNCHANGED <<opSeq, held, nested, inDown, ok, todo, container, subVars>>

\* the "finish" event, then: a restart goes on to Up whatever its Down
\* returned; a CLI restart goes on only when its down succeeded
FinishPublish(j) ==
    /\ pc[j] = "publish"
    /\ Publish(ManagerOf(j), [seq |-> Closing(j).seq, kind |-> Closing(j).kind,
                              ev |-> "finish"])
    /\ pc' = [pc EXCEPT ![j] =
                CASE held[j].kind = "restart" /\ inDown[j] -> "upRm"
                  [] todo[j] = "up" /\ ok[j] -> "idle"
                  [] OTHER -> "done"]
    /\ inDown' = [inDown EXCEPT ![j] = FALSE]
    /\ UNCHANGED <<mgrVars, held, nested, ok, todo, container, subs>>

---------------------------------------------------------------------------
(* The engine process under `--restart unless-stopped`, and the browsers *)

EngineDies ==
    /\ container.st = "running"
    /\ container' = [container EXCEPT !.st = "exited"]
    /\ UNCHANGED <<mgrVars, jobVars, subVars>>

DaemonRestarts ==
    /\ container.st = "exited"
    /\ container' = [container EXCEPT !.st = "running"]
    /\ UNCHANGED <<mgrVars, jobVars, subVars>>

Subscribe(s) ==
    /\ s \notin subs
    /\ subs' = subs \cup {s}
    /\ inbox' = [inbox EXCEPT ![s] = <<>>]
    /\ UNCHANGED <<mgrVars, jobVars, container>>

Unsubscribe(s) ==
    /\ s \in subs
    /\ subs' = subs \ {s}
    /\ UNCHANGED <<mgrVars, jobVars, container, inbox>>

\* hEvents forwards one event to the browser
Receive(s) ==
    /\ s \in subs
    /\ inbox[s] # <<>>
    /\ inbox' = [inbox EXCEPT ![s] = Tail(@)]
    /\ UNCHANGED <<mgrVars, jobVars, container, subs>>

---------------------------------------------------------------------------

\* everything a goroutine does once its op is accepted
Work(j) ==
    \/ Refuse(j) \/ Launch(j) \/ MustBegin(j)
    \/ Inspect(j) \/ Stop(j) \/ Remove(j)
    \/ ClearOld(j) \/ Run(j)
    \/ FinishLock(j) \/ FinishPublish(j)

Next ==
    \/ \E j \in ConsoleReqs, k \in Kinds : ConsoleBegin(j, k)
    \/ \E j \in ConsoleReqs : ConsoleConflict(j)
    \/ \E j \in CliCmds, k \in Kinds : CliBegin(j, k)
    \/ \E j \in Jobs : Work(j)
    \/ EngineDies \/ DaemonRestarts
    \/ \E s \in Subs : Subscribe(s) \/ Unsubscribe(s) \/ Receive(s)

Spec == Init /\ [][Next]_vars

\* Docker calls return and goroutines are scheduled; nobody has to send a
\* request, and the engine need not die or come back.
FairSpec == Spec /\ \A j \in Jobs : WF_vars(Work(j))

---------------------------------------------------------------------------
(* Properties *)

InDocker(j) == pc[j] \in DownPcs \cup UpPcs

\* The job still has the Finish ahead of it that frees its manager's slot.
Holding(j) ==
    /\ pc[j] \in {"resolve", "nest", "finish"} \cup DownPcs \cup UpPcs
    /\ busy[ManagerOf(j)].seq = held[j].seq
    /\ ~busy[ManagerOf(j)].done

\* What manager.go:14 says a Manager gives: the docker commands of two
\* operations never interleave, whoever asked for them.
OpsSerialized == \A i, j \in Jobs : InDocker(i) /\ InDocker(j) => i = j

\* What it does give: two operations of one manager reach docker at the same
\* time only when one of them is a restart that has closed its own op with the
\* end of its Down and goes on to Up without the lock.
OnlyRestartOverlaps ==
    \A i, j \in Jobs :
        InDocker(i) /\ InDocker(j) /\ i # j /\ ManagerOf(i) = ManagerOf(j) =>
            \E x \in {i, j} : held[x].kind = "restart" /\ ~inDown[x]

\* A slot that is taken has a live job behind it that will free it: no refusal,
\* failed docker call or nested TryBegin leaves the console answering 409 for ever.
SlotHasOwner == \A m \in Managers : ~Free(m) =>
                    \E j \in Jobs : ManagerOf(j) = m /\ Holding(j)

\* The inductive strengthening. A job between TryBegin and the end of its first
\* Finish has the slot (a restart only up to the end of its Down) ...
Locks(j) ==
    /\ pc[j] \in {"resolve", "nest", "finish"} \cup DownPcs \cup UpPcs
    /\ pc[j] \in UpPcs \cup {"finish"} => held[j].kind # "restart" \/ inDown[j]

LocksHold == \A j \in Jobs : Locks(j) =>
    /\ busy[ManagerOf(j)].seq = held[j].seq
    /\ ~busy[ManagerOf(j)].done

\* ... sequence numbers identify jobs ...
SeqIdentifies ==
    /\ \A j \in Jobs : held[j].seq <= opSeq[ManagerOf(j)]
    /\ \A j \in Jobs : pc[j] \notin {"idle", "refused", "done"} => held[j].seq > 0
    /\ \A i, j \in Jobs :
          i # j /\ ManagerOf(i) = ManagerOf(j) /\ held[i].seq = held[j].seq
              => held[i].seq = 0

\* ... and the op mustBegin hands to a restart's Down is always the restart itself.
NestedIsOwn ==
    /\ \A j \in Jobs : pc[j] \in DownPcs => inDown[j]
    /\ \A j \in Jobs : pc[j] \in UpPcs \cup {"resolve", "nest"} => ~inDown[j]
    /\ \A j \in Jobs : held[j].kind = "restart" /\ inDown[j] => nested[j].seq = held[j].seq

LockInv == TypeOK /\ LocksHold /\ SeqIdentifies /\ NestedIsOwn /\ SlotHasOwner

\* The op record the status surfaces show is true of the container: after an
\* "up" that succeeded the container is the one that op ran, after a "down" that
\* succeeded there is none.
ReportTrue ==
    \A j \in Jobs :
        LET r == busy[ManagerOf(j)] IN
        r.done /\ r.ok /\ r.seq = held[j].seq =>
            /\ r.kind = "up" => container.by = j
            /\ r.kind = "down" => container.st = "absent"

\* A tab's channel carries op starts in the order the lock was taken, and no
\* finish ahead of the start of the same op, whatever was dropped in between.
EventOrder ==
    \A s \in Subs : \A a, b \in 1..Len(inbox[s]) :
        LET x == inbox[s][a]
            y == inbox[s][b]
        IN  a < b /\ y.ev = "start" =>
                IF x.ev = "start" THEN x.seq < y.seq ELSE x.seq # y.seq

\* An accepted console request comes to its end.
AcceptedEnds == \A j \in ConsoleReqs : pc[j] = "resolve" \/ InDocker(j) ~> pc[j] = "done"

---------------------------------------------------------------------------
(* The mapping under which up and down requests of one console implement   *)
(* SerialEngine *)

\* the job that holds the slot, and the job whose op the slot records
Owner ==
    IF Free(Console) THEN NoBody
    ELSE CHOOSE j \in Jobs : held[j].seq = busy[Console].seq

Task == IF Free(Console) THEN "none" ELSE busy[Console].kind

Report ==
    LET r == busy[Console] IN
    IF r.seq = 0 \/ ~r.done
    THEN [job |-> NoBody, kind |-> "none", ok |-> r.done]
    ELSE [job |-> CHOOSE j \in Jobs : held[j].seq = r.seq, kind |-> r.kind, ok |-> r.ok]

Serial == INSTANCE SerialEngine WITH
            owner <- Owner,
            task <- Task,
            report <- Report

\* Up and down requests to one console behave as if one request at a time owned
\* the engine: TryBegin/Finish bracket every docker command, and the recorded
\* outcome is true of the container.
SerialSpec == Serial!Spec
=============================================================================
