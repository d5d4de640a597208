------------------------------- MODULE Console -------------------------------
(***************************************************************************)
(* The life of the console process outside systemd: `qfn serve` in the     *)
(* foreground, `qfn serve start | stop | restart` from a terminal and the  *)
(* restart button of the page, around a pidfile, a port and signals.       *)
(*                                                                         *)
(* A command is a process of its own; what it spawns it never waits for,   *)
(* so that a console that dies while the command lives stays a zombie,     *)
(* which kill(pid, 0) still finds.  Pids are not used twice.               *)
(***************************************************************************)
EXTENDS Naturals

CONSTANTS
    Pids,       \* console processes, each started at most once
    Cmds,       \* commands, each given at most once
    OneAtATime, \* whether a command or a click waits until the one before has settled
    MaxSignals  \* bound: signals counted per console

ASSUME ParametersAssumption == OneAtATime \in BOOLEAN /\ MaxSignals \in Nat \ {0}

VARIABLES
    st,         \* per pid: "free", "guard", "prep", "bind", "serving", "exiting", "unwind", "zombie" or "gone"
    parent,     \* per pid: the command or console that spawned it, or Shell
    term,       \* per pid: signals it received
    pidfile,    \* the pid in serve.pid, NoPid if there is no such file
    port,       \* who listens: a pid, NoPid or Other
    op,         \* per command: "none", "start", "stop" or "restart"
    step,       \* per command: "idle", "look", "pause", "spawn", "watch", "done" or "killed"
    child,      \* per command: the console it spawned
    said,       \* per command: "nothing", "started", "died" or "failed"
    \* history
    unnamed,    \* per pid: its pidfile was not written, or removed by a console without one
    refused,    \* per pid: it ended of itself, or could not listen on a free port
    hurried     \* per command: it went on while a console that was signalled still lived

procVars == <<st, parent, term, unnamed, refused>>
cmdVars == <<op, step, child, said, hurried>>
vars == <<st, parent, term, pidfile, port, op, step, child, said, unnamed, refused, hurried>>

NoPid == "no pid"
Other == "another program"
Shell == "shell"
AtRest == {"idle", "done", "killed"}

ASSUME NamesAssumption == {NoPid, Other, Shell} \cap (Pids \cup Cmds) = {}

TypeOK ==
    /\ st \in [Pids -> {"free", "guard", "prep", "bind", "serving", "exiting", "unwind",
                        "zombie", "gone"}]
    /\ parent \in [Pids -> Pids \cup Cmds \cup {Shell}]
    /\ term \in [Pids -> 0..MaxSignals]
    /\ pidfile \in Pids \cup {NoPid} /\ port \in Pids \cup {NoPid, Other}
    /\ op \in [Cmds -> {"none", "start", "stop", "restart"}]
    /\ step \in [Cmds -> AtRest \cup {"look", "pause", "spawn", "watch"}]
    /\ child \in [Cmds -> Pids \cup {NoPid}]
    /\ said \in [Cmds -> {"nothing", "started", "died", "failed"}]
    /\ unnamed \in [Pids -> BOOLEAN] /\ refused \in [Pids -> BOOLEAN] /\ hurried \in [Cmds -> BOOLEAN]
    /\ \A p \in Pids : port = p => st[p] \in {"serving", "exiting"}

Init ==
    /\ st = [p \in Pids |-> "free"] /\ parent = [p \in Pids |-> Shell]
    /\ term = [p \in Pids |-> 0]
    /\ pidfile = NoPid /\ port = NoPid
    /\ op = [c \in Cmds |-> "none"] /\ step = [c \in Cmds |-> "idle"]
    /\ child = [c \in Cmds |-> NoPid] /\ said = [c \in Cmds |-> "nothing"]
    /\ unnamed = [p \in Pids |-> FALSE] /\ refused = [p \in Pids |-> FALSE]
    /\ hurried = [c \in Cmds |-> FALSE]

---------------------------------------------------------------------------
(* Processes *)

Alive(p) == st[p] \notin {"free", "zombie", "gone"}
Exists(p) == st[p] \notin {"free", "gone"}        \* kill(p, 0)
Keeps(x) == (x \in Pids /\ Alive(x)) \/ (x \in Cmds /\ step[x] \notin AtRest)

\* p ends: a zombie while its parent lives; its own zombies go to init
Ends(p) ==
    st' = [q \in Pids |-> IF q = p THEN IF Keeps(parent[p]) THEN "zombie" ELSE "gone"
                          ELSE IF st[q] = "zombie" /\ parent[q] = p THEN "gone"
                          ELSE st[q]]

ReapedBy(c) == [q \in Pids |-> IF st[q] = "zombie" /\ parent[q] = c THEN "gone" ELSE st[q]]
FreePid == \E p \in Pids : st[p] = "free"
NextPid == CHOOSE p \in Pids : st[p] = "free"
Spawned(p, by) == FreePid /\ p = NextPid /\ parent' = [parent EXCEPT ![p] = by]

\* SIGTERM to the processes of a set; all that matters is whether there was one
Signals(S) == term' = [p \in Pids |-> IF p \in S /\ Alive(p) /\ term[p] < MaxSignals
                                      THEN term[p] + 1 ELSE term[p]]

Released(p) == IF port = p THEN NoPid ELSE port

\* readPid: the file names a process that kill(pid, 0) finds
LivePid == pidfile # NoPid /\ Exists(pidfile)

Settled ==
    /\ \A c \in Cmds : step[c] \in AtRest
    /\ \A p \in Pids : st[p] \in {"free", "gone"} \/ (st[p] = "serving" /\ term[p] = 0)

MayBegin == FreePid /\ (OneAtATime => Settled)

---------------------------------------------------------------------------
(* A console *)

\* it ends on an error of its own
Refuses(p) == Ends(p) /\ refused' = [refused EXCEPT ![p] = TRUE]

\* somebody types `qfn serve`
UserServe(p) ==
    /\ MayBegin /\ Spawned(p, Shell)
    /\ st' = [st EXCEPT ![p] = "guard"]
    /\ UNCHANGED <<term, unnamed, refused, pidfile, port, cmdVars>>

\* mutant: a console does not look for another
GuardNot(p) ==
    /\ st[p] = "guard"
    /\ st' = [st EXCEPT ![p] = "prep"]
    /\ UNCHANGED <<parent, term, unnamed, refused, pidfile, port, cmdVars>>

\* firstRunGuard; then the second of two consoles gives up
Guard(p) ==
    /\ st[p] = "guard"
    /\ \/ Refuses(p)
       \/ /\ IF LivePid THEN Ends(p) ELSE st' = [st EXCEPT ![p] = "prep"]
          /\ UNCHANGED refused
    /\ UNCHANGED <<parent, term, unnamed, pidfile, port, cmdVars>>

\* a configuration that is not valid, or no password, ends it first; an error of the
\* write is ignored, and leaves the file as it was, or empty
WritePidfile(p) ==
    /\ st[p] = "prep"
    /\ \/ Refuses(p) /\ UNCHANGED <<unnamed, pidfile>>
       \/ /\ st' = [st EXCEPT ![p] = "bind"] /\ UNCHANGED refused
          /\ \/ pidfile' = p /\ UNCHANGED unnamed
             \/ pidfile' \in {pidfile, NoPid} /\ unnamed' = [unnamed EXCEPT ![p] = TRUE]
    /\ UNCHANGED <<parent, term, port, cmdVars>>

\* ListenAndServe: the port may be taken, a signal may have closed the server, or the
\* address is none it may listen on
Bind(p) ==
    /\ st[p] = "bind"
    /\ \/ /\ port = NoPid /\ port' = p
          /\ st' = [st EXCEPT ![p] = "serving"] /\ UNCHANGED refused
       \/ /\ st' = [st EXCEPT ![p] = "unwind"] /\ UNCHANGED port
          /\ refused' = [refused EXCEPT ![p] = (port = NoPid /\ term[p] = 0)]
    /\ UNCHANGED <<parent, term, unnamed, pidfile, cmdVars>>

\* Shutdown frees the port at once
Shutdown(p) ==
    /\ st[p] = "serving" /\ term[p] > 0
    /\ st' = [st EXCEPT ![p] = "unwind"] /\ port' = Released(p)
    /\ UNCHANGED <<parent, term, unnamed, refused, pidfile, cmdVars>>

\* the deferred removal, whoever the pidfile names, and the end of the process
Unwind(p) ==
    /\ st[p] = "unwind"
    /\ pidfile' = NoPid /\ Ends(p)
    /\ unnamed' = [q \in Pids |-> unnamed[q] \/ (unnamed[p] /\ q = pidfile)]
    /\ UNCHANGED <<parent, term, refused, port, cmdVars>>

\* main's goroutine receives twice from ctx.Done(), which the first signal closes:
\* it races the orderly end
ForcedExit(p) ==
    /\ Alive(p) /\ term[p] > 0
    /\ Ends(p) /\ port' = Released(p)
    /\ UNCHANGED <<parent, term, unnamed, refused, pidfile, cmdVars>>

\* Ctrl+C in the terminal of a foreground console
Interrupt(p) ==
    /\ Alive(p) /\ parent[p] = Shell /\ term[p] < MaxSignals
    /\ Signals({p})
    /\ UNCHANGED <<st, parent, unnamed, refused, pidfile, port, cmdVars>>

\* the page's button: a successor first, if it can be spawned, then os.Exit, which
\* skips the removal
WebRestart(p) ==
    /\ st[p] = "serving" /\ MayBegin
    /\ \/ \E q \in Pids : /\ Spawned(q, p)
                          /\ st' = [st EXCEPT ![p] = "exiting", ![q] = "guard"]
       \/ st' = [st EXCEPT ![p] = "exiting"] /\ UNCHANGED parent
    /\ UNCHANGED <<term, unnamed, refused, pidfile, port, cmdVars>>

WebExit(p) ==
    /\ st[p] = "exiting"
    /\ Ends(p) /\ port' = Released(p)
    /\ UNCHANGED <<parent, term, unnamed, refused, pidfile, cmdVars>>

---------------------------------------------------------------------------
(* The commands *)

Begin(c) ==
    /\ step[c] = "idle" /\ MayBegin
    /\ \E o \in {"start", "stop", "restart"} : op' = [op EXCEPT ![c] = o]
    /\ step' = [step EXCEPT ![c] = "look"]
    /\ UNCHANGED <<procVars, pidfile, port, child, said, hurried>>

StartLook(c) ==
    /\ op[c] = "start" /\ step[c] = "look"
    /\ step' = [step EXCEPT ![c] = IF LivePid THEN "done" ELSE "spawn"]
    /\ UNCHANGED <<procVars, pidfile, port, op, child, said, hurried>>

\* mutant: without a live pidfile nobody is looked for
StopLookNoScan(c) ==
    /\ op[c] = "stop" /\ step[c] = "look"
    /\ Signals(IF LivePid THEN {pidfile} ELSE {})
    /\ step' = [step EXCEPT ![c] = "done"]
    /\ UNCHANGED <<st, parent, unnamed, refused, pidfile, port, op, child, said, hurried>>

\* without a live pidfile: every process that looks like `qfn serve`, which other
\* commands do too
StopLook(c) ==
    /\ op[c] = "stop" /\ step[c] = "look"
    /\ IF LivePid
       THEN Signals({pidfile}) /\ step' = [step EXCEPT ![c] = "done"]
       ELSE /\ Signals(Pids)
            /\ step' = [d \in Cmds |-> IF d = c THEN "done"
                                       ELSE IF step[d] \notin AtRest THEN "killed" ELSE step[d]]
    /\ UNCHANGED <<st, parent, unnamed, refused, pidfile, port, op, child, said, hurried>>

\* mutant: the pause after the signal is dropped
RestartLookHasty(c) ==
    /\ op[c] = "restart" /\ step[c] = "look"
    /\ Signals(IF LivePid THEN {pidfile} ELSE {})
    /\ step' = [step EXCEPT ![c] = "spawn"]
    /\ UNCHANGED <<st, parent, unnamed, refused, pidfile, port, op, child, said, hurried>>

RestartLook(c) ==
    /\ op[c] = "restart" /\ step[c] = "look"
    /\ Signals(IF LivePid THEN {pidfile} ELSE {})
    /\ step' = [step EXCEPT ![c] = IF LivePid THEN "pause" ELSE "spawn"]
    /\ UNCHANGED <<st, parent, unnamed, refused, pidfile, port, op, child, said, hurried>>

\* 400 ms, whatever happens meanwhile
Pause(c) ==
    /\ step[c] = "pause"
    /\ hurried' = [hurried EXCEPT ![c] = \E p \in Pids : term[p] > 0 /\ Alive(p)]
    /\ step' = [step EXCEPT ![c] = "spawn"]
    /\ UNCHANGED <<procVars, pidfile, port, op, child, said>>

\* the log file may not open, the process not start
Respawn(c) ==
    /\ step[c] = "spawn"
    /\ \/ /\ \E q \in Pids : /\ Spawned(q, c)
                             /\ st' = [st EXCEPT ![q] = "guard"]
                             /\ child' = [child EXCEPT ![c] = q]
          /\ step' = [step EXCEPT ![c] = "watch"] /\ UNCHANGED said
       \/ /\ said' = [said EXCEPT ![c] = "failed"] /\ step' = [step EXCEPT ![c] = "done"]
          /\ UNCHANGED <<st, parent, child>>
    /\ UNCHANGED <<term, unnamed, refused, pidfile, port, op, hurried>>

\* 800 ms, then kill(child, 0)
Report(c) ==
    /\ step[c] = "watch"
    /\ said' = [said EXCEPT ![c] = IF Exists(child[c]) THEN "started" ELSE "died"]
    /\ step' = [step EXCEPT ![c] = "done"] /\ st' = ReapedBy(c)
    /\ UNCHANGED <<parent, term, unnamed, refused, pidfile, port, op, child, hurried>>

---------------------------------------------------------------------------
(* The rest of the machine *)

TakePort == port = NoPid /\ port' = Other /\ UNCHANGED <<procVars, pidfile, cmdVars>>
LeavePort == port = Other /\ port' = NoPid /\ UNCHANGED <<procVars, pidfile, cmdVars>>

Process(p) ==
    \/ Guard(p) \/ WritePidfile(p) \/ Bind(p) \/ Shutdown(p) \/ Unwind(p)
    \/ ForcedExit(p) \/ WebExit(p)

Command(c) ==
    \/ StartLook(c) \/ StopLook(c) \/ RestartLook(c) \/ Pause(c) \/ Respawn(c) \/ Report(c)

Next ==
    \/ \E p \in Pids : Process(p) \/ UserServe(p) \/ Interrupt(p) \/ WebRestart(p)
    \/ \E c \in Cmds : Command(c) \/ Begin(c)
    \/ TakePort \/ LeavePort

Spec == Init /\ [][Next]_vars

\* Processes run; nobody has to type a command or to press a button.
FairSpec == Spec /\ (\A p \in Pids : WF_vars(Process(p)))
                 /\ (\A c \in Cmds : WF_vars(Command(c)))

---------------------------------------------------------------------------
(* Properties *)

\* Whenever nothing is under way, the pidfile names the console that listens: stop,
\* restart and status can find it (serve.go:67-71), however it was started and
\* whatever ended the ones before it; but for one whose pidfile could not be written,
\* and one that such a console took it from.
PidfileNamesServer == Settled /\ port \in Pids => pidfile = port \/ unnamed[port]

\* `qfn serve stop` ends the console, also one without a pidfile, for which it has to
\* look through the processes.
StopStops ==
    \A c \in Cmds : op[c] = "stop" /\ step[c] = "look" ~> port \notin Pids

Renewed(c) == (step[c] = "done" /\ port = child[c]) \/ port = Other
CannotRenew(c) == said[c] = "failed" \/ hurried[c] \/ (child[c] \in Pids /\ refused[child[c]])

\* `qfn serve restart` puts a new console in the place of the one that listens, unless
\* another program has the port; but for a console that it cannot find, one that has
\* not ended after 400 ms, and a successor that does not start or refuses of itself.
RestartRenews ==
    \A c \in Cmds : op[c] = "restart" /\ step[c] = "look"
                       ~> Renewed(c) \/ CannotRenew(c) \/ (port \in Pids /\ unnamed[port])

\* Refuted: restart never leaves nothing behind.
RestartAlwaysServes ==
    \A c \in Cmds : op[c] = "restart" /\ step[c] = "look" ~> Renewed(c) \/ port \in Pids

\* serve.go:243 of a console without a pidfile: "`qfn serve restart` to upgrade
\* tracking".  Refuted: restart does not look for it.
RestartUpgrades ==
    \A c \in Cmds : op[c] = "restart" /\ step[c] = "look" ~> Renewed(c) \/ CannotRenew(c)

\* The restart button brings a new console up.
WebRestartServes ==
    \A p \in Pids : st[p] = "exiting" ~> port \in (Pids \ {p}) \cup {Other}

\* serve.go:199: respawnConsole "verifies it survives past its first print": a
\* command that says the console has started has one that lives.
StartReportTrue ==
    [][\A c \in Cmds : said[c] = "nothing" /\ said'[c] = "started" => Alive(child[c])]_vars

\* main.go:24: "Second Ctrl+C hard-exits mid-shutdown".
SecondSignalForces == [][\A p \in Pids : ForcedExit(p) => term[p] = 2]_vars
=============================================================================
