---------------------------- MODULE Console_proofs ----------------------------
(***************************************************************************)
(* Proofs about the console and the collector that it runs.                *)
(*                                                                         *)
(* Console: the pidfile, when commands are given one at a time, for any    *)
(* number of consoles and commands, however slow they are, whatever the    *)
(* pauses of the code, and whoever is interrupted or takes the port.  The  *)
(* argument: at most one process past the guard could write the pidfile,   *)
(* and it is named there, for another can only pass while nobody is.       *)
(*                                                                         *)
(* Collector: the rates and the window, for any horizon, any buckets and   *)
(* any number of runs of the engine.  The two share no variable.           *)
(***************************************************************************)
EXTENDS Console, Collector, WellFoundedInduction, TLAPS

---------------------------------------------------------------------------
(* Console *)

States == {"free", "guard", "prep", "bind", "serving", "exiting", "unwind", "zombie", "gone"}
Young == {"guard", "prep", "bind"}
Past == {"bind", "serving", "exiting", "unwind"}
Busy == {"look", "pause", "spawn"}

Typed ==
    /\ st \in [Pids -> States]
    /\ step \in [Cmds -> AtRest \cup Busy \cup {"watch"}]
    /\ unnamed \in [Pids -> BOOLEAN]

\* One command at a time, and one console that is starting, after which the command
\* that started it starts no other.
OneCommand == \A c, d \in Cmds : step[c] \notin AtRest /\ step[d] \notin AtRest => c = d
OneIsYoung == \A p, q \in Pids : st[p] \in Young /\ st[q] \in Young => p = q
NoneToCome == \A p \in Pids : st[p] \in Young => \A c \in Cmds : step[c] \notin Busy

\* Of those that have a pidfile, who is past the guard is named in it, or is about to
\* write it and is alone.
PastIsNamed == \A p \in Pids : st[p] \in Past => pidfile = p \/ unnamed[p]
PrepIsAlone == \A p, q \in Pids : st[p] = "prep" /\ st[q] \in Past => unnamed[q]

PortIsServed == port \in Pids => st[port] \in {"serving", "exiting"}

PidInv == Typed /\ OneCommand /\ OneIsYoung /\ NoneToCome /\ PastIsNamed /\ PrepIsAlone /\ PortIsServed

---------------------------------------------------------------------------

LEMMA Names == \A p \in Pids : p # NoPid /\ p # Other
BY NamesAssumption

\* Processes that end, and commands that come to rest, disturb nothing.
LEMMA EndsKeep ==
    ASSUME PidInv,
           st' \in [Pids -> States], \A p \in Pids : st'[p] = st[p] \/ st'[p] \in {"zombie", "gone"},
           step' \in [Cmds -> AtRest \cup Busy \cup {"watch"}],
           \A c \in Cmds : step'[c] = step[c] \/ step'[c] \in AtRest,
           pidfile' = pidfile, unnamed' = unnamed,
           port' \in Pids => port' = port /\ st'[port] = st[port]
    PROVE  PidInv'
<1>1. Typed'
  BY DEF PidInv, Typed
<1>2. OneCommand' /\ OneIsYoung'
  BY DEF PidInv, OneCommand, OneIsYoung, Young
<1>3. NoneToCome'
  BY DEF PidInv, NoneToCome, Young, Busy, AtRest
<1>4. PastIsNamed' /\ PrepIsAlone'
  BY DEF PidInv, PastIsNamed, PrepIsAlone, Past
<1>5. PortIsServed'
  BY DEF PidInv, PortIsServed
<1> QED
  BY <1>1, <1>2, <1>3, <1>4, <1>5 DEF PidInv

LEMMA EndsMove ==
    ASSUME Typed, NEW p \in Pids, Ends(p)
    PROVE  /\ st' \in [Pids -> States] /\ st'[p] \in {"zombie", "gone"}
           /\ \A q \in Pids : st'[q] = st[q] \/ st'[q] \in {"zombie", "gone"}
           /\ \A q \in Pids \ {p} : st[q] # "zombie" => st'[q] = st[q]
BY DEF Ends, Typed, States

LEMMA SpawnKeeps ==
    ASSUME PidInv, NEW q \in Pids, st[q] = "free", st' = [st EXCEPT ![q] = "guard"],
           \A p \in Pids : st[p] \notin Young,
           step' \in [Cmds -> AtRest \cup Busy \cup {"watch"}],
           \A c \in Cmds : step'[c] \notin Busy, \A c \in Cmds : step'[c] \notin AtRest => step[c] \notin AtRest,
           UNCHANGED <<pidfile, port, unnamed>>
    PROVE  PidInv'
<1>1. Typed'
  BY DEF PidInv, Typed, States
<1>2. OneCommand' /\ NoneToCome'
  BY DEF PidInv, OneCommand, NoneToCome
<1>3. OneIsYoung' /\ PastIsNamed' /\ PrepIsAlone' /\ PortIsServed'
  BY DEF PidInv, Typed, OneIsYoung, PastIsNamed, PrepIsAlone, PortIsServed, Young, Past
<1> QED
  BY <1>1, <1>2, <1>3 DEF PidInv

LEMMA NextIsFree == ASSUME FreePid PROVE NextPid \in Pids /\ st[NextPid] = "free"
BY DEF FreePid, NextPid

LEMMA SettledIsQuiet ==
    ASSUME Settled
    PROVE  (\A c \in Cmds : step[c] \in AtRest) /\ (\A p \in Pids : st[p] \notin Young)
BY DEF Settled, Young

\* The steps of a console
LEMMA ProcessKeeps == ASSUME PidInv, NEW p \in Pids, Process(p) PROVE PidInv'
<1>0. Typed /\ OneCommand /\ OneIsYoung /\ NoneToCome /\ PastIsNamed /\ PrepIsAlone /\ PortIsServed
  BY DEF PidInv
<1>1. CASE /\ st[p] \in {"guard", "prep"} /\ Ends(p)
           /\ UNCHANGED <<pidfile, port, step, unnamed>>
  BY <1>0, <1>1, EndsMove, EndsKeep DEF Typed, PortIsServed
<1>2. CASE /\ st[p] = "guard" /\ ~LivePid /\ st' = [st EXCEPT ![p] = "prep"]
           /\ UNCHANGED <<pidfile, port, step, unnamed>>
  <2>1. /\ st[p] = "guard" /\ st' = [st EXCEPT ![p] = "prep"]
        /\ UNCHANGED <<pidfile, port, step, unnamed>>
    BY <1>2
  <2>2. \A q \in Pids : st[q] \in Past => unnamed[q]
    BY <1>0, <1>2, Names DEF PastIsNamed, LivePid, Exists, Past
  <2>3. Typed' /\ OneCommand' /\ OneIsYoung' /\ NoneToCome'
    BY <1>0, <2>1 DEF Typed, States, OneCommand, OneIsYoung, NoneToCome, Young
  <2>4. PastIsNamed' /\ PrepIsAlone' /\ PortIsServed'
    BY <1>0, <2>1, <2>2 DEF Typed, PastIsNamed, PrepIsAlone, PortIsServed, Past
  <2> QED
    BY <2>3, <2>4 DEF PidInv
<1>3. CASE /\ st[p] = "prep" /\ st' = [st EXCEPT ![p] = "bind"]
           /\ UNCHANGED <<port, step>>
           /\ \/ pidfile' = p /\ unnamed' = unnamed
              \/ unnamed' = [unnamed EXCEPT ![p] = TRUE]
  <2>1. st[p] = "prep" /\ st' = [st EXCEPT ![p] = "bind"] /\ UNCHANGED <<port, step>>
    BY <1>3
  <2>2. /\ unnamed' \in [Pids -> BOOLEAN] /\ \A q \in Pids : unnamed[q] => unnamed'[q]
        /\ pidfile' = p \/ unnamed'[p]
    BY <1>0, <1>3 DEF Typed
  <2>3. /\ st' \in [Pids -> States] /\ st'[p] = "bind"
        /\ \A q \in Pids \ {p} : st'[q] = st[q]
    BY <1>0, <2>1 DEF Typed, States
  <2>4. Typed' /\ OneCommand' /\ OneIsYoung' /\ NoneToCome'
    BY <1>0, <2>1, <2>2, <2>3 DEF Typed, OneCommand, OneIsYoung, NoneToCome, Young
  <2>5. PastIsNamed'
    BY <1>0, <2>1, <2>2, <2>3 DEF PastIsNamed, PrepIsAlone
  <2>6. PrepIsAlone'
    BY <1>0, <2>1, <2>2, <2>3 DEF OneIsYoung, PrepIsAlone, Young
  <2>7. PortIsServed'
    BY <1>0, <2>1, <2>3 DEF PortIsServed
  <2> QED
    BY <2>4, <2>5, <2>6, <2>7 DEF PidInv
<1>4. CASE Bind(p) \/ Shutdown(p)
  <2>1. /\ st[p] \in {"bind", "serving"} /\ UNCHANGED <<pidfile, step, unnamed>>
        /\ \/ st' = [st EXCEPT ![p] = "serving"] /\ port' = p
           \/ /\ st' = [st EXCEPT ![p] = "unwind"] /\ port' \in {port, NoPid}
              /\ st[p] = "bind" \/ port' # p
    BY <1>4, Names DEF Bind, Shutdown, Released, cmdVars
  <2>2. Typed' /\ OneCommand' /\ OneIsYoung' /\ NoneToCome'
    BY <1>0, <2>1 DEF Typed, States, OneCommand, OneIsYoung, NoneToCome, Young
  <2>3. PastIsNamed' /\ PrepIsAlone'
    BY <1>0, <2>1 DEF Typed, PastIsNamed, PrepIsAlone, Past
  <2>4. PortIsServed'
    BY <1>0, <2>1, Names DEF Typed, PortIsServed
  <2> QED
    BY <2>2, <2>3, <2>4 DEF PidInv
<1>5. CASE Unwind(p)
  <2>1. /\ st[p] = "unwind" /\ pidfile' = NoPid /\ Ends(p) /\ UNCHANGED <<port, step>>
        /\ unnamed' = [q \in Pids |-> unnamed[q] \/ (unnamed[p] /\ q = pidfile)]
    BY <1>5 DEF Unwind, cmdVars
  <2>2. /\ st' \in [Pids -> States] /\ st'[p] \in {"zombie", "gone"}
        /\ \A q \in Pids : st'[q] = st[q] \/ st'[q] \in {"zombie", "gone"}
        /\ \A q \in Pids \ {p} : st[q] # "zombie" => st'[q] = st[q]
    BY <1>0, <2>1, EndsMove
  <2>3. /\ unnamed' \in [Pids -> BOOLEAN]
        /\ \A q \in Pids : unnamed'[q] = (unnamed[q] \/ (unnamed[p] /\ q = pidfile))
    BY <1>0, <2>1 DEF Typed
  <2>4. Typed' /\ OneCommand' /\ OneIsYoung' /\ NoneToCome' /\ PrepIsAlone'
    BY <1>0, <2>1, <2>2, <2>3 DEF Typed, OneCommand, OneIsYoung, NoneToCome, PrepIsAlone, Young, Past
  <2>5. pidfile = p \/ unnamed[p]
    BY <1>0, <2>1 DEF PastIsNamed, Past
  <2>6. PastIsNamed'
    BY <1>0, <2>2, <2>3, <2>5 DEF PastIsNamed, Past
  <2>7. PortIsServed'
    BY <1>0, <2>1, <2>2 DEF PortIsServed
  <2> QED
    BY <2>4, <2>6, <2>7 DEF PidInv
<1>6. CASE ForcedExit(p) \/ WebExit(p)
  <2>1. Ends(p) /\ port' = Released(p) /\ UNCHANGED <<pidfile, step, unnamed>>
    BY <1>6 DEF ForcedExit, WebExit, cmdVars
  <2>2. /\ st' \in [Pids -> States]
        /\ \A q \in Pids : st'[q] = st[q] \/ st'[q] \in {"zombie", "gone"}
        /\ \A q \in Pids \ {p} : st[q] # "zombie" => st'[q] = st[q]
    BY <1>0, <2>1, EndsMove
  <2>3. port' \in Pids => port' = port /\ st'[port] = st[port]
    BY <1>0, <2>1, <2>2, Names DEF Released, PortIsServed
  <2> QED
    BY <1>0, <2>1, <2>2, <2>3, EndsKeep DEF Typed
<1> QED
  <2>1. CASE Guard(p)
    BY <1>1, <1>2, <2>1 DEF Guard, Refuses, cmdVars
  <2>2. CASE WritePidfile(p)
    BY <1>1, <1>3, <2>2 DEF WritePidfile, Refuses, cmdVars
  <2> QED
    BY <2>1, <2>2, <1>4, <1>5, <1>6 DEF Process

\* What a user or the page begins
LEMMA BeginKeeps ==
    ASSUME OneAtATime, PidInv, NEW p \in Pids, UserServe(p) \/ WebRestart(p) PROVE PidInv'
<1>0. (\A c \in Cmds : step[c] \in AtRest) /\ (\A q \in Pids : st[q] \notin Young)
  BY SettledIsQuiet DEF UserServe, WebRestart, MayBegin
<1>1. CASE UserServe(p)
  BY <1>0, <1>1, NextIsFree, SpawnKeeps DEF UserServe, Spawned, cmdVars, PidInv, Typed, AtRest, Busy
<1>2. CASE /\ st[p] = "serving" /\ st' = [st EXCEPT ![p] = "exiting"]
           /\ UNCHANGED <<pidfile, port, step, unnamed>>
  <2>1. /\ st' \in [Pids -> States] /\ st'[p] = "exiting"
        /\ \A q \in Pids \ {p} : st'[q] = st[q]
    BY <1>2 DEF PidInv, Typed, States
  <2>2. Typed' /\ OneCommand' /\ NoneToCome' /\ OneIsYoung'
    BY <1>0, <1>2, <2>1 DEF PidInv, Typed, OneCommand, NoneToCome, OneIsYoung, Young
  <2>3. PastIsNamed' /\ PrepIsAlone' /\ PortIsServed'
    BY <1>2, <2>1 DEF PidInv, PastIsNamed, PrepIsAlone, PortIsServed, Past
  <2> QED
    BY <2>2, <2>3 DEF PidInv
<1>3. CASE WebRestart(p) /\ \E q \in Pids : Spawned(q, p) /\ st' = [st EXCEPT ![p] = "exiting", ![q] = "guard"]
  <2>1. PICK q \in Pids : st[q] = "free" /\ st' = [st EXCEPT ![p] = "exiting", ![q] = "guard"]
    BY <1>3, NextIsFree DEF Spawned
  <2>2. st[p] = "serving" /\ UNCHANGED <<pidfile, port, step, unnamed>>
    BY <1>3 DEF WebRestart, cmdVars
  <2>3. /\ st \in [Pids -> States] /\ st'[p] = "exiting" /\ st'[q] = "guard"
        /\ \A x \in Pids \ {p, q} : st'[x] = st[x]
    BY <2>1, <2>2 DEF PidInv, Typed
  <2>4. Typed'
    BY <2>1, <2>2 DEF PidInv, Typed, States
  <2>5. OneCommand' /\ NoneToCome' /\ OneIsYoung'
    BY <1>0, <2>2, <2>3 DEF PidInv, OneCommand, NoneToCome, OneIsYoung, Young, AtRest, Busy
  <2>6. PastIsNamed'
    BY <2>2, <2>3 DEF PidInv, PastIsNamed, Past
  <2>7. \A x \in Pids : st'[x] # "prep"
    BY <1>0, <2>3 DEF Young
  <2>8. PrepIsAlone'
    BY <2>7 DEF PrepIsAlone
  <2>9. PortIsServed'
    BY <2>1, <2>2, <2>3 DEF PidInv, PortIsServed
  <2> QED
    BY <2>4, <2>5, <2>6, <2>8, <2>9 DEF PidInv
<1>4. CASE WebRestart(p)
  <2>1. /\ st[p] = "serving" /\ UNCHANGED <<pidfile, port, step, unnamed>>
        /\ \/ \E q \in Pids : Spawned(q, p) /\ st' = [st EXCEPT ![p] = "exiting", ![q] = "guard"]
           \/ st' = [st EXCEPT ![p] = "exiting"]
    BY <1>4 DEF WebRestart, cmdVars
  <2> QED
    BY <1>2, <1>3, <1>4, <2>1
<1> QED
  BY <1>1, <1>4

\* The steps of a command
LEMMA CommandKeeps ==
    ASSUME OneAtATime, PidInv, NEW c \in Cmds, Command(c) \/ Begin(c) PROVE PidInv'
<1>0. Typed /\ OneCommand /\ OneIsYoung /\ NoneToCome /\ PastIsNamed /\ PrepIsAlone /\ PortIsServed
  BY DEF PidInv
<1>1. CASE Begin(c)
  <2>1. /\ (\A d \in Cmds : step[d] \in AtRest) /\ (\A q \in Pids : st[q] \notin Young)
        /\ step' = [step EXCEPT ![c] = "look"] /\ UNCHANGED <<st, pidfile, port, unnamed>>
    BY <1>1, SettledIsQuiet DEF Begin, MayBegin, procVars
  <2> QED
    BY <1>0, <2>1
    DEF PidInv, Typed, OneCommand, OneIsYoung, NoneToCome, PastIsNamed, PrepIsAlone, PortIsServed, AtRest, Busy
<1>2. CASE StartLook(c) \/ RestartLook(c) \/ Pause(c)
  <2>1. /\ step[c] \in Busy /\ UNCHANGED <<st, pidfile, port, unnamed>>
        /\ \E s \in {"done", "spawn", "pause"} : step' = [step EXCEPT ![c] = s]
    BY <1>2 DEF StartLook, RestartLook, Pause, procVars, Busy
  <2>2. Typed'
    BY <1>0, <2>1 DEF Typed, AtRest, Busy
  <2>3. OneCommand' /\ NoneToCome'
    BY <1>0, <2>1 DEF Typed, OneCommand, NoneToCome, AtRest, Busy
  <2> QED
    BY <1>0, <2>1, <2>2, <2>3 DEF PidInv, OneIsYoung, PastIsNamed, PrepIsAlone, PortIsServed
<1>3. CASE StopLook(c)
  <2>1. /\ UNCHANGED <<st, pidfile, port, unnamed>>
        /\ step' \in [Cmds -> AtRest \cup Busy \cup {"watch"}]
        /\ \A d \in Cmds : step'[d] = step[d] \/ step'[d] \in AtRest
    BY <1>0, <1>3 DEF StopLook, Typed, AtRest
  <2> QED
    BY <1>0, <2>1, EndsKeep DEF Typed
<1>4. CASE /\ step[c] = "spawn" /\ step' = [step EXCEPT ![c] = "done"]
           /\ UNCHANGED <<st, pidfile, port, unnamed>>
  BY <1>0, <1>4, EndsKeep DEF Typed, AtRest
<1>6. CASE /\ step[c] = "spawn" /\ step' = [step EXCEPT ![c] = "watch"]
           /\ UNCHANGED <<pidfile, port, unnamed>>
           /\ \E q \in Pids : Spawned(q, c) /\ st' = [st EXCEPT ![q] = "guard"]
  <2>1. PICK q \in Pids : st[q] = "free" /\ st' = [st EXCEPT ![q] = "guard"]
    BY <1>6, NextIsFree DEF Spawned
  <2>2. /\ step[c] = "spawn" /\ step' = [step EXCEPT ![c] = "watch"] /\ UNCHANGED <<pidfile, port, unnamed>>
    BY <1>6
  <2>3. \A p \in Pids : st[p] \notin Young
    BY <1>0, <2>2 DEF NoneToCome, Busy
  <2>4. \A d \in Cmds \ {c} : step[d] \in AtRest
    BY <1>0, <2>2 DEF OneCommand, AtRest
  <2> QED
    BY <1>0, <2>1, <2>2, <2>3, <2>4, SpawnKeeps DEF Typed, AtRest, Busy
<1>5. CASE Report(c)
  <2>1. /\ UNCHANGED <<pidfile, port, unnamed>> /\ step' = [step EXCEPT ![c] = "done"] /\ st' = ReapedBy(c)
    BY <1>5 DEF Report
  <2>2. /\ st' \in [Pids -> States] /\ \A p \in Pids : st'[p] = st[p] \/ st'[p] \in {"zombie", "gone"}
        /\ \A p \in Pids : st[p] # "zombie" => st'[p] = st[p]
    BY <1>0, <2>1 DEF ReapedBy, Typed, States
  <2>3. /\ step' \in [Cmds -> AtRest \cup Busy \cup {"watch"}]
        /\ \A d \in Cmds : step'[d] = step[d] \/ step'[d] \in AtRest
    BY <1>0, <2>1 DEF Typed, AtRest
  <2>4. port' \in Pids => port' = port /\ st'[port] = st[port]
    BY <1>0, <2>1, <2>2 DEF PortIsServed
  <2> QED
    BY <2>1, <2>2, <2>3, <2>4, EndsKeep
<1> QED
  BY <1>1, <1>2, <1>3, <1>4, <1>5, <1>6 DEF Command, Respawn

LEMMA PidStep == ASSUME OneAtATime PROVE PidInv /\ [Next]_vars => PidInv'
<1> SUFFICES ASSUME PidInv, [Next]_vars PROVE PidInv'
  OBVIOUS
<1>1. ASSUME UNCHANGED <<st, step, pidfile, unnamed>>, port' \in {port, NoPid, Other} PROVE PidInv'
  BY <1>1, Names
  DEF PidInv, Typed, OneCommand, OneIsYoung, NoneToCome, PastIsNamed, PrepIsAlone, PortIsServed
<1>2. ASSUME NEW p \in Pids, Interrupt(p) PROVE PidInv'
  BY <1>1, <1>2 DEF Interrupt, cmdVars
<1>3. CASE TakePort \/ LeavePort \/ UNCHANGED vars
  BY <1>1, <1>3 DEF TakePort, LeavePort, procVars, cmdVars, vars
<1> QED
  BY <1>2, <1>3, ProcessKeeps, BeginKeeps, CommandKeeps DEF Next

\* Whoever listens on the port is named by the pidfile, however it was started, whatever
\* ended the ones before it and however long the pauses of the code are, as long as
\* commands are given one at a time; but for a console that could not write it, and one
\* that such a console took it from.
THEOREM ServerIsNamed == ASSUME OneAtATime PROVE Spec => []PidfileNamesServer
<1>1. Init => PidInv
  BY Names
  DEF Init, PidInv, Typed, States, OneCommand, OneIsYoung, NoneToCome, PastIsNamed, PrepIsAlone,
      PortIsServed, AtRest, Busy, Young, Past
<1>2. PidInv /\ [Next]_vars => PidInv'
  BY PidStep
<1>3. PidInv => PidfileNamesServer
  BY DEF PidInv, PidfileNamesServer, PortIsServed, PastIsNamed, Past
<1> QED
  BY <1>1, <1>2, <1>3, PTL DEF Spec

---------------------------------------------------------------------------
(* Collector *)

Counts == [Bounds -> Nat]
Readings == [age : Nat, cum : Counts, run : Nat]

SampleTyped ==
    /\ engine \in [up : BOOLEAN, run : Nat, cum : Counts]
    /\ prevEng \in [seen : BOOLEAN, tok : Nat]
    /\ fresh \in Nat /\ metFail \in 0..3 /\ ring \in Seq(Readings)

\* A failed scrape has forgotten the counter.  Otherwise the tokens since the one
\* remembered are fresh, or all of a new run are.
RateInv ==
    /\ metFail > 0 => ~prevEng.seen
    /\ prevEng.seen /\ ~garbled => Tokens <= fresh \/ Tokens = prevEng.tok + fresh

\* What a histogram of cumulative counts does while its engine runs: an observation
\* adds one to every bucket from its own on.
Grows(p, q) == \A b \in Bounds : p[b] <= q[b] /\ \A i \in 1..b : q[i] - p[i] <= q[b] - p[b]

\* The readings of one run in the ring grow, into what the engine has now.
RingGrows(r) ==
    \A i, j \in 1..Len(r) : i <= j /\ r[i].run = r[j].run => Grows(r[i].cum, r[j].cum)
RingIsPast(r) ==
    \A i \in 1..Len(r) : /\ r[i].run <= engine.run
                         /\ r[i].run = engine.run => Grows(r[i].cum, engine.cum)

ReadingsInv ==
    /\ RingGrows(ring) /\ RingIsPast(ring)
    /\ opened => Len(ring) >= 2
    /\ snap.reachable => /\ ring # <<>> /\ ring[Len(ring)].age = 0
                         /\ snap.counts = Shown(ring)

CollectorInv == SampleTyped /\ RateInv /\ ReadingsInv

---------------------------------------------------------------------------
(* The engine's counters *)

LEMMA LastBound == Buckets \in Bounds /\ \A b \in Bounds : 1..b \subseteq Bounds
BY BucketsAssumption DEF Bounds

LEMMA GrowsReflexive == ASSUME NEW p \in Counts PROVE Grows(p, p)
<1>1. \A b \in Bounds : p[b] \in Nat
  BY DEF Counts
<1> QED
  BY <1>1, LastBound DEF Grows

LEMMA ServeGrows ==
    ASSUME SampleTyped, NEW b \in Bounds, Serve(b)
    PROVE  /\ engine' \in [up : BOOLEAN, run : Nat, cum : Counts]
           /\ engine'.run = engine.run /\ engine'.cum[Buckets] = Tokens + 1
           /\ \A p \in Counts : Grows(p, engine.cum) => Grows(p, engine'.cum)
<1> DEFINE more == [i \in Bounds |-> IF i < b THEN engine.cum[i] ELSE engine.cum[i] + 1]
<1>1. engine \in [up : BOOLEAN, run : Nat, cum : Counts]
  BY DEF SampleTyped
<1>2. engine' = [engine EXCEPT !.cum = more]
  BY DEF Serve
<1>3. more \in Counts
  BY <1>1 DEF Counts
<1>4. \A i \in Bounds : more[i] = IF i < b THEN engine.cum[i] ELSE engine.cum[i] + 1
  OBVIOUS
<1> HIDE DEF more
<1>5. engine' = [up |-> engine.up, run |-> engine.run, cum |-> more]
  BY <1>1, <1>2
<1>6. engine' \in [up : BOOLEAN, run : Nat, cum : Counts] /\ engine'.run = engine.run /\ engine'.cum = more
  BY <1>1, <1>3, <1>5
<1>7. more[Buckets] = Tokens + 1
  <2>1. Buckets \in Bounds /\ ~(Buckets < b)
    BY BucketsAssumption DEF Bounds
  <2> QED
    BY <1>4, <2>1 DEF Tokens
<1>8. ASSUME NEW p \in Counts, Grows(p, engine.cum) PROVE Grows(p, more)
  <2> DEFINE cum == engine.cum
  <2>1. \A i \in Bounds : p[i] \in Nat /\ cum[i] \in Nat
    BY <1>1 DEF Counts
  <2>2. ASSUME NEW a \in Bounds PROVE p[a] <= more[a]
    <3>1. p[a] <= cum[a]
      BY <1>8 DEF Grows
    <3> QED
      BY <1>4, <2>1, <3>1
  <2>3. ASSUME NEW a \in Bounds, NEW i \in 1..a PROVE more[i] - p[i] <= more[a] - p[a]
    <3>1. cum[i] - p[i] <= cum[a] - p[a]
      BY <1>8 DEF Grows
    <3>2. i \in Bounds /\ i <= a /\ i \in Int /\ a \in Int /\ b \in Int
      BY LastBound DEF Bounds
    <3>3. p[i] \in Nat /\ p[a] \in Nat /\ cum[i] \in Nat /\ cum[a] \in Nat
      BY <2>1, <3>2
    <3>4. /\ more[i] = (IF i < b THEN cum[i] ELSE cum[i] + 1)
          /\ more[a] = (IF a < b THEN cum[a] ELSE cum[a] + 1)
      BY <1>4, <3>2
    <3> HIDE DEF cum
    <3> QED
      BY <3>1, <3>2, <3>3, <3>4
  <2> QED
    BY <2>2, <2>3 DEF Grows
<1> QED
  BY <1>6, <1>7, <1>8

---------------------------------------------------------------------------
(* The window *)

LEMMA LeastIndex ==
    ASSUME NEW S \in SUBSET Nat, S # {} PROVE \E x \in S : \A y \in S : x <= y
<1> DEFINE R == OpToRel(<, Nat)
<1>1. IsWellFoundedOn(R, Nat)
  BY NatLessThanWellFounded, Zenon
<1>2. \A x \in Nat, y \in Nat : x < y => <<x, y>> \in R
  BY Zenon DEF OpToRel
<1> HIDE DEF R
<1>3. PICK x \in S : \A y \in S : ~(<<y, x>> \in R)
  BY <1>1, WFMin, Zenon
<1>4. ASSUME NEW y \in S PROVE x <= y
  <2>1. ~(y < x)
    BY <1>2, <1>3, Zenon
  <2>2. x \in Nat /\ y \in Nat
    OBVIOUS
  <2> QED
    BY <2>1, <2>2
<1> QED
  BY <1>4, Zenon

LEMMA MinOfTwo == ASSUME NEW a \in Int, NEW b \in Int PROVE Min({a, b}) = IF a <= b THEN a ELSE b
BY DEF Min

LEMMA MaxOfTwo == ASSUME NEW a \in Int, NEW b \in Int PROVE Max({a, b}) = IF a >= b THEN a ELSE b
BY DEF Max

LEMMA FirstIsInside ==
    ASSUME NEW r \in Seq(Readings), NEW k \in 1..Len(r), r[k].age <= Horizon
    PROVE  FirstInside(r) \in 1..k
<1> DEFINE S == {i \in 1..Len(r) : r[i].age <= Horizon}
<1>1. ASSUME NEW i \in 1..Len(r) PROVE r[i].age \in Nat
  <2>1. r[i] \in Readings
    OBVIOUS
  <2> QED
    BY <2>1 DEF Readings
<1>2. S \in SUBSET Nat /\ k \in S
  OBVIOUS
<1>3. PICK i \in S : \A j \in S : i <= j
  BY <1>2, LeastIndex
<1>4. i \in 1..Len(r) /\ r[i].age <= Horizon /\ \A j \in 1..(i - 1) : r[j].age > Horizon
  BY <1>1, <1>3, HorizonAssumption
<1>5. /\ FirstInside(r) \in 1..Len(r)
      /\ \A j \in 1..(FirstInside(r) - 1) : r[j].age > Horizon
  BY <1>4, Zenon DEF FirstInside
<1>6. ~(k \in 1..(FirstInside(r) - 1))
  BY <1>1, <1>5, HorizonAssumption
<1> QED
  BY <1>5, <1>6

LEMMA OlderKeeps ==
    ASSUME NEW r \in Seq(Readings), NEW d \in Nat
    PROVE  /\ Older(r, d) \in Seq(Readings) /\ Len(Older(r, d)) = Len(r)
           /\ \A i \in 1..Len(r) : Older(r, d)[i].cum = r[i].cum /\ Older(r, d)[i].run = r[i].run
<1> DEFINE aged(i) == [r[i] EXCEPT !.age = Min({r[i].age + d, Horizon + 1})]
<1>1. ASSUME NEW i \in 1..Len(r) PROVE aged(i) \in Readings /\ aged(i).cum = r[i].cum /\ aged(i).run = r[i].run
  <2>1. r[i] \in Readings
    OBVIOUS
  <2>2. r[i].age \in Nat
    BY <2>1 DEF Readings
  <2>3. Min({r[i].age + d, Horizon + 1}) \in Nat
    BY <2>2, MinOfTwo, HorizonAssumption
  <2> QED
    BY <2>1, <2>3 DEF Readings
<1>2. Older(r, d) = [i \in 1..Len(r) |-> aged(i)]
  BY DEF Older
<1> HIDE DEF aged
<1>3. Len(r) \in Nat
  OBVIOUS
<1> QED
  BY <1>1, <1>2, <1>3

\* Of the ring a tail is kept, with one entry or more besides the last if there was one.
LEMMA PruneKeeps ==
    ASSUME NEW r \in Seq(Readings), r # <<>>, r[Len(r)].age = 0
    PROVE  \E k \in 0..(Len(r) - 1) :
              /\ PruneRing(r) \in Seq(Readings) /\ Len(PruneRing(r)) = Len(r) - k
              /\ \A i \in 1..(Len(r) - k) : PruneRing(r)[i] = r[i + k]
              /\ Len(r) >= 2 => k <= Len(r) - 2
<1> DEFINE n == Len(r)
           first == FirstInside(r)
<1>1. n \in Nat /\ n \in 1..n
  OBVIOUS
<1>2. first \in 1..n
  BY <1>1, FirstIsInside, HorizonAssumption
<1> HIDE DEF first
<1> DEFINE from == Max({1, first - 1})
<1>3. from = IF 1 >= first - 1 THEN 1 ELSE first - 1
  BY <1>2, MaxOfTwo
<1> HIDE DEF from
<1>4. from \in 1..n /\ (n >= 2 => from <= n - 1)
  BY <1>1, <1>2, <1>3
<1>5. PruneRing(r) = SubSeq(r, from, n)
  BY Zenon DEF PruneRing, from, first
<1> DEFINE k == from - 1
<1>6. k \in 0..(n - 1) /\ (n >= 2 => k <= n - 2)
  BY <1>1, <1>4
<1>7. SubSeq(r, from, n) \in Seq(Readings) /\ Len(SubSeq(r, from, n)) = n - k
  BY <1>1, <1>4
<1>8. \A i \in 1..(n - k) : SubSeq(r, from, n)[i] = r[i + k]
  BY <1>1, <1>4
<1> HIDE DEF k, n
<1> QED
  BY <1>5, <1>6, <1>7, <1>8, Zenon DEF n

\* Of two readings of one run the window is the difference.
LEMMA WindowOfOneRun ==
    ASSUME NEW p \in Counts, NEW q \in Counts, Grows(p, q)
    PROVE  WindowCounts(p, q) = PerBucket([b \in Bounds |-> q[b] - p[b]])
<1> DEFINE made == [b \in Bounds |-> Increase(q[b], p[b])]
           highest == [b \in Bounds |-> Max({made[i] : i \in 1..b})]
<1>1. \A b \in Bounds : p[b] \in Nat /\ q[b] \in Nat /\ p[b] <= q[b]
  BY DEF Counts, Grows
<1>2. \A b \in Bounds : made[b] = q[b] - p[b]
  BY <1>1 DEF Increase
<1> HIDE DEF made
<1>3. ASSUME NEW b \in Bounds PROVE highest[b] = q[b] - p[b]
  <2> DEFINE S == {made[i] : i \in 1..b}
  <2>1. b \in 1..b /\ made[b] \in S
    BY DEF Bounds
  <2>2. \A x \in S : x \in Int /\ x <= made[b]
    <3>1. ASSUME NEW i \in 1..b PROVE made[i] \in Int /\ made[i] <= made[b]
      <4>1. i \in Bounds /\ q[i] - p[i] <= q[b] - p[b]
        BY LastBound DEF Grows
      <4> QED
        BY <1>1, <1>2, <4>1
    <3> QED
      BY <3>1
  <2>3. made[b] \in Int
    BY <2>1, <2>2
  <2> HIDE DEF S
  <2>4. Max(S) = made[b]
    <3>1. \A y \in S : made[b] >= y
      BY <2>2, <2>3
    <3>2. PICK x \in S : x = Max(S) /\ \A y \in S : x >= y
      BY <2>1, <3>1, Zenon DEF Max
    <3> QED
      BY <2>1, <2>2, <2>3, <3>2
  <2> QED
    BY <1>2, <2>4 DEF S
<1>4. highest = [b \in Bounds |-> q[b] - p[b]]
  BY <1>3
<1>5. WindowCounts(p, q) = PerBucket(highest)
  BY Zenon DEF WindowCounts, made
<1> QED
  BY <1>4, <1>5, Zenon

---------------------------------------------------------------------------
(* Ticks *)

LEMMA SampleStarts == SampleInit => CollectorInv
<1> SUFFICES ASSUME SampleInit PROVE CollectorInv
  OBVIOUS
<1>1. NoObs \in Counts
  BY DEF NoObs, Counts
<1>2. /\ engine = [up |-> FALSE, run |-> 1, cum |-> NoObs] /\ prevEng = [seen |-> FALSE, tok |-> 0]
      /\ fresh = 0 /\ metFail = 0 /\ ring = <<>> /\ opened = FALSE /\ snap = Unreachable
  BY DEF SampleInit, NoCounter
<1>3. SampleTyped
  BY <1>1, <1>2 DEF SampleTyped
<1>4. RateInv
  BY <1>2 DEF RateInv
<1>5. ReadingsInv
  <2>1. snap.reachable = FALSE
    BY <1>2 DEF Unreachable
  <2>2. Len(ring) = 0
    BY <1>2
  <2> QED
    BY <1>2, <2>1, <2>2 DEF ReadingsInv, RingGrows, RingIsPast
<1> QED
  BY <1>3, <1>4, <1>5 DEF CollectorInv

\* A ring whose readings were readings of the ring before, in their order.
LEMMA RingShrinks ==
    ASSUME SampleTyped, RingGrows(ring), RingIsPast(ring), engine' = engine,
           NEW r \in Seq(Readings), Len(r) <= Len(ring),
           \A i \in 1..Len(r) : r[i].cum = ring[i].cum /\ r[i].run = ring[i].run
    PROVE  RingGrows(r) /\ RingIsPast(r)
<1>1. Len(r) \in Nat /\ Len(ring) \in Nat /\ \A i \in 1..Len(r) : i \in 1..Len(ring)
  BY DEF SampleTyped
<1>2. RingGrows(r)
  BY <1>1 DEF RingGrows
<1>3. RingIsPast(r)
  BY <1>1 DEF RingIsPast
<1> QED
  BY <1>2, <1>3

\* A tick that read nothing.
LEMMA NothingRead ==
    ASSUME CollectorInv, engine' = engine, snap' = Unreachable, fresh' = 0,
           metFail' \in 0..3, prevEng' \in [seen : BOOLEAN, tok : Nat],
           metFail' > 0 => ~prevEng'.seen, ~garbled' => ~prevEng'.seen,
           NEW d \in Nat,
           \/ ring' = Older(ring, d) /\ (opened' => opened)
           \/ ring' = <<>> /\ ~opened'
    PROVE  CollectorInv'
<1>1. SampleTyped /\ RingGrows(ring) /\ RingIsPast(ring) /\ (opened => Len(ring) >= 2)
  BY DEF CollectorInv, ReadingsInv
<1>2. ring \in Seq(Readings)
  BY <1>1 DEF SampleTyped
<1>3. /\ ring' \in Seq(Readings) /\ Len(ring') <= Len(ring)
      /\ \A i \in 1..Len(ring') : ring'[i].cum = ring[i].cum /\ ring'[i].run = ring[i].run
      /\ opened' => Len(ring') >= 2
  <2>1. CASE ring' = Older(ring, d) /\ (opened' => opened)
    <3>1. /\ Older(ring, d) \in Seq(Readings) /\ Len(Older(ring, d)) = Len(ring)
          /\ \A i \in 1..Len(ring) : Older(ring, d)[i].cum = ring[i].cum /\ Older(ring, d)[i].run = ring[i].run
      BY <1>2, OlderKeeps
    <3>2. Len(ring) \in Nat
      BY <1>2
    <3> QED
      BY <1>1, <2>1, <3>1, <3>2
  <2>2. CASE ring' = <<>> /\ ~opened'
    BY <1>2, <2>2
  <2> QED
    BY <2>1, <2>2
<1>4. RingGrows(ring') /\ RingIsPast(ring')
  BY <1>1, <1>3, RingShrinks
<1>5. RingGrows(ring)' /\ RingIsPast(ring)'
  BY <1>4 DEF RingGrows, RingIsPast
<1>6. snap'.reachable = FALSE
  BY DEF Unreachable
<1>7. SampleTyped'
  BY <1>1, <1>3 DEF SampleTyped
<1>8. RateInv'
  BY DEF RateInv
<1> QED
  BY <1>3, <1>5, <1>6, <1>7, <1>8 DEF CollectorInv, ReadingsInv

LEMMA TickKeeps ==
    ASSUME CollectorInv, NEW d \in 1..MaxGap, Skip(d) \/ ScrapeFails(d) \/ ScrapeGarbled(d)
    PROVE  CollectorInv'
<1>0. d \in Nat
  BY HorizonAssumption
<1>1. engine' = engine /\ snap' = Unreachable /\ fresh' = 0
  BY DEF Skip, ScrapeFails, ScrapeGarbled, Tick
<1>2. /\ prevEng \in [seen : BOOLEAN, tok : Nat] /\ metFail \in 0..3
      /\ (metFail > 0 => ~prevEng.seen)
  BY DEF CollectorInv, SampleTyped, RateInv
<1>3. CASE Skip(d)
  <2>1. metFail' = metFail /\ prevEng' = prevEng /\ metFail >= 3 /\ ring' = Older(ring, d) /\ opened' = opened
    BY <1>3 DEF Skip, Resting
  <2>2. ~prevEng.seen
    BY <1>2, <2>1
  <2> QED
    BY <1>0, <1>1, <1>2, <2>1, <2>2, NothingRead
<1>4. CASE ScrapeFails(d)
  <2>1. /\ metFail' = Min({metFail + 1, 3}) /\ prevEng' = NoCounter
        /\ ring' = (IF metFail' = 3 THEN <<>> ELSE Older(ring, d))
        /\ opened' = (opened /\ metFail' # 3)
    BY <1>4 DEF ScrapeFails
  <2>2. metFail' \in 0..3
    BY <1>2, <2>1, MinOfTwo
  <2>3. prevEng' \in [seen : BOOLEAN, tok : Nat] /\ ~prevEng'.seen
    BY <2>1 DEF NoCounter
  <2>4. \/ ring' = Older(ring, d) /\ (opened' => opened)
        \/ ring' = <<>> /\ ~opened'
    BY <2>1, Zenon
  <2> QED
    BY <1>0, <1>1, <2>2, <2>3, <2>4, NothingRead
<1>5. CASE ScrapeGarbled(d)
  <2>1. metFail' = 0 /\ prevEng' = prevEng /\ garbled' /\ ring' = Older(ring, d) /\ opened' = opened
    BY <1>5 DEF ScrapeGarbled
  <2> QED
    BY <1>0, <1>1, <1>2, <2>1, NothingRead
<1> QED
  BY <1>3, <1>4, <1>5

LEMMA ReadKeeps ==
    ASSUME CollectorInv, NEW d \in 1..MaxGap, ScrapeRead(d) PROVE CollectorInv'
<1> DEFINE new == [age |-> 0, cum |-> engine.cum, run |-> engine.run]
           aged == Older(ring, d)
           all == Append(aged, new)
           m == Len(ring)
<1>0. d \in Nat
  BY HorizonAssumption
<1>1. /\ ring' = PruneRing(all) /\ prevEng' = [seen |-> TRUE, tok |-> Tokens]
      /\ snap'.reachable /\ snap'.counts = Shown(PruneRing(all))
      /\ opened' = (opened \/ Len(PruneRing(all)) >= 2)
      /\ metFail' = 0 /\ fresh' = 0 /\ engine' = engine
  BY DEF ScrapeRead, Tick
<1>2. /\ engine \in [up : BOOLEAN, run : Nat, cum : Counts] /\ ring \in Seq(Readings)
      /\ RingGrows(ring) /\ RingIsPast(ring) /\ (opened => Len(ring) >= 2)
  BY DEF CollectorInv, SampleTyped, ReadingsInv
<1>3. /\ new \in Readings /\ new.age = 0 /\ new.cum = engine.cum /\ new.run = engine.run
      /\ engine.cum \in Counts
  BY <1>2 DEF Readings
<1> HIDE DEF new
<1>4. /\ aged \in Seq(Readings) /\ Len(aged) = m /\ m \in Nat
      /\ \A i \in 1..m : aged[i].cum = ring[i].cum /\ aged[i].run = ring[i].run
  BY <1>0, <1>2, OlderKeeps
<1> HIDE DEF aged
<1>5. all \in Seq(Readings) /\ Len(all) = m + 1 /\ all[m + 1] = new /\ \A i \in 1..m : all[i] = aged[i]
  BY <1>3, <1>4
<1> HIDE DEF all
<1>6. \A i \in 1..m : all[i].cum = ring[i].cum /\ all[i].run = ring[i].run
  BY <1>4, <1>5
<1> HIDE DEF m
<1>7. RingGrows(all)
  <2> SUFFICES ASSUME NEW i \in 1..(m + 1), NEW j \in 1..(m + 1), i <= j, all[i].run = all[j].run
               PROVE  Grows(all[i].cum, all[j].cum)
    BY <1>5 DEF RingGrows
  <2>1. CASE j \in 1..m
    <3>1. i \in 1..m
      BY <1>4, <2>1
    <3>2. Grows(ring[i].cum, ring[j].cum)
      BY <1>2, <1>6, <2>1, <3>1 DEF RingGrows, m
    <3> QED
      BY <1>6, <2>1, <3>1, <3>2
  <2>2. CASE j = m + 1 /\ i \in 1..m
    <3>1. ring[i].run = engine.run
      BY <1>3, <1>5, <1>6, <2>2
    <3>2. Grows(ring[i].cum, engine.cum)
      BY <1>2, <2>2, <3>1 DEF RingIsPast, m
    <3> QED
      BY <1>3, <1>5, <1>6, <2>2, <3>2
  <2>3. CASE j = m + 1 /\ i = m + 1
    BY <1>3, <1>5, <2>3, GrowsReflexive
  <2> QED
    BY <1>4, <2>1, <2>2, <2>3
<1>8. RingIsPast(all)
  <2> SUFFICES ASSUME NEW i \in 1..(m + 1)
               PROVE  /\ all[i].run <= engine.run
                      /\ all[i].run = engine.run => Grows(all[i].cum, engine.cum)
    BY <1>5 DEF RingIsPast
  <2>1. CASE i \in 1..m
    BY <1>2, <1>6, <2>1 DEF RingIsPast, m
  <2>2. CASE i = m + 1
    <3>1. engine.run \in Nat /\ Grows(engine.cum, engine.cum)
      BY <1>2, <1>3, GrowsReflexive
    <3> QED
      BY <1>3, <1>5, <2>2, <3>1
  <2> QED
    BY <1>4, <2>1, <2>2
<1>9. all # <<>> /\ all[Len(all)].age = 0
  BY <1>3, <1>4, <1>5
<1> DEFINE r == PruneRing(all)
<1>10. PICK k \in 0..(Len(all) - 1) :
          /\ r \in Seq(Readings) /\ Len(r) = Len(all) - k
          /\ \A i \in 1..(Len(all) - k) : r[i] = all[i + k]
          /\ Len(all) >= 2 => k <= Len(all) - 2
  BY <1>5, <1>9, PruneKeeps, Zenon
<1> HIDE DEF r
<1>11. RingGrows(r) /\ RingIsPast(r)
  <2>1. Len(all) \in Nat /\ \A i \in 1..Len(r) : i + k \in 1..Len(all) /\ r[i] = all[i + k]
    BY <1>4, <1>5, <1>10
  <2>2. RingGrows(r)
    <3> SUFFICES ASSUME NEW i \in 1..Len(r), NEW j \in 1..Len(r), i <= j, r[i].run = r[j].run
                 PROVE  Grows(r[i].cum, r[j].cum)
      BY DEF RingGrows
    <3>1. i + k <= j + k /\ i + k \in 1..Len(all) /\ j + k \in 1..Len(all)
      BY <2>1
    <3> QED
      BY <1>7, <2>1, <3>1 DEF RingGrows
  <2>3. RingIsPast(r)
    BY <1>8, <2>1 DEF RingIsPast
  <2> QED
    BY <2>2, <2>3
<1>12. /\ r # <<>> /\ r[Len(r)].age = 0
       /\ Len(ring) >= 1 => Len(r) >= 2
  <2>1. Len(r) \in 1..(m + 1) /\ Len(r) + k = Len(all)
    BY <1>4, <1>5, <1>10
  <2>2. r[Len(r)] = all[Len(all)]
    BY <1>10, <2>1
  <2>3. r # <<>>
    BY <2>1
  <2>4. Len(ring) >= 1 => Len(r) >= 2
    BY <1>4, <1>5, <1>10 DEF m
  <2> QED
    BY <1>9, <2>2, <2>3, <2>4
<1>13. ring' = r /\ snap'.counts = Shown(r) /\ opened' = (opened \/ Len(r) >= 2)
  BY <1>1 DEF r
<1>14. SampleTyped'
  <2>1. Tokens \in Nat
    BY <1>2, LastBound DEF Tokens, Counts
  <2> QED
    BY <1>1, <1>2, <1>10, <1>13, <2>1 DEF SampleTyped
<1>15. RateInv'
  <2>1. Tokens' = Tokens /\ Tokens \in Nat
    BY <1>1, <1>2, LastBound DEF Tokens, Counts
  <2>2. prevEng'.tok = Tokens /\ metFail' = 0 /\ fresh' = 0
    BY <1>1
  <2> QED
    BY <2>1, <2>2 DEF RateInv
<1>16. RingGrows(ring)' /\ RingIsPast(ring)'
  BY <1>1, <1>11, <1>13 DEF RingGrows, RingIsPast
<1>17. opened' => Len(ring') >= 2
  <2>1. Len(ring) >= 2 => Len(r) >= 2
    BY <1>4, <1>12 DEF m
  <2> QED
    BY <1>2, <1>13, <2>1, Zenon
<1>18. ring' # <<>> /\ ring'[Len(ring')].age = 0 /\ snap'.counts = Shown(ring')
  BY <1>12, <1>13, Zenon
<1>19. Shown(ring)' = Shown(ring')
  BY DEF Shown, WindowStart, FirstInside, WindowCounts, PerBucket, Increase
<1> QED
  BY <1>14, <1>15, <1>16, <1>17, <1>18, <1>19 DEF CollectorInv, ReadingsInv

---------------------------------------------------------------------------
(* The engine *)

LEMMA EngineKeepsReadings ==
    ASSUME CollectorInv, engine'.run >= engine.run, UNCHANGED <<ring, snap, opened>>,
           \A i \in 1..Len(ring) :
              /\ ring[i].run <= engine'.run
              /\ ring[i].run = engine'.run => Grows(ring[i].cum, engine'.cum)
    PROVE  ReadingsInv'
<1>1. RingIsPast(ring)'
  BY DEF RingIsPast
<1>2. RingGrows(ring)'
  BY DEF CollectorInv, ReadingsInv, RingGrows
<1>3. Shown(ring)' = Shown(ring)
  BY DEF Shown, WindowStart, FirstInside, WindowCounts, PerBucket, Increase
<1> QED
  BY <1>1, <1>2, <1>3 DEF CollectorInv, ReadingsInv

LEMMA EngineKeepsCollector ==
    ASSUME CollectorInv, (\E b \in Bounds : Serve(b)) \/ EngineDown \/ EngineUp
    PROVE  CollectorInv'
<1>0. /\ SampleTyped /\ RateInv /\ RingIsPast(ring)
      /\ engine \in [up : BOOLEAN, run : Nat, cum : Counts] /\ ring \in Seq(Readings) /\ fresh \in Nat
  BY DEF CollectorInv, SampleTyped, ReadingsInv
<1>1. UNCHANGED <<prevEng, metFail, ring, snap, garbled, opened>>
  BY DEF Serve, EngineDown, EngineUp
<1>2. ASSUME NEW i \in 1..Len(ring) PROVE ring[i].cum \in Counts /\ ring[i].run \in Nat
  <2>1. ring[i] \in Readings
    BY <1>0
  <2> QED
    BY <2>1 DEF Readings
<1>3. ASSUME NEW b \in Bounds, Serve(b) PROVE CollectorInv'
  <2>1. /\ engine' \in [up : BOOLEAN, run : Nat, cum : Counts]
        /\ engine'.run = engine.run /\ engine'.cum[Buckets] = Tokens + 1
        /\ \A p \in Counts : Grows(p, engine.cum) => Grows(p, engine'.cum)
    BY <1>0, <1>3, ServeGrows
  <2>2. fresh' = fresh + 1
    BY <1>3 DEF Serve
  <2>3. ReadingsInv'
    <3>1. engine'.run >= engine.run
      BY <1>0, <2>1
    <3>2. ASSUME NEW i \in 1..Len(ring)
          PROVE  /\ ring[i].run <= engine'.run
                 /\ ring[i].run = engine'.run => Grows(ring[i].cum, engine'.cum)
      BY <1>0, <1>2, <2>1 DEF RingIsPast
    <3> QED
      BY <1>1, <3>1, <3>2, EngineKeepsReadings
  <2>4. RateInv'
    <3>1. Tokens' = Tokens + 1 /\ Tokens \in Nat
      BY <1>0, <2>1, LastBound DEF Tokens, Counts
    <3>2. prevEng.tok \in Nat
      BY <1>0 DEF SampleTyped
    <3> QED
      BY <1>0, <1>1, <2>2, <3>1, <3>2 DEF RateInv
  <2>5. SampleTyped'
    BY <1>0, <1>1, <2>1, <2>2 DEF SampleTyped
  <2> QED
    BY <2>3, <2>4, <2>5 DEF CollectorInv
<1>4. CASE EngineDown
  <2>1. engine' = [up |-> FALSE, run |-> engine.run, cum |-> engine.cum] /\ fresh' = fresh
    BY <1>0, <1>4 DEF EngineDown
  <2>2. engine'.run = engine.run /\ engine'.cum = engine.cum
        /\ engine' \in [up : BOOLEAN, run : Nat, cum : Counts]
    BY <1>0, <2>1
  <2>3. ReadingsInv'
    BY <1>0, <1>1, <2>2, EngineKeepsReadings DEF RingIsPast
  <2>4. RateInv'
    BY <1>0, <1>1, <2>1, <2>2 DEF RateInv, Tokens
  <2> QED
    BY <1>0, <1>1, <2>1, <2>2, <2>3, <2>4 DEF CollectorInv, SampleTyped
<1>5. CASE EngineUp
  <2>1. engine' = [up |-> TRUE, run |-> engine.run + 1, cum |-> NoObs] /\ fresh' = fresh
    BY <1>5 DEF EngineUp
  <2>2. NoObs \in Counts /\ NoObs[Buckets] = 0
    BY LastBound DEF NoObs, Counts
  <2>3. engine'.run = engine.run + 1 /\ engine'.cum = NoObs
        /\ engine' \in [up : BOOLEAN, run : Nat, cum : Counts]
    BY <1>0, <2>1, <2>2
  <2>4. ReadingsInv'
    <3>1. engine.run \in Nat /\ engine'.run >= engine.run
      BY <1>0, <2>3
    <3>2. ASSUME NEW i \in 1..Len(ring) PROVE ring[i].run <= engine'.run /\ ring[i].run # engine'.run
      BY <1>0, <1>2, <2>3, <3>1 DEF RingIsPast
    <3> QED
      BY <1>1, <3>1, <3>2, EngineKeepsReadings
  <2>5. RateInv'
    BY <1>0, <1>1, <2>1, <2>2, <2>3 DEF RateInv, Tokens
  <2> QED
    BY <1>0, <1>1, <2>1, <2>3, <2>4, <2>5 DEF CollectorInv, SampleTyped
<1> QED
  BY <1>3, <1>4, <1>5

LEMMA SampleStep == ASSUME CollectorInv, [SampleNext]_sampleVars PROVE CollectorInv'
<1>1. CASE UNCHANGED sampleVars
  <2>1. Shown(ring)' = Shown(ring)
    BY <1>1 DEF Shown, WindowStart, FirstInside, WindowCounts, PerBucket, Increase, sampleVars
  <2> QED
    BY <1>1, <2>1 DEF CollectorInv, SampleTyped, RateInv, Tokens, ReadingsInv, RingGrows, RingIsPast, sampleVars
<1> QED
  BY <1>1, TickKeeps, ReadKeeps, EngineKeepsCollector DEF SampleNext, Scrape

\* A rate counts no token of an earlier interval, whatever restarted or failed.
THEOREM RatesAreHonest == SampleSpec => RateHonest
<1>1. ASSUME CollectorInv, SampleNext, Sampled, ~garbled PROVE snap'.rate <= fresh
  <2>1. fresh \in Nat /\ prevEng.tok \in Nat /\ Tokens \in Nat
    BY <1>1, LastBound DEF CollectorInv, SampleTyped, Tokens, Counts
  <2>2. ASSUME NEW d \in 1..MaxGap, Skip(d) \/ ScrapeFails(d) \/ ScrapeGarbled(d)
        PROVE  snap'.rate <= fresh
    BY <2>1, <2>2 DEF Skip, ScrapeFails, ScrapeGarbled, Unreachable
  <2>3. ASSUME NEW d \in 1..MaxGap, ScrapeRead(d) PROVE snap'.rate <= fresh
    <3>1. snap'.rate = IF prevEng.seen THEN Increase(Tokens, prevEng.tok) ELSE 0
      BY <2>3 DEF ScrapeRead
    <3>2. prevEng.seen => Tokens <= fresh \/ Tokens = prevEng.tok + fresh
      BY <1>1 DEF CollectorInv, RateInv
    <3> QED
      BY <2>1, <3>1, <3>2 DEF Increase
  <2>4. ~((\E b \in Bounds : Serve(b)) \/ EngineDown \/ EngineUp)
    BY <1>1 DEF Sampled, Serve, EngineDown, EngineUp
  <2> QED
    BY <1>1, <2>2, <2>3, <2>4 DEF SampleNext, Scrape
<1>2. CollectorInv /\ [SampleNext]_sampleVars => [Sampled /\ ~garbled => snap'.rate <= fresh]_sampleVars
  BY <1>1
<1> QED
  BY SampleStarts, SampleStep, <1>2, PTL DEF SampleSpec, RateHonest

\* The window outlives single failures, and shows what was observed in it.
THEOREM WindowIsTrue == SampleSpec => []WindowTrue
<1>1. ASSUME CollectorInv PROVE WindowTrue
  <2> SUFFICES ASSUME snap.reachable, opened
               PROVE  /\ Len(ring) >= 2
                      /\ LET a == ring[WindowStart(ring)]
                             z == ring[Len(ring)]
                         IN  a.run = z.run => snap.counts = PerBucket([b \in Bounds |-> z.cum[b] - a.cum[b]])
    BY DEF WindowTrue
  <2>1. /\ ring \in Seq(Readings) /\ Len(ring) >= 2 /\ ring[Len(ring)].age = 0
        /\ snap.counts = Shown(ring) /\ RingGrows(ring)
    BY <1>1 DEF CollectorInv, SampleTyped, ReadingsInv
  <2> DEFINE n == Len(ring)
             first == FirstInside(ring)
             start == WindowStart(ring)
  <2>2. n \in Nat /\ n >= 2 /\ n \in 1..n
    BY <2>1
  <2>3. first \in 1..n
    BY <2>1, <2>2, FirstIsInside, HorizonAssumption
  <2> HIDE DEF first
  <2>4. start = IF first <= n - 1 THEN first ELSE n - 1
    BY <2>2, <2>3, MinOfTwo DEF WindowStart, first
  <2> HIDE DEF start
  <2>5. start \in 1..n /\ start <= n
    BY <2>2, <2>3, <2>4
  <2>6. ring[start] \in Readings /\ ring[n] \in Readings
    BY <2>1, <2>2, <2>5
  <2>7. snap.counts = WindowCounts(ring[start].cum, ring[n].cum)
    <3>1. ~(Len(ring) < 2)
      BY <2>2
    <3> QED
      BY <2>1, <3>1, Zenon DEF Shown, start
  <2>8. ASSUME ring[start].run = ring[n].run
        PROVE  snap.counts = PerBucket([b \in Bounds |-> ring[n].cum[b] - ring[start].cum[b]])
    <3>1. Grows(ring[start].cum, ring[n].cum)
      BY <2>1, <2>2, <2>5, <2>8 DEF RingGrows
    <3>2. ring[start].cum \in Counts /\ ring[n].cum \in Counts
      BY <2>6 DEF Readings
    <3> QED
      BY <2>7, <3>1, <3>2, WindowOfOneRun, Zenon
  <2> QED
    BY <2>1, <2>8, Zenon DEF start
<1> QED
  BY SampleStarts, SampleStep, <1>1, PTL DEF SampleSpec
===============================================================================
