---------------------------- MODULE Launch_proofs ----------------------------
(***************************************************************************)
(* What Launch promises for any profiles, flags, edits, names and number   *)
(* of jobs.  What a job holds is followed from the file it read to the     *)
(* container it starts: the configuration was set up and valid when it was *)
(* read, and what was made of it was checked after the last change, but on *)
(* the console's way with a profile.                                       *)
(***************************************************************************)
EXTENDS Launch, TLAPS

---------------------------------------------------------------------------
(* Shapes *)

JobFields == {"pc", "kind", "by", "cfg", "stop", "profile", "flags", "eng", "argv", "laid", "touched"}

IsConfig(c) ==
    c = [eng |-> c.eng, serve |-> c.serve, cache |-> c.cache, state |-> c.state, done |-> c.done,
         profile |-> c.profile]

IsJob(r) == r = [f \in JobFields |-> r[f]]

BoxFields == {"up", "eng", "argv", "cfg", "by", "laid", "share", "loaded", "guarded"}
IsBox(c) == c = [f \in BoxFields |-> c[f]]

\* A file that loads is a configuration with all its fields.
LEMMA DecodedIsConfig == ASSUME NEW text PROVE IsConfig(Decoded(text))
<1> DEFINE over == Overlay(Defaults, text.top)
<1>1. DOMAIN Defaults = {"eng", "serve", "cache", "state", "done", "profile"}
  BY DEF Defaults
<1>2. over = [f \in {"eng", "serve", "cache", "state", "done", "profile"} |-> over[f]]
  BY <1>1 DEF Overlay
<1>3. PICK e : Decoded(text) = [over EXCEPT !.eng = e]
  BY DEF Decoded
<1> HIDE DEF over
<1>4. [over EXCEPT !.eng = e] =
        [f \in {"eng", "serve", "cache", "state", "done", "profile"} |-> IF f = "eng" THEN e ELSE over[f]]
  BY <1>2
<1> QED
  BY <1>3, <1>4 DEF IsConfig

\* Nothing laid over a configuration leaves it as valid as it was.
LEMMA SameEngine ==
    ASSUME NEW c, IsConfig(c), Valid(c)
    PROVE  Valid([c EXCEPT !.eng = c.eng])
<1>1. [c EXCEPT !.eng = c.eng] = c
  BY DEF IsConfig
<1> QED
  BY <1>1

---------------------------------------------------------------------------
(* The invariant *)

\* of a job that launches, and of a container
Sound(r) == r.cfg.done /\ ((r.by = "console" /\ r.laid) \/ Valid([r.cfg EXCEPT !.eng = r.eng]))

JobOk(r) ==
    /\ r.by \in {"cli", "console"}
    /\ r.pc = "stop" => r.kind \in {"down", "restart"}
    /\ r.pc = "resolve" => r.by = "cli"
    /\ r.pc \in {"stop", "resolve"} /\ r.by = "cli" => r.cfg.done
    /\ r.pc = "stop" /\ r.by = "console" /\ r.kind # "down" => Sound(r)
    /\ r.pc \in {"remove", "run"} => Sound(r)

JobsGood == job = [j \in Jobs |-> job[j]] /\ \A j \in Jobs : IsJob(job[j]) /\ JobOk(job[j])
BoxGood == box = [n \in Names |-> box[n]] /\ \A n \in Names : Up(n) => IsBox(box[n]) /\ Sound(box[n])
BootGood == boot.done => IsConfig(boot) /\ Valid(boot)

LaunchInv == JobsGood /\ BoxGood /\ BootGood

LEMMA IdleGood == IsJob(Idle) /\ JobOk(Idle)
BY DEF IsJob, JobFields, JobOk, Idle

\* One job moves.
LEMMA JobMoves ==
    ASSUME NEW j \in Jobs, NEW r, JobsGood, job' = [job EXCEPT ![j] = r], IsJob(r), JobOk(r)
    PROVE  JobsGood'
<1>1. job' = [k \in Jobs |-> IF k = j THEN r ELSE job[k]]
  BY DEF JobsGood
<1> QED
  BY <1>1 DEF JobsGood

LEMMA JobEnds == ASSUME NEW j \in Jobs, JobsGood, Ends(j) PROVE JobsGood'
BY IdleGood, JobMoves DEF Ends

LEMMA JobGoes ==
    ASSUME NEW j \in Jobs, NEW s, JobsGood, Go(j, s), JobOk([job[j] EXCEPT !.pc = s])
    PROVE  JobsGood'
<1> DEFINE r == [job[j] EXCEPT !.pc = s]
<1>1. IsJob(job[j]) /\ job' = [job EXCEPT ![j] = r]
  BY DEF JobsGood, Go
<1>2. IsJob(r)
  BY <1>1 DEF IsJob, JobFields
<1> QED
  BY <1>1, <1>2, JobMoves

\* A container goes.
LEMMA BoxGoes ==
    ASSUME NEW x, BoxGood, box' = [n \in Names |-> IF n = x THEN None ELSE box[n]]
    PROVE  BoxGood'
BY DEF BoxGood, Up, None

LEMMA InitLaunch == Init => LaunchInv
<1> SUFFICES ASSUME Init PROVE LaunchInv
  OBVIOUS
<1>1. JobsGood
  BY IdleGood DEF Init, JobsGood
<1>2. BoxGood
  BY DEF Init, BoxGood, Up, None
<1>3. BootGood
  BY DEF Init, BootGood, NoConfig
<1> QED
  BY <1>1, <1>2, <1>3 DEF LaunchInv

---------------------------------------------------------------------------
(* The steps *)

LEMMA StepCliBegin ==
    ASSUME NEW j \in Jobs, NEW kind \in {"up", "down", "restart"}, NEW profile, NEW flags,
           LaunchInv, CliBegin(j, kind, profile, flags)
    PROVE  LaunchInv'
<1> DEFINE pc == IF kind = "up" THEN "resolve" ELSE "stop"
           r == [Idle EXCEPT !.pc = pc, !.kind = kind, !.cfg = Cfg, !.stop = Cfg.eng.name,
                             !.profile = profile, !.flags = flags]
<1>1. Cfg.done /\ job' = [job EXCEPT ![j] = r] /\ UNCHANGED <<box, boot>>
  BY DEF CliBegin, engineVars, consoleVars
<1>2. pc \in {"resolve", "stop"} /\ (pc = "stop" => kind \in {"down", "restart"})
  OBVIOUS
<1> HIDE DEF pc
<1>3. /\ IsJob(r) /\ r.pc = pc /\ r.kind = kind /\ r.by = "cli" /\ r.cfg = Cfg
  BY Zenon DEF Idle, IsJob, JobFields
<1> HIDE DEF r
<1>5. JobOk(r)
  BY <1>1, <1>2, <1>3 DEF JobOk
<1>4. JobsGood'
  BY <1>1, <1>3, <1>5, JobMoves DEF LaunchInv
<1> QED
  BY <1>1, <1>4 DEF LaunchInv, BoxGood, BootGood, Up

LEMMA StepCliResolve ==
    ASSUME NEW j \in Jobs, LaunchInv, CliResolve(j) PROVE LaunchInv'
<1> DEFINE me == job[j]
           eng == CliEngine(me.cfg, me.profile, me.flags)
           argv == Container(eng, me.cfg, me.cfg.cache)
           r == [me EXCEPT !.pc = "remove", !.eng = eng, !.argv = argv]
<1>1. /\ me.pc = "resolve" /\ UNCHANGED <<box, boot>>
      /\ \/ (\E d \in BOOLEAN : CliAccepts(me.cfg, me.profile, me.flags, d)) /\ job' = [job EXCEPT ![j] = r]
         \/ job' = [job EXCEPT ![j] = Refused(me)]
  BY DEF CliResolve, engineVars, consoleVars
<1>2. IsJob(me) /\ JobOk(me) /\ me.by = "cli" /\ me.cfg.done
  BY <1>1 DEF LaunchInv, JobsGood, JobOk
<1>3. ASSUME NEW d, CliAccepts(me.cfg, me.profile, me.flags, d), job' = [job EXCEPT ![j] = r]
      PROVE  JobsGood'
  <2>1. Valid([me.cfg EXCEPT !.eng = eng])
    BY <1>3 DEF CliAccepts
  <2> HIDE DEF eng, argv
  <2>2. IsJob(r) /\ r.cfg = me.cfg /\ r.eng = eng /\ r.pc = "remove" /\ r.by = "cli"
    BY <1>2, Zenon DEF IsJob, JobFields
  <2> HIDE DEF r
  <2>3. JobOk(r)
    BY <1>2, <2>1, <2>2 DEF JobOk, Sound
  <2> QED
    BY <1>3, <2>2, <2>3, JobMoves DEF LaunchInv
<1>4. ASSUME job' = [job EXCEPT ![j] = Refused(me)] PROVE JobsGood'
  <2>2. IsJob(Refused(me)) /\ JobOk(Refused(me))
    BY <1>2, Zenon DEF IsJob, JobFields, JobOk, Refused, Idle
  <2> QED
    BY <1>4, <2>2, JobMoves DEF LaunchInv
<1>5. JobsGood'
  BY <1>1, <1>3, <1>4
<1> QED
  BY <1>1, <1>5 DEF LaunchInv, BoxGood, BootGood, Up

LEMMA StepWebOp ==
    ASSUME NEW j \in Jobs, NEW kind \in {"up", "down", "restart"}, NEW profile,
           LaunchInv, WebOp(j, kind, profile)
    PROVE  LaunchInv'
<1>1. boot.done /\ UNCHANGED <<box, boot>> /\ IsConfig(boot) /\ Valid(boot)
  BY DEF WebOp, engineVars, LaunchInv, BootGood
<1>2. CASE kind = "down"
  <2> DEFINE r == [Idle EXCEPT !.pc = "stop", !.kind = "down", !.by = "console",
                               !.cfg = boot, !.stop = Live.eng.name]
  <2>1. job' = [job EXCEPT ![j] = r]
    BY <1>2 DEF WebOp, WebDown
  <2>2. IsJob(r) /\ JobOk(r)
    BY DEF Idle, IsJob, JobFields, JobOk
  <2>3. JobsGood'
    BY <2>1, <2>2, JobMoves DEF LaunchInv
  <2> QED
    BY <1>1, <2>3 DEF LaunchInv, BoxGood, BootGood, Up
<1>3. CASE kind # "down"
  <2> DEFINE eng == Resolved(boot, profile)
             pc == IF kind = "restart" THEN "stop" ELSE "remove"
             argv == Container(eng, boot, Live.cache)
             laid == Named(boot, profile) # ""
             r == [Idle EXCEPT !.pc = pc, !.kind = kind, !.by = "console", !.cfg = boot,
                               !.stop = eng.name, !.eng = eng, !.argv = argv, !.laid = laid]
             no == [Idle EXCEPT !.pc = "refused", !.kind = kind, !.by = "console"]
  <2>1. job' = [job EXCEPT ![j] = r] \/ job' = [job EXCEPT ![j] = no]
    BY <1>3 DEF WebOp, WebLaunch
  <2>2. laid \/ eng = boot.eng
    BY DEF Resolved
  <2>3. laid \/ Valid([boot EXCEPT !.eng = eng])
    BY <1>1, <2>2, SameEngine
  <2>4. IsJob(no) /\ JobOk(no)
    BY DEF Idle, IsJob, JobFields, JobOk
  <2>5. pc \in {"stop", "remove"} /\ kind \in {"up", "restart"} /\ (pc = "stop" => kind = "restart")
    BY <1>3
  <2>6. laid \in BOOLEAN
    OBVIOUS
  <2> HIDE DEF eng, pc, argv, laid
  <2>7. IsJob(r) /\ r.pc = pc /\ r.kind = kind /\ r.by = "console" /\ r.cfg = boot /\ r.eng = eng /\ r.laid = laid
    <3>1. IsJob(r)
      BY Zenon DEF Idle, IsJob, JobFields
    <3>2. r.pc = pc /\ r.kind = kind /\ r.by = "console"
      BY DEF Idle
    <3>3. r.cfg = boot /\ r.eng = eng /\ r.laid = laid
      BY DEF Idle
    <3> QED
      BY <3>1, <3>2, <3>3
  <2> HIDE DEF r
  <2>8. JobOk(r)
    BY <1>1, <2>3, <2>5, <2>7 DEF JobOk, Sound
  <2>9. JobsGood'
    BY <2>1, <2>4, <2>7, <2>8, JobMoves DEF LaunchInv
  <2> QED
    BY <1>1, <2>9 DEF LaunchInv, BoxGood, BootGood, Up
<1> QED
  BY <1>2, <1>3

LEMMA StepStop == ASSUME NEW j \in Jobs, LaunchInv, Stop(j) PROVE LaunchInv'
<1> DEFINE me == job[j]
           pc == IF me.by = "cli" THEN "resolve" ELSE "remove"
           r == [me EXCEPT !.pc = pc, !.touched = TRUE]
<1>1. /\ me.pc = "stop" /\ UNCHANGED boot
      /\ \/ box' = [n \in Names |-> IF n = me.stop THEN None ELSE box[n]]
         \/ UNCHANGED box
      /\ \/ Ends(j)
         \/ me.kind # "down" /\ job' = [job EXCEPT ![j] = r]
         \/ me.kind # "down" /\ me.by # "cli" /\ Go(j, "remove")
  BY DEF Stop
<1>2. IsJob(me) /\ JobOk(me)
  BY DEF LaunchInv, JobsGood
<1>3. JobsGood'
  <2>1. CASE Ends(j)
    BY <2>1, JobEnds DEF LaunchInv
  <2>2. CASE me.kind # "down" /\ job' = [job EXCEPT ![j] = r]
    <3>1. pc \in {"resolve", "remove"} /\ (pc = "resolve" <=> me.by = "cli")
      OBVIOUS
    <3> HIDE DEF pc
    <3>2. /\ IsJob(r) /\ r.pc = pc /\ r.kind = me.kind /\ r.by = me.by /\ r.cfg = me.cfg
          /\ r.eng = me.eng /\ r.laid = me.laid
      BY <1>2 DEF IsJob, JobFields
    <3> HIDE DEF r
    <3>3. JobOk(r)
      BY <1>1, <1>2, <2>2, <3>1, <3>2 DEF JobOk, Sound
    <3> QED
      BY <2>2, <3>2, <3>3, JobMoves DEF LaunchInv
  <2>3. CASE me.kind # "down" /\ me.by # "cli" /\ Go(j, "remove")
    <3> DEFINE q == [me EXCEPT !.pc = "remove"]
    <3>1. /\ q.pc = "remove" /\ q.kind = me.kind /\ q.by = me.by /\ q.cfg = me.cfg
          /\ q.eng = me.eng /\ q.laid = me.laid
      BY <1>2 DEF IsJob, JobFields
    <3> HIDE DEF q
    <3>2. JobOk(q)
      BY <1>1, <1>2, <2>3, <3>1 DEF JobOk, Sound
    <3>3. JobOk([job[j] EXCEPT !.pc = "remove"])
      BY <3>2 DEF q
    <3> QED
      BY <2>3, <3>3, JobGoes DEF LaunchInv
  <2> QED
    BY <1>1, <2>1, <2>2, <2>3
<1>4. BoxGood'
  <2>1. CASE UNCHANGED box
    BY <2>1 DEF LaunchInv, BoxGood, Up
  <2> QED
    BY <1>1, <2>1, BoxGoes DEF LaunchInv
<1> QED
  BY <1>1, <1>3, <1>4 DEF LaunchInv, BootGood

LEMMA StepRemove == ASSUME NEW j \in Jobs, LaunchInv, Remove(j) PROVE LaunchInv'
<1> DEFINE me == job[j]
           r == [me EXCEPT !.pc = "run", !.touched = TRUE]
<1>1. /\ me.pc = "remove" /\ UNCHANGED boot /\ job' = [job EXCEPT ![j] = r]
      /\ \/ box' = [n \in Names |-> IF n = me.eng.name THEN None ELSE box[n]]
         \/ UNCHANGED box
  BY DEF Remove, consoleVars
<1>2. IsJob(me) /\ JobOk(me)
  BY DEF LaunchInv, JobsGood
<1>3. /\ IsJob(r) /\ r.pc = "run" /\ r.kind = me.kind /\ r.by = me.by /\ r.cfg = me.cfg
      /\ r.eng = me.eng /\ r.laid = me.laid
  BY <1>2 DEF IsJob, JobFields
<1> HIDE DEF r
<1>4. JobOk(r)
  BY <1>1, <1>2, <1>3 DEF JobOk, Sound
<1>5. JobsGood'
  BY <1>1, <1>3, <1>4, JobMoves DEF LaunchInv
<1>6. BoxGood'
  <2>1. CASE UNCHANGED box
    BY <2>1 DEF LaunchInv, BoxGood, Up
  <2> QED
    BY <1>1, <2>1, BoxGoes DEF LaunchInv
<1> QED
  BY <1>1, <1>5, <1>6 DEF LaunchInv, BootGood

\* The container has what its job was checked for.
LEMMA StepRun == ASSUME NEW j \in Jobs, LaunchInv, Run(j) PROVE LaunchInv'
<1> DEFINE me == job[j]
           c == [up |-> TRUE, eng |-> me.eng, argv |-> me.argv, cfg |-> me.cfg, by |-> me.by,
                 laid |-> me.laid, share |-> Share(me.eng), loaded |-> FALSE, guarded |-> ~YesIKnow(me.flags)]
<1>1. /\ me.pc = "run" /\ UNCHANGED boot
      /\ Ends(j) \/ (me.by = "cli" /\ Go(j, "save"))
      /\ box' = [box EXCEPT ![me.eng.name] = c] \/ UNCHANGED box
  BY DEF Run
<1>2. IsJob(me) /\ JobOk(me) /\ Sound(me)
  BY <1>1 DEF LaunchInv, JobsGood, JobOk
<1>3. JobsGood'
  <2>1. CASE Ends(j)
    BY <2>1, JobEnds DEF LaunchInv
  <2>2. CASE me.by = "cli" /\ Go(j, "save")
    <3> DEFINE q == [me EXCEPT !.pc = "save"]
    <3>1. q.pc = "save" /\ q.by = me.by
      BY <1>2 DEF IsJob, JobFields
    <3> HIDE DEF q
    <3>2. JobOk(q)
      BY <1>2, <3>1 DEF JobOk
    <3>3. JobOk([job[j] EXCEPT !.pc = "save"])
      BY <3>2 DEF q
    <3> QED
      BY <2>2, <3>3, JobGoes DEF LaunchInv
  <2> QED
    BY <1>1, <2>1, <2>2
<1>4. BoxGood'
  <2>1. CASE UNCHANGED box
    BY <2>1 DEF LaunchInv, BoxGood, Up
  <2>2. CASE box' = [box EXCEPT ![me.eng.name] = c]
    <3>1. IsBox(c) /\ Sound(c)
      BY <1>2 DEF Sound, IsBox, BoxFields
    <3> HIDE DEF c
    <3>2. box' = [n \in Names |-> IF n = me.eng.name THEN c ELSE box[n]]
      BY <2>2 DEF LaunchInv, BoxGood
    <3> QED
      BY <3>1, <3>2 DEF LaunchInv, BoxGood, Up
  <2> QED
    BY <1>1, <2>1, <2>2
<1> QED
  BY <1>1, <1>3, <1>4 DEF LaunchInv, BootGood

LEMMA StepSaveLastUp == ASSUME NEW j \in Jobs, LaunchInv, SaveLastUp(j) PROVE LaunchInv'
<1>1. UNCHANGED <<boot, box>> /\ JobsGood'
  BY JobEnds DEF SaveLastUp, consoleVars, LaunchInv
<1> QED
  BY <1>1 DEF LaunchInv, BoxGood, BootGood, Up

LEMMA StepSaveBegin == ASSUME NEW j \in Jobs, NEW e, LaunchInv, SaveBegin(j, e) PROVE LaunchInv'
<1> DEFINE cfg == Edited(Cfg, e)
           r == [Idle EXCEPT !.pc = "truncate", !.kind = "set", !.cfg = cfg]
<1>1. UNCHANGED <<boot, box>> /\ job' = [job EXCEPT ![j] = r]
  BY DEF SaveBegin, consoleVars, engineVars
<1> HIDE DEF cfg
<1>2. IsJob(r) /\ JobOk(r)
  BY DEF Idle, IsJob, JobFields, JobOk
<1>3. JobsGood'
  BY <1>1, <1>2, JobMoves DEF LaunchInv
<1> QED
  BY <1>1, <1>3 DEF LaunchInv, BoxGood, BootGood, Up

LEMMA StepTruncate == ASSUME NEW j \in Jobs, LaunchInv, Truncate(j) PROVE LaunchInv'
<1> DEFINE me == job[j]
           q == [me EXCEPT !.pc = "write"]
<1>1. UNCHANGED <<boot, box>> /\ Go(j, "write") /\ IsJob(me) /\ JobOk(me)
  BY DEF Truncate, consoleVars, engineVars, LaunchInv, JobsGood
<1>2. q.pc = "write" /\ q.by = me.by
  BY <1>1 DEF IsJob, JobFields
<1> HIDE DEF q
<1>3. JobOk(q)
  BY <1>1, <1>2 DEF JobOk
<1>4. JobOk([job[j] EXCEPT !.pc = "write"])
  BY <1>3 DEF q
<1>5. JobsGood'
  BY <1>1, <1>4, JobGoes DEF LaunchInv
<1> QED
  BY <1>1, <1>5 DEF LaunchInv, BoxGood, BootGood, Up

LEMMA StepWrite == ASSUME NEW j \in Jobs, LaunchInv, Write(j) PROVE LaunchInv'
<1>1. UNCHANGED <<boot, box>> /\ JobsGood'
  BY JobEnds DEF Write, consoleVars, engineVars, LaunchInv
<1> QED
  BY <1>1 DEF LaunchInv, BoxGood, BootGood, Up

LEMMA StepKill == ASSUME NEW j \in Jobs, LaunchInv, Kill(j) PROVE LaunchInv'
<1>1. UNCHANGED <<boot, box>> /\ Ends(j)
  BY DEF Kill, Ends, consoleVars, engineVars
<1>2. JobsGood'
  BY <1>1, JobEnds DEF LaunchInv
<1> QED
  BY <1>1, <1>2 DEF LaunchInv, BoxGood, BootGood, Up

\* A console starts on a file that loads.
LEMMA StepConsoleStart == ASSUME LaunchInv, ConsoleStart PROVE LaunchInv'
<1>1. UNCHANGED <<job, box>> /\ boot' = Cfg /\ Valid(Cfg)
  BY DEF ConsoleStart, engineVars, CfgLoads
<1>2. IsConfig(Cfg)
  BY DecodedIsConfig DEF Cfg
<1>3. BootGood'
  BY <1>1, <1>2 DEF BootGood
<1> QED
  BY <1>1, <1>3 DEF LaunchInv, BoxGood, JobsGood, Up

LEMMA StepConsoleEnds == ASSUME LaunchInv, ConsoleEnds PROVE LaunchInv'
<1>1. /\ boot' = NoConfig /\ UNCHANGED box
      /\ job' = [j \in Jobs |-> IF job[j].by = "console" THEN Idle ELSE job[j]]
  BY DEF ConsoleEnds, engineVars
<1>2. JobsGood'
  BY <1>1, IdleGood DEF LaunchInv, JobsGood
<1>3. BootGood'
  BY <1>1 DEF BootGood, NoConfig
<1> QED
  BY <1>1, <1>2, <1>3 DEF LaunchInv, BoxGood, Up

LEMMA StepLoads == ASSUME NEW n \in Names, LaunchInv, Loads(n) PROVE LaunchInv'
<1> DEFINE c == [box[n] EXCEPT !.loaded = TRUE]
<1>1. UNCHANGED <<boot, job>> /\ Up(n) /\ box' = [box EXCEPT ![n] = c] /\ box = [m \in Names |-> box[m]]
  BY DEF Loads, consoleVars, LaunchInv, BoxGood
<1>2. IsBox(box[n]) /\ Sound(box[n])
  BY <1>1 DEF LaunchInv, BoxGood
<1>3. /\ IsBox(c) /\ c.cfg = box[n].cfg /\ c.eng = box[n].eng /\ c.by = box[n].by /\ c.laid = box[n].laid
  BY <1>2 DEF IsBox, BoxFields
<1> HIDE DEF c
<1>4. Sound(c)
  BY <1>2, <1>3 DEF Sound
<1>5. box' = [m \in Names |-> IF m = n THEN c ELSE box[m]]
  BY <1>1
<1>6. BoxGood'
  BY <1>3, <1>4, <1>5 DEF LaunchInv, BoxGood, Up
<1> QED
  BY <1>1, <1>6 DEF LaunchInv, JobsGood, BootGood

\* What leaves jobs, containers and the console alone.
LEMMA StepElse == ASSUME LaunchInv, UNCHANGED <<job, box, boot>> PROVE LaunchInv'
BY DEF LaunchInv, JobsGood, BoxGood, BootGood, Up

LEMMA StepLaunch == ASSUME LaunchInv, [Next]_vars PROVE LaunchInv'
<1>1. ASSUME NEW j \in Jobs, NEW kind \in {"up", "down", "restart"}, NEW profile, NEW flags,
             CliBegin(j, kind, profile, flags) \/ WebOp(j, kind, profile)
      PROVE  LaunchInv'
  BY <1>1, StepCliBegin, StepWebOp
<1>2. ASSUME NEW j \in Jobs, Engine(j) PROVE LaunchInv'
  BY <1>2, StepCliResolve, StepStop, StepRemove, StepRun, StepSaveLastUp DEF Engine
<1>3. ASSUME NEW j \in Jobs, NEW e, ConfigSet(j, e) PROVE LaunchInv'
  BY <1>3, StepSaveBegin DEF ConfigSet
<1>4. ASSUME NEW j \in Jobs, NEW on, Lockdown(j, on) PROVE LaunchInv'
  BY <1>4, StepSaveBegin DEF Lockdown
<1>5. ASSUME NEW j \in Jobs, Truncate(j) \/ Write(j) \/ Kill(j) PROVE LaunchInv'
  BY <1>5, StepTruncate, StepWrite, StepKill
<1>6. ASSUME NEW x, Reset(x) \/ HandEdit(x) \/ NewProfile(x) \/ DeleteProfile(x) PROVE LaunchInv'
  BY <1>6, StepElse DEF Reset, HandEdit, NewProfile, DeleteProfile, consoleVars, engineVars
<1>7. CASE RotateEngineKey \/ TenantMoves \/ UNCHANGED vars
  BY <1>7, StepElse DEF RotateEngineKey, TenantMoves, vars, consoleVars, engineVars
<1>8. ASSUME NEW n \in Names, Loads(n) PROVE LaunchInv'
  BY <1>8, StepLoads
<1>9. CASE ConsoleStart \/ ConsoleEnds
  BY <1>9, StepConsoleStart, StepConsoleEnds
<1> QED
  BY <1>1, <1>2, <1>3, <1>4, <1>5, <1>6, <1>7, <1>8, <1>9 DEF Next

THEOREM LaunchInvariant == Spec => []LaunchInv
BY InitLaunch, StepLaunch, PTL DEF Spec

\* What runs is valid, unless the console laid a profile over its configuration: for any
\* files, flags, edits and number of jobs.
THEOREM OnlyValidRuns == Spec => []ValidUnlessOverlaid
<1>1. LaunchInv => ValidUnlessOverlaid
  BY DEF LaunchInv, BoxGood, Sound, ValidUnlessOverlaid
<1> QED
  BY <1>1, LaunchInvariant, PTL

\* What runs was set up, on the same way.
THEOREM OnlySetUpRuns == Spec => []SetUpOnly
<1>1. LaunchInv => SetUpOnly
  BY DEF LaunchInv, BoxGood, Sound, SetUpOnly
<1> QED
  BY <1>1, LaunchInvariant, PTL

---------------------------------------------------------------------------
(* Refusals.  What the slot and the marks of a job say of each other needs *)
(* the shape of the jobs, and that a stop of a command with more to come   *)
(* is a restart's.                                                         *)

SlotOk(j, r, s) ==
    /\ s = j => r.by = "console" /\ r.pc \in {"stop", "remove", "run"}
    /\ r.pc \in {"resolve", "refused"} /\ r.touched => r.by = "cli" /\ r.kind = "restart"

SlotInv == \A j \in Jobs : SlotOk(j, job[j], slot)

\* One job moves; the slot stays, is freed, or is that job's.
LEMMA SlotMoves ==
    ASSUME NEW j \in Jobs, NEW r, JobsGood, SlotInv, job' = [job EXCEPT ![j] = r],
           slot' \in {slot, NoJob, j}, SlotOk(j, r, slot')
    PROVE  SlotInv'
<1>1. job' = [k \in Jobs |-> IF k = j THEN r ELSE job[k]]
  BY DEF JobsGood
<1>2. ASSUME NEW k \in Jobs, k # j PROVE SlotOk(k, job'[k], slot')
  BY <1>1, <1>2, LaunchAssumption, Zenon DEF SlotInv, SlotOk
<1>3. SlotOk(j, job'[j], slot')
  BY <1>1
<1> QED
  BY <1>2, <1>3 DEF SlotInv

\* A job that does not hold the slot, or gives it back, ends.
LEMMA SlotEnds ==
    ASSUME NEW j \in Jobs, JobsGood, SlotInv, Ends(j), slot' \in {slot, NoJob}, slot' # j
    PROVE  SlotInv'
<1>1. SlotOk(j, Idle, slot')
  BY DEF SlotOk, Idle
<1> QED
  BY <1>1, SlotMoves DEF Ends

\* A stage that is not one at which a refusal can come.
LEMMA SlotGoes ==
    ASSUME NEW j \in Jobs, NEW s, JobsGood, SlotInv, Go(j, s), slot' \in {slot, NoJob},
           s \notin {"resolve", "refused"}, slot' = j => s \in {"remove", "run"}
    PROVE  SlotInv'
<1> DEFINE r == [job[j] EXCEPT !.pc = s]
<1>1. IsJob(job[j]) /\ SlotOk(j, job[j], slot) /\ job' = [job EXCEPT ![j] = r]
  BY DEF JobsGood, SlotInv, Go
<1>2. r.pc = s /\ r.by = job[j].by
  BY <1>1 DEF IsJob, JobFields
<1> HIDE DEF r
<1>3. SlotOk(j, r, slot')
  BY <1>1, <1>2, LaunchAssumption DEF SlotOk
<1> QED
  BY <1>1, <1>3, SlotMoves

\* A record for a job that was free, whose marks are fresh.
LEMMA SlotBegins ==
    ASSUME NEW j \in Jobs, NEW r, JobsGood, SlotInv, Free(j), job' = [job EXCEPT ![j] = r],
           ~r.touched, slot' \in {slot, j},
           slot' = j /\ slot # j => r.by = "console" /\ r.pc \in {"stop", "remove"}
    PROVE  SlotInv'
<1>1. slot # j
  BY DEF SlotInv, SlotOk, Free
<1>2. SlotOk(j, r, slot')
  BY <1>1 DEF SlotOk
<1> QED
  BY <1>2, SlotMoves

LEMMA SlotLaunches ==
    ASSUME NEW j \in Jobs, NEW kind \in {"up", "down", "restart"}, NEW profile, NEW flags,
           LaunchInv, SlotInv, CliBegin(j, kind, profile, flags) \/ WebOp(j, kind, profile)
    PROVE  SlotInv'
<1>1. CASE CliBegin(j, kind, profile, flags)
  <2> DEFINE pc == IF kind = "up" THEN "resolve" ELSE "stop"
             r == [Idle EXCEPT !.pc = pc, !.kind = kind, !.cfg = Cfg, !.stop = Cfg.eng.name,
                               !.profile = profile, !.flags = flags]
  <2>1. Free(j) /\ slot' = slot /\ job' = [job EXCEPT ![j] = r]
    BY <1>1 DEF CliBegin, consoleVars
  <2>2. r.touched = FALSE
    BY DEF Idle
  <2> HIDE DEF r
  <2> QED
    BY <2>1, <2>2, SlotBegins DEF LaunchInv
<1>2. CASE WebOp(j, kind, profile) /\ kind = "down"
  <2> DEFINE r == [Idle EXCEPT !.pc = "stop", !.kind = "down", !.by = "console",
                               !.cfg = boot, !.stop = Live.eng.name]
  <2>1. Free(j) /\ slot' = j /\ job' = [job EXCEPT ![j] = r]
    BY <1>2 DEF WebOp, WebDown
  <2>2. r.touched = FALSE /\ r.by = "console" /\ r.pc = "stop"
    BY DEF Idle
  <2> HIDE DEF r
  <2> QED
    BY <2>1, <2>2, SlotBegins DEF LaunchInv
<1>3. CASE WebOp(j, kind, profile) /\ kind # "down"
  <2> DEFINE eng == Resolved(boot, profile)
             pc == IF kind = "restart" THEN "stop" ELSE "remove"
             argv == Container(eng, boot, Live.cache)
             laid == Named(boot, profile) # ""
             r == [Idle EXCEPT !.pc = pc, !.kind = kind, !.by = "console", !.cfg = boot,
                               !.stop = eng.name, !.eng = eng, !.argv = argv, !.laid = laid]
             no == [Idle EXCEPT !.pc = "refused", !.kind = kind, !.by = "console"]
  <2>1. /\ Free(j)
        /\ \/ slot' = j /\ job' = [job EXCEPT ![j] = r]
           \/ slot' = slot /\ job' = [job EXCEPT ![j] = no]
    BY <1>3 DEF WebOp, WebLaunch
  <2>2. pc \in {"stop", "remove"}
    OBVIOUS
  <2> HIDE DEF eng, pc, argv, laid
  <2>3. r.touched = FALSE /\ r.by = "console" /\ r.pc = pc /\ no.touched = FALSE
    BY DEF Idle
  <2> HIDE DEF r, no
  <2> QED
    BY <2>1, <2>2, <2>3, SlotBegins DEF LaunchInv
<1> QED
  BY <1>1, <1>2, <1>3

LEMMA SlotResolves ==
    ASSUME NEW j \in Jobs, LaunchInv, SlotInv, CliResolve(j) PROVE SlotInv'
<1> DEFINE me == job[j]
           eng == CliEngine(me.cfg, me.profile, me.flags)
           argv == Container(eng, me.cfg, me.cfg.cache)
           r == [me EXCEPT !.pc = "remove", !.eng = eng, !.argv = argv]
<1>1. /\ me.pc = "resolve" /\ slot' = slot
      /\ job' = [job EXCEPT ![j] = r] \/ job' = [job EXCEPT ![j] = Refused(me)]
  BY DEF CliResolve, consoleVars
<1>2. IsJob(me) /\ SlotOk(j, me, slot) /\ slot # j
  BY <1>1 DEF LaunchInv, JobsGood, SlotInv, SlotOk
<1> HIDE DEF eng, argv
<1>3. r.pc = "remove"
  BY <1>2 DEF IsJob, JobFields
<1> HIDE DEF r
<1>4. SlotOk(j, r, slot)
  BY <1>2, <1>3 DEF SlotOk
<1>5. SlotOk(j, Refused(me), slot)
  BY <1>1, <1>2 DEF SlotOk, Refused, Idle
<1> QED
  BY <1>1, <1>4, <1>5, SlotMoves DEF LaunchInv

LEMMA SlotStops == ASSUME NEW j \in Jobs, LaunchInv, SlotInv, Stop(j) PROVE SlotInv'
<1> DEFINE me == job[j]
           pc == IF me.by = "cli" THEN "resolve" ELSE "remove"
           r == [me EXCEPT !.pc = pc, !.touched = TRUE]
<1>1. /\ me.pc = "stop" /\ slot' = Freed(j)
      /\ \/ Ends(j)
         \/ me.kind # "down" /\ job' = [job EXCEPT ![j] = r]
         \/ Go(j, "remove")
  BY DEF Stop
<1>2. slot' \in {slot, NoJob} /\ slot' # j
  BY <1>1, LaunchAssumption DEF Freed
<1>3. CASE me.kind # "down" /\ job' = [job EXCEPT ![j] = r]
  <2>1. IsJob(me) /\ me.kind = "restart"
    BY <1>1, <1>3 DEF LaunchInv, JobsGood, JobOk
  <2>2. pc = "resolve" => me.by = "cli"
    OBVIOUS
  <2>3. pc # "refused"
    OBVIOUS
  <2> HIDE DEF pc
  <2>4. r.pc = pc /\ r.by = me.by /\ r.kind = me.kind
    BY <2>1 DEF IsJob, JobFields
  <2> HIDE DEF r
  <2>5. SlotOk(j, r, slot')
    BY <1>2, <2>1, <2>2, <2>3, <2>4 DEF SlotOk
  <2> QED
    BY <1>2, <1>3, <2>5, SlotMoves DEF LaunchInv
<1> QED
  BY <1>1, <1>2, <1>3, SlotEnds, SlotGoes DEF LaunchInv

LEMMA SlotRemoves == ASSUME NEW j \in Jobs, LaunchInv, SlotInv, Remove(j) PROVE SlotInv'
<1> DEFINE me == job[j]
           r == [me EXCEPT !.pc = "run", !.touched = TRUE]
<1>1. slot' = slot /\ job' = [job EXCEPT ![j] = r]
  BY DEF Remove, consoleVars
<1>2. IsJob(me) /\ SlotOk(j, me, slot)
  BY DEF LaunchInv, JobsGood, SlotInv
<1>3. r.pc = "run" /\ r.by = me.by
  BY <1>2 DEF IsJob, JobFields
<1> HIDE DEF r
<1>4. SlotOk(j, r, slot)
  BY <1>2, <1>3 DEF SlotOk
<1> QED
  BY <1>1, <1>4, SlotMoves DEF LaunchInv

LEMMA SlotRuns == ASSUME NEW j \in Jobs, LaunchInv, SlotInv, Run(j) PROVE SlotInv'
<1>1. slot' = Freed(j) /\ (Ends(j) \/ Go(j, "save"))
  BY DEF Run
<1>2. slot' \in {slot, NoJob} /\ slot' # j
  BY <1>1, LaunchAssumption DEF Freed
<1> QED
  BY <1>1, <1>2, SlotEnds, SlotGoes DEF LaunchInv

\* The steps of a job that cannot hold the slot, for what it does or who runs it.
LEMMA SlotOthers ==
    ASSUME NEW j \in Jobs, LaunchInv, SlotInv, SaveLastUp(j) \/ Write(j) \/ Kill(j) \/ Truncate(j)
    PROVE  SlotInv'
<1>1. /\ slot' = slot /\ (Ends(j) \/ Go(j, "write"))
      /\ job[j].pc \in {"save", "write", "truncate"} \/ job[j].by = "cli"
  BY DEF SaveLastUp, Write, Kill, Truncate, Ends, consoleVars
<1>2. slot # j
  BY <1>1 DEF SlotInv, SlotOk
<1> QED
  BY <1>1, <1>2, SlotEnds, SlotGoes DEF LaunchInv

LEMMA SlotSaves == ASSUME NEW j \in Jobs, NEW e, LaunchInv, SlotInv, SaveBegin(j, e) PROVE SlotInv'
<1> DEFINE cfg == Edited(Cfg, e)
           r == [Idle EXCEPT !.pc = "truncate", !.kind = "set", !.cfg = cfg]
<1>1. Free(j) /\ slot' = slot /\ job' = [job EXCEPT ![j] = r]
  BY DEF SaveBegin, consoleVars
<1>2. r.touched = FALSE
  BY DEF Idle
<1> HIDE DEF r
<1> QED
  BY <1>1, <1>2, SlotBegins DEF LaunchInv

LEMMA SlotConsoleEnds == ASSUME LaunchInv, SlotInv, ConsoleEnds PROVE SlotInv'
<1>1. slot' = NoJob /\ job' = [j \in Jobs |-> IF job[j].by = "console" THEN Idle ELSE job[j]]
  BY DEF ConsoleEnds
<1>2. \A j \in Jobs : SlotOk(j, Idle, NoJob)
  BY LaunchAssumption DEF SlotOk, Idle
<1>3. \A j \in Jobs : SlotOk(j, job[j], NoJob)
  BY LaunchAssumption DEF SlotInv, SlotOk
<1> QED
  BY <1>1, <1>2, <1>3 DEF SlotInv

LEMMA SlotElse == ASSUME SlotInv, UNCHANGED <<job, slot>> PROVE SlotInv'
BY DEF SlotInv

LEMMA StepSlot == ASSUME LaunchInv, SlotInv, [Next]_vars PROVE SlotInv'
<1>1. ASSUME NEW j \in Jobs, NEW kind \in {"up", "down", "restart"}, NEW profile, NEW flags,
             CliBegin(j, kind, profile, flags) \/ WebOp(j, kind, profile)
      PROVE  SlotInv'
  BY <1>1, SlotLaunches
<1>2. ASSUME NEW j \in Jobs, Engine(j) PROVE SlotInv'
  BY <1>2, SlotResolves, SlotStops, SlotRemoves, SlotRuns, SlotOthers DEF Engine
<1>3. ASSUME NEW j \in Jobs, NEW e, ConfigSet(j, e) PROVE SlotInv'
  BY <1>3, SlotSaves DEF ConfigSet
<1>4. ASSUME NEW j \in Jobs, NEW on, Lockdown(j, on) PROVE SlotInv'
  BY <1>4, SlotSaves DEF Lockdown
<1>5. ASSUME NEW j \in Jobs, Truncate(j) \/ Write(j) \/ Kill(j) PROVE SlotInv'
  BY <1>5, SlotOthers
<1>6. ASSUME NEW x, Reset(x) \/ HandEdit(x) \/ NewProfile(x) \/ DeleteProfile(x) PROVE SlotInv'
  BY <1>6, SlotElse DEF Reset, HandEdit, NewProfile, DeleteProfile, consoleVars
<1>7. CASE RotateEngineKey \/ TenantMoves \/ UNCHANGED vars \/ ConsoleStart
  BY <1>7, SlotElse DEF RotateEngineKey, TenantMoves, ConsoleStart, vars, consoleVars
<1>8. ASSUME NEW n \in Names, Loads(n) PROVE SlotInv'
  BY <1>8, SlotElse DEF Loads, consoleVars
<1>9. CASE ConsoleEnds
  BY <1>9, SlotConsoleEnds
<1> QED
  BY <1>1, <1>2, <1>3, <1>4, <1>5, <1>6, <1>7, <1>8, <1>9 DEF Next

\* A refusal touched no container, but a command's restart, and holds no slot.
THEOREM RefusalsTouchNothing == Spec => []RefusedUntouched
<1>1. Init => SlotInv
  <2>1. \A j \in Jobs : SlotOk(j, Idle, NoJob)
    BY LaunchAssumption DEF SlotOk, Idle
  <2> QED
    BY <2>1 DEF Init, SlotInv
<1>2. SlotInv => RefusedUntouched
  BY DEF SlotInv, SlotOk, RefusedUntouched
<1>3. LaunchInv /\ SlotInv /\ [Next]_vars => SlotInv'
  BY StepSlot
<1> QED
  BY <1>1, <1>2, <1>3, LaunchInvariant, PTL DEF Spec

---------------------------------------------------------------------------
(* The port the proxy asks.  As long as launches do not mix, the engine    *)
(* that was launched last is at the recorded port, or its launch is about  *)
(* to record it.                                                           *)

PortOk(r) ==
    /\ r.pc \in {"stop", "resolve"} /\ r.by = "cli" => IsConfig(r.cfg)
    /\ r.pc \in {"remove", "run"} /\ r.by = "cli" => r.argv.port = r.eng.port /\ r.eng.port # 0
    /\ r.pc = "save" => r.by = "cli" /\ r.eng.port # 0

OneLaunches == \A j, k \in Jobs : Launching(j) /\ Launching(k) => j = k
Saving ==
    \A j \in Jobs : job[j].pc = "save" =>
        /\ newest = job[j].eng.name
        /\ newest \in Names /\ Up(newest) =>
              box[newest].argv.port = job[j].eng.port /\ box[newest].cfg.state = job[j].cfg.state
Written(dir, port) == dir \in DOMAIN lastUp /\ lastUp[dir] # 0 /\ lastUp[dir] = port
Recorded ==
    newest \in Names /\ Up(newest) =>
        \/ Written(box[newest].cfg.state, box[newest].argv.port) \/ unsaved
        \/ \E j \in Jobs : job[j].pc = "save"

PortInv ==
    /\ \A j \in Jobs : PortOk(job[j])
    /\ ~mixed => OneLaunches /\ Saving /\ Recorded

\* What becomes of the containers when none is started.
NoneStarts ==
    \A n \in Names : box'[n].up => Up(n) /\ box'[n].argv = box[n].argv /\ box'[n].cfg = box[n].cfg

\* One job moves that neither starts a container nor records a port.
LEMMA PortMoves ==
    ASSUME NEW j \in Jobs, NEW r, JobsGood, PortInv, job' = [job EXCEPT ![j] = r], PortOk(r),
           NoneStarts, UNCHANGED <<newest, lastUp, unsaved>>,
           mixed' \/ (~mixed /\ job[j].pc # "save" /\ r.pc # "save"),
           r.pc \in {"resolve", "stop", "remove", "run"} /\ ~mixed' => Launching(j) \/ ~Meets(j)
    PROVE  PortInv'
<1>1. job' = [k \in Jobs |-> IF k = j THEN r ELSE job[k]]
  BY DEF JobsGood
<1>2. \A k \in Jobs : PortOk(job'[k])
  BY <1>1 DEF PortInv
<1>3. ASSUME ~mixed' PROVE OneLaunches' /\ Saving' /\ Recorded'
  <2>1. OneLaunches /\ Saving /\ Recorded
    BY <1>3 DEF PortInv
  <2>2. job[j].pc # "save" /\ r.pc # "save"
    BY <1>3
  <2>3. \A k \in Jobs \ {j} : job'[k] = job[k]
    BY <1>1
  <2>4. job'[j] = r
    BY <1>1
  <2>5. r.pc \in {"resolve", "stop", "remove", "run"} => \A k \in Jobs \ {j} : ~Launching(k)
    BY <1>3, <2>1 DEF OneLaunches, Meets
  <2>6. OneLaunches'
    BY <2>1, <2>2, <2>3, <2>4, <2>5 DEF OneLaunches, Launching
  <2>7. Saving'
    BY <2>1, <2>2, <2>3, <2>4 DEF Saving, NoneStarts, Up
  <2>8. Recorded'
    BY <2>1, <2>2, <2>3, <2>4 DEF Recorded, Written, NoneStarts, Up
  <2> QED
    BY <2>6, <2>7, <2>8
<1> QED
  BY <1>2, <1>3 DEF PortInv

\* Containers that stay, and one that goes.
LEMMA BoxStays == ASSUME UNCHANGED box PROVE NoneStarts
BY DEF NoneStarts, Up

LEMMA BoxLess ==
    ASSUME NEW x, box' = [n \in Names |-> IF n = x THEN None ELSE box[n]] PROVE NoneStarts
BY DEF NoneStarts, Up, None

\* The argv publishes the port of the settings.
LEMMA ArgvPort == ASSUME NEW e, NEW cfg, NEW mount PROVE Container(e, cfg, mount).port = e.port
BY SMT DEF Container, Argv

LEMMA ValidPort == ASSUME NEW c, Valid(c) PROVE c.eng.port # 0
<1>1. PICK e : e = c.eng
  OBVIOUS
<1>2. ValidEngine(e)
  BY <1>1 DEF Valid
<1>3. 1 <= e.port
  BY <1>2, SMT DEF ValidEngine
<1>4. e.port # 0
  BY <1>3, SMT
<1> QED
  BY <1>1, <1>4

LEMMA IdlePort == PortOk(Idle)
BY DEF PortOk, Idle

LEMMA IdlePc == Idle.pc = "idle"
BY DEF Idle

LEMMA PortCliBegin ==
    ASSUME NEW j \in Jobs, NEW kind \in {"up", "down", "restart"}, NEW profile, NEW flags,
           LaunchInv, PortInv, CliBegin(j, kind, profile, flags)
    PROVE  PortInv'
<1> DEFINE pc == IF kind = "up" THEN "resolve" ELSE "stop"
           r == [Idle EXCEPT !.pc = pc, !.kind = kind, !.cfg = Cfg, !.stop = Cfg.eng.name,
                             !.profile = profile, !.flags = flags]
<1>1. /\ Free(j) /\ job' = [job EXCEPT ![j] = r] /\ UNCHANGED <<box, newest, lastUp, unsaved>>
      /\ mixed' = (mixed \/ Meets(j))
  BY DEF CliBegin, engineVars, launchVars
<1>2. pc \in {"resolve", "stop"}
  OBVIOUS
<1> HIDE DEF pc
<1>3. r.pc = pc /\ r.cfg = Cfg
  BY DEF Idle
<1>4. IsConfig(Cfg)
  BY DecodedIsConfig DEF Cfg
<1> HIDE DEF r
<1>5. PortOk(r)
  BY <1>2, <1>3, <1>4 DEF PortOk
<1>6. job[j].pc # "save" /\ r.pc # "save"
  BY <1>1, <1>2, <1>3 DEF Free
<1> QED
  BY <1>1, <1>5, <1>6, BoxStays, PortMoves DEF LaunchInv

LEMMA PortWebOp ==
    ASSUME NEW j \in Jobs, NEW kind \in {"up", "down", "restart"}, NEW profile,
           LaunchInv, PortInv, WebOp(j, kind, profile)
    PROVE  PortInv'
<1>1. Free(j) /\ UNCHANGED <<box, newest, lastUp, unsaved>> /\ mixed' = (mixed \/ Meets(j))
  BY DEF WebOp, engineVars, launchVars
<1>2. job[j].pc # "save"
  BY <1>1 DEF Free
<1>3. PICK r : /\ job' = [job EXCEPT ![j] = r]
               /\ r.by = "console" /\ r.pc \in {"stop", "remove", "refused"}
  <2>1. CASE kind = "down"
    <3> DEFINE r == [Idle EXCEPT !.pc = "stop", !.kind = "down", !.by = "console",
                                 !.cfg = boot, !.stop = Live.eng.name]
    <3>1. job' = [job EXCEPT ![j] = r]
      BY <2>1 DEF WebOp, WebDown
    <3>2. r.by = "console" /\ r.pc = "stop"
      BY DEF Idle
    <3> HIDE DEF r
    <3> QED
      BY <3>1, <3>2
  <2>2. CASE kind # "down"
    <3> DEFINE eng == Resolved(boot, profile)
               pc == IF kind = "restart" THEN "stop" ELSE "remove"
               argv == Container(eng, boot, Live.cache)
               laid == Named(boot, profile) # ""
               r == [Idle EXCEPT !.pc = pc, !.kind = kind, !.by = "console", !.cfg = boot,
                                 !.stop = eng.name, !.eng = eng, !.argv = argv, !.laid = laid]
               no == [Idle EXCEPT !.pc = "refused", !.kind = kind, !.by = "console"]
    <3>1. job' = [job EXCEPT ![j] = r] \/ job' = [job EXCEPT ![j] = no]
      BY <2>2 DEF WebOp, WebLaunch
    <3>2. pc \in {"stop", "remove"}
      OBVIOUS
    <3> HIDE DEF eng, pc, argv, laid
    <3>3. r.by = "console" /\ r.pc = pc /\ no.by = "console" /\ no.pc = "refused"
      BY DEF Idle
    <3> HIDE DEF r, no
    <3> QED
      BY <3>1, <3>2, <3>3
  <2> QED
    BY <2>1, <2>2
<1>4. PortOk(r)
  BY <1>3 DEF PortOk
<1> QED
  BY <1>1, <1>2, <1>3, <1>4, BoxStays, PortMoves DEF LaunchInv

\* Here the port of the argv becomes that of the settings, which Validate had below it.
LEMMA PortResolve ==
    ASSUME NEW j \in Jobs, LaunchInv, PortInv, CliResolve(j) PROVE PortInv'
<1> DEFINE me == job[j]
           eng == CliEngine(me.cfg, me.profile, me.flags)
           argv == Container(eng, me.cfg, me.cfg.cache)
           r == [me EXCEPT !.pc = "remove", !.eng = eng, !.argv = argv]
<1>1. /\ me.pc = "resolve" /\ UNCHANGED <<box, newest, lastUp, unsaved, mixed>>
      /\ \/ Valid([me.cfg EXCEPT !.eng = eng]) /\ job' = [job EXCEPT ![j] = r]
         \/ job' = [job EXCEPT ![j] = Refused(me)]
  BY DEF CliResolve, CliAccepts, engineVars, launchVars
<1>2. IsJob(me) /\ IsConfig(me.cfg) /\ me.by = "cli" /\ Launching(j)
  BY <1>1 DEF LaunchInv, JobsGood, JobOk, PortInv, PortOk, Launching
<1>3. ASSUME Valid([me.cfg EXCEPT !.eng = eng]), job' = [job EXCEPT ![j] = r] PROVE PortInv'
  <2> HIDE DEF eng
  <2>1. argv.port = eng.port
    BY ArgvPort
  <2> HIDE DEF argv
  <2>2. [me.cfg EXCEPT !.eng = eng].eng = eng
    BY <1>2 DEF IsConfig
  <2>3. PICK c : c = [me.cfg EXCEPT !.eng = eng]
    OBVIOUS
  <2>4. eng.port # 0
    BY <1>3, <2>2, <2>3, ValidPort
  <2>5. r.pc = "remove" /\ r.argv = argv /\ r.eng = eng
    BY <1>2 DEF IsJob, JobFields
  <2> HIDE DEF r
  <2>6. PortOk(r)
    BY <2>1, <2>4, <2>5 DEF PortOk
  <2> QED
    BY <1>1, <1>2, <1>3, <2>5, <2>6, BoxStays, PortMoves DEF LaunchInv
<1>4. ASSUME job' = [job EXCEPT ![j] = Refused(me)] PROVE PortInv'
  <2>1. PortOk(Refused(me)) /\ Refused(me).pc = "refused"
    BY DEF PortOk, Refused, Idle
  <2> QED
    BY <1>1, <1>4, <2>1, BoxStays, PortMoves DEF LaunchInv
<1> QED
  BY <1>1, <1>3, <1>4

LEMMA PortStop == ASSUME NEW j \in Jobs, LaunchInv, PortInv, Stop(j) PROVE PortInv'
<1> DEFINE me == job[j]
           pc == IF me.by = "cli" THEN "resolve" ELSE "remove"
           r == [me EXCEPT !.pc = pc, !.touched = TRUE]
           q == [me EXCEPT !.pc = "remove"]
<1>1. /\ me.pc = "stop" /\ UNCHANGED <<newest, lastUp, unsaved, mixed>>
      /\ \/ box' = [n \in Names |-> IF n = me.stop THEN None ELSE box[n]]
         \/ UNCHANGED box
      /\ \/ Ends(j)
         \/ job' = [job EXCEPT ![j] = r]
         \/ me.by # "cli" /\ Go(j, "remove")
  BY DEF Stop, launchVars
<1>2. IsJob(me) /\ PortOk(me) /\ Launching(j)
  BY <1>1 DEF LaunchInv, JobsGood, PortInv, Launching
<1>3. NoneStarts
  BY <1>1, BoxStays, BoxLess
<1>4. Idle.pc = "idle"
  BY DEF Idle
<1>5. CASE Ends(j)
  BY <1>1, <1>2, <1>3, <1>4, <1>5, IdlePort, PortMoves DEF LaunchInv, Ends
<1>6. CASE job' = [job EXCEPT ![j] = r]
  <2>1. pc \in {"resolve", "remove"} /\ (pc = "resolve" <=> me.by = "cli")
    OBVIOUS
  <2> HIDE DEF pc
  <2>2. r.pc = pc /\ r.by = me.by /\ r.cfg = me.cfg
    BY <1>2 DEF IsJob, JobFields
  <2> HIDE DEF r
  <2>3. PortOk(r)
    BY <1>1, <1>2, <2>1, <2>2 DEF PortOk
  <2>4. r.pc # "save"
    BY <2>1, <2>2
  <2> QED
    BY <1>1, <1>2, <1>3, <1>6, <2>3, <2>4, PortMoves DEF LaunchInv
<1>7. CASE me.by # "cli" /\ Go(j, "remove")
  <2>1. q.pc = "remove" /\ q.by = me.by
    BY <1>2 DEF IsJob, JobFields
  <2>3. job' = [job EXCEPT ![j] = q]
    BY <1>7 DEF Go
  <2> HIDE DEF q
  <2>2. PortOk(q)
    BY <1>7, <2>1 DEF PortOk
  <2> QED
    BY <1>1, <1>2, <1>3, <2>1, <2>2, <2>3, PortMoves DEF LaunchInv
<1> QED
  BY <1>1, <1>5, <1>6, <1>7

LEMMA PortRemove == ASSUME NEW j \in Jobs, LaunchInv, PortInv, Remove(j) PROVE PortInv'
<1> DEFINE me == job[j]
           r == [me EXCEPT !.pc = "run", !.touched = TRUE]
<1>1. /\ me.pc = "remove" /\ UNCHANGED <<newest, lastUp, unsaved, mixed>> /\ job' = [job EXCEPT ![j] = r]
      /\ \/ box' = [n \in Names |-> IF n = me.eng.name THEN None ELSE box[n]]
         \/ UNCHANGED box
  BY DEF Remove, launchVars
<1>2. IsJob(me) /\ PortOk(me) /\ Launching(j)
  BY <1>1 DEF LaunchInv, JobsGood, PortInv, Launching
<1>3. NoneStarts
  BY <1>1, BoxStays, BoxLess
<1>4. r.pc = "run" /\ r.by = me.by /\ r.argv = me.argv /\ r.eng = me.eng
  BY <1>2 DEF IsJob, JobFields
<1> HIDE DEF r
<1>5. PortOk(r)
  BY <1>1, <1>2, <1>4 DEF PortOk
<1> QED
  BY <1>1, <1>2, <1>3, <1>4, <1>5, PortMoves DEF LaunchInv

\* A command that has started the container is the only one that launches, and has the
\* port to record.
LEMMA PortRun == ASSUME NEW j \in Jobs, LaunchInv, PortInv, Run(j) PROVE PortInv'
<1> DEFINE me == job[j]
           q == [me EXCEPT !.pc = "save"]
           c == [up |-> TRUE, eng |-> me.eng, argv |-> me.argv, cfg |-> me.cfg, by |-> me.by,
                 laid |-> me.laid, share |-> Share(me.eng), loaded |-> FALSE, guarded |-> ~YesIKnow(me.flags)]
<1>1. /\ me.pc = "run" /\ lastUp' = lastUp
      /\ \/ /\ box' = [box EXCEPT ![me.eng.name] = c] /\ newest' = me.eng.name /\ unsaved' = FALSE
            /\ \/ me.by = "cli" /\ job' = [job EXCEPT ![j] = q] /\ mixed' = (mixed \/ me.by = "console")
               \/ me.by # "cli" /\ job' = [job EXCEPT ![j] = Idle] /\ mixed' = (mixed \/ me.by = "console")
         \/ job' = [job EXCEPT ![j] = Idle] /\ UNCHANGED <<box, newest, unsaved, mixed>>
  BY DEF Run, Ends, Go
<1>2. IsJob(me) /\ JobOk(me) /\ PortOk(me) /\ Launching(j) /\ JobsGood /\ BoxGood
  BY <1>1 DEF LaunchInv, JobsGood, PortInv, Launching
<1>3. Idle.pc = "idle"
  BY DEF Idle
<1>4. CASE job' = [job EXCEPT ![j] = Idle] /\ UNCHANGED <<box, newest, unsaved, mixed>>
  BY <1>1, <1>2, <1>3, <1>4, IdlePort, BoxStays, PortMoves
<1>5. CASE me.by # "cli" /\ job' = [job EXCEPT ![j] = Idle] /\ mixed' = (mixed \/ me.by = "console")
  <2>1. mixed'
    BY <1>2, <1>5 DEF JobOk
  <2>2. \A k \in Jobs : PortOk(job'[k])
    BY <1>2, <1>5, IdlePort DEF JobsGood, PortInv
  <2> QED
    BY <2>1, <2>2 DEF PortInv
<1>6. CASE /\ box' = [box EXCEPT ![me.eng.name] = c] /\ newest' = me.eng.name
           /\ me.by = "cli" /\ job' = [job EXCEPT ![j] = q] /\ mixed' = (mixed \/ me.by = "console")
  <2>1. /\ q.pc = "save" /\ q.by = "cli" /\ q.eng = me.eng /\ q.cfg = me.cfg
    BY <1>2, <1>6 DEF IsJob, JobFields
  <2>2. me.argv.port = me.eng.port /\ me.eng.port # 0
    BY <1>1, <1>2, <1>6 DEF PortOk
  <2>3. c.argv = me.argv /\ c.cfg = me.cfg
    OBVIOUS
  <2> HIDE DEF q, c
  <2>4. job' = [k \in Jobs |-> IF k = j THEN q ELSE job[k]]
    BY <1>2, <1>6 DEF JobsGood
  <2>5. \A k \in Jobs : PortOk(job'[k])
    BY <2>1, <2>2, <2>4 DEF PortInv, PortOk
  <2>6. ASSUME ~mixed' PROVE OneLaunches' /\ Saving' /\ Recorded'
    <3>1. OneLaunches
      BY <1>6, <2>6 DEF PortInv
    <3>2. \A k \in Jobs \ {j} : job'[k] = job[k] /\ ~Launching(k)
      BY <1>2, <2>4, <3>1 DEF OneLaunches
    <3>3. job'[j] = q
      BY <2>4
    <3>4. OneLaunches'
      BY <3>2 DEF OneLaunches, Launching
    <3>5. newest' \in Names => box'[newest'] = c
      BY <1>2, <1>6 DEF BoxGood
    <3>6. Saving'
      BY <1>6, <2>1, <2>2, <2>3, <3>2, <3>3, <3>5 DEF Saving, Launching
    <3>7. Recorded'
      BY <2>1, <3>3 DEF Recorded
    <3> QED
      BY <3>4, <3>6, <3>7
  <2> QED
    BY <2>5, <2>6 DEF PortInv
<1> QED
  BY <1>1, <1>4, <1>5, <1>6

LEMMA PortSaveLastUp == ASSUME NEW j \in Jobs, LaunchInv, PortInv, SaveLastUp(j) PROVE PortInv'
<1>0. PICK dir, port : dir = job[j].cfg.state /\ port = job[j].eng.port
  OBVIOUS
<1>1. /\ job[j].pc = "save" /\ UNCHANGED <<box, newest, mixed>>
      /\ lastUp' = Noted(dir, port) \/ unsaved'
      /\ job' = [k \in Jobs |-> IF k = j THEN Idle ELSE job[k]]
  BY <1>0 DEF SaveLastUp, Ends, LaunchInv, JobsGood
<1>2. \A k \in Jobs : PortOk(job'[k])
  BY <1>1, IdlePort DEF PortInv
<1>3. port # 0
  BY <1>0, <1>1 DEF PortInv, PortOk
<1>4. ASSUME ~mixed' PROVE OneLaunches' /\ Saving' /\ Recorded'
  <2>1. OneLaunches /\ Saving
    BY <1>1, <1>4 DEF PortInv
  <2>2. \A k \in Jobs : job'[k].pc \notin {"resolve", "stop", "remove", "run", "save"}
    BY <1>1, <2>1 DEF OneLaunches, Launching, Idle
  <2>3. OneLaunches' /\ Saving'
    BY <2>2 DEF OneLaunches, Launching, Saving
  <2>4. newest \in Names /\ Up(newest) => box[newest].argv.port = port /\ box[newest].cfg.state = dir
    BY <1>0, <1>1, <2>1 DEF Saving
  <2>5. lastUp' = Noted(dir, port) => dir \in DOMAIN lastUp' /\ lastUp'[dir] = port
    BY DEF Noted
  <2>6. Recorded'
    BY <1>1, <1>3, <2>4, <2>5 DEF Recorded, Written, Up
  <2> QED
    BY <2>3, <2>6
<1> QED
  BY <1>2, <1>4 DEF PortInv

LEMMA PortSaves == ASSUME NEW j \in Jobs, NEW e, LaunchInv, PortInv, SaveBegin(j, e) PROVE PortInv'
<1> DEFINE cfg == Edited(Cfg, e)
           r == [Idle EXCEPT !.pc = "truncate", !.kind = "set", !.cfg = cfg]
<1>1. Free(j) /\ UNCHANGED <<box, newest, lastUp, unsaved, mixed>> /\ job' = [job EXCEPT ![j] = r]
  BY DEF SaveBegin, engineVars, launchVars
<1> HIDE DEF cfg
<1>2. r.pc = "truncate"
  BY DEF Idle
<1> HIDE DEF r
<1>3. PortOk(r) /\ job[j].pc # "save" /\ r.pc # "save"
  BY <1>1, <1>2 DEF PortOk, Free
<1> QED
  BY <1>1, <1>2, <1>3, BoxStays, PortMoves DEF LaunchInv

LEMMA PortTruncate == ASSUME NEW j \in Jobs, LaunchInv, PortInv, Truncate(j) PROVE PortInv'
<1> DEFINE r == [job[j] EXCEPT !.pc = "write"]
<1>1. /\ UNCHANGED <<box, newest, lastUp, unsaved, mixed>> /\ job' = [job EXCEPT ![j] = r]
      /\ IsJob(job[j]) /\ job[j].pc = "truncate"
  BY DEF Truncate, Go, engineVars, launchVars, LaunchInv, JobsGood
<1>2. r.pc = "write"
  BY <1>1 DEF IsJob, JobFields
<1> HIDE DEF r
<1>3. PortOk(r)
  BY <1>2 DEF PortOk
<1> QED
  BY <1>1, <1>2, <1>3, BoxStays, PortMoves DEF LaunchInv

LEMMA PortWriteKill ==
    ASSUME NEW j \in Jobs, LaunchInv, PortInv, Write(j) \/ Kill(j) PROVE PortInv'
<1>1. /\ UNCHANGED <<box, newest, lastUp, unsaved>> /\ job' = [job EXCEPT ![j] = Idle]
      /\ mixed' \/ (mixed' = mixed /\ job[j].pc = "write")
  BY DEF Write, Kill, Ends, engineVars, launchVars
<1>2. Idle.pc = "idle"
  BY DEF Idle
<1>3. mixed' \/ (~mixed /\ job[j].pc # "save" /\ Idle.pc # "save")
  BY <1>1, <1>2
<1> QED
  BY <1>1, <1>2, <1>3, IdlePort, BoxStays, PortMoves DEF LaunchInv

\* What the console ran ends: none of it was recording a port.
LEMMA PortConsoleEnds == ASSUME LaunchInv, PortInv, ConsoleEnds PROVE PortInv'
<1>1. /\ UNCHANGED <<box, newest, lastUp, unsaved, mixed>>
      /\ job' = [j \in Jobs |-> IF job[j].by = "console" THEN Idle ELSE job[j]]
  BY DEF ConsoleEnds, engineVars, launchVars
<1>2. \A k \in Jobs : PortOk(job'[k])
  BY <1>1, IdlePort DEF PortInv
<1>3. \A k \in Jobs : job'[k].pc = "idle" \/ job'[k] = job[k]
  BY <1>1 DEF Idle
<1>4. \A k \in Jobs : job[k].pc = "save" => job'[k] = job[k]
  BY <1>1 DEF PortInv, PortOk
<1>5. ASSUME ~mixed' PROVE OneLaunches' /\ Saving' /\ Recorded'
  <2>1. OneLaunches /\ Saving /\ Recorded
    BY <1>1, <1>5 DEF PortInv
  <2>2. OneLaunches'
    BY <1>3, <2>1 DEF OneLaunches, Launching
  <2>3. Saving'
    BY <1>1, <1>3, <2>1 DEF Saving, Up
  <2>4. Recorded'
    BY <1>1, <1>4, <2>1 DEF Recorded, Written, Up
  <2> QED
    BY <2>2, <2>3, <2>4
<1> QED
  BY <1>2, <1>5 DEF PortInv

LEMMA PortLoads == ASSUME NEW n \in Names, LaunchInv, PortInv, Loads(n) PROVE PortInv'
<1> DEFINE c == [box[n] EXCEPT !.loaded = TRUE]
<1>1. /\ UNCHANGED <<job, newest, lastUp, unsaved, mixed>> /\ Up(n) /\ IsBox(box[n])
      /\ box' = [m \in Names |-> IF m = n THEN c ELSE box[m]]
  BY DEF Loads, launchVars, LaunchInv, BoxGood
<1>2. c.argv = box[n].argv /\ c.cfg = box[n].cfg /\ c.up = box[n].up
  BY <1>1 DEF IsBox, BoxFields
<1> HIDE DEF c
<1>3. \A m \in Names : box'[m].argv = box[m].argv /\ box'[m].cfg = box[m].cfg /\ box'[m].up = box[m].up
  BY <1>1, <1>2
<1> QED
  BY <1>1, <1>3 DEF PortInv, OneLaunches, Launching, Saving, Recorded, Written, Up

LEMMA PortElse == ASSUME PortInv, UNCHANGED <<job, box, newest, lastUp, unsaved, mixed>> PROVE PortInv'
BY DEF PortInv, OneLaunches, Launching, Saving, Recorded, Written, Up

LEMMA StepPort == ASSUME LaunchInv, PortInv, [Next]_vars PROVE PortInv'
<1>1. ASSUME NEW j \in Jobs, NEW kind \in {"up", "down", "restart"}, NEW profile, NEW flags,
             CliBegin(j, kind, profile, flags) \/ WebOp(j, kind, profile)
      PROVE  PortInv'
  BY <1>1, PortCliBegin, PortWebOp
<1>2. ASSUME NEW j \in Jobs, Engine(j) PROVE PortInv'
  BY <1>2, PortResolve, PortStop, PortRemove, PortRun, PortSaveLastUp DEF Engine
<1>3. ASSUME NEW j \in Jobs, NEW e, ConfigSet(j, e) PROVE PortInv'
  BY <1>3, PortSaves DEF ConfigSet
<1>4. ASSUME NEW j \in Jobs, NEW on, Lockdown(j, on) PROVE PortInv'
  BY <1>4, PortSaves DEF Lockdown
<1>5. ASSUME NEW j \in Jobs, Truncate(j) \/ Write(j) \/ Kill(j) PROVE PortInv'
  BY <1>5, PortTruncate, PortWriteKill
<1>6. ASSUME NEW x, Reset(x) \/ HandEdit(x) \/ NewProfile(x) \/ DeleteProfile(x) PROVE PortInv'
  BY <1>6, PortElse DEF Reset, HandEdit, NewProfile, DeleteProfile, engineVars, launchVars
<1>7. CASE RotateEngineKey \/ TenantMoves \/ UNCHANGED vars \/ ConsoleStart
  BY <1>7, PortElse DEF RotateEngineKey, TenantMoves, ConsoleStart, vars, engineVars, launchVars
<1>8. ASSUME NEW n \in Names, Loads(n) PROVE PortInv'
  BY <1>8, PortLoads
<1>9. CASE ConsoleEnds
  BY <1>9, PortConsoleEnds
<1> QED
  BY <1>1, <1>2, <1>3, <1>4, <1>5, <1>6, <1>7, <1>8, <1>9 DEF Next

\* The console asks the engine that was launched last, when launches are by commands, one
\* at a time and not killed: for any files, flags, edits, refusals and docker failures.
THEOREM ProxyAsksTheLastLaunched == Spec => []ProxyFollows
<1>1. Init => PortInv
  <2>1. ASSUME Init PROVE PortInv
    <3>1. \A j \in Jobs : job[j] = Idle
      BY <2>1 DEF Init
    <3>2. newest \notin Names
      BY <2>1, LaunchAssumption DEF Init
    <3>3. \A j \in Jobs : job[j].pc = "idle"
      BY <3>1, IdlePc
    <3> QED
      BY <3>1, <3>2, <3>3, IdlePort DEF PortInv, OneLaunches, Launching, Saving, Recorded
  <2> QED
    BY <2>1
<1>2. PortInv => ProxyFollows
  BY DEF PortInv, Recorded, Written, ProxyFollows, Launched, SameDirectory, Asked, ProxyPort, Launching
<1>3. LaunchInv /\ PortInv /\ [Next]_vars => PortInv'
  BY StepPort
<1> QED
  BY <1>1, <1>2, <1>3, LaunchInvariant, PTL DEF Spec
=============================================================================
