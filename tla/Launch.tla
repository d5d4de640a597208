------------------------------- MODULE Launch -------------------------------
(***************************************************************************)
(* From config.toml to a container: `qfn up`, `down` and `restart`, each a *)
(* process that reads the file once and holds its own op slot; the console *)
(* that was started on an earlier file and launches from that one, behind  *)
(* a slot of its own; the commands and the editor that change the file;    *)
(* the memory guard; last-up.json, one for each state directory, which     *)
(* says what port the proxy asks.                                          *)
(*                                                                         *)
(* EngineOps has the op slot and the docker calls in their detail, for one *)
(* container.  Here a stop with its rm is one step and containers have     *)
(* names, ports and settings.                                              *)
(***************************************************************************)
EXTENDS Settings, FiniteSetsExt

CONSTANTS
    Jobs,           \* commands and accepted requests that run at one time
    Names,          \* docker names of the engine
    InitFile,       \* config.toml at the start: the lines it has
    ProfileNames, InitProfiles,     \* names of profiles, and the profile files at the start
    FlagSets,       \* the flags a user may give to `up`
    Edits,          \* changes of the file, as lines
    Built,          \* images that exist
    Snapshots,      \* [cache, model, mode] that the locator finds
    Pool, Margin,   \* memory: all of it, and the 8 GiB of the guard
    Tenants,        \* memory that others may use
    MemInfo,        \* whether /proc/meminfo can be read
    MaxCmds         \* bound: commands and requests

NoJob == "no job"
NoName == "no name"

ASSUME LaunchAssumption ==
    /\ NoJob \notin Jobs /\ NoName \notin Names
    /\ Pool \in Nat /\ Margin \in Nat /\ Tenants \subseteq Nat /\ MaxCmds \in Nat /\ MemInfo \in BOOLEAN
    /\ DOMAIN InitProfiles \subseteq ProfileNames /\ "" \notin ProfileNames
    /\ Known(InitFile) /\ Decoded(InitFile).done /\ Valid(Decoded(InitFile))

VARIABLES
    file,       \* config.toml; no lines when it is gone or empty
    boot,       \* App.Cfg of the running console, NoConfig if none runs
    slot,       \* the console's op slot: a job, or NoJob
    profiles,   \* profile files by name: the fields each has
    key,        \* the stored engine key, numbered; 0 is no credentials
    lastUp,     \* last-up.json by state directory: its port, 0 if it cannot be parsed
    box,        \* containers by name
    tenant,     \* memory in use by others
    job,        \* per job: what it runs, how far it is, what it has read
    cmds,       \* commands so far
    \* history
    mixed,      \* a launch by the console, or two at a time, or one that was killed
    newest,     \* the name last launched
    unsaved     \* last-up.json could not be written after that launch

vars == <<file, profiles, boot, slot, key, lastUp, box, tenant, job, cmds, mixed, newest, unsaved>>
launchVars == <<lastUp, newest, unsaved>>
engineVars == <<box, launchVars>>
consoleVars == <<boot, slot>>
settingVars == <<file, profiles, key>>

NoConfig == [done |-> FALSE, none |-> TRUE]
None == [up |-> FALSE]
Idle == [pc |-> "idle", kind |-> "none", by |-> "cli", cfg |-> Defaults, stop |-> NoName,
         profile |-> "", flags |-> << >>, eng |-> DefaultEngine, argv |-> None,
         laid |-> FALSE, touched |-> FALSE]

Up(n) == box[n].up
Free(j) == job[j].pc \in {"idle", "refused"}
Launching(j) == job[j].pc \in {"resolve", "stop", "remove", "run", "save"}

\* Load: what the file says, and whether it may be used
Cfg == Decoded(file)
CfgLoads == Known(file) /\ Valid(Cfg)

Init ==
    /\ file = InitFile /\ profiles = InitProfiles /\ boot = NoConfig /\ slot = NoJob /\ key = 1 /\ lastUp = << >>
    /\ box = [n \in Names |-> None] /\ tenant \in Tenants
    /\ job = [j \in Jobs |-> Idle] /\ cmds = 0
    /\ mixed = FALSE /\ newest = NoName /\ unsaved = FALSE

---------------------------------------------------------------------------
(* The way from a configuration to an argv *)

\* a profile by name, and the default profile when none is named
Named(cfg, profile) == IF profile = "" THEN cfg.profile ELSE profile
ProfileLoads(cfg, profile) == Named(cfg, profile) \in {""} \cup DOMAIN profiles
Resolved(cfg, profile) ==
    IF Named(cfg, profile) = "" THEN cfg.eng ELSE Overlay(cfg.eng, profiles[Named(cfg, profile)])
Keyed(e) == e.lockdown => key # 0

Share(e) == (Pool * e.gpuMem) \div 1000

\* MemAvailable, as far as engines and tenants move it: an engine that still loads has
\* taken nothing yet.
MemAvailable ==
    Pool - tenant - MapThenSumSet(LAMBDA n : box[n].share, {n \in Names : Up(n) /\ box[n].loaded})

\* An override, or room for the engine's share and the margin.  Memory that cannot be
\* read blocks nothing.
Preflight(e, override) ==
    override \/ ~MemInfo \/ MemAvailable >= Share(e) + Margin

SnapshotFound(cache, e) == [cache |-> cache, model |-> e.model, mode |-> e.mode] \in Snapshots

YesIKnow(flags) == "yesIKnow" \in DOMAIN flags
CliEngine(cfg, profile, flags) == WithFlags(Resolved(cfg, profile), flags)

\* Only the answer that there is no such image refuses; an error of docker does not.
ImageChecked(e, dockerFails) == dockerFails \/ e.image \in Built

\* mutant: what is in the file is checked, not what profile and flags have made of it
CliAcceptsEarly(cfg, profile, flags, dockerFails) ==
    /\ ProfileLoads(cfg, profile) /\ Valid(cfg)
    /\ LET eng == CliEngine(cfg, profile, flags) IN
          /\ Keyed(eng) /\ Preflight(eng, YesIKnow(flags))
          /\ SnapshotFound(cfg.cache, eng) /\ ImageChecked(eng, dockerFails)

\* runUp down to the argv: the profile and the flags over the file, Validate, the key,
\* the guard, the snapshot, the image
CliAccepts(cfg, profile, flags, dockerFails) ==
    /\ ProfileLoads(cfg, profile)
    /\ LET eng == CliEngine(cfg, profile, flags) IN
          /\ Valid([cfg EXCEPT !.eng = eng])
          /\ Keyed(eng) /\ Preflight(eng, YesIKnow(flags))
          /\ SnapshotFound(cfg.cache, eng) /\ ImageChecked(eng, dockerFails)

\* engineOp: Resolve on what the console was started with, and no Validate; the guard,
\* not to be overridden; the image; DockerArgs, which looks for the snapshot
WebAccepts(profile, dockerFails) ==
    /\ ProfileLoads(boot, profile)
    /\ LET eng == Resolved(boot, profile) IN
          /\ Keyed(eng) /\ Preflight(eng, FALSE)
          /\ ImageChecked(eng, dockerFails) /\ SnapshotFound(boot.cache, eng)

\* LastUp of the running console, in the state directory it was started with
ProxyPort ==
    IF boot.state \in DOMAIN lastUp /\ lastUp[boot.state] # 0 THEN lastUp[boot.state] ELSE boot.eng.port

\* deps.Cfg of the console: the file, or what it was started with if that does not load
Live == IF CfgLoads THEN Cfg ELSE boot

Container(eng, cfg, mount) ==
    Argv(eng, key, mount, [cache |-> cfg.cache, model |-> eng.model, mode |-> eng.mode])

---------------------------------------------------------------------------
(* Commands: up, down, restart *)

Go(j, s) == job' = [job EXCEPT ![j].pc = s]
Ends(j) == job' = [job EXCEPT ![j] = Idle]
Refused(me) == [Idle EXCEPT !.pc = "refused", !.kind = me.kind, !.by = me.by, !.touched = me.touched]

\* a launch that starts beside another: what the two leave is not promised
Meets(j) == \E k \in Jobs \ {j} : Launching(k)

\* mutant: no firstRunGuard
CliBeginAny(j, kind, profile, flags) ==
    /\ Free(j) /\ cmds < MaxCmds
    /\ CfgLoads
    /\ kind # "up" => profile = "" /\ flags = << >>
    /\ job' = [job EXCEPT ![j] =
                 [Idle EXCEPT !.pc = IF kind = "up" THEN "resolve" ELSE "stop", !.kind = kind,
                              !.cfg = Cfg, !.stop = Cfg.eng.name,
                              !.profile = profile, !.flags = flags]]
    /\ cmds' = cmds + 1 /\ mixed' = (mixed \/ Meets(j))
    /\ UNCHANGED <<settingVars, consoleVars, engineVars, tenant>>

\* Load, which refuses a file that is not valid, and firstRunGuard
CliBegin(j, kind, profile, flags) ==
    /\ Free(j) /\ cmds < MaxCmds
    /\ CfgLoads /\ Cfg.done
    /\ kind # "up" => profile = "" /\ flags = << >>
    /\ job' = [job EXCEPT ![j] =
                 [Idle EXCEPT !.pc = IF kind = "up" THEN "resolve" ELSE "stop", !.kind = kind,
                              !.cfg = Cfg, !.stop = Cfg.eng.name,
                              !.profile = profile, !.flags = flags]]
    /\ cmds' = cmds + 1 /\ mixed' = (mixed \/ Meets(j))
    /\ UNCHANGED <<settingVars, consoleVars, engineVars, tenant>>

CliResolve(j) ==
    LET me == job[j] IN
    /\ me.pc = "resolve"
    /\ \E dockerFails \in BOOLEAN :
          IF CliAccepts(me.cfg, me.profile, me.flags, dockerFails)
          THEN LET eng == CliEngine(me.cfg, me.profile, me.flags) IN
               job' = [job EXCEPT ![j] =
                         [me EXCEPT !.pc = "remove", !.eng = eng, !.argv = Container(eng, me.cfg, me.cfg.cache)]]
          ELSE job' = [job EXCEPT ![j] = Refused(me)]
    /\ UNCHANGED <<settingVars, consoleVars, engineVars, tenant, cmds, mixed>>

\* mutant: a refusal that does not finish the op
WebLaunchHolds(j, kind, profile, dockerFails) ==
    LET eng == Resolved(boot, profile) IN
    /\ slot' = j
    /\ IF WebAccepts(profile, dockerFails)
       THEN job' = [job EXCEPT ![j] =
                      [Idle EXCEPT !.pc = IF kind = "restart" THEN "stop" ELSE "remove", !.kind = kind,
                                   !.by = "console", !.cfg = boot, !.stop = eng.name, !.eng = eng,
                                   !.argv = Container(eng, boot, Live.cache),
                                   !.laid = Named(boot, profile) # ""]]
       ELSE job' = [job EXCEPT ![j] = [Idle EXCEPT !.pc = "refused", !.kind = kind, !.by = "console"]]

\* The argv has the snapshot that is found under the cache the console was started with,
\* and mounts the cache of the file of now.
WebLaunch(j, kind, profile, dockerFails) ==
    LET eng == Resolved(boot, profile) IN
    IF WebAccepts(profile, dockerFails)
    THEN /\ slot' = j
         /\ job' = [job EXCEPT ![j] =
                      [Idle EXCEPT !.pc = IF kind = "restart" THEN "stop" ELSE "remove", !.kind = kind,
                                   !.by = "console", !.cfg = boot, !.stop = eng.name, !.eng = eng,
                                   !.argv = Container(eng, boot, Live.cache),
                                   !.laid = Named(boot, profile) # ""]]
    ELSE /\ job' = [job EXCEPT ![j] = [Idle EXCEPT !.pc = "refused", !.kind = kind, !.by = "console"]]
         /\ UNCHANGED slot

WebDown(j) ==
    /\ slot' = j
    /\ job' = [job EXCEPT ![j] = [Idle EXCEPT !.pc = "stop", !.kind = "down", !.by = "console",
                                              !.cfg = boot, !.stop = Live.eng.name]]

\* POST /api/engine/*: a busy slot is answered 409
WebOp(j, kind, profile) ==
    /\ boot.done /\ slot = NoJob
    /\ Free(j) /\ cmds < MaxCmds
    /\ IF kind = "down" THEN profile = "" /\ WebDown(j)
       ELSE \E dockerFails \in BOOLEAN : WebLaunch(j, kind, profile, dockerFails)
    /\ cmds' = cmds + 1 /\ mixed' = (mixed \/ Meets(j))
    /\ UNCHANGED <<settingVars, boot, engineVars, tenant>>

Freed(j) == IF slot = j THEN NoJob ELSE slot

\* Manager.Down: stop and rm -f of a name.  On an error a command ends; the console's
\* restart goes on.  The slot of the console is free from here, a restart's too.
Stop(j) ==
    LET me == job[j] IN
    /\ me.pc = "stop" /\ slot' = Freed(j)
    /\ \/ /\ box' = [n \in Names |-> IF n = me.stop THEN None ELSE box[n]]
          /\ IF me.kind = "down" THEN Ends(j)
             ELSE job' = [job EXCEPT ![j] =
                            [me EXCEPT !.pc = IF me.by = "cli" THEN "resolve" ELSE "remove", !.touched = TRUE]]
       \/ /\ IF me.kind = "down" \/ me.by = "cli" THEN Ends(j) ELSE Go(j, "remove")
          /\ UNCHANGED box
    /\ UNCHANGED <<settingVars, boot, launchVars, tenant, cmds, mixed>>

\* Manager.up: rm -f, whose error is ignored
Remove(j) ==
    LET me == job[j] IN
    /\ me.pc = "remove"
    /\ job' = [job EXCEPT ![j] = [me EXCEPT !.pc = "run", !.touched = TRUE]]
    /\ \/ box' = [n \in Names |-> IF n = me.eng.name THEN None ELSE box[n]]
       \/ UNCHANGED box
    /\ UNCHANGED <<settingVars, consoleVars, launchVars, tenant, cmds, mixed>>

\* docker run, which refuses a name or a port that is taken, and may fail: with an image
\* that is not there it tries to pull one.  A container that it created and could not
\* start counts as none.
Run(j) ==
    LET me == job[j] IN
    /\ me.pc = "run" /\ slot' = Freed(j)
    /\ \/ /\ ~Up(me.eng.name) /\ \A n \in Names : Up(n) => box[n].argv.port # me.argv.port
          /\ box' = [box EXCEPT ![me.eng.name] =
                       [up |-> TRUE, eng |-> me.eng, argv |-> me.argv, cfg |-> me.cfg, by |-> me.by,
                        laid |-> me.laid, share |-> Share(me.eng), loaded |-> FALSE, guarded |-> ~YesIKnow(me.flags)]]
          /\ newest' = me.eng.name /\ unsaved' = FALSE
          /\ IF me.by = "cli" THEN Go(j, "save") ELSE Ends(j)
          /\ mixed' = (mixed \/ me.by = "console")
       \/ /\ Ends(j)
          /\ UNCHANGED <<box, newest, unsaved, mixed>>
    /\ UNCHANGED <<settingVars, boot, lastUp, tenant, cmds>>

Noted(dir, port) ==
    [d \in DOMAIN lastUp \cup {dir} |-> IF d = dir THEN port ELSE lastUp[d]]

\* mutant: the port of the file, not of what was launched
SaveLastUpConfig(j) ==
    /\ job[j].pc = "save" /\ lastUp' = Noted(job[j].cfg.state, job[j].cfg.eng.port)
    /\ Ends(j)
    /\ UNCHANGED <<settingVars, consoleVars, box, newest, unsaved, tenant, cmds, mixed>>

\* into the state directory of the command's configuration.  An error is ignored, and
\* leaves the file as it was, or empty.
SaveLastUp(j) ==
    /\ job[j].pc = "save" /\ Ends(j)
    /\ \/ lastUp' = Noted(job[j].cfg.state, job[j].eng.port) /\ UNCHANGED unsaved
       \/ lastUp' \in {lastUp, Noted(job[j].cfg.state, 0)} /\ unsaved' = TRUE
    /\ UNCHANGED <<settingVars, consoleVars, box, newest, tenant, cmds, mixed>>

---------------------------------------------------------------------------
(* The file *)

Edited(c, e) == [Overlay(c, e.top) EXCEPT !.eng = Overlay(c.eng, e.eng)]
LockEdit(on) == [top |-> << >>,
                 eng |-> [lockdown |-> on, bind |-> IF on THEN "127.0.0.1" ELSE "0.0.0.0"]]

\* Load, change, Validate: config set, profiles use, lockdown on and off.  No
\* firstRunGuard.
SaveBegin(j, e) ==
    /\ Free(j) /\ cmds < MaxCmds
    /\ CfgLoads /\ Valid(Edited(Cfg, e))
    /\ job' = [job EXCEPT ![j] = [Idle EXCEPT !.pc = "truncate", !.kind = "set", !.cfg = Edited(Cfg, e)]]
    /\ cmds' = cmds + 1
    /\ UNCHANGED <<consoleVars, engineVars, file, profiles, tenant, mixed>>

ConfigSet(j, e) == SaveBegin(j, e) /\ UNCHANGED key

\* `lockdown on` asks for the key, which is an error without credentials
Lockdown(j, on) ==
    /\ on => key # 0
    /\ SaveBegin(j, LockEdit(on)) /\ UNCHANGED key

\* os.WriteFile: it empties the file, and an empty file loads as the defaults
Truncate(j) ==
    /\ job[j].pc = "truncate" /\ file' = NoLines
    /\ Go(j, "write")
    /\ UNCHANGED <<key, profiles, consoleVars, engineVars, tenant, cmds, mixed>>

Write(j) ==
    /\ job[j].pc = "write" /\ file' = Rendered(job[j].cfg)
    /\ Ends(j)
    /\ UNCHANGED <<key, profiles, consoleVars, engineVars, tenant, cmds, mixed>>

\* config reset; with --all the credentials go too.  As every command it needs a file
\* that loads, so it cannot remove one that does not.
Reset(all) ==
    /\ cmds < MaxCmds /\ cmds' = cmds + 1
    /\ CfgLoads
    /\ file' = NoLines /\ key' = IF all THEN 0 ELSE key
    /\ UNCHANGED <<profiles, consoleVars, engineVars, tenant, job, mixed>>

\* without credentials there is no age.key to save with
RotateEngineKey ==
    /\ cmds < MaxCmds /\ cmds' = cmds + 1
    /\ CfgLoads
    /\ key # 0 /\ key' = key + 1
    /\ UNCHANGED <<file, profiles, consoleVars, engineVars, tenant, job, mixed>>

\* an editor checks nothing
HandEdit(e) ==
    /\ cmds < MaxCmds /\ cmds' = cmds + 1
    /\ file' = Amended(file, e)
    /\ UNCHANGED <<key, profiles, consoleVars, engineVars, tenant, job, mixed>>

\* profiles new --from-current, over one of that name too
NewProfile(name) ==
    /\ cmds < MaxCmds /\ cmds' = cmds + 1
    /\ CfgLoads
    /\ profiles' = [n \in DOMAIN profiles \cup {name} |->
                      IF n = name THEN FromEngine(Cfg.eng) ELSE profiles[n]]
    /\ UNCHANGED <<file, key, consoleVars, engineVars, tenant, job, mixed>>

\* profiles delete, which does not ask whether it is the default
DeleteProfile(name) ==
    /\ cmds < MaxCmds /\ cmds' = cmds + 1
    /\ CfgLoads /\ name \in DOMAIN profiles
    /\ profiles' = [n \in DOMAIN profiles \ {name} |-> profiles[n]]
    /\ UNCHANGED <<file, key, consoleVars, engineVars, tenant, job, mixed>>

---------------------------------------------------------------------------
(* The console, and what happens by itself *)

\* firstRunGuard; the password it also asks for is taken to be there
ConsoleStart ==
    /\ ~boot.done /\ boot' = Cfg /\ CfgLoads /\ Cfg.done
    /\ UNCHANGED <<settingVars, slot, engineVars, tenant, job, cmds, mixed>>

\* the goroutines of its ops end with it, wherever they are
ConsoleEnds ==
    /\ boot.done /\ boot' = NoConfig /\ slot' = NoJob
    /\ job' = [j \in Jobs |-> IF job[j].by = "console" THEN Idle ELSE job[j]]
    /\ UNCHANGED <<settingVars, engineVars, tenant, cmds, mixed>>

Kill(j) ==
    /\ job[j].by = "cli" /\ ~Free(j)
    /\ job' = [job EXCEPT ![j] = Idle] /\ mixed' = TRUE
    /\ UNCHANGED <<settingVars, consoleVars, engineVars, tenant, cmds>>

Loads(n) ==
    /\ Up(n) /\ ~box[n].loaded
    /\ box' = [box EXCEPT ![n].loaded = TRUE]
    /\ UNCHANGED <<settingVars, consoleVars, launchVars, tenant, job, cmds, mixed>>

TenantMoves ==
    /\ tenant' \in Tenants \ {tenant}
    /\ UNCHANGED <<settingVars, consoleVars, engineVars, job, cmds, mixed>>

Engine(j) == CliResolve(j) \/ Stop(j) \/ Remove(j) \/ Run(j) \/ SaveLastUp(j)

Next ==
    \/ \E j \in Jobs :
          \/ \E kind \in {"up", "down", "restart"}, profile \in {""} \cup ProfileNames :
                \/ \E flags \in FlagSets : CliBegin(j, kind, profile, flags)
                \/ WebOp(j, kind, profile)
          \/ \E e \in Edits : ConfigSet(j, e)
          \/ \E on \in BOOLEAN : Lockdown(j, on)
          \/ Engine(j) \/ Truncate(j) \/ Write(j) \/ Kill(j)
    \/ \E all \in BOOLEAN : Reset(all)
    \/ \E e \in Edits : HandEdit(e)
    \/ \E name \in ProfileNames : NewProfile(name) \/ DeleteProfile(name)
    \/ RotateEngineKey \/ ConsoleStart \/ ConsoleEnds \/ TenantMoves
    \/ \E n \in Names : Loads(n)

Spec == Init /\ [][Next]_vars

---------------------------------------------------------------------------
(* Properties *)

TypeOK ==
    /\ slot \in Jobs \cup {NoJob} /\ key \in Nat /\ cmds \in 0..MaxCmds
    /\ (\A d \in DOMAIN lastUp : lastUp[d] \in Nat)
    /\ mixed \in BOOLEAN /\ newest \in Names \cup {NoName} /\ unsaved \in BOOLEAN
    /\ \A j \in Jobs : job[j].pc \in {"idle", "refused", "resolve", "stop", "remove", "run", "save",
                                      "truncate", "write"}

\* "an invalid file never launches anything" (validate.go): what runs passes Validate with
\* the rest of the configuration it came from, whatever profile, flags, hand-made file or
\* half-written file came in between.  But for one way in: the console lays a profile over
\* its configuration and checks nothing after that.
ValidUnlessOverlaid ==
    \A n \in Names : Up(n) /\ ~(box[n].by = "console" /\ box[n].laid)
                        => Valid([box[n].cfg EXCEPT !.eng = box[n].eng])

\* No engine comes from the defaults that an emptied or removed file loads as: a command
\* asks first_run_done of the file it read, a console of the one it started on.
SetUpOnly == \A n \in Names : Up(n) => box[n].cfg.done

\* a console and a last launched engine, and nothing under way
Launched == boot.done /\ (\A j \in Jobs : ~Launching(j)) /\ newest \in Names /\ Up(newest)
SameDirectory == box[newest].cfg.state = boot.state
Asked == box[newest].argv.port = ProxyPort

\* The proxy asks the port of the engine (app.go: "so the console scrapes the right engine
\* port even when a non-default profile ran"): of the engine that was launched last, when
\* commands launched, one at a time and none of them killed, whatever became of those that
\* were refused or failed, and however last-up.json fared before; but for a launch whose
\* port could not be written, or went into another state directory than the one the
\* console was started with.
ProxyFollows == Launched /\ ~mixed /\ ~unsaved /\ SameDirectory => Asked

\* A refusal is before the first docker call, so the engine that runs stays; the restart
\* of a command is the exception, it stops the engine and then asks whether it may launch.
\* A refused request does not hold the console's slot.
RefusedUntouched ==
    \A j \in Jobs : job[j].pc = "refused" =>
        /\ job[j].touched => job[j].by = "cli" /\ job[j].kind = "restart"
        /\ slot # j

---------------------------------------------------------------------------
(* What does not hold *)

\* the console's restart weighs the engine it is about to stop
OwnMemoryIsFree ==
    \A j \in Jobs : job[j].pc = "refused" /\ job[j].by = "console" /\ job[j].kind = "restart" /\ tenant = 0
        => \A n \in Names : ~Up(n)

\* an engine that the console launched is asked at its port
ConsoleLaunchReached == Launched /\ box[newest].by = "console" => Asked

\* so is one whose port could not be written, and one launched after paths.state_dir moved
UnsavedReached == Launched /\ ~mixed /\ SameDirectory => Asked
MovedReached == Launched /\ ~mixed /\ ~unsaved => Asked

\* the directory mounted is the one in which the snapshot was found
MountHasSnapshot == \A n \in Names : Up(n) => box[n].argv.mount = box[n].argv.snapshot.cache

\* engines that passed the guard fit the memory
GuardedFit ==
    (\A n \in Names : Up(n) => box[n].guarded)
        => MapThenSumSet(LAMBDA n : box[n].share, {n \in Names : Up(n)}) <= Pool
=============================================================================
