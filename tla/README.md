# Verification of qfn

qfn launches one vLLM container, puts a web console and an OpenAI/Anthropic proxy in front of it and
watches it. This directory holds TLA+ models of its concurrent parts, the TLC configurations that check
them and TLAPS proofs of what matters most. `PROJECT.json` holds the map from every definition to the
lines it models, the hazards with the properties that cover them, and the theorems.

    tlc -workers 2 -config EngineOps_updown.cfg MCEngineOps     # one run
    tlapm EngineOps_proofs.tla                                  # one set of proofs

## 1. The system

One Go binary is everything: `qfn serve` is the console and the proxy (one process, a goroutine per
request), every other command is a short-lived process. They share files under the state directory, the
docker daemon and a port; inside the console components share mutexes and bounded channels.

| component | state | operations | hard behaviours | what makes it correct |
|---|---|---|---|---|
| engine operations (`engine/manager.go`, `engine/docker.go`, `server/server.go` engineOp, `cli/lifecycle.go`) | the current or last op, a sequence number, event subscribers; docker's container | TryBegin, Finish, Up, Down, restart, the handlers and commands around them | requests that race for the op slot, docker commands that fail in the middle, an op inside an op, events dropped by a full channel, the engine dying by itself | docker commands of two ops do not interleave; a refused or failed op frees the slot; the record is true of the container |
| boot story (`server/logbus.go` run, `engine/bootlog.go`) | container run last seen, one swallow budget per run, tracker phase | inspect, follow the log, feed lines, publish, wake on docker events or a watchdog | every re-attach replays the tail; events are lost; a container is replaced between two looks | a stale traceback is not shown, a real one is; a dead container is shown dead |
| fan-out (`server/logbus.go` publish, subscribe; the streaming handlers) | ring of 800 lines, one bounded channel per viewer and per tab, current status | publish, setRunning, subscribe, the ETA ticker | slow viewers, drops, a replay that must join the live lines | no gap that is not a drop, no line twice, a dropped status heals |
| OpenAI relay (`proxy/proxy.go`) | per request: client context, upstream, reader goroutine, keepalive flags, registry row | dial, relay a line, ping, notice a client that left, finish | ticks, lines, disconnects and upstream ends in any order | the client gets the stream, a silent stream is pinged, a client that leaves frees the upstream and the row |
| request registry (`proxy/registry.go`) | live map, ring of 200 finished rows, subscribers with a channel of one | NextID, Add, Update, Finish, Snapshot, Subscribe | change and signal are separate critical sections; signals coalesce | rows are the requests being served; a tab that is connected misses no change |
| Anthropic translation (`proxy/anthropic.go`) | messages built from the conversation; the open block, the tools seen | translate, open and close blocks, ping, tail | thinking, text and interleaved tool calls in any mix; upstreams that break off | the events are the Anthropic protocol, every turn ends |
| credentials (`auth/credentials.go`) | encrypted file, a cache keyed on its mtime | load, save through a temporary file, the commands | commands that overlap, or are killed while they save, all through one temporary name; requests that load at once into one cache | what a command that ran alone reported done stays; the file can be read; the next request uses the change |
| metrics collector (`collector/`) | previous counters, failure count, tick count, ring of histogram snapshots | one sample per tick | engine restarts, failed and skipped scrapes, uneven ticks | rates and windows speak of the interval they claim; a dead engine is asked again |
| console life (`cli/serve.go`, `cmd/qfn/main.go`, server.go console restart) | pidfile, port, signals | serve, start, stop, restart, the restart button | fixed pauses, stale pidfiles, several consoles, exits that skip the clean-up, steps that fail or refuse | the pidfile names the console that listens; stop and restart do what they say |
| console gate (`auth/ratelimit.go`, `auth/session.go`, login, logout and the wrapper in `server/server.go`) | per address failures, window, streak and lockout, a file of them; a table of sessions | Allow, VerifyPassword, Fail, Success, load; Create, Validate, Revoke | the password check is slow and outside every lock, so logins overlap a lockout; windows and lockouts expire; restarts; writes that fail | a lockout bounds the guesses, holds for its time and doubles; a session that ended stays ended |
| launch (`config/`, `profiles/`, `engine/spec.go`, `engine/snapshot.go`, `doctor/doctor.go` Preflight, `cli/lifecycle.go`, `cli/app.go`, `cli/setup.go`, engineOp in `server/server.go`) | config.toml, profiles, the engine key, last-up.json; what the console was started on; what each job has read; containers | up, down, restart by command and by console; config set and reset, lockdown, key rotation, profiles; an editor | a console that runs on an old file, commands that run on a file that is being written, profiles and flags laid over it, a state directory that moves, refusals in the middle, writes that fail, processes that die | only what passes Validate runs, a refusal leaves the engine alone, the proxy asks the engine that runs |
| systemd units, chat, bench, CLI dialogue, page, image | files, or nothing | | | section 9 |

How they interact: a console request takes the manager's op slot and starts a goroutine that drives
docker (EngineOps); docker's events and the container's log drive the pump (LogBus), which publishes to
the ring and to the tabs (BusFanout); a proxied request has a row in the registry (Registry), is relayed
(SseRelay) or translated (AnthropicMessages) and is followed by the tabs; the collector scrapes the engine
(Collector); commands change the credentials the console reads (CredStore) and start, stop and replace the
console itself (Console); a browser gets in through ConsoleAuth; what the op of EngineOps runs is decided by
the files, profiles and flags of Launch, which also says whom the proxy asks.

## 2. The modules

Every handler, command or goroutine is a small program counter per actor; a step is what the code does
between two points where another actor can get in: a critical section of one mutex, one docker command,
one channel operation, one file operation, one signal. External parties (docker, the engine, clients,
other programs) are actions of their own, marked external in the map.

A module of proofs may be about two components that have the same shape (`Streams_proofs`: lines that pass a
bounded channel; `Requests_proofs`: the proxy's requests; `Console_proofs`: what the console's process keeps).
Therefore the definitions of SseRelay, AnthropicMessages and Collector that every module has (`Init`, `Next`,
`Spec`, `TypeOK`) carry a prefix: `Relay`, `Turn`, `Sample`.

**EngineOps** (`MCEngineOps`, `SerialEngine`, `EngineOps_proofs`). A job is one console request or one CLI
process. `TakeLock`/`FinishLock` are Manager.TryBegin/Finish up to their unlock; `FinishPublish` is the
publish after it. `Inspect`, `Stop`, `Remove`, `ClearOld`, `Run` are the docker commands of Down and Up,
each of which may fail; `MustBegin` is the console's habit of asking for an op that it may already hold.
The state `busy`, `opSeq`, `subs`, `inbox` is the Manager's; `container` is docker's.
`SerialEngine` is the abstract promise: one owner at a time, who alone changes the container, and a report
that is true when it is left. The end of EngineOps maps it to SerialEngine (`Owner`, `Task`, `Report`).

**LogBus** (`MCLogBus`, `LogBus_proofs`). `Pump` is the loop of logBus.run: `Inspect`, `Open` (the stream
with its replayed tail), `ReadLine` (feed, swallow or publish), `StreamEnds`, `Wake`. `Feed` is the phase
machine of BootTracker on line kinds. `InspectFails` is a docker error, which the pump takes for a container
that is down (bounded by `MaxBlips`). `swallowed` and `failedRuns` are history, counted by the run whose log is
followed; `overtaken` are the runs that were started between the inspect and the attach, and so are followed on
the budget of an earlier one.

**BusFanout** (`MCBusFanout`, `Streams_proofs`). `SendLine`, `SendStatus`, `Subscribe`, `Unsubscribe` are critical sections of
the bus; `ShowLine`, `ShowStatus`, `EtaTick` are the receiving handlers. It takes statuses from a set and so
does not depend on the pump that makes them.

**SseRelay** (`MCSseRelay`, `Streams_proofs`). One request: `CheckCeiling`, `Dial`, then the select of relaySSE: `TakeLine` and
`WriteLine`, `Tick` and `WritePing`, `ClientGone`, `LinesClosed`; beside it `ReaderScan`/`ReaderEnd` of the
reader goroutine, and the engine and the client. `ReaderFails` is a line above the scanner's 4 MB, which ends the
scan (history `cut`). A write is a step of its own because it can block. The handler may return while the reader
still waits to send (`ReaderNotLeft` of section 3).

**Registry** (`MCRegistry`, `Requests_proofs`). Handlers `NextID`, `Add`, `Update`, `Finish` and owe a `Notify`;
tabs `Fetch`, `Subscribe`, `Receive`, `Snapshot`. What a tab shows is what it fetched or a later snapshot: hEvents
sends no rows when a stream opens. `since`, the rows there were at that moment, is history.

**AnthropicMessages** (`MCAnthropicMessages`, `Requests_proofs`). First the translation, an operator (`TurnToMessages`,
`Translate`) over conversations that are built nondeterministically; then the streamed answer, chunk by chunk
(`TakeChunk`, `Delta`, `ToolDelta`, `OpenBlock`, `CloseBlock`), into a client that parses the Anthropic
protocol (`Parse`, `Accepts`) and remembers whether it was broken. It takes arguments of a tool call also for a
block that is closed, which the code does send (`DeltaInOpenBlock` of section 3). `ReaderFails` as in SseRelay.

**CredStore** (`MCCredStore`, `CredStore_proofs`). Commands `CmdLoad`, `CmdTruncate`, `CmdWrite`, `CmdRename`
overlap as they like and may be killed between any two steps. They share the one temporary name: a command may
truncate the inode another is writing, rename it away, or find nothing to rename (`CmdRenameFails`); `at` is the
name its open inode has by now. Requests run Store.load statement by statement (`Stat`, `Read`, `SetCache`,
`SetMod`), any number at once. The content of a file is the set of commands whose change it holds. History:
`alone` (no other command ran beside it), `clash` (two have been saving at once), `crossed` (two loads of
different dates have been reading at once), `mixed` (an answer that is the payload of one under the date of another).

**Collector** (`MCCollector`, `Console_proofs`). One call of SampleOnce is one of `Skip` (backing off), `ScrapeFails`,
`ScrapeGarbled`, `ScrapeRead`. Counters are cumulative counts per bucket; times are ages, capped just above
the horizon. `WindowCounts`, `WindowStart`, `PruneRing` are QuantileWindow, quantilesFromRing and pruneRing.
The engine's run that made a sample is a history field of the ring.

**Console** (`MCConsole`, `Console_proofs`). Console processes go through `Guard`, `WritePidfile`, `Bind`, `Shutdown`, `Unwind`,
or leave early through `ForcedExit` or `WebExit`, or on an error of their own (`Refuses`: first-run guard,
configuration, password, bind address); the write of the pidfile and the spawn of a successor may fail. Commands
go through `StartLook`, `StopLook`, `RestartLook`, `Pause`, `Respawn`, `Report`. A process that ends while its
parent lives is a zombie, which kill(pid, 0) finds. History: `unnamed` (the console's pidfile was not written, or
removed by such a console), `refused`, and `hurried` (a restart that went on while the console it had signalled
still lived).

**ConsoleAuth** (`MCConsoleAuth`, `ConsoleAuth_proofs`). Logins `LoginAllow`, `Verify`, `Fail` or `Success`,
`Create`, each a section of one mutex (or, `Verify`, of none); sessions `Cookie`, `Logout`; `Passwd`; `Tick` and
`Restart`. Instants are ages relative to now, so that a tick moves them all; `behind`, `sworn`, `locks`, `quiet`
are history.

**Settings**. Data only, shared by Launch: the default engine, the file as the set of lines it has (`Decoded`,
`Rendered`, `Known`), `Valid`, profiles (`Overlay`, `FromEngine`), flags (`WithFlags`), and `Argv`, the docker
command line as a record. It keeps the fields that a check, a guard or a port depends on.

**Launch** (`MCLaunch`, `Launch_proofs`). A job is a command or an accepted request: `CliBegin` reads the file,
`CliResolve` lays profile and flags over it, validates, asks the guard, the snapshot and the image;
`WebLaunch` does this on the configuration the console was started on (`boot`); an error of docker passes the image
check of both (`ImageChecked`). `Stop`, `Remove`, `Run`, `SaveLastUp` follow. last-up.json is one file per state
directory (`lastUp`): a command writes that of the configuration it has read, the console reads that of its start
(`ProxyPort`); a write may fail without a word (`unsaved`). `SaveBegin`, `Truncate`, `Write` are config.Save; `HandEdit` is an editor. `ConsoleEnds` and
`Kill` end a process between any two steps. Docker is coarser than in EngineOps, and has containers by name.

## 3. What the runs check

| run | instance | what it shows |
|---|---|---|
| engine_updown | three console requests, up or down, one tab with a channel of two | `SerialSpec`: the lock implements SerialEngine; `ReportTrue`: an op reported successful left the container as reported; `EventOrder`: a tab sees starts in order and no finish ahead of its start |
| engine_restart | two console requests and a CLI command, restarts too | `OnlyRestartOverlaps`: inside one manager docker commands overlap only in the Up half of a restart; `SlotHasOwner`: the slot is never left taken; `AcceptedEnds`: an accepted request ends |
| logbus_pump | two container runs, logs of three lines, a tail of two, an inspect that fails | `SwallowOnce`, `FailureSpendsBudget`: the budget of the run whose log is followed; `DownShown`, `SecondFailureShows`: what must be shown in the end |
| fanout_feed | a viewer and a tab, channels of two, a ring of three, five lines, four changes | `Joined`: replay and live lines; `NothingMissed`, `BootHeals`: a status that fits is shown, a boot heals after drops |
| relay_stream | a stream of two lines, two silent periods, every engine and client | `RelayedFaithfully`: a prefix of the stream, and all of it if it ended by itself, no line was too long and the client stayed; `SilencePinged`; `NoZombie`: a client that leaves ends handler, upstream and row |
| registry_feed | two handlers, three requests, a ring of two, a tab whose stream breaks | `LiveIsRunning`, `RingHoldsNewest`; `QuietIsFresh`: no change is lost to a tab that was connected |
| anthropic_turn | two turns of up to two blocks; streams of four lines, two calls, two ids | `ResultsFollowCalls`, `ProtocolKept`, `TurnEnds` |
| cred_store | three commands that overlap, killed anywhere, two requests at once | `DoneIsKept`: what a command that ran alone reported stays, whatever others do to each other later; `AlwaysReadable`: until two save at once; `HotReload`: a request works with what was done before it, but for loads that have crossed |
| collector_ticks | a horizon of two ticks, ticks one or two apart, two buckets, two engine runs of two tokens, a rest of three | `WindowTrue`: the window survives blips and long gaps and counts exactly its span; `RateHonest`: a rate counts no token of another interval; `UpIsSeen`: backing off does not lose a live engine |
| auth_gate | three logins from one address, one failure allowed, lockouts of one, two and four ticks, one session | `BehindLock`: how often a password is checked behind a lockout; `LockoutInForce`: a lockout holds for as long as it was said to, and doubles, through restarts; `EntryEarned`: an ended session does not come back |
| launch_way | two jobs, three commands or requests, two engines by profile, a profile that is not valid, three sets of flags, three edits (one moves the state directory), memory for one engine and not beside a tenant | `ValidUnlessOverlaid`, `SetUpOnly`: what may run; `ProxyFollows`: whom the proxy asks, while launches do not overlap and are recorded where the console looks; `RefusedUntouched`: refusals leave the engine and the slot |
| console_life | three processes, two commands, one at a time | `PidfileNamesServer`: at rest the pidfile names the listener, unless its write failed; `StopStops`: with and without a pidfile that names it; `RestartRenews`: but for a console that it cannot find or that outlives the pause, and a successor that refuses |

`TypeOK` is checked where it carries more than types: a slot that holds a known op (engine_updown), a phase the
tracker can be in (logbus_pump). The other modules state one for the reader.

### Witness configurations

Not runs of the project's list: each property below is what a comment, a test or a careful reader would expect,
and TLC refutes it on the model of the code. They mark the limits of the properties above. A `_said`
configuration lists several; TLC stops at the first that fails, so check one at a time.

| configuration | property | what happens |
|---|---|---|
| EngineOps_restart_overlap | `OpsSerialized` | manager.go:14 "Manager serializes engine operations (docker run/stop) so the CLI and the web console cannot step on each other": in a console restart Down asks mustBegin for an op, gets the restart's own, and finishes it, so the Up half runs without the slot |
| EngineOps_cli_overlap | `OpsSerialized` | the op slot is per process: a `qfn down` and a console request interleave |
| LogBus_said | `SwallowOncePerRun` | logbus.go:62 "the fail-marker swallow budget belongs to a container RUN": a run that starts between the inspect and the attach is swallowed on its predecessor's budget and then on its own |
| LogBus_said | `DeadStaysFailed` | a ready marker replayed after a traceback makes a failed run read ready |
| LogBus_said | `NotBornFailed` | the log of a container restarted in place holds the last run's traceback, which is charged to the new run |
| LogBus_said | `StoryIsOfThisRun` | a container replaced between two looks keeps the old run's percent and clock |
| LogBus_scrolled | `ServingShows` | a serving engine whose markers have left the tail keeps its earlier phase |
| SseRelay_said | `PingAtBoundary` | proxy.go:232 "keepalive injection only at boundaries": atBoundary is set by a blank line and cleared by a keepalive, never by a line of the next event |
| SseRelay_said | `AbortedWhenLeft` | a write that fails first lets the row end as done |
| SseRelay_said | `ErrorIsKept` | proxy.go:372: the first token after an error event sets the phase back to decoding, and the row ends as done |
| SseRelay_said | `ReaderNotLeft` | proxy.go:249: after the handler has returned the reader may wait for ever to send a line |
| SseRelay_said | `WholeAtEnd` | a line above the scanner's limit ends the stream early, and the row says done |
| SseRelay_said | `KeepaliveRepeats` | a long silence gets one keepalive, though proxy.go:30 speaks of an injection interval |
| Registry_said | `QuietShowsAll` | server.go:271: a change between the page's fetch and its stream, or while the stream is broken, is shown only with the next change |
| CredStore_said | `EveryDoneIsKept` | two commands load the same file, and the later save drops the change of the earlier, which was reported done |
| CredStore_said | `ReadableThroughout` | credentials.go:188: one command truncates the temporary file that another is about to rename, and the credentials are empty |
| CredStore_said | `EveryRequestReloads` | two console requests leave the old payload under the new mtime, though credentials.go:393 says "Revoke is immediate on the next request" |
| AnthropicMessages_said | `ResultsFirst` | the images of a tool result are sent ahead of the results |
| AnthropicMessages_said | `DeltaInOpenBlock` | arguments of an earlier tool call go to its block after that was closed |
| Collector_said | `WindowIsFull` | pruneRing keeps an entry outside the horizon so that the window can span all of it (vllm.go:290), but the window starts at the first entry inside |
| Collector_said | `RestartRebaselines` | a new run that has already counted as much as the old one is not recognised as a restart (collector.go:371) |
| Collector_said | `RateOfItsInterval` | after an answer that cannot be parsed two intervals of tokens are divided by one |
| Console_said | `SecondSignalForces` | main.go:24 says that the second Ctrl+C hard-exits; both receives are from ctx.Done(), which the first signal closes |
| Console_said | `StartReportTrue` | a child that died is a zombie of the command and kill(pid, 0) finds it, so serve.go:226 is never reached |
| Console_said | `WebRestartServes` | the button's successor, if quick, finds the leaving console alive and gives up |
| Console_said | `RestartAlwaysServes` | the old console has ended when its successor refuses the configuration, or finds the old one not quite gone |
| Console_said | `RestartUpgrades` | serve.go:243 advises `qfn serve restart` for a console without a pidfile, and restart does not look for one |
| Console_overlap | `PidfileNamesServer` | two commands at once: the loser of the port removes the winner's pidfile |
| ConsoleAuth_said | `PasswdEndsSessions` | setup.go:252 "password updated — browser sessions invalidated": the sessions are in the memory of the console, which the command does not reach |
| ConsoleAuth_said | `RebootKeepsStreak` | an entry whose lockout ended a window ago is not loaded, so a restart also forgets how long the next lockout should be |
| Launch_said | `OwnMemoryIsFree` | the console's restart asks for memory that the engine it is about to stop still holds, and is refused |
| Launch_said | `ConsoleLaunchReached` | the console does not write last-up.json, so the proxy keeps asking the port of an earlier launch |
| Launch_said | `UnsavedReached` | app.go:104: the port of the launch could not be written, which nobody is told |
| Launch_said | `MovedReached` | after paths.state_dir was changed commands record the port where the running console does not look |
| Launch_said | `MountHasSnapshot` | the snapshot is looked for under the cache of the console's start, and the cache of the file of now is mounted |
| Launch_said | `GuardedFit` | an engine that still loads has taken no memory yet, so the guard lets a second one in |

## 4. Bounds

Bounds are CONSTANTS named in the module header; every counter they cap is capped in a guard.

- Actors: three requests are enough for one that holds a lock, one that is refused and one that comes
  after; two handlers for a signal that coalesces two changes; three processes for a console, its successor
  and one that interferes.
- Channels and rings of two or three: full, not full, and cut at least twice within the lines a run prints.
- Container runs: two, since the budget and the replay relate a run to the one before. Log lines: three with
  a tail of two, so that a line scrolls out while two are replayed.
- Streams: two lines are an event with its blank line, and half an event; four chunks open, interleave and
  return to two calls.
- Collector: a horizon of two with gaps up to two makes rings with none, one and more entries inside; three
  failures, the rest and a third scrape all happen; two buckets are what differencing needs.
- Credentials: two commands that overlap and one that runs alone before or after them; two requests, and three
  loads, so that a request meets what two that crossed have left.
- Signals to a console: one in console_life, where only whether there was one matters; two in Console_said, which
  tells the first from the second. One inspect that fails.
- Logins: one that locks, one already let in, one that comes later; one address, since addresses share nothing
  but the file, which is written whole. A streak of three passes the largest lockout.
- Launch: a launch, an edit or a second launch that overlaps it, and one more to meet what both have left; memory
  is in units of which an engine takes 102 of 120, so the guard refuses beside a tenant or a second engine.
- Real capacities (800, 256, 200, 16, 8, 5 ticks, 30 ticks) are CONSTANTS; where a theorem covers a property,
  it holds for all of them.

Symmetry is used where no property is a liveness property (registry_feed, cred_store, auth_gate,
launch_way); auth_gate's action property does not mention logins. Deadlock checking is off
because every model ends when its bounded inputs are used up, and a system nobody uses does stop.

## 5. Fairness

- EngineOps: weak fairness of each job's next step (`Work`): goroutines run, docker commands
  return. Nobody has to make a request.
- LogBus: weak fairness of the pump, of the end of a stream whose run is over, and of the clock that passes
  the boot horizon. Nothing obliges docker to deliver an event: the watchdog is part of the pump. Inspects fail
  `MaxBlips` times at most: a docker that never answers shows nothing.
- BusFanout: strong fairness of a tab's receive and of its ticker, since Go's select chooses at random among
  ready cases and a case that is ready again and again is taken in the end.
- SseRelay, AnthropicMessages: weak fairness of the handler and reader, strong fairness of the select's case
  for a client that is gone, for the same reason. Nothing obliges engine or client.
- Collector: weak fairness of the ticks that skip (the ticker never stops), and an engine that is asked
  infinitely often while it is up answers one of those scrapes.
- ConsoleAuth, Launch: none; their properties are about safety.
- Console: weak fairness of each process and each command; nobody has to type.

Console has one switch that names what its properties assume. `OneAtATime`: a command waits until the one before
has settled; Console_overlap shows what happens without it. The code's fixed pauses (400 ms, 800 ms) may be too
short: a restart that went on too early is an exception of RestartRenews (`hurried`).

## 6. What is proved

For every value of the constants, from the module's ASSUMEs alone:

| theorem | statement |
|---|---|
| `TypeCorrect`, `LogBusTypeCorrect` | `Spec => []TypeOK` of EngineOps and LogBus |
| `RestartOverlapOnly` | `Spec => []OnlyRestartOverlaps` |
| `SlotNeverOrphaned` | `Spec => []SlotHasOwner` |
| `UpDownReportTrue` | `Spec => []ReportTrue`, if Kinds holds no restart and there is no CLI command |
| `BudgetIsPerRun`, `FailureIsSpent` | `Spec => []SwallowOnce`, `Spec => FailureSpendsBudget` |
| `UpDownIsSerial` | `Spec => SerialSpec`, that is, EngineOps implements SerialEngine, under the same conditions |
| `StartsInOrder` | `Spec => []EventOrder` |
| `RequestsAdvance` | `Spec => [][Advances]_vars`, towards `AcceptedEnds` |
| `NoChangeLost`, `LiveRowsAreRequests`, `NewestAreKept` | `Spec => []QuietIsFresh`, `Spec => []LiveIsRunning`, `Spec => []RingHoldsNewest` |
| `EventsKeepProtocol`, `ResultsReachTheEngine` | `TurnSpec => []ProtocolKept`, `TurnSpec => []ResultsFollowCalls` |
| `ReplayJoins`, `NothingIsMissed` | `Spec => []Joined`, `Spec => []NothingMissed` |
| `NothingIsLeft`, `TurnsAreFinished` | `RelaySpec => []NothingLeft /\ [][RowIsFinal]_relayVars`, towards `NoZombie`; `TurnSpec => []TurnFinished`, towards `TurnEnds` |
| `StreamRelayedFaithfully`, `SilenceIsPinged` | `RelaySpec => []RelayedFaithfully`, `RelaySpec => []SilencePinged` |
| `RatesAreHonest`, `WindowIsTrue` | `SampleSpec => RateHonest`, `SampleSpec => []WindowTrue` |
| `LockoutBoundsGuesses`, `LockoutsStand`, `EntryIsEarned` | `Spec => []BehindLock`, `Spec => []LockoutInForce`, `Spec => EntryEarned` |
| `OnlyValidRuns`, `OnlySetUpRuns` | `Spec => []ValidUnlessOverlaid`, `Spec => []SetUpOnly` |
| `RefusalsTouchNothing`, `ProxyAsksTheLastLaunched` | `Spec => []RefusedUntouched`, `Spec => []ProxyFollows` |
| `DoneNeverLost`, `FileAlwaysReadable` | `Spec => []DoneIsKept`, `Spec => []AlwaysReadable` |
| `RequestReloads` | `Spec => []HotReload` |
| `ServerIsNamed` | `Spec => []PidfileNamesServer`, if commands are given one at a time, whatever the pauses |

The arguments:

- **The op lock** (`LockInv`). OnlyRestartOverlaps says nothing of why two jobs cannot both be inside, so it is
  not inductive. `LocksHold`: a job from acceptance to its first Finish (a restart: to the end of its Down) is
  the one the slot records. `SeqIdentifies`: sequence numbers are given once, so the slot records one job.
  `NestedIsOwn`: the op that mustBegin hands to a restart's Down is the restart's own, since the restart still
  holds the slot; a Finish therefore never frees the slot of another job. `SlotHasOwner` follows along.
- **The report** (`ReportInv`). While one manager has one job inside and nobody else touches docker, the
  effect of each successful docker step stays until Finish (`EffectDone`), and Finish records it. Restarts and
  CLI commands break just this, hence the theorem's two conditions. The refinement adds that the job at a docker
  command is the `Owner` the mapping computes from the slot, so that each docker step is a step of that owner,
  each acceptance an `Acquire`, each Finish a `ReleaseLock`, and everything else a stutter.
- **The events** (`EventInv`). Every event in a channel is about an op that has begun (`Begun`), so the next start
  has a larger number than them all, and a finish, which may come late, puts no start behind it.
- **The swallow budget** (`BudgetInv`). The log that is followed is of the run inspected, or of a later one, which
  is then overtaken (`RunsForward`). What is charged to a run ahead of its own budget is an overtaken run's, and
  spends the budget at hand (`AheadIsOvertaken`). The budget of a run that has swallowed or was called failed stays
  spent while the pump stays with it (`SpentRemembered`); it is renewed only for a run the pump has not inspected.
- **The registry** (`FeedInv`, `RowsInv`). For each tab that is connected: what it shows is current, or the rows are
  those of its subscription, or its signal is set, or a handler still owes a notify (`FreshOrTold`). Each step that
  makes rows differ owes a notify, each notify sets the signal, and a signal is only consumed ahead of a snapshot.
  For rows: ids in use do not exceed the counter (`IdsMinted`), so a new id is fresh. For the ring: a live row
  carries the id it is kept under (`Named`), so what Finish appends is the request that finished.
- **The bus** (`LinesInv`, `StatusInv`). The ring is the tail of the lines; what a viewer has been shown and what
  waits in its channel ascend together, and are the tail of the lines unless one was dropped. The newest status
  is the last one in a tab's channel, or is shown when that is empty, unless one was dropped.
- **The relay** (`RelayInv`). A line is in the reader's hand, in the loop's, or read by the client, never in two of
  these (`HandOver`); what was written without its keepalives is the stream up to the line in the loop's hand
  (`InOrder`); the reader stops by itself only behind the last line, or at one too long (`Whole`). For pings: between two events
  either one may be sent or one was sent last (`Pinged`). `Lines` counts a set, so that the count of a longer
  sequence follows from the library's facts about finite sets.
- **The Anthropic events** (`ParserInv`). ProtocolKept says what may be written next only through all that was
  written before. The invariant looks ahead: the events still to be written lead the client's parser, each
  accepted (`Leads`), to a state that mirrors the streamer (`Mirrors`: as many blocks, the same one open, and
  the block noted for a tool call is one of that call). Each operation of the streamer extends such a run.
- **The conversation** (`AskInv`). While the request is counted the messages are the turns' messages joined. Turn by
  turn, what is joined so far has its results behind calls, as many as the turns so far, and ends with the calls
  if the last turn made any; a well-formed turn of results comes next to just that.
- **The collector** (`CollectorInv`). Rates: a failed scrape forgets the counter, so the tokens since the one that
  is remembered are fresh, or all of a new run are (`RateInv`). The window: readings of one run grow, cumulative
  bucket by bucket (`Grows`), so the difference of two is the histogram between them, and no bucket is clamped;
  once open the ring keeps two, since pruning never drops the newest and the one before it (`PruneKeeps`).
- **The credentials** (`SaveInv`). A command that runs alone (`AloneIsAlone`), or that saves before any two have
  saved at once, has the temporary file to itself (`OneSaves`, `OwnTmp`), which holds its own change (`HoldsOwn`)
  when it is renamed. Once done for good that change is in the file, in the temporary file and in what every other
  command has loaded, as far as these can be read (`KeptEverywhere`): a command that starts later loads it, so
  whatever it writes, under whichever name, has it too. For reloads (`LoadInv`): whatever lacks a change that was
  done for good was read before it, so its date is older than the file's (`LackIsOld`), in a load under way and in
  the cache; a cache that is used for the file lacks nothing, unless its date is that of a later load (`mixed`),
  and then the two have crossed.
- **The pidfile** (`PidInv`). A process past the guard is the one named, or its write failed, or a console without
  one removed it (`PastIsNamed`); a second passes only while nobody alive is named (`PrepIsAlone`). One is starting
  at most (`OneIsYoung`), after which nobody starts another (`NoneToCome`). Refusals and failures only end processes
  or set `unnamed`. The pauses of the code do not enter, only liveness has to do with them.
- **The gate** (`GateInv`, `SessInv`). BehindLock is inductive once the instants are known to be integers: a login
  that is let in finds no lock, one that locks enters `behind` itself, and a tick, a restart and a right password
  only end locks. LockoutInForce needs `ForceInv`: what is left of a sworn lockout is at most what the limiter
  has, the streak is as long as the lockouts in a row, and what is locked is on disk as in memory unless the last
  write was lost; and that powers of two ascend, since 2^n counts the subsets of 1..n. For sessions the invariant adds what ties the history to the table: time left plus time quiet
  is at most the idle time, and what was logged out has none left.
- **The launch** (`LaunchInv`, `SlotInv`, `PortInv`). LaunchInv follows a job from the file it has read to the
  container: a command's configuration is set up and valid when it is read, its engine is valid when it is
  resolved, and both go unchanged into the container; a console's are those of the file it started on, valid
  before a profile is laid over them. SlotInv: a refused request is not the one in the slot. PortInv: while
  launches do not overlap there is one job that launches, and between `docker run` and the save of its port
  the newest container is its own. Hence otherwise the port is in the state directory of the configuration it was
  launched with (`Recorded`), unless a write has failed; ProxyFollows then only needs that the console looks there.
- **Towards the goals.** Of three liveness properties the part that needs no fairness is proved. A request has
  `Left(j)` steps to go at most, 13 at the start: its own steps lower that, whatever docker answers, and nobody
  else's raise it (`LeftInv`: only the down of a command's restart has an up to come). So it ends if it is
  scheduled and docker answers. A relay handler opens its row with the answer of the upstream and finishes it,
  and cancels the upstream, in the step that returns (`RowInv`). A turn's handler returns from a stream through
  the streamer's end, which leaves the client's parser ended (`ParserInv`), or for a client that has gone, who is
  sent no end (`EndInv`).

Induction over numbers and sequences is done on a set, not by the library's theorem: a set of naturals that
is not empty has a least element (`WFMin`), so one that holds 0 and each successor holds all (`ReachesAll`,
`LeastIndex`). That gives what `FlattenSeq` joins and where a window starts, for sequences of any length.

Only model-checked: all liveness (`AcceptedEnds`, `DownShown`, `SecondFailureShows`, `BootHeals`, `NoZombie`,
`TurnEnds`, `StopStops`, `RestartRenews`, `UpIsSeen`), which is out of the prover's reach: that the
steps are taken, and that they are enough. For `AcceptedEnds`, `NoZombie` and `TurnEnds` what the steps do and
what holds at the end is proved (`RequestsAdvance`, `NothingIsLeft`, `TurnsAreFinished`). Every safety
property of the runs, invariant or action property, is stated by a theorem.

## 7. What the code does not keep

The project lists no refuting run; the witnesses of section 3 are the disagreements between the code and what
it says. Those with the largest effect on a user: a console restart runs half of its docker commands without
the op slot; a keepalive can split an SSE event; a revoked key can stay valid until the file changes again; two
commands at once can lose a change or the credentials; a restart can end the console and start none; a password
change ends no session; an engine launched from the console on another port is not the one the proxy
asks; the console launches a profile that Validate refuses; the report of a start cannot see that the child
died.

Hazards that are neither in a model nor among the forty of `PROJECT.json`, which are the ones that bite hardest:

- docker.go:60: the pump leaves its scan loop on a failure without closing its end of the pipe; the goroutine
  that copies the docker log stays blocked in Write, one for every re-attach.
- anthropic.go:518: [DONE] ends the loop while the reader may hold one more line; AnthropicMessages has the state,
  the code promises nothing about it.
- render.go:24, root.go:27: the advice to run `qfn config init` names no command, and every command, `config
  reset` too, stops at a file that does not load (Launch has the second part, `Reset`).
- lifecycle.go:409: a flag given with the zero of its type is taken as not given (`WithFlags`).
- genconfig.go:21: sampling defaults that were not found are cached as none until the console restarts.
- serve.go:285: after a lockdown or a new engine key the proxy sends the key of the file of now to an engine that
  was started with an earlier one, or with none.
- server.go:126: a stream is let in once; it goes on after its session was logged out.
- ratelimit.go:33: addresses are never removed from the map of the limiter but by their own login.

## 8. What could follow

- Proofs: what a step never undoes on the way to `DownShown`, `SecondFailureShows`, `BootHeals`, `StopStops`, `RestartRenews` and `UpIsSeen`; SseRelay and the stream of AnthropicMessages as
  implementations of one abstract relay.
- Subscribers and the other counters in Collector; the restart button
  under systemd in Console; EngineOps and LogBus composed through the container they share.

## 9. What is not modelled, and why

- Text: command lines, log wording, JSON layout, prompts, tables. Only what a guard or a property tells apart
  is kept (a line's kind, a chunk's kind, a bucket's count, a field that a check reads).
- Data races on a row that a handler writes without the registry's mutex (proxy.go:194): rows change under the
  mutex in Registry.
- In CredStore: the key file and password hashing; a loss of power (no fsync); two writes with the same mtime;
  what a reader without a lock may see of a time that is being stored, or of the cache and its date in another
  order than they were stored.
- Percentages, ETA arithmetic and shard counts; interpolation within a bucket; host, GPU and cgroup samples.
- systemd: the units are two files, what they do is systemd's; the systemd branch of every serve command. In
  Console: reuse of pids, and a state directory that changes while consoles live (the pidfile is in it).
- In Launch: bearer keys and the password that the start of a console asks for, directories that cannot be
  written, but for last-up.json, the search of the snapshot locator, two saves that overlap byte by byte (each is an emptying and a
  write), engine settings that only pass from the file to the command line.
- Probes of the doctor, which report and change nothing; chat, bench, wizard and prompts, which print; the
  browser page, which renders the event streams; the engine image and its patched vLLM sources (vendored).
