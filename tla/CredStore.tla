------------------------------ MODULE CredStore ------------------------------
(***************************************************************************)
(* The credentials file and its readers and writers: CLI commands (passwd, *)
(* keys add, keys revoke, key rotation), each a process of its own that    *)
(* loads, changes and saves the file through one temporary name, and the   *)
(* console, whose requests share one Store and its cache keyed on the      *)
(* file's mtime.  Nothing keeps two commands, or two requests, apart.      *)
(*                                                                         *)
(* The content of a file is the set of commands whose change it holds.     *)
(* Encryption is abstracted: a file can be read when it is whole.  A read  *)
(* of the file is one step, and writes at different times have different   *)
(* mtimes.                                                                 *)
(***************************************************************************)
EXTENDS Naturals

CONSTANTS
    Cmds,       \* CLI commands
    Reqs,       \* concurrent requests to the console
    MaxLoads    \* bound: loads by the console

ASSUME BoundsAssumption == MaxLoads \in Nat

VARIABLES
    file,       \* the inode that is credentials.age
    tmp,        \* the inode that is credentials.age.tmp, NoTmp if there is none
    clock,      \* the next mtime
    cmd,        \* per command: "idle", "load", "write", "truncated", "written", "done", "failed", "killed"
    held,       \* per command: the content it loaded, with its own change
    at,         \* per command: the name of the inode it has open, "none" if none has it
    cache,      \* Store.cache, NoCache if nil
    cacheMod,   \* Store.cacheMod
    pc,         \* per request: "idle", "stat", "read", "cache", "mod" or "answered"
    stat,       \* per request: the mtime it saw
    got,        \* per request: the payload it read, NoCache if it could not
    loads,
    \* history
    alone,      \* per command: no other ran while it did
    clash,      \* two commands have been saving at once
    owed,       \* per request: the changes that were done for good when it started
    cacheFrom,  \* the mtime that the load whose payload is cached had seen
    crossed,    \* two loads that had seen different mtimes have been reading at once
    mixed       \* per request: its answer is a cached payload under a later load's mtime

fileVars == <<file, tmp, clock, at>>
cmdVars == <<cmd, held, alone, clash>>
storeVars == <<cache, cacheMod, cacheFrom>>
reqVars == <<pc, stat, got, loads, owed, crossed, mixed>>
vars == <<file, tmp, clock, at, cmd, held, alone, clash,
          cache, cacheMod, cacheFrom, pc, stat, got, loads, owed, crossed, mixed>>

\* What an inode holds: nothing, something unreadable, or a payload.
Inode == [content : SUBSET Cmds, data : {"none", "empty", "broken", "whole"}, mtime : Nat]
NoTmp == [content |-> {}, data |-> "none", mtime |-> 0]
NoCache == [known |-> FALSE, content |-> {}]
Payload(c) == [known |-> TRUE, content |-> c]

TypeOK ==
    /\ file \in Inode /\ tmp \in Inode
    /\ clock \in Nat /\ file.mtime < clock /\ tmp.mtime < clock
    /\ cmd \in [Cmds -> {"idle", "load", "write", "truncated", "written", "done", "failed", "killed"}]
    /\ held \in [Cmds -> SUBSET Cmds] /\ at \in [Cmds -> {"none", "tmp", "file"}]
    /\ alone \in [Cmds -> BOOLEAN] /\ clash \in BOOLEAN
    /\ cache \in [known : BOOLEAN, content : SUBSET Cmds]
    /\ cacheMod \in Nat /\ cacheFrom \in Nat
    /\ pc \in [Reqs -> {"idle", "stat", "read", "cache", "mod", "answered"}]
    /\ stat \in [Reqs -> Nat]
    /\ got \in [Reqs -> [known : BOOLEAN, content : SUBSET Cmds]]
    /\ owed \in [Reqs -> SUBSET Cmds] /\ loads \in 0..MaxLoads
    /\ crossed \in BOOLEAN /\ mixed \in [Reqs -> BOOLEAN]

Init ==
    /\ file = [content |-> {}, data |-> "whole", mtime |-> 1]
    /\ tmp = NoTmp /\ clock = 2
    /\ cmd = [c \in Cmds |-> "idle"] /\ held = [c \in Cmds |-> {}]
    /\ at = [c \in Cmds |-> "none"]
    /\ alone = [c \in Cmds |-> FALSE] /\ clash = FALSE
    /\ cache = NoCache /\ cacheMod = 0 /\ cacheFrom = 0
    /\ pc = [r \in Reqs |-> "idle"] /\ stat = [r \in Reqs |-> 0]
    /\ got = [r \in Reqs |-> NoCache] /\ owed = [r \in Reqs |-> {}] /\ loads = 0
    /\ crossed = FALSE /\ mixed = [r \in Reqs |-> FALSE]

---------------------------------------------------------------------------
(* A command: load, change, save.  Its Store is new, so load reads the file. *)

Running(c) == cmd[c] \in {"load", "write", "truncated", "written"}
Saving(c) == cmd[c] \in {"truncated", "written"}
Step(c, s) == cmd' = [cmd EXCEPT ![c] = s]

CmdStart(c) ==
    /\ cmd[c] = "idle"
    /\ Step(c, "load")
    /\ alone' = [d \in Cmds |-> IF d = c THEN ~\E e \in Cmds : Running(e)
                                ELSE alone[d] /\ ~Running(d)]
    /\ UNCHANGED <<fileVars, held, clash, storeVars, reqVars>>

\* mutant: the change is made on an empty payload
CmdLoadFresh(c) ==
    /\ cmd[c] = "load"
    /\ held' = [held EXCEPT ![c] = {c}]
    /\ Step(c, "write")
    /\ UNCHANGED <<fileVars, alone, clash, storeVars, reqVars>>

CmdLoad(c) ==
    /\ cmd[c] = "load"
    /\ IF file.data = "whole"
       THEN /\ held' = [held EXCEPT ![c] = file.content \cup {c}]
            /\ Step(c, "write")
       ELSE Step(c, "failed") /\ UNCHANGED held
    /\ UNCHANGED <<fileVars, alone, clash, storeVars, reqVars>>

\* mutant: the credentials file itself is truncated, and written in place
CmdTruncateInPlace(c) ==
    /\ cmd[c] = "write"
    /\ file' = [content |-> {}, data |-> "empty", mtime |-> clock]
    /\ clock' = clock + 1
    /\ at' = [at EXCEPT ![c] = "file"]
    /\ clash' = (clash \/ \E d \in Cmds : Saving(d))
    /\ Step(c, "truncated")
    /\ UNCHANGED <<tmp, held, alone, storeVars, reqVars>>

\* os.WriteFile opens the one temporary name with O_CREATE and O_TRUNC: an inode
\* that another command has open there is emptied under its hands
CmdTruncate(c) ==
    /\ cmd[c] = "write"
    /\ tmp' = [content |-> {}, data |-> "empty", mtime |-> clock]
    /\ clock' = clock + 1
    /\ at' = [at EXCEPT ![c] = "tmp"]
    /\ clash' = (clash \/ \E d \in Cmds : Saving(d))
    /\ Step(c, "truncated")
    /\ UNCHANGED <<file, held, alone, storeVars, reqVars>>

\* The write goes to the inode that was opened, under whatever name it has by now.
\* Over another command's bytes it leaves its own payload, or with a rest of theirs.
CmdWrite(c) ==
    /\ cmd[c] = "truncated"
    /\ \E d \in {"whole", "broken"} :
          LET written == [content |-> held[c], data |-> d, mtime |-> clock]
          IN  \/ /\ at[c] = "tmp" /\ (tmp.data = "empty" => d = "whole")
                 /\ tmp' = written /\ file' = file
              \/ /\ at[c] = "file" /\ (file.data = "empty" => d = "whole")
                 /\ file' = written /\ tmp' = tmp
              \/ at[c] = "none" /\ UNCHANGED <<file, tmp>>
    /\ clock' = clock + 1
    /\ at' = [at EXCEPT ![c] = "none"]
    /\ Step(c, "written")
    /\ UNCHANGED <<held, alone, clash, storeVars, reqVars>>

\* os.Rename of whatever has the temporary name; the mtime is that of its last write
CmdRename(c) ==
    /\ cmd[c] = "written" /\ tmp.data # "none"
    /\ file' = tmp /\ tmp' = NoTmp
    /\ at' = [d \in Cmds |-> IF at[d] = "tmp" THEN "file" ELSE "none"]
    /\ Step(c, "done")
    /\ UNCHANGED <<clock, held, alone, clash, storeVars, reqVars>>

\* another command has renamed it already
CmdRenameFails(c) ==
    /\ cmd[c] = "written" /\ tmp.data = "none"
    /\ Step(c, "failed")
    /\ UNCHANGED <<fileVars, held, alone, clash, storeVars, reqVars>>

CmdKilled(c) ==
    /\ Running(c)
    /\ Step(c, "killed")
    /\ at' = [at EXCEPT ![c] = "none"]
    /\ UNCHANGED <<file, tmp, clock, held, alone, clash, storeVars, reqVars>>

---------------------------------------------------------------------------
(* A console request: Store.load, in a Store without a lock *)

Go(r, s) == pc' = [pc EXCEPT ![r] = s]
Loading(r) == pc[r] \in {"read", "cache", "mod"}

DoneForGood(c) == cmd[c] = "done" /\ alone[c]

Request(r) ==
    /\ pc[r] \in {"idle", "answered"} /\ loads < MaxLoads
    /\ Go(r, "stat") /\ loads' = loads + 1
    /\ owed' = [owed EXCEPT ![r] = {c \in Cmds : DoneForGood(c)}]
    /\ got' = [got EXCEPT ![r] = NoCache] /\ mixed' = [mixed EXCEPT ![r] = FALSE]
    /\ UNCHANGED <<fileVars, cmdVars, storeVars, stat, crossed>>

\* mutant: the cache is good whenever there is one
StatAlwaysCached(r) ==
    /\ pc[r] = "stat"
    /\ stat' = [stat EXCEPT ![r] = file.mtime]
    /\ IF cache.known
       THEN /\ got' = [got EXCEPT ![r] = cache] /\ Go(r, "answered")
            /\ mixed' = [mixed EXCEPT ![r] = cacheFrom < cacheMod]
            /\ UNCHANGED crossed
       ELSE /\ Go(r, "read")
            /\ crossed' = (crossed \/ \E q \in Reqs : Loading(q) /\ stat[q] # file.mtime)
            /\ UNCHANGED <<got, mixed>>
    /\ UNCHANGED <<fileVars, cmdVars, storeVars, owed, loads>>

Stat(r) ==
    /\ pc[r] = "stat"
    /\ stat' = [stat EXCEPT ![r] = file.mtime]
    /\ IF cache.known /\ file.mtime <= cacheMod
       THEN /\ got' = [got EXCEPT ![r] = cache] /\ Go(r, "answered")
            /\ mixed' = [mixed EXCEPT ![r] = cacheFrom < cacheMod]
            /\ UNCHANGED crossed
       ELSE /\ Go(r, "read")
            /\ crossed' = (crossed \/ \E q \in Reqs : Loading(q) /\ stat[q] # file.mtime)
            /\ UNCHANGED <<got, mixed>>
    /\ UNCHANGED <<fileVars, cmdVars, storeVars, owed, loads>>

Read(r) ==
    /\ pc[r] = "read"
    /\ IF file.data = "whole"
       THEN got' = [got EXCEPT ![r] = Payload(file.content)] /\ Go(r, "cache")
       ELSE Go(r, "answered") /\ UNCHANGED got
    /\ UNCHANGED <<fileVars, cmdVars, storeVars, stat, loads, owed, crossed, mixed>>

\* one statement, two stores
SetCache(r) ==
    /\ pc[r] = "cache"
    /\ cache' = got[r] /\ cacheFrom' = stat[r] /\ Go(r, "mod")
    /\ UNCHANGED <<fileVars, cmdVars, cacheMod, stat, got, loads, owed, crossed, mixed>>

SetMod(r) ==
    /\ pc[r] = "mod"
    /\ cacheMod' = stat[r] /\ Go(r, "answered")
    /\ UNCHANGED <<fileVars, cmdVars, cache, cacheFrom, stat, got, loads, owed, crossed, mixed>>

---------------------------------------------------------------------------

Cmd(c) == CmdStart(c) \/ CmdLoad(c) \/ CmdTruncate(c) \/ CmdWrite(c) \/ CmdRename(c)
             \/ CmdRenameFails(c) \/ CmdKilled(c)
Load(r) == Request(r) \/ Stat(r) \/ Read(r) \/ SetCache(r) \/ SetMod(r)

Next == (\E c \in Cmds : Cmd(c)) \/ (\E r \in Reqs : Load(r))

Spec == Init /\ [][Next]_vars

---------------------------------------------------------------------------
(* Properties *)

\* A change that a command has reported done, and made while no other command ran,
\* is in the file as long as the file can be read, whatever later commands changed,
\* failed at, were killed in or did to each other.
DoneIsKept == \A c \in Cmds : DoneForGood(c) /\ file.data = "whole" => c \in file.content

\* The credentials can be read at any moment, in particular after a command was
\* killed in the middle of its save, and while commands run side by side, until two
\* of them save at the same time.
AlwaysReadable == ~clash => file.data = "whole"

\* SetPassword: "the mtime bump makes the server hot-reload within one request
\* cycle"; RevokeAPIKey: "Revoke is immediate on the next request".  A request that
\* starts after a command was done for good works with that command's change, among
\* any other requests; but for one that finds the payload of one load in the cache
\* under the later mtime of another, which two loads at once have left there.
HotReload ==
    \A r \in Reqs :
        pc[r] = "answered" /\ got[r].known
            => owed[r] \subseteq got[r].content \/ (mixed[r] /\ crossed)

\* Refuted, each by two commands or two requests at once.
EveryDoneIsKept == \A c \in Cmds : cmd[c] = "done" /\ file.data = "whole" => c \in file.content
ReadableThroughout == file.data = "whole"
EveryRequestReloads ==
    \A r \in Reqs : pc[r] = "answered" /\ got[r].known => owed[r] \subseteq got[r].content
=============================================================================
