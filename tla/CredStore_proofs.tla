-------------------------- MODULE CredStore_proofs --------------------------
(***************************************************************************)
(* Safety of Store.save and Store.load for any commands, overlapping as    *)
(* they like and killed where they may be, and any concurrent requests.    *)
(* What was done for good: while its command ran nobody else did, so the   *)
(* temporary file was its own; every later command loads a file that has   *)
(* the change, and whatever it writes, under whatever name, has it too.    *)
(* Reloads: whatever lacks the change was read before the change, so its   *)
(* date is older than the file's, whichever inode the file is by now.      *)
(***************************************************************************)
EXTENDS CredStore, TLAPS

Shapes ==
    /\ file \in Inode /\ tmp \in Inode /\ clock \in Nat
    /\ cmd \in [Cmds -> {"idle", "load", "write", "truncated", "written", "done", "failed", "killed"}]
    /\ held \in [Cmds -> SUBSET Cmds] /\ at \in [Cmds -> {"none", "tmp", "file"}]
    /\ alone \in [Cmds -> BOOLEAN] /\ clash \in BOOLEAN

AloneIsAlone == \A c, d \in Cmds : alone[c] /\ Running(c) /\ Running(d) => c = d

Undisturbed(c) == alone[c] \/ ~clash

OneSaves == \A c, d \in Cmds : Undisturbed(c) /\ Saving(c) /\ Saving(d) => c = d

OwnTmp ==
    \A c \in Cmds : Undisturbed(c) =>
        /\ cmd[c] = "truncated" => at[c] = "tmp" /\ tmp.data = "empty"
        /\ cmd[c] = "written" => tmp.data = "whole" /\ tmp.content = held[c]

HasLoaded(c) == cmd[c] \in {"write", "truncated", "written"}
HoldsOwn == \A c \in Cmds : HasLoaded(c) => c \in held[c]

\* What is done for good is in whatever can become the file.
Everywhere(c) ==
    /\ file.data = "whole" => c \in file.content
    /\ tmp.data = "whole" => c \in tmp.content
    /\ \A d \in Cmds : HasLoaded(d) => c \in held[d]

KeptEverywhere == \A c \in Cmds : DoneForGood(c) => Everywhere(c)

SaveInv ==
    /\ Shapes /\ AloneIsAlone /\ OneSaves /\ OwnTmp /\ HoldsOwn
    /\ KeptEverywhere /\ AlwaysReadable

---------------------------------------------------------------------------
(* The commands *)

LEMMA InitSave == Init => SaveInv
<1> SUFFICES ASSUME Init PROVE SaveInv
  OBVIOUS
<1>1. /\ cmd = [c \in Cmds |-> "idle"] /\ held = [c \in Cmds |-> {}] /\ at = [c \in Cmds |-> "none"]
      /\ alone = [c \in Cmds |-> FALSE] /\ clash = FALSE
      /\ file = [content |-> {}, data |-> "whole", mtime |-> 1] /\ tmp = NoTmp /\ clock = 2
  BY DEF Init
<1>2. Shapes
  <2>1. file \in Inode /\ tmp \in Inode /\ clock \in Nat
    BY <1>1 DEF Inode, NoTmp
  <2> QED
    BY <1>1, <2>1 DEF Shapes
<1>3. file.data = "whole"
  BY <1>1
<1> QED
  BY <1>1, <1>2, <1>3
  DEF SaveInv, AloneIsAlone, OneSaves, OwnTmp, HoldsOwn, HasLoaded, KeptEverywhere, DoneForGood,
      AlwaysReadable, Running, Saving

\* A step that ends a command, or moves it where it saves nothing and holds nothing
\* new, leaves the rest as it was.
LEMMA CommandEnds ==
    ASSUME SaveInv, NEW c \in Cmds, NEW s \in {"failed", "killed"},
           cmd' = [cmd EXCEPT ![c] = s], at' \in [Cmds -> {"none", "tmp", "file"}],
           \A d \in Cmds \ {c} : at'[d] = at[d],
           UNCHANGED <<file, tmp, clock, held, alone, clash>>
    PROVE  SaveInv'
<1> USE DEF SaveInv, Shapes
<1>1. Shapes'
  OBVIOUS
<1>2. \A d \in Cmds : /\ d # c => cmd'[d] = cmd[d]
                      /\ d = c => cmd'[d] \in {"failed", "killed"}
  OBVIOUS
<1>3. AloneIsAlone' /\ OneSaves'
  BY <1>2 DEF AloneIsAlone, OneSaves, Running, Saving, Undisturbed
<1>4. OwnTmp' /\ HoldsOwn'
  BY <1>2 DEF OwnTmp, HoldsOwn, HasLoaded, Undisturbed
<1>5. KeptEverywhere' /\ AlwaysReadable'
  BY <1>2 DEF KeptEverywhere, DoneForGood, Everywhere, HasLoaded, AlwaysReadable
<1> QED
  BY <1>1, <1>3, <1>4, <1>5

LEMMA StartKeeps == ASSUME SaveInv, NEW c \in Cmds, CmdStart(c) PROVE SaveInv'
<1> USE DEF SaveInv, Shapes
<1>1. /\ cmd[c] = "idle" /\ cmd' = [cmd EXCEPT ![c] = "load"]
      /\ alone' = [d \in Cmds |-> IF d = c THEN ~\E e \in Cmds : Running(e)
                                  ELSE alone[d] /\ ~Running(d)]
      /\ UNCHANGED <<file, tmp, clock, at, held, clash>>
  BY DEF CmdStart, Step, fileVars
<1>2. Shapes'
  BY <1>1
<1>3. \A d \in Cmds : /\ d # c => cmd'[d] = cmd[d]
                      /\ d = c => cmd'[d] = "load" /\ cmd[d] = "idle"
  BY <1>1
<1>4. \A d \in Cmds \ {c} : (Running(d)' <=> Running(d)) /\ (Saving(d)' <=> Saving(d))
  BY <1>3 DEF Running, Saving
<1>5. \A d \in Cmds \ {c} : alone'[d] <=> alone[d] /\ ~Running(d)
  BY <1>1
<1>6. alone'[c] => \A e \in Cmds : ~Running(e)
  BY <1>1
<1>7. AloneIsAlone'
  BY <1>4, <1>5, <1>6 DEF AloneIsAlone
<1>8. ~Saving(c)' /\ ~Saving(c) /\ ~HasLoaded(c)'
  BY <1>3 DEF Saving, HasLoaded
<1>9. \A d \in Cmds \ {c} : Undisturbed(d)' => Undisturbed(d)
  BY <1>1, <1>5 DEF Undisturbed
<1>10. OneSaves'
  BY <1>4, <1>8, <1>9 DEF OneSaves
<1>11. OwnTmp'
  BY <1>1, <1>3, <1>9 DEF OwnTmp
<1>12. HoldsOwn'
  BY <1>1, <1>3, <1>8 DEF HoldsOwn, HasLoaded
<1>13. \A d \in Cmds : DoneForGood(d)' => DoneForGood(d)
  BY <1>3, <1>5 DEF DoneForGood
<1>14. KeptEverywhere'
  BY <1>1, <1>3, <1>8, <1>13 DEF KeptEverywhere, Everywhere, HasLoaded
<1> QED
  BY <1>1, <1>2, <1>7, <1>10, <1>11, <1>12, <1>14 DEF AlwaysReadable

LEMMA LoadKeeps ==
    ASSUME SaveInv, NEW c \in Cmds, CmdLoad(c), file.data = "whole" PROVE SaveInv'
<1> USE DEF SaveInv, Shapes
<1>1. /\ cmd[c] = "load" /\ cmd' = [cmd EXCEPT ![c] = "write"]
      /\ held' = [held EXCEPT ![c] = file.content \cup {c}]
      /\ UNCHANGED <<file, tmp, clock, at, alone, clash>>
  BY DEF CmdLoad, Step, fileVars
<1>2. Shapes'
  BY <1>1 DEF Inode
<1>3. \A d \in Cmds : /\ d # c => cmd'[d] = cmd[d] /\ held'[d] = held[d]
                      /\ d = c => /\ cmd'[d] = "write" /\ cmd[d] = "load"
                                  /\ held'[d] = file.content \cup {c}
  BY <1>1
<1>4. \A d \in Cmds : (Running(d)' <=> Running(d)) /\ (Saving(d)' <=> Saving(d))
  BY <1>3 DEF Running, Saving
<1>5. AloneIsAlone' /\ OneSaves'
  BY <1>1, <1>4 DEF AloneIsAlone, OneSaves, Undisturbed
<1>6. OwnTmp' /\ HoldsOwn'
  BY <1>1, <1>3 DEF OwnTmp, HoldsOwn, HasLoaded, Undisturbed
<1>7. KeptEverywhere'
  BY <1>1, <1>3 DEF KeptEverywhere, DoneForGood, Everywhere, HasLoaded
<1> QED
  BY <1>1, <1>2, <1>5, <1>6, <1>7 DEF AlwaysReadable

LEMMA TruncateKeeps == ASSUME SaveInv, NEW c \in Cmds, CmdTruncate(c) PROVE SaveInv'
<1> USE DEF SaveInv, Shapes
<1>1. /\ cmd[c] = "write" /\ cmd' = [cmd EXCEPT ![c] = "truncated"]
      /\ tmp' = [content |-> {}, data |-> "empty", mtime |-> clock] /\ clock' = clock + 1
      /\ at' = [at EXCEPT ![c] = "tmp"] /\ clash' = (clash \/ \E d \in Cmds : Saving(d))
      /\ UNCHANGED <<file, held, alone>>
  BY DEF CmdTruncate, Step
<1>2. Shapes'
  BY <1>1 DEF Inode
<1>3. \A d \in Cmds : /\ d # c => cmd'[d] = cmd[d] /\ at'[d] = at[d]
                      /\ d = c => cmd'[d] = "truncated" /\ cmd[d] = "write" /\ at'[d] = "tmp"
  BY <1>1
<1>4. /\ \A d \in Cmds : (Running(d)' <=> Running(d)) /\ (HasLoaded(d)' <=> HasLoaded(d))
      /\ \A d \in Cmds \ {c} : Saving(d)' <=> Saving(d)
      /\ Running(c)
  BY <1>3 DEF Running, Saving, HasLoaded
<1>5. AloneIsAlone'
  BY <1>1, <1>4 DEF AloneIsAlone
<1>6. \A d \in Cmds : Saving(d) => Running(d)
  BY DEF Saving, Running
\* whoever is undisturbed now has nobody beside it in a save
<1>7. ASSUME NEW d \in Cmds, Undisturbed(d)', Saving(d)' PROVE d = c /\ \A e \in Cmds : ~Saving(e)
  <2>1. CASE alone'[d]
    <3>1. d = c
      BY <1>1, <1>4, <1>6, <1>7, <2>1 DEF AloneIsAlone
    <3> QED
      BY <1>1, <1>3, <1>4, <1>6, <2>1, <3>1 DEF AloneIsAlone, Saving
  <2>2. CASE ~clash'
    BY <1>1, <1>4, <1>7, <2>2
  <2> QED
    BY <1>7, <2>1, <2>2 DEF Undisturbed
<1>8. OneSaves'
  BY <1>4, <1>7 DEF OneSaves
<1>9. OwnTmp'
  <2>1. ASSUME NEW d \in Cmds, Undisturbed(d)', cmd'[d] \in {"truncated", "written"} PROVE d = c
    BY <1>7, <2>1 DEF Saving
  <2> QED
    BY <1>1, <1>3, <2>1 DEF OwnTmp
<1>10. HoldsOwn'
  BY <1>1, <1>4 DEF HoldsOwn
<1>11. KeptEverywhere'
  BY <1>1, <1>3, <1>4 DEF KeptEverywhere, DoneForGood, Everywhere
<1> QED
  BY <1>1, <1>2, <1>5, <1>8, <1>9, <1>10, <1>11 DEF AlwaysReadable

LEMMA WriteKeeps == ASSUME SaveInv, NEW c \in Cmds, CmdWrite(c) PROVE SaveInv'
<1> USE DEF SaveInv, Shapes
<1>0. PICK d0 \in {"whole", "broken"} :
          \/ /\ at[c] = "tmp" /\ (tmp.data = "empty" => d0 = "whole")
             /\ tmp' = [content |-> held[c], data |-> d0, mtime |-> clock] /\ file' = file
          \/ /\ at[c] = "file" /\ (file.data = "empty" => d0 = "whole")
             /\ file' = [content |-> held[c], data |-> d0, mtime |-> clock] /\ tmp' = tmp
          \/ at[c] = "none" /\ UNCHANGED <<file, tmp>>
  BY DEF CmdWrite
<1>1. /\ cmd[c] = "truncated" /\ cmd' = [cmd EXCEPT ![c] = "written"]
      /\ clock' = clock + 1 /\ at' = [at EXCEPT ![c] = "none"]
      /\ UNCHANGED <<held, alone, clash>>
  BY DEF CmdWrite, Step
<1>2. Shapes'
  <2>1. [content |-> held[c], data |-> d0, mtime |-> clock] \in Inode
    BY DEF Inode
  <2>2. file' \in Inode /\ tmp' \in Inode
    BY <1>0, <2>1
  <2> QED
    BY <1>1, <2>2
<1>3. \A d \in Cmds : /\ d # c => cmd'[d] = cmd[d] /\ at'[d] = at[d]
                      /\ d = c => cmd'[d] = "written" /\ cmd[d] = "truncated"
  BY <1>1
<1>4. \A d \in Cmds : /\ (Running(d)' <=> Running(d)) /\ (HasLoaded(d)' <=> HasLoaded(d))
                      /\ (Saving(d)' <=> Saving(d)) /\ (Undisturbed(d)' <=> Undisturbed(d))
  BY <1>1, <1>3 DEF Running, Saving, HasLoaded, Undisturbed
<1>5. AloneIsAlone' /\ OneSaves' /\ HoldsOwn'
  BY <1>1, <1>4 DEF AloneIsAlone, OneSaves, HoldsOwn
<1>6. Saving(c)
  BY <1>1 DEF Saving
<1>7. ASSUME Undisturbed(c)
      PROVE  /\ tmp' = [content |-> held[c], data |-> "whole", mtime |-> clock]
             /\ file' = file
  BY <1>0, <1>1, <1>7 DEF OwnTmp
<1>8. OwnTmp'
  <2>1. ASSUME NEW d \in Cmds, Undisturbed(d)', cmd'[d] \in {"truncated", "written"} PROVE d = c
    BY <1>3, <1>4, <1>6, <2>1 DEF OneSaves, Saving
  <2>2. Undisturbed(c)' => tmp'.data = "whole" /\ tmp'.content = held[c]
    BY <1>4, <1>7
  <2> QED
    BY <1>1, <1>3, <2>1, <2>2 DEF OwnTmp
<1>9. KeptEverywhere'
  <2> SUFFICES ASSUME NEW d \in Cmds, DoneForGood(d)' PROVE Everywhere(d)'
    BY DEF KeptEverywhere
  <2>1. DoneForGood(d)
    BY <1>1, <1>3 DEF DoneForGood
  <2>2. Everywhere(d) /\ d \in held[c]
    BY <1>1, <2>1 DEF KeptEverywhere, Everywhere, HasLoaded
  <2>3. /\ file' = file \/ file'.content = held[c]
        /\ tmp' = tmp \/ tmp'.content = held[c]
    BY <1>0
  <2>4. (file'.data = "whole" => d \in file'.content) /\ (tmp'.data = "whole" => d \in tmp'.content)
    BY <2>2, <2>3 DEF Everywhere
  <2> QED
    BY <1>1, <1>4, <2>2, <2>4 DEF Everywhere
<1>10. AlwaysReadable'
  BY <1>1, <1>7 DEF AlwaysReadable, Undisturbed
<1> QED
  BY <1>2, <1>5, <1>8, <1>9, <1>10

LEMMA RenameKeeps == ASSUME SaveInv, NEW c \in Cmds, CmdRename(c) PROVE SaveInv'
<1> USE DEF SaveInv, Shapes
<1>1. /\ cmd[c] = "written" /\ cmd' = [cmd EXCEPT ![c] = "done"]
      /\ file' = tmp /\ tmp' = NoTmp /\ tmp.data # "none"
      /\ at' = [d \in Cmds |-> IF at[d] = "tmp" THEN "file" ELSE "none"]
      /\ UNCHANGED <<clock, held, alone, clash>>
  BY DEF CmdRename, Step
<1>2. Shapes'
  BY <1>1 DEF Inode, NoTmp
<1>3. \A d \in Cmds : /\ d # c => cmd'[d] = cmd[d]
                      /\ d = c => cmd'[d] = "done"
  BY <1>1
<1>4. \A d \in Cmds : /\ (Running(d)' <=> d # c /\ Running(d))
                      /\ (HasLoaded(d)' <=> d # c /\ HasLoaded(d))
                      /\ (Saving(d)' <=> d # c /\ Saving(d))
                      /\ (Undisturbed(d)' <=> Undisturbed(d))
  BY <1>1, <1>3 DEF Running, Saving, HasLoaded, Undisturbed
<1>5. Saving(c) /\ Running(c) /\ HasLoaded(c)
  BY <1>1 DEF Saving, Running, HasLoaded
<1>6. AloneIsAlone' /\ OneSaves' /\ HoldsOwn'
  BY <1>1, <1>4 DEF AloneIsAlone, OneSaves, HoldsOwn
<1>7. OwnTmp'
  <2>1. \A d \in Cmds : Undisturbed(d)' => ~Saving(d)'
    BY <1>4, <1>5 DEF OneSaves
  <2> QED
    BY <2>1 DEF OwnTmp, Saving
<1>8. tmp'.data = "none"
  BY <1>1 DEF NoTmp
<1>9. KeptEverywhere'
  <2> SUFFICES ASSUME NEW d \in Cmds, DoneForGood(d)' PROVE Everywhere(d)'
    BY DEF KeptEverywhere
  <2>1. CASE d = c
    <3>1. alone[c]
      BY <1>1, <2>1 DEF DoneForGood
    <3>2. tmp.content = held[c] /\ c \in held[c]
      BY <1>1, <1>5, <3>1 DEF OwnTmp, Undisturbed, HoldsOwn
    <3>3. \A e \in Cmds : ~HasLoaded(e)'
      BY <1>4, <1>5, <3>1 DEF AloneIsAlone, HasLoaded, Running
    <3> QED
      BY <1>1, <1>8, <2>1, <3>2, <3>3 DEF Everywhere
  <2>2. CASE d # c
    <3>1. DoneForGood(d)
      BY <1>1, <1>3, <2>2 DEF DoneForGood
    <3>2. Everywhere(d)
      BY <3>1 DEF KeptEverywhere
    <3> QED
      BY <1>1, <1>4, <1>8, <3>2 DEF Everywhere
  <2> QED
    BY <2>1, <2>2
<1>10. AlwaysReadable'
  BY <1>1 DEF AlwaysReadable, OwnTmp, Undisturbed
<1> QED
  BY <1>2, <1>6, <1>7, <1>9, <1>10

LEMMA StepSave == SaveInv /\ [Next]_vars => SaveInv'
<1> SUFFICES ASSUME SaveInv, [Next]_vars PROVE SaveInv'
  OBVIOUS
<1>1. ASSUME NEW c \in Cmds, Cmd(c) PROVE SaveInv'
  <2>1. CASE CmdLoad(c) /\ file.data # "whole"
    BY <2>1, CommandEnds DEF CmdLoad, Step, fileVars, SaveInv, Shapes
  <2>2. CASE CmdRenameFails(c)
    BY <2>2, CommandEnds DEF CmdRenameFails, Step, fileVars, SaveInv, Shapes
  <2>3. CASE CmdKilled(c)
    <3>1. at' = [at EXCEPT ![c] = "none"] /\ at \in [Cmds -> {"none", "tmp", "file"}]
      BY <2>3 DEF CmdKilled, SaveInv, Shapes
    <3>2. at' \in [Cmds -> {"none", "tmp", "file"}] /\ \A d \in Cmds \ {c} : at'[d] = at[d]
      BY <3>1
    <3>3. cmd' = [cmd EXCEPT ![c] = "killed"] /\ UNCHANGED <<file, tmp, clock, held, alone, clash>>
      BY <2>3 DEF CmdKilled, Step
    <3> QED
      BY <3>2, <3>3, CommandEnds
  <2> QED
    BY <1>1, <2>1, <2>2, <2>3, StartKeeps, LoadKeeps, TruncateKeeps, WriteKeeps, RenameKeeps DEF Cmd
<1>2. ASSUME (\E r \in Reqs : Load(r)) \/ UNCHANGED vars PROVE SaveInv'
  <2>1. UNCHANGED <<file, tmp, clock, at, cmd, held, alone, clash>>
    BY <1>2 DEF Load, Request, Stat, Read, SetCache, SetMod, fileVars, cmdVars, vars
  <2> QED
    BY <2>1
    DEF SaveInv, Shapes, AloneIsAlone, OneSaves, OwnTmp, HoldsOwn, KeptEverywhere, AlwaysReadable,
        Running, Saving, Undisturbed, HasLoaded, DoneForGood, Everywhere
<1> QED
  BY <1>1, <1>2 DEF Next

LEMMA SaveHolds == Spec => []SaveInv
  BY InitSave, StepSave, PTL DEF Spec

\* Store.save through a temporary file and a rename: for any commands, overlapping,
\* failing or killed, a change that was reported done by a command that ran alone
\* stays in the file.
THEOREM DoneNeverLost == Spec => []DoneIsKept
<1>1. SaveInv => DoneIsKept
  BY DEF SaveInv, KeptEverywhere, Everywhere, DoneIsKept
<1> QED
  BY <1>1, SaveHolds, PTL

\* No moment of a save, no command killed in it, and no commands side by side of
\* which one saves at a time leave credentials that cannot be read.
THEOREM FileAlwaysReadable == Spec => []AlwaysReadable
<1>1. SaveInv => AlwaysReadable
  BY DEF SaveInv
<1> QED
  BY <1>1, SaveHolds, PTL

---------------------------------------------------------------------------
(* The requests *)

StoreShapes ==
    /\ cache \in [known : BOOLEAN, content : SUBSET Cmds] /\ cacheMod \in Nat /\ cacheFrom \in Nat
    /\ pc \in [Reqs -> {"idle", "stat", "read", "cache", "mod", "answered"}]
    /\ stat \in [Reqs -> Nat]
    /\ got \in [Reqs -> [known : BOOLEAN, content : SUBSET Cmds]]
    /\ owed \in [Reqs -> SUBSET Cmds]
    /\ crossed \in BOOLEAN /\ mixed \in [Reqs -> BOOLEAN]

\* No date is in the future; the temporary file of a command that runs alone is
\* younger than all that has been looked at.
Dated ==
    /\ file.mtime < clock /\ tmp.mtime < clock /\ cacheFrom < clock
    /\ \A r \in Reqs : stat[r] < clock
    /\ \A c \in Cmds : alone[c] /\ Saving(c) =>
          /\ file.mtime < tmp.mtime /\ cacheFrom < tmp.mtime
          /\ \A r \in Reqs : stat[r] < tmp.mtime

\* A date older than the file has, or can get by a rename.
Old(m) == m < file.mtime /\ (tmp.data # "none" => m < tmp.mtime)

\* What lacks a change that is done for good was looked for before the change.
LackIsOld ==
    \A c \in Cmds : DoneForGood(c) =>
        /\ cache.known /\ c \notin cache.content => Old(cacheFrom)
        /\ \A r \in Reqs : pc[r] \in {"cache", "mod"} /\ c \notin got[r].content => Old(stat[r])

\* While no two loads with different dates have met, the cache has one load's
\* payload and date, or that of a load between its two stores.
Tidy ==
    ~crossed =>
        /\ cacheMod <= cacheFrom
        /\ \A r \in Reqs : Loading(r) => cacheMod <= stat[r]
        /\ \A r \in Reqs : pc[r] = "mod" => cacheFrom = stat[r]
        /\ \A q, r \in Reqs : Loading(q) /\ Loading(r) => stat[q] = stat[r]

Known ==
    /\ \A r \in Reqs : pc[r] \in {"stat", "read"} => ~got[r].known
    /\ \A r \in Reqs : pc[r] \in {"cache", "mod"} => got[r].known
    /\ \A r \in Reqs : pc[r] = "mod" => cache.known
    /\ ~cache.known => cacheMod = 0

OwedIsDone == \A r \in Reqs : \A c \in owed[r] : DoneForGood(c)

AnswerIsNew ==
    \A r \in Reqs :
        pc[r] \in {"cache", "mod", "answered"} /\ got[r].known
            => owed[r] \subseteq got[r].content \/ (mixed[r] /\ crossed)

LoadInv == StoreShapes /\ Dated /\ LackIsOld /\ Tidy /\ Known /\ OwedIsDone /\ AnswerIsNew

LEMMA InitLoad == Init => LoadInv
<1> SUFFICES ASSUME Init PROVE LoadInv
  OBVIOUS
<1>1. NoCache \in [known : BOOLEAN, content : SUBSET Cmds] /\ ~NoCache.known
  BY DEF NoCache
<1>2. StoreShapes
  BY <1>1 DEF Init, StoreShapes
<1>3. file.mtime = 1 /\ tmp.mtime = 0 /\ clock = 2 /\ cacheFrom = 0 /\ cacheMod = 0 /\ cache = NoCache
  BY DEF Init, NoTmp
<1>4. \A r \in Reqs : pc[r] = "idle" /\ stat[r] = 0 /\ owed[r] = {}
  BY DEF Init
<1>5. \A c \in Cmds : cmd[c] = "idle"
  BY DEF Init
<1>6. Dated
  BY <1>3, <1>4, <1>5 DEF Dated, Saving
<1> QED
  BY <1>1, <1>2, <1>3, <1>4, <1>5, <1>6
  DEF LoadInv, LackIsOld, DoneForGood, Tidy, Loading, Known, OwedIsDone, AnswerIsNew

\* What a command's step does to the dates of the two inodes.
LEMMA CommandDates ==
    ASSUME SaveInv, NEW c \in Cmds, Cmd(c)
    PROVE  \/ /\ UNCHANGED <<file, tmp, clock>>
              /\ \A d \in Cmds : alone'[d] /\ Saving(d)' => alone[d] /\ Saving(d)
           \/ CmdTruncate(c) \/ CmdWrite(c) \/ CmdRename(c)
<1> USE DEF SaveInv, Shapes, Saving, Step
<1>1. CASE CmdStart(c)
  BY <1>1 DEF CmdStart, fileVars
<1>2. CASE CmdLoad(c)
  BY <1>2 DEF CmdLoad, fileVars
<1>3. CASE CmdRenameFails(c)
  BY <1>3 DEF CmdRenameFails, fileVars
<1>4. CASE CmdKilled(c)
  BY <1>4 DEF CmdKilled
<1> QED
  BY <1>1, <1>2, <1>3, <1>4 DEF Cmd

\* A change that is done for good stays so, and a new one is its command's rename.
LEMMA GoodForEver ==
    ASSUME SaveInv, NEW c \in Cmds, Cmd(c), NEW d \in Cmds
    PROVE  /\ DoneForGood(d) => DoneForGood(d)'
           /\ DoneForGood(d)' /\ ~DoneForGood(d) => CmdRename(c) /\ d = c /\ alone[c]
<1> USE DEF SaveInv, Shapes, DoneForGood, Step
<1>1. CASE CmdStart(c)
  BY <1>1 DEF CmdStart, Running
<1>2. CASE CmdLoad(c) \/ CmdTruncate(c) \/ CmdWrite(c) \/ CmdRenameFails(c) \/ CmdKilled(c)
  <2>1. /\ alone' = alone
        /\ \E s \in {"write", "truncated", "written", "failed", "killed"} : cmd' = [cmd EXCEPT ![c] = s]
        /\ cmd[c] # "done"
    BY <1>2 DEF CmdLoad, CmdTruncate, CmdWrite, CmdRenameFails, CmdKilled, Running
  <2> QED
    BY <2>1
<1>3. CASE CmdRename(c)
  BY <1>3 DEF CmdRename
<1> QED
  BY <1>1, <1>2, <1>3 DEF Cmd

\* An old date stays old.
LEMMA OldStays ==
    ASSUME SaveInv, Dated, NEW c \in Cmds, Cmd(c), NEW m \in Nat, m < clock, Old(m)
    PROVE  Old(m)'
<1>1. file.mtime \in Nat /\ tmp.mtime \in Nat /\ clock \in Nat
  BY DEF SaveInv, Shapes, Inode
<1>2. CASE UNCHANGED <<file, tmp, clock>>
  BY <1>2 DEF Old
<1>3. CASE CmdTruncate(c)
  <2>1. file' = file /\ tmp'.mtime = clock
    BY <1>3 DEF CmdTruncate
  <2> QED
    BY <2>1 DEF Old
<1>4. CASE CmdWrite(c)
  <2>1. /\ file' = file \/ file'.mtime = clock
        /\ tmp' = tmp \/ tmp'.mtime = clock
    BY <1>4 DEF CmdWrite
  <2>2. tmp' = tmp \/ tmp.data # "none" \/ m < tmp'.mtime
    BY <2>1
  <2> QED
    BY <2>1, <2>2 DEF Old
<1>5. CASE CmdRename(c)
  <2>1. file' = tmp /\ tmp.data # "none" /\ tmp'.data = "none"
    BY <1>5 DEF CmdRename, NoTmp
  <2> QED
    BY <2>1 DEF Old
<1> QED
  BY <1>2, <1>3, <1>4, <1>5, CommandDates

LEMMA CommandKeepsDated ==
    ASSUME SaveInv, LoadInv, NEW c \in Cmds, Cmd(c) PROVE Dated'
<1>0. UNCHANGED <<cache, cacheMod, cacheFrom, pc, stat, got, owed, crossed, mixed>>
  BY DEF Cmd, CmdStart, CmdLoad, CmdTruncate, CmdWrite, CmdRename, CmdRenameFails, CmdKilled,
         storeVars, reqVars
<1>1. /\ Dated /\ file.mtime \in Nat /\ tmp.mtime \in Nat /\ clock \in Nat /\ cacheFrom \in Nat
      /\ \A r \in Reqs : stat[r] \in Nat
  BY DEF LoadInv, StoreShapes, SaveInv, Shapes, Inode
<1>2. CASE /\ UNCHANGED <<file, tmp, clock>>
           /\ \A d \in Cmds : alone'[d] /\ Saving(d)' => alone[d] /\ Saving(d)
  BY <1>0, <1>1, <1>2 DEF Dated
<1>3. CASE CmdTruncate(c)
  <2>1. file' = file /\ tmp'.mtime = clock /\ clock' = clock + 1
    BY <1>3 DEF CmdTruncate
  <2> QED
    BY <1>0, <1>1, <2>1 DEF Dated
<1>4. CASE CmdWrite(c)
  <2>1. /\ clock' = clock + 1
        /\ file' = file \/ file'.mtime = clock
        /\ tmp' = tmp \/ tmp'.mtime = clock
    BY <1>4 DEF CmdWrite
  <2>2. ASSUME NEW d \in Cmds, alone'[d], Saving(d)'
        PROVE  /\ file'.mtime < tmp'.mtime /\ cacheFrom < tmp'.mtime
               /\ \A r \in Reqs : stat[r] < tmp'.mtime
    <3>1. d = c /\ alone[c]
      BY <1>4, <2>2 DEF CmdWrite, Step, SaveInv, Shapes, AloneIsAlone, Saving, Running
    <3>2. at[c] = "tmp"
      BY <1>4, <3>1 DEF CmdWrite, SaveInv, OwnTmp, Undisturbed
    <3>3. file' = file /\ tmp'.mtime = clock
      BY <1>4, <3>2 DEF CmdWrite
    <3> QED
      BY <1>1, <3>3 DEF Dated
  <2> QED
    BY <1>0, <1>1, <2>1, <2>2 DEF Dated
<1>5. CASE CmdRename(c)
  <2>1. file' = tmp /\ tmp'.mtime = 0 /\ clock' = clock
    BY <1>5 DEF CmdRename, NoTmp
  <2>2. \A d \in Cmds : ~(alone'[d] /\ Saving(d)')
    BY <1>5 DEF CmdRename, Step, SaveInv, Shapes, AloneIsAlone, Saving, Running
  <2> QED
    BY <1>0, <1>1, <2>1, <2>2 DEF Dated
<1> QED
  BY <1>2, <1>3, <1>4, <1>5, CommandDates

LEMMA CommandsOnlyAge ==
    ASSUME SaveInv, LoadInv, NEW c \in Cmds, Cmd(c) PROVE LoadInv'
<1>0. UNCHANGED <<cache, cacheMod, cacheFrom, pc, stat, got, owed, crossed, mixed>>
  BY DEF Cmd, CmdStart, CmdLoad, CmdTruncate, CmdWrite, CmdRename, CmdRenameFails, CmdKilled,
         storeVars, reqVars
<1>1. StoreShapes' /\ Tidy' /\ Known' /\ AnswerIsNew'
  BY <1>0 DEF LoadInv, StoreShapes, Tidy, Known, AnswerIsNew, Loading
<1>2. OwedIsDone'
  BY <1>0, GoodForEver DEF LoadInv, StoreShapes, OwedIsDone
<1>3. /\ Dated /\ cacheFrom \in Nat /\ cacheFrom < clock
      /\ \A r \in Reqs : stat[r] \in Nat /\ stat[r] < clock
  BY DEF LoadInv, StoreShapes, Dated
<1>4. LackIsOld'
  <2> SUFFICES ASSUME NEW d \in Cmds, DoneForGood(d)'
               PROVE  /\ cache.known /\ d \notin cache.content => Old(cacheFrom)'
                      /\ \A r \in Reqs : pc[r] \in {"cache", "mod"} /\ d \notin got[r].content => Old(stat[r])'
    BY <1>0 DEF LackIsOld, Old
  <2>1. CASE DoneForGood(d)
    <3>1. \A m \in Nat : m < clock /\ Old(m) => Old(m)'
      BY <1>3, OldStays
    <3>2. /\ cache.known /\ d \notin cache.content => Old(cacheFrom)
          /\ \A r \in Reqs : pc[r] \in {"cache", "mod"} /\ d \notin got[r].content => Old(stat[r])
      BY <2>1 DEF LoadInv, LackIsOld
    <3> QED
      BY <1>0, <1>3, <3>1, <3>2 DEF Old
  <2>2. CASE ~DoneForGood(d)
    <3>1. CmdRename(c) /\ alone[c]
      BY <2>2, GoodForEver
    <3>2. file' = tmp /\ tmp'.data = "none" /\ Saving(c)
      BY <3>1 DEF CmdRename, NoTmp, Saving
    <3> QED
      BY <1>0, <1>3, <3>1, <3>2 DEF Dated, Old
  <2> QED
    BY <2>1, <2>2
<1> QED
  BY <1>1, <1>2, <1>4, CommandKeepsDated DEF LoadInv

\* The steps of a request leave the files and the commands alone.
LEMMA RequestsOnlyRead ==
    ASSUME NEW r \in Reqs, Load(r)
    PROVE  /\ UNCHANGED <<file, tmp, clock, at, cmd, held, alone, clash>>
           /\ \A c \in Cmds : (DoneForGood(c)' <=> DoneForGood(c)) /\ (Saving(c)' <=> Saving(c))
           /\ \A m \in Nat : Old(m)' <=> Old(m)
<1>1. UNCHANGED <<file, tmp, clock, at, cmd, held, alone, clash>>
  BY DEF Load, Request, Stat, Read, SetCache, SetMod, fileVars, cmdVars
<1> QED
  BY <1>1 DEF DoneForGood, Saving, Old

LEMMA RequestKeeps == ASSUME SaveInv, LoadInv, NEW r \in Reqs, Request(r) PROVE LoadInv'
<1> USE DEF LoadInv, StoreShapes
<1>1. /\ pc' = [pc EXCEPT ![r] = "stat"] /\ owed' = [owed EXCEPT ![r] = {c \in Cmds : DoneForGood(c)}]
      /\ got' = [got EXCEPT ![r] = NoCache] /\ mixed' = [mixed EXCEPT ![r] = FALSE]
      /\ ~Loading(r)
      /\ UNCHANGED <<file, tmp, clock, cmd, alone, cache, cacheMod, cacheFrom, stat, crossed>>
  BY DEF Request, Go, fileVars, cmdVars, storeVars, Loading
<1>2. NoCache \in [known : BOOLEAN, content : SUBSET Cmds] /\ ~NoCache.known
  BY DEF NoCache
<1>3. StoreShapes'
  BY <1>1, <1>2
<1>4. \A q \in Reqs : /\ q # r => pc'[q] = pc[q] /\ got'[q] = got[q] /\ owed'[q] = owed[q] /\ mixed'[q] = mixed[q]
                      /\ q = r => /\ pc'[q] = "stat" /\ ~got'[q].known
                                  /\ owed'[q] = {c \in Cmds : DoneForGood(c)}
  BY <1>1, <1>2
<1>5. \A c \in Cmds : (DoneForGood(c)' <=> DoneForGood(c)) /\ (Saving(c)' <=> Saving(c))
  BY <1>1 DEF DoneForGood, Saving
<1>6. Dated'
  BY <1>1, <1>5 DEF Dated
<1>7. LackIsOld'
  BY <1>1, <1>4, <1>5 DEF LackIsOld, Old
<1>8. Tidy'
  <2>1. \A q \in Reqs : (Loading(q)' => Loading(q)) /\ (pc'[q] = "mod" => pc[q] = "mod")
    BY <1>1, <1>4 DEF Loading
  <2> QED
    BY <1>1, <2>1 DEF Tidy
<1>9. Known'
  BY <1>1, <1>4 DEF Known
<1>10. OwedIsDone' /\ AnswerIsNew'
  BY <1>1, <1>4, <1>5 DEF OwedIsDone, AnswerIsNew
<1> QED
  BY <1>3, <1>6, <1>7, <1>8, <1>9, <1>10

LEMMA StatKeeps == ASSUME SaveInv, LoadInv, NEW r \in Reqs, Stat(r) PROVE LoadInv'
<1> USE DEF LoadInv, StoreShapes
<1>1. /\ pc[r] = "stat" /\ stat' = [stat EXCEPT ![r] = file.mtime]
      /\ UNCHANGED <<file, tmp, clock, cmd, alone, cache, cacheMod, cacheFrom, owed>>
      /\ \A c \in Cmds : (DoneForGood(c)' <=> DoneForGood(c)) /\ (Saving(c)' <=> Saving(c))
  BY RequestsOnlyRead DEF Load, Stat, storeVars
<1>2. /\ file.mtime \in Nat /\ tmp.mtime \in Nat
      /\ \A q \in Reqs : /\ q # r => stat'[q] = stat[q]
                         /\ q = r => stat'[q] = file.mtime
  BY <1>1 DEF SaveInv, Shapes, Inode
<1>3. Dated'
  BY <1>1, <1>2 DEF Dated
<1>4. CASE cache.known /\ file.mtime <= cacheMod
  <2>1. /\ got' = [got EXCEPT ![r] = cache] /\ pc' = [pc EXCEPT ![r] = "answered"]
        /\ mixed' = [mixed EXCEPT ![r] = cacheFrom < cacheMod] /\ crossed' = crossed
    BY <1>4 DEF Stat, Go
  <2>2. StoreShapes'
    BY <1>1, <1>2, <2>1
  <2>3. \A q \in Reqs : /\ q # r => pc'[q] = pc[q] /\ got'[q] = got[q] /\ mixed'[q] = mixed[q]
                        /\ q = r => /\ pc'[q] = "answered" /\ got'[q] = cache
                                    /\ mixed'[q] <=> cacheFrom < cacheMod
    BY <2>1
  <2>4. LackIsOld'
    BY <1>1, <1>2, <2>3 DEF LackIsOld, Old
  <2>5. Tidy' /\ Known' /\ OwedIsDone'
    BY <1>1, <1>2, <2>1, <2>3 DEF Tidy, Known, OwedIsDone, Loading
  <2>6. owed[r] \subseteq cache.content \/ (cacheFrom < cacheMod /\ crossed)
    <3>1. ASSUME NEW c \in owed[r], c \notin cache.content PROVE cacheFrom < cacheMod
      <4>1. Old(cacheFrom)
        BY <1>4, <3>1 DEF OwedIsDone, LackIsOld
      <4> QED
        BY <1>2, <1>4, <4>1 DEF Old
    <3>2. cacheFrom < cacheMod => crossed
      BY DEF Tidy
    <3> QED
      BY <3>1, <3>2
  <2>7. AnswerIsNew'
    BY <1>1, <2>1, <2>3, <2>6 DEF AnswerIsNew
  <2> QED
    BY <1>3, <2>2, <2>4, <2>5, <2>7
<1>5. CASE ~(cache.known /\ file.mtime <= cacheMod)
  <2>1. /\ pc' = [pc EXCEPT ![r] = "read"] /\ got' = got /\ mixed' = mixed
        /\ crossed' = (crossed \/ \E q \in Reqs : Loading(q) /\ stat[q] # file.mtime)
    BY <1>5 DEF Stat, Go
  <2>2. StoreShapes'
    BY <1>1, <1>2, <2>1
  <2>3. \A q \in Reqs : /\ q # r => pc'[q] = pc[q]
                        /\ q = r => pc'[q] = "read"
    BY <2>1
  <2>4. LackIsOld'
    BY <1>1, <1>2, <2>1, <2>3 DEF LackIsOld, Old
  <2>5. cacheMod <= file.mtime
    BY <1>2, <1>5 DEF Known
  <2>6. Tidy'
    <3> SUFFICES ASSUME ~crossed' PROVE Tidy'
      BY DEF Tidy
    <3>1. ~crossed /\ \A q \in Reqs : Loading(q) => stat[q] = file.mtime
      BY <2>1
    <3>2. \A q \in Reqs : Loading(q)' => stat'[q] = file.mtime
      BY <1>2, <2>3, <3>1 DEF Loading
    <3>3. \A q \in Reqs : pc'[q] = "mod" => pc[q] = "mod" /\ stat'[q] = stat[q]
      BY <1>2, <2>3
    <3> QED
      BY <1>1, <2>5, <3>1, <3>2, <3>3 DEF Tidy
  <2>7. Known' /\ OwedIsDone' /\ AnswerIsNew'
    BY <1>1, <2>1, <2>3 DEF Known, OwedIsDone, AnswerIsNew
  <2> QED
    BY <1>3, <2>2, <2>4, <2>6, <2>7
<1> QED
  BY <1>4, <1>5

LEMMA ReadKeeps == ASSUME SaveInv, LoadInv, NEW r \in Reqs, Read(r) PROVE LoadInv'
<1> USE DEF LoadInv, StoreShapes
<1>1. /\ pc[r] = "read"
      /\ UNCHANGED <<file, tmp, clock, cmd, alone, cache, cacheMod, cacheFrom, stat, owed, crossed, mixed>>
      /\ \A c \in Cmds : (DoneForGood(c)' <=> DoneForGood(c)) /\ (Saving(c)' <=> Saving(c))
  BY RequestsOnlyRead DEF Load, Read, storeVars
<1>2. Dated'
  BY <1>1 DEF Dated
<1>3. PICK s \in {"cache", "answered"} : pc' = [pc EXCEPT ![r] = s]
  BY DEF Read, Go
<1>4. \A q \in Reqs : (Loading(q)' => Loading(q)) /\ (pc'[q] = "mod" => pc[q] = "mod")
  BY <1>1, <1>3 DEF Loading
<1>5. Tidy' /\ OwedIsDone'
  BY <1>1, <1>4 DEF Tidy, OwedIsDone
<1>6. CASE file.data = "whole"
  <2>1. got' = [got EXCEPT ![r] = Payload(file.content)] /\ pc' = [pc EXCEPT ![r] = "cache"]
    BY <1>6 DEF Read, Go
  <2>2. /\ Payload(file.content) \in [known : BOOLEAN, content : SUBSET Cmds]
        /\ Payload(file.content).known /\ Payload(file.content).content = file.content
    BY DEF Payload, SaveInv, Shapes, Inode
  <2>3. StoreShapes'
    BY <1>1, <2>1, <2>2
  <2>4. \A q \in Reqs : /\ q # r => pc'[q] = pc[q] /\ got'[q] = got[q]
                        /\ q = r => pc'[q] = "cache" /\ got'[q].known /\ got'[q].content = file.content
    BY <2>1, <2>2
  <2>5. \A c \in Cmds : DoneForGood(c) => c \in file.content
    BY <1>6 DEF SaveInv, KeptEverywhere, Everywhere
  <2>6. LackIsOld'
    BY <1>1, <2>4, <2>5 DEF LackIsOld, Old
  <2>7. Known'
    BY <1>1, <2>4 DEF Known
  <2>8. AnswerIsNew'
    BY <1>1, <2>4, <2>5 DEF AnswerIsNew, OwedIsDone
  <2> QED
    BY <1>2, <1>5, <2>3, <2>6, <2>7, <2>8
<1>7. CASE file.data # "whole"
  <2>1. got' = got /\ pc' = [pc EXCEPT ![r] = "answered"]
    BY <1>7 DEF Read, Go
  <2>2. \A q \in Reqs : q # r => pc'[q] = pc[q]
    BY <2>1
  <2>3. StoreShapes' /\ LackIsOld' /\ Known'
    BY <1>1, <2>1, <2>2 DEF LackIsOld, Old, Known
  <2>4. AnswerIsNew'
    BY <1>1, <2>1, <2>2 DEF AnswerIsNew, Known
  <2> QED
    BY <1>2, <1>5, <2>3, <2>4
<1> QED
  BY <1>6, <1>7

LEMMA SetCacheKeeps == ASSUME SaveInv, LoadInv, NEW r \in Reqs, SetCache(r) PROVE LoadInv'
<1> USE DEF LoadInv, StoreShapes
<1>1. /\ pc[r] = "cache" /\ cache' = got[r] /\ cacheFrom' = stat[r]
      /\ pc' = [pc EXCEPT ![r] = "mod"]
      /\ UNCHANGED <<file, tmp, clock, cmd, alone, cacheMod, stat, got, owed, crossed, mixed>>
      /\ \A c \in Cmds : (DoneForGood(c)' <=> DoneForGood(c)) /\ (Saving(c)' <=> Saving(c))
  BY RequestsOnlyRead DEF Load, SetCache, Go
<1>2. \A q \in Reqs : /\ q # r => pc'[q] = pc[q]
                      /\ q = r => pc'[q] = "mod"
  BY <1>1
<1>3. StoreShapes' /\ Dated'
  BY <1>1 DEF Dated
<1>4. LackIsOld'
  BY <1>1, <1>2 DEF LackIsOld, Old
<1>5. got[r].known
  BY <1>1 DEF Known
<1>6. Known' /\ OwedIsDone' /\ AnswerIsNew'
  BY <1>1, <1>2, <1>5 DEF Known, OwedIsDone, AnswerIsNew
<1>7. Tidy'
  <2> SUFFICES ASSUME ~crossed PROVE Tidy'
    BY <1>1 DEF Tidy
  <2>1. /\ cacheMod <= stat[r]
        /\ \A q \in Reqs : Loading(q) => cacheMod <= stat[q] /\ stat[q] = stat[r]
    BY <1>1 DEF Tidy, Loading
  <2>2. \A q \in Reqs : Loading(q)' => Loading(q)
    BY <1>1, <1>2 DEF Loading
  <2>3. \A q \in Reqs : pc'[q] = "mod" => Loading(q)'
    BY DEF Loading
  <2> QED
    BY <1>1, <2>1, <2>2, <2>3 DEF Tidy
<1> QED
  BY <1>3, <1>4, <1>6, <1>7

LEMMA SetModKeeps == ASSUME SaveInv, LoadInv, NEW r \in Reqs, SetMod(r) PROVE LoadInv'
<1> USE DEF LoadInv, StoreShapes
<1>1. /\ pc[r] = "mod" /\ cacheMod' = stat[r]
      /\ pc' = [pc EXCEPT ![r] = "answered"]
      /\ UNCHANGED <<file, tmp, clock, cmd, alone, cache, cacheFrom, stat, got, owed, crossed, mixed>>
      /\ \A c \in Cmds : (DoneForGood(c)' <=> DoneForGood(c)) /\ (Saving(c)' <=> Saving(c))
  BY RequestsOnlyRead DEF Load, SetMod, Go
<1>2. \A q \in Reqs : /\ q # r => pc'[q] = pc[q]
                      /\ q = r => pc'[q] = "answered"
  BY <1>1
<1>3. StoreShapes' /\ Dated'
  BY <1>1 DEF Dated
<1>4. LackIsOld' /\ Known' /\ OwedIsDone' /\ AnswerIsNew'
  BY <1>1, <1>2 DEF LackIsOld, Old, Known, OwedIsDone, AnswerIsNew
<1>5. Tidy'
  <2> SUFFICES ASSUME ~crossed PROVE Tidy'
    BY <1>1 DEF Tidy
  <2>1. cacheFrom = stat[r] /\ \A q \in Reqs : Loading(q) => stat[q] = stat[r]
    BY <1>1 DEF Tidy, Loading
  <2>2. \A q \in Reqs : (Loading(q)' => Loading(q)) /\ (pc'[q] = "mod" => pc[q] = "mod")
    BY <1>1, <1>2 DEF Loading
  <2>3. stat[r] \in Nat
    OBVIOUS
  <2> QED
    BY <1>1, <2>1, <2>2, <2>3 DEF Tidy
<1> QED
  BY <1>3, <1>4, <1>5

LEMMA StepLoad == SaveInv /\ LoadInv /\ [Next]_vars => LoadInv'
<1> SUFFICES ASSUME SaveInv, LoadInv, [Next]_vars PROVE LoadInv'
  OBVIOUS
<1>1. ASSUME NEW r \in Reqs, Load(r) PROVE LoadInv'
  BY <1>1, RequestKeeps, StatKeeps, ReadKeeps, SetCacheKeeps, SetModKeeps DEF Load
<1>2. CASE UNCHANGED vars
  BY <1>2
  DEF vars, LoadInv, StoreShapes, Dated, Old, LackIsOld, Tidy, Known, OwedIsDone, AnswerIsNew,
      DoneForGood, Saving, Loading
<1> QED
  BY <1>1, <1>2, CommandsOnlyAge DEF Next

\* Store.load: whatever commands and requests run at once, a request works with every
\* change that was done for good when it started, or found the payload of one load
\* under the date of another, and then two loads have overlapped.
THEOREM RequestReloads == Spec => []HotReload
<1>1. LoadInv => HotReload
  BY DEF LoadInv, AnswerIsNew, HotReload
<1> QED
  BY <1>1, SaveHolds, InitLoad, StepLoad, PTL DEF Spec
=============================================================================
