-------------------------- MODULE EngineOps_proofs --------------------------
(***************************************************************************)
(* For any number of requests, CLI commands and browser tabs: the types,   *)
(* the lock invariant, what the lock guarantees, and that a request        *)
(* advances with each of its steps.                                        *)
(***************************************************************************)
EXTENDS EngineOps, TLAPS

LEMMA ManagerOfType == \A j \in Jobs : ManagerOf(j) \in Managers
  BY DEF ManagerOf, Managers, Jobs

\* A publish changes only the channels, and keeps them channels of events.
LEMMA PublishType ==
  ASSUME NEW m, NEW e \in Events, inbox \in [Subs -> Seq(Events)], Publish(m, e)
  PROVE  inbox' \in [Subs -> Seq(Events)]
  BY DEF Publish

LEMMA TakeLockType ==
  ASSUME TypeOK, NEW m \in Managers, NEW k \in OpKinds, TakeLock(m, k)
  PROVE  /\ opSeq' \in [Managers -> Nat]
         /\ busy' \in [Managers -> [seq : Nat, kind : OpKinds \cup {"none"},
                                    done : BOOLEAN, ok : BOOLEAN]]
         /\ inbox' \in [Subs -> Seq(Events)]
  <1>1. [seq |-> opSeq[m] + 1, kind |-> k, ev |-> "start"] \in Events
    BY DEF TypeOK, Events
  <1>2. inbox' \in [Subs -> Seq(Events)]
    BY <1>1, PublishType DEF TypeOK, TakeLock
  <1> QED
    BY <1>2 DEF TypeOK, TakeLock

LEMMA FirstPcType == \A j, k : FirstPc(j, k) \in {"inspect", "upRm", "resolve"}
  BY DEF FirstPc

LEMMA AcceptType ==
  ASSUME TypeOK, NEW j \in Jobs, NEW k \in OpKinds, Accept(j, k),
         todo' \in [Jobs -> {"nothing", "up"}]
  PROVE  TypeOK'
  <1>1. ManagerOf(j) \in Managers
    BY ManagerOfType
  <1>2. /\ opSeq' \in [Managers -> Nat]
        /\ busy' \in [Managers -> [seq : Nat, kind : OpKinds \cup {"none"},
                                   done : BOOLEAN, ok : BOOLEAN]]
        /\ inbox' \in [Subs -> Seq(Events)]
    BY <1>1, TakeLockType DEF Accept
  <1>3. held' \in [Jobs -> OpInfo]
    BY <1>1 DEF Accept, TypeOK, OpInfo, Op
  <1>4. pc' \in [Jobs -> Pcs]
    BY FirstPcType DEF Accept, TypeOK, Pcs, DownPcs, UpPcs
  <1>5. inDown' \in [Jobs -> BOOLEAN] /\ ok' \in [Jobs -> BOOLEAN]
    BY DEF Accept, TypeOK
  <1> QED
    BY <1>2, <1>3, <1>4, <1>5 DEF Accept, TypeOK

LEMMA ContainerType ==
  ASSUME TypeOK,
         \/ container' \in {container, Absent}
         \/ \E j \in Jobs, t \in {"running", "stopped"} : container' = [st |-> t, by |-> j]
  PROVE  container' \in [st : {"absent", "running", "exited", "stopped"},
                         by : Jobs \cup {NoBody}]
  <1>1. CASE container' \in {container, Absent}
    BY <1>1 DEF TypeOK, Absent
  <1>2. CASE \E j \in Jobs, t \in {"running", "stopped"} : container' = [st |-> t, by |-> j]
    BY <1>2
  <1> QED
    BY <1>1, <1>2

LEMMA GotoType ==
  ASSUME TypeOK, NEW j \in Jobs, NEW p \in Pcs, NEW b \in BOOLEAN, Goto(j, p, b),
         container' \in [st : {"absent", "running", "exited", "stopped"},
                         by : Jobs \cup {NoBody}]
  PROVE  TypeOK'
  BY DEF Goto, TypeOK, mgrVars, subVars

\* The goroutine steps other than TryBegin and Finish keep the types.
LEMMA WorkType ==
  ASSUME TypeOK, NEW j \in Jobs, Work(j)
  PROVE  TypeOK'
  <1>1. ManagerOf(j) \in Managers
    BY ManagerOfType
  <1>2. CASE Refuse(j)
    BY <1>2 DEF Refuse, TypeOK, mgrVars, subVars, Pcs
  <1>3. CASE Launch(j)
    BY <1>3 DEF Launch, TypeOK, mgrVars, subVars, Pcs, UpPcs
  <1>4. CASE MustBegin(j)
    <2>1. nested' \in [Jobs -> OpInfo]
      <3>1. \E o \in OpInfo : nested' = [nested EXCEPT ![j] = o]
        BY <1>1, <1>4 DEF MustBegin, TypeOK, OpInfo, Op, OpKinds
      <3> QED
        BY <3>1 DEF TypeOK
    <2>2. /\ opSeq' \in [Managers -> Nat]
          /\ busy' \in [Managers -> [seq : Nat, kind : OpKinds \cup {"none"},
                                     done : BOOLEAN, ok : BOOLEAN]]
          /\ inbox' \in [Subs -> Seq(Events)]
      <3>1. CASE Free(ManagerOf(j))
        <4>1. TakeLock(ManagerOf(j), "down")
          BY <1>4, <3>1 DEF MustBegin
        <4> QED
          BY <4>1, <1>1, TakeLockType DEF OpKinds
      <3>2. CASE ~Free(ManagerOf(j))
        BY <1>4, <3>2 DEF MustBegin, mgrVars, TypeOK
      <3> QED
        BY <3>1, <3>2
    <2>3. pc' \in [Jobs -> Pcs] /\ inDown' \in [Jobs -> BOOLEAN]
      BY <1>4 DEF MustBegin, TypeOK, Pcs, DownPcs
    <2> QED
      BY <2>1, <2>2, <2>3, <1>4 DEF MustBegin, TypeOK
  <1>5. CASE Inspect(j)
    <2>1. container' \in {container, Absent}
      BY <1>5 DEF Inspect
    <2>2. \E p \in {"stop", "rm"} : Goto(j, p, TRUE)
      BY <1>5 DEF Inspect
    <2> QED
      BY <2>1, <2>2, ContainerType, GotoType DEF Pcs, DownPcs
  <1>6. CASE Stop(j)
    <2>1. container' \in [st : {"absent", "running", "exited", "stopped"},
                           by : Jobs \cup {NoBody}]
      BY <1>6 DEF Stop, TypeOK
    <2>2. Goto(j, "rm", TRUE) \/ Goto(j, "finish", FALSE)
      BY <1>6 DEF Stop
    <2> QED
      BY <2>1, <2>2, GotoType DEF Pcs, DownPcs
  <1>7. CASE Remove(j)
    <2>1. container' \in {container, Absent}
      BY <1>7 DEF Remove
    <2>2. \E b \in BOOLEAN : Goto(j, "finish", b)
      BY <1>7 DEF Remove
    <2> QED
      BY <2>1, <2>2, ContainerType, GotoType DEF Pcs
  <1>8. CASE ClearOld(j)
    BY <1>8 DEF ClearOld, Goto, TypeOK, mgrVars, subVars, Pcs, UpPcs, Absent
  <1>9. CASE Run(j)
    <2>1. \/ container' = container
          \/ \E t \in {"running", "stopped"} : container' = [st |-> t, by |-> j]
      BY <1>9 DEF Run
    <2>2. \E b \in BOOLEAN : Goto(j, "finish", b)
      BY <1>9 DEF Run
    <2> QED
      BY <2>1, <2>2, ContainerType, GotoType DEF Pcs
  <1>10. Closing(j) \in OpInfo
    BY DEF Closing, TypeOK
  <1>11. CASE FinishLock(j)
    BY <1>1, <1>10, <1>11 DEF FinishLock, Release, TypeOK, OpInfo, subVars, Pcs
  <1>12. CASE FinishPublish(j)
    <2>1. [seq |-> Closing(j).seq, kind |-> Closing(j).kind, ev |-> "finish"] \in Events
      BY <1>10 DEF OpInfo, Events
    <2>2. inbox' \in [Subs -> Seq(Events)]
      BY <2>1, <1>12, PublishType DEF FinishPublish, TypeOK
    <2>3. pc' \in [Jobs -> Pcs]
      BY <1>12 DEF FinishPublish, TypeOK, Pcs, UpPcs
    <2> QED
      BY <2>2, <2>3, <1>12 DEF FinishPublish, TypeOK, mgrVars
  <1> QED
    BY <1>2, <1>3, <1>4, <1>5, <1>6, <1>7, <1>8, <1>9, <1>11, <1>12 DEF Work

LEMMA TypeInvariant == TypeOK /\ [Next]_vars => TypeOK'
  <1> SUFFICES ASSUME TypeOK, [Next]_vars PROVE TypeOK'
    OBVIOUS
  <1>1. ASSUME NEW j \in ConsoleReqs, NEW k \in Kinds, ConsoleBegin(j, k) PROVE TypeOK'
    <2>1. k \in OpKinds /\ j \in Jobs
      BY KindsAssumption DEF OpKinds, Jobs
    <2> QED
      BY <1>1, <2>1, AcceptType DEF ConsoleBegin, TypeOK
  <1>2. ASSUME NEW j \in ConsoleReqs, ConsoleConflict(j) PROVE TypeOK'
    BY <1>2 DEF ConsoleConflict, TypeOK, mgrVars, subVars, Pcs
  <1>3. ASSUME NEW j \in CliCmds, NEW k \in Kinds, CliBegin(j, k) PROVE TypeOK'
    <2>1. k \in OpKinds /\ j \in Jobs /\ "up" \in OpKinds /\ "down" \in OpKinds
      BY KindsAssumption DEF OpKinds, Jobs
    <2>2. todo' \in [Jobs -> {"nothing", "up"}]
      BY <1>3, <2>1 DEF CliBegin, TypeOK
    <2>3. PICK q \in OpKinds : Accept(j, q)
      BY <1>3, <2>1 DEF CliBegin
    <2> QED
      BY <2>1, <2>2, <2>3, AcceptType
  <1>4. ASSUME NEW j \in Jobs, Work(j) PROVE TypeOK'
    BY <1>4, WorkType
  <1>5. CASE EngineDies \/ DaemonRestarts
    BY <1>5 DEF EngineDies, DaemonRestarts, TypeOK, mgrVars, jobVars, subVars
  <1>6. ASSUME NEW s \in Subs, Subscribe(s) \/ Unsubscribe(s) \/ Receive(s) PROVE TypeOK'
    <2>1. inbox' \in [Subs -> Seq(Events)] /\ subs' \subseteq Subs
      <3>1. CASE Subscribe(s)
        BY <3>1 DEF Subscribe, TypeOK
      <3>2. CASE Unsubscribe(s)
        BY <3>2 DEF Unsubscribe, TypeOK
      <3>3. CASE Receive(s)
        BY <3>3 DEF Receive, TypeOK
      <3> QED
        BY <1>6, <3>1, <3>2, <3>3
    <2> QED
      BY <1>6, <2>1 DEF Subscribe, Unsubscribe, Receive, TypeOK, mgrVars, jobVars
  <1>7. CASE UNCHANGED vars
    BY <1>7 DEF vars, TypeOK
  <1> QED
    BY <1>1, <1>2, <1>3, <1>4, <1>5, <1>6, <1>7 DEF Next

LEMMA InitType == Init => TypeOK
  BY DEF Init, TypeOK, NoOp, Op, OpInfo, OpKinds, Pcs, Absent, NoBody

\* Whatever is requested, and however docker answers, every variable keeps its type.
THEOREM TypeCorrect == Spec => []TypeOK
  <1>1. Init => TypeOK
    BY InitType
  <1>2. TypeOK /\ [Next]_vars => TypeOK'
    BY TypeInvariant
  <1> QED
    BY <1>1, <1>2, PTL DEF Spec

-----------------------------------------------------------------------------
(* The lock invariant *)

Active == {"resolve", "nest", "finish"} \cup DownPcs \cup UpPcs

\* Steps that touch neither the manager nor the jobs.
LEMMA IdleStep ==
  ASSUME LockInv, TypeOK', UNCHANGED <<mgrVars, pc, held, nested, inDown>>
  PROVE  LockInv'
  BY DEF LockInv, LocksHold, Locks, SeqIdentifies, NestedIsOwn, SlotHasOwner, Holding,
         Free, mgrVars, ManagerOf

\* A goroutine that moves on within its operation keeps the slot it has.
LEMMA PcStep ==
  ASSUME LockInv, TypeOK', NEW j \in Jobs, NEW p \in Active,
         pc[j] \in Active, pc' = [pc EXCEPT ![j] = p],
         UNCHANGED <<mgrVars, held, nested, inDown>>,
         p \in UpPcs \cup {"finish"} /\ (held[j].kind # "restart" \/ inDown[j]) => Locks(j),
         p \notin UpPcs \cup {"finish"} => Locks(j),
         p \in DownPcs => inDown[j],
         p \in UpPcs \cup {"resolve", "nest"} => ~inDown[j]
  PROVE  LockInv'
  <1> USE DEF ManagerOf
  <1>1. LocksHold'
    <2> SUFFICES ASSUME NEW i \in Jobs, Locks(i)'
                 PROVE (busy[ManagerOf(i)].seq = held[i].seq /\ ~busy[ManagerOf(i)].done)'
      BY DEF LocksHold
    <2>1. Locks(i)
      <3>1. CASE i = j
        BY <3>1 DEF Locks, LockInv, TypeOK, Active
      <3>2. CASE i # j
        BY <3>2 DEF Locks, LockInv, TypeOK
      <3> QED
        BY <3>1, <3>2
    <2> QED
      BY <2>1 DEF LockInv, LocksHold, mgrVars
  <1>2. SeqIdentifies'
    <2>1. \A i \in Jobs : pc'[i] \notin {"idle", "refused", "done"} =>
                            pc[i] \notin {"idle", "refused", "done"}
      BY DEF Active, DownPcs, UpPcs, LockInv, TypeOK
    <2> QED
      BY <2>1 DEF LockInv, SeqIdentifies, mgrVars
  <1>3. NestedIsOwn'
    BY DEF LockInv, NestedIsOwn, TypeOK
  <1>4. SlotHasOwner'
    <2>1. \A i \in Jobs : Holding(i) => Holding(i)'
      BY DEF Holding, LockInv, TypeOK, mgrVars, Active
    <2> QED
      BY <2>1 DEF LockInv, SlotHasOwner, Free, mgrVars
  <1> QED
    BY <1>1, <1>2, <1>3, <1>4 DEF LockInv

\* Two jobs of one manager never both have the slot.
LEMMA OneLock ==
  ASSUME LockInv, NEW i \in Jobs, NEW j \in Jobs, Locks(i), Locks(j),
         ManagerOf(i) = ManagerOf(j)
  PROVE  i = j
  <1>1. held[i].seq = held[j].seq
    BY DEF LockInv, LocksHold
  <1>2. held[i].seq > 0
    BY DEF LockInv, SeqIdentifies, Locks, DownPcs, UpPcs
  <1> QED
    BY <1>1, <1>2 DEF LockInv, SeqIdentifies

LEMMA AcceptLock ==
  ASSUME LockInv, TypeOK', NEW j \in Jobs, NEW k \in OpKinds, pc[j] = "idle", Accept(j, k)
  PROVE  LockInv'
  <1> DEFINE m == ManagerOf(j)
  <1>0. m \in Managers
    BY ManagerOfType
  <1>1. \A i \in Jobs : i # j => held'[i] = held[i] /\ pc'[i] = pc[i] /\ inDown'[i] = inDown[i]
    BY DEF Accept, LockInv, TypeOK
  <1>2. /\ held'[j] = [seq |-> opSeq[m] + 1, kind |-> k]
        /\ pc'[j] = FirstPc(j, k) /\ inDown'[j] = (k = "down") /\ nested' = nested
    BY DEF Accept, LockInv, TypeOK, Op
  <1>3. /\ opSeq'[m] = opSeq[m] + 1 /\ opSeq[m] \in Nat
        /\ busy'[m].seq = opSeq[m] + 1 /\ ~busy'[m].done
        /\ \A n \in Managers : n # m => opSeq'[n] = opSeq[n] /\ busy'[n] = busy[n]
    BY <1>0 DEF Accept, TakeLock, LockInv, TypeOK
  <1>4. \A i \in Jobs : Locks(i) => ManagerOf(i) # m
    BY DEF Accept, Free, LockInv, LocksHold
  <1>5. \A i \in Jobs : held[i].seq \in Nat /\ held[i].seq <= opSeq[ManagerOf(i)]
    BY DEF LockInv, TypeOK, OpInfo, SeqIdentifies
  <1>6. LocksHold'
    <2> SUFFICES ASSUME NEW i \in Jobs, Locks(i)'
                 PROVE busy'[ManagerOf(i)].seq = held'[i].seq /\ ~busy'[ManagerOf(i)].done
      BY DEF LocksHold, ManagerOf
    <2>1. CASE i = j
      BY <2>1, <1>2, <1>3
    <2>2. CASE i # j
      <3>1. Locks(i)
        BY <2>2, <1>1 DEF Locks
      <3> QED
        BY <3>1, <2>2, <1>1, <1>3, <1>4, ManagerOfType DEF LockInv, LocksHold
    <2> QED
      BY <2>1, <2>2
  <1>7. SeqIdentifies'
    <2>1. \A i \in Jobs : held'[i].seq <= opSeq'[ManagerOf(i)]
      <3> SUFFICES ASSUME NEW i \in Jobs PROVE held'[i].seq <= opSeq'[ManagerOf(i)]
        OBVIOUS
      <3>1. ManagerOf(i) \in Managers /\ opSeq[ManagerOf(i)] \in Nat
        BY ManagerOfType DEF LockInv, TypeOK
      <3> QED
        BY <3>1, <1>1, <1>2, <1>3, <1>5
    <2>2. \A i \in Jobs : pc'[i] \notin {"idle", "refused", "done"} => held'[i].seq > 0
      BY <1>1, <1>2, <1>3 DEF LockInv, SeqIdentifies
    <2>3. \A i, q \in Jobs :
            i # q /\ ManagerOf(i) = ManagerOf(q) /\ held'[i].seq = held'[q].seq
              => held'[i].seq = 0
      <3>1. \A i \in Jobs : i # j /\ ManagerOf(i) = m => held'[i].seq # held'[j].seq
        BY <1>1, <1>2, <1>3, <1>5
      <3>2. \A i, q \in Jobs : i # j /\ q # j /\ i # q /\ ManagerOf(i) = ManagerOf(q)
                                 /\ held'[i].seq = held'[q].seq => held'[i].seq = 0
        BY <1>1 DEF LockInv, SeqIdentifies
      <3> QED
        BY <3>1, <3>2
    <2> QED
      BY <2>1, <2>2, <2>3 DEF SeqIdentifies, ManagerOf
  <1>8. NestedIsOwn'
    <2>1. CASE k = "down"
      <3>1. pc'[j] = "inspect" /\ held'[j].kind = "down"
        BY <2>1, <1>2 DEF FirstPc
      <3>3. inDown'[j]
        BY <2>1, <1>2, Zenon
      <3>2. \A i \in Jobs : nested'[i] = nested[i]
        BY <1>2
      <3> QED
        BY <3>1, <3>2, <3>3, <1>1 DEF LockInv, NestedIsOwn, DownPcs, UpPcs
    <2>2. CASE k # "down"
      <3>1. pc'[j] \in {"upRm", "resolve"} /\ ~inDown'[j]
        BY <1>2, <2>2 DEF FirstPc
      <3>2. pc'[j] \notin DownPcs
        BY <3>1 DEF DownPcs
      <3>3. ASSUME NEW i \in Jobs
            PROVE  /\ pc'[i] \in DownPcs => inDown'[i]
                   /\ pc'[i] \in UpPcs \cup {"resolve", "nest"} => ~inDown'[i]
                   /\ held'[i].kind = "restart" /\ inDown'[i] => nested'[i].seq = held'[i].seq
        <4>1. CASE i = j
          BY <3>1, <3>2, <4>1, Zenon
        <4>2. CASE i # j
          <5>1. held'[i] = held[i] /\ pc'[i] = pc[i] /\ inDown'[i] = inDown[i] /\ nested'[i] = nested[i]
            BY <1>1, <1>2, <4>2, Zenon
          <5> QED
            BY <5>1, Zenon DEF LockInv, NestedIsOwn
        <4> QED
          BY <4>1, <4>2, Zenon
      <3> QED
        BY <3>3, Zenon DEF NestedIsOwn
    <2> QED
      BY <2>1, <2>2
  <1>9. SlotHasOwner'
    <2> SUFFICES ASSUME NEW n \in Managers, ~busy'[n].done
                 PROVE \E i \in Jobs : ManagerOf(i) = n /\ Holding(i)'
      BY DEF SlotHasOwner, Free, ManagerOf
    <2>1. CASE n = m
      <3>1. Holding(j)'
        BY <1>2, <1>3, FirstPcType DEF Holding, DownPcs, UpPcs, ManagerOf
      <3> QED
        BY <3>1, <2>1
    <2>2. CASE n # m
      <3>1. PICK i \in Jobs : ManagerOf(i) = n /\ Holding(i)
        BY <2>2, <1>3 DEF LockInv, SlotHasOwner, Free
      <3>2. i # j
        BY <3>1, <2>2
      <3>3. Holding(i)'
        BY <3>1, <3>2, <2>2, <1>1, <1>3 DEF Holding, ManagerOf
      <3> QED
        BY <3>1, <3>3
    <2> QED
      BY <2>1, <2>2
  <1> QED
    BY <1>6, <1>7, <1>8, <1>9 DEF LockInv

\* mustBegin never gets the lock: the restart that calls it has it.
LEMMA MustBeginLock ==
  ASSUME LockInv, TypeOK', NEW j \in Jobs, MustBegin(j)
  PROVE  LockInv'
  <1> DEFINE m == ManagerOf(j)
  <1>1. Locks(j) /\ ~inDown[j]
    BY DEF MustBegin, Locks, LockInv, NestedIsOwn, UpPcs
  <1>2. ~busy[m].done /\ busy[m].seq = held[j].seq
    BY <1>1 DEF LockInv, LocksHold
  <1>3. /\ UNCHANGED <<busy, opSeq, held>>
        /\ nested' = [nested EXCEPT ![j] = Op(busy[m].seq, busy[m].kind)]
        /\ pc' = [pc EXCEPT ![j] = "inspect"]
        /\ inDown' = [inDown EXCEPT ![j] = TRUE]
    BY <1>2 DEF MustBegin, Free, mgrVars
  <1>4. \A i \in Jobs : i # j => /\ pc'[i] = pc[i] /\ inDown'[i] = inDown[i]
                                 /\ nested'[i] = nested[i]
    BY <1>3 DEF LockInv, TypeOK
  <1>5. pc[j] = "nest" /\ pc'[j] = "inspect" /\ inDown'[j] /\ nested'[j].seq = held[j].seq
    BY <1>2, <1>3 DEF LockInv, TypeOK, Op, MustBegin
  <1>6. LocksHold'
    <2>1. \A i \in Jobs : Locks(i)' => Locks(i)
      BY <1>1, <1>3, <1>4 DEF Locks
    <2> QED
      BY <2>1, <1>3 DEF LockInv, LocksHold, ManagerOf
  <1>7. SeqIdentifies'
    <2>1. \A i \in Jobs : pc'[i] \notin {"idle", "refused", "done"} =>
                            pc[i] \notin {"idle", "refused", "done"}
      BY <1>4, <1>5
    <2> QED
      BY <2>1, <1>3 DEF LockInv, SeqIdentifies, ManagerOf
  <1>8. NestedIsOwn'
    BY <1>3, <1>4, <1>5 DEF LockInv, NestedIsOwn, DownPcs, UpPcs
  <1>9. SlotHasOwner'
    <2>1. \A i \in Jobs : Holding(i) => Holding(i)'
      BY <1>3, <1>4, <1>5 DEF Holding, DownPcs, ManagerOf
    <2> QED
      BY <2>1, <1>3 DEF LockInv, SlotHasOwner, Free, ManagerOf
  <1> QED
    BY <1>6, <1>7, <1>8, <1>9 DEF LockInv

\* The op a job passes to Finish carries the job's own sequence number.
LEMMA ClosingSeq ==
  ASSUME LockInv, NEW j \in Jobs
  PROVE  Closing(j).seq = held[j].seq
  BY DEF Closing, LockInv, NestedIsOwn

LEMMA FinishLockLock ==
  ASSUME LockInv, TypeOK', NEW j \in Jobs, FinishLock(j)
  PROVE  LockInv'
  <1> DEFINE m == ManagerOf(j)
  <1>0. m \in Managers
    BY ManagerOfType
  <1>1. /\ UNCHANGED <<opSeq, held, nested, inDown>>
        /\ pc[j] = "finish" /\ pc'[j] = "publish"
        /\ \A i \in Jobs : i # j => pc'[i] = pc[i]
    BY DEF FinishLock, LockInv, TypeOK
  <1>2. \/ busy' = busy /\ busy[m].seq # held[j].seq
        \/ /\ busy[m].seq = held[j].seq /\ busy'[m].done
           /\ \A n \in Managers : n # m => busy'[n] = busy[n]
    BY <1>0, ClosingSeq DEF FinishLock, Release, LockInv, TypeOK
  <1>3. held[j].seq > 0
    BY <1>1 DEF LockInv, SeqIdentifies
  <1>4. \A i \in Jobs : i # j /\ ManagerOf(i) = m => held[i].seq # held[j].seq
    BY <1>3 DEF LockInv, SeqIdentifies
  <1>5. LocksHold'
    <2> SUFFICES ASSUME NEW i \in Jobs, Locks(i)'
                 PROVE busy'[ManagerOf(i)].seq = held'[i].seq /\ ~busy'[ManagerOf(i)].done
      BY DEF LocksHold, ManagerOf
    <2>1. i # j
      BY <1>1 DEF Locks, DownPcs, UpPcs
    <2>2. Locks(i)
      BY <2>1, <1>1 DEF Locks
    <2>3. busy[ManagerOf(i)].seq = held[i].seq /\ ~busy[ManagerOf(i)].done
      BY <2>2 DEF LockInv, LocksHold
    <2>4. busy'[ManagerOf(i)] = busy[ManagerOf(i)]
      BY <2>1, <2>3, <1>2, <1>4, ManagerOfType
    <2> QED
      BY <2>3, <2>4, <1>1
  <1>6. SeqIdentifies'
    <2>1. \A i \in Jobs : pc'[i] \notin {"idle", "refused", "done"} =>
                            pc[i] \notin {"idle", "refused", "done"}
      BY <1>1
    <2> QED
      BY <2>1, <1>1 DEF LockInv, SeqIdentifies, ManagerOf
  <1>7. NestedIsOwn'
    BY <1>1 DEF LockInv, NestedIsOwn, DownPcs, UpPcs
  <1>8. SlotHasOwner'
    <2> SUFFICES ASSUME NEW n \in Managers, ~busy'[n].done
                 PROVE \E i \in Jobs : ManagerOf(i) = n /\ Holding(i)'
      BY DEF SlotHasOwner, Free, ManagerOf
    <2>1. busy'[n] = busy[n]
      BY <1>2
    <2>2. PICK i \in Jobs : ManagerOf(i) = n /\ Holding(i)
      BY <2>1 DEF LockInv, SlotHasOwner, Free
    <2>3. i # j
      BY <2>1, <2>2, <1>2 DEF Holding
    <2>4. Holding(i)'
      BY <2>1, <2>2, <2>3, <1>1 DEF Holding, ManagerOf
    <2> QED
      BY <2>2, <2>4
  <1> QED
    BY <1>5, <1>6, <1>7, <1>8 DEF LockInv

LEMMA FinishPublishLock ==
  ASSUME LockInv, TypeOK', NEW j \in Jobs, FinishPublish(j)
  PROVE  LockInv'
  <1>1. /\ UNCHANGED <<busy, opSeq, held, nested>>
        /\ pc[j] = "publish" /\ pc'[j] \in {"upRm", "idle", "done"} /\ ~inDown'[j]
        /\ \A i \in Jobs : i # j => pc'[i] = pc[i] /\ inDown'[i] = inDown[i]
        /\ pc'[j] = "upRm" => held[j].kind = "restart"
    BY DEF FinishPublish, LockInv, TypeOK, mgrVars
  <1>2. ~Locks(j)'
    BY <1>1 DEF Locks, UpPcs, DownPcs
  <1>3. LocksHold'
    <2>1. \A i \in Jobs : Locks(i)' => Locks(i)
      BY <1>1, <1>2 DEF Locks
    <2> QED
      BY <2>1, <1>1 DEF LockInv, LocksHold, ManagerOf
  <1>4. SeqIdentifies'
    <2>1. \A i \in Jobs : pc'[i] \notin {"idle", "refused", "done"} =>
                            pc[i] \notin {"idle", "refused", "done"}
      BY <1>1
    <2> QED
      BY <2>1, <1>1 DEF LockInv, SeqIdentifies, ManagerOf
  <1>5. NestedIsOwn'
    BY <1>1 DEF LockInv, NestedIsOwn, DownPcs, UpPcs
  <1>6. SlotHasOwner'
    <2>1. \A i \in Jobs : Holding(i) => Holding(i)'
      BY <1>1 DEF Holding, DownPcs, UpPcs, ManagerOf
    <2> QED
      BY <2>1, <1>1 DEF LockInv, SlotHasOwner, Free, ManagerOf
  <1> QED
    BY <1>3, <1>4, <1>5, <1>6 DEF LockInv

LEMMA ConflictLock ==
  ASSUME LockInv, TypeOK', NEW j \in Jobs, ConsoleConflict(j)
  PROVE  LockInv'
  <1>1. /\ UNCHANGED <<busy, opSeq, held, nested, inDown>>
        /\ pc[j] = "idle" /\ pc'[j] = "refused"
        /\ \A i \in Jobs : i # j => pc'[i] = pc[i]
    BY DEF ConsoleConflict, LockInv, TypeOK, mgrVars
  <1>2. LocksHold'
    <2>1. \A i \in Jobs : Locks(i)' => Locks(i)
      BY <1>1 DEF Locks, DownPcs, UpPcs
    <2> QED
      BY <2>1, <1>1 DEF LockInv, LocksHold, ManagerOf
  <1>3. SeqIdentifies'
    BY <1>1 DEF LockInv, SeqIdentifies, ManagerOf
  <1>4. NestedIsOwn'
    BY <1>1 DEF LockInv, NestedIsOwn, DownPcs, UpPcs
  <1>5. SlotHasOwner'
    <2>1. \A i \in Jobs : Holding(i) => Holding(i)'
      BY <1>1 DEF Holding, DownPcs, UpPcs, ManagerOf
    <2> QED
      BY <2>1, <1>1 DEF LockInv, SlotHasOwner, Free, ManagerOf
  <1> QED
    BY <1>2, <1>3, <1>4, <1>5 DEF LockInv

LEMMA WorkLock ==
  ASSUME LockInv, TypeOK', NEW j \in Jobs, Work(j)
  PROVE  LockInv'
  <1> USE DEF Goto, mgrVars
  <1>0. /\ pc[j] \in DownPcs => inDown[j]
        /\ pc[j] \in UpPcs \cup {"resolve", "nest"} => ~inDown[j]
    BY DEF LockInv, NestedIsOwn
  <1>1. CASE Refuse(j)
    BY <1>1, PcStep DEF Refuse, Active, Locks, UpPcs, DownPcs
  <1>2. CASE Launch(j)
    <2>1. pc[j] = "resolve" /\ Locks(j) /\ ~inDown[j]
      BY <1>2, <1>0 DEF Launch, Locks, UpPcs
    <2>2. CASE held[j].kind = "restart"
      BY <1>2, <2>1, <2>2, PcStep DEF Launch, Active, UpPcs, DownPcs
    <2>3. CASE held[j].kind # "restart"
      BY <1>2, <2>1, <2>3, PcStep DEF Launch, Active, UpPcs, DownPcs
    <2> QED
      BY <2>2, <2>3
  <1>3. CASE Inspect(j) \/ Stop(j) \/ Remove(j)
    <2>1. /\ pc[j] \in DownPcs
          /\ UNCHANGED <<mgrVars, held, nested, inDown>>
          /\ \E p \in {"stop", "rm", "finish"} : pc' = [pc EXCEPT ![j] = p]
      BY <1>3 DEF Inspect, Stop, Remove, DownPcs
    <2>2. Locks(j) /\ inDown[j]
      BY <2>1, <1>0 DEF Locks, DownPcs, UpPcs
    <2> QED
      BY <2>1, <2>2, PcStep DEF Active, UpPcs, DownPcs
  <1>4. CASE ClearOld(j) \/ Run(j)
    <2>1. /\ pc[j] \in UpPcs /\ ~inDown[j]
          /\ UNCHANGED <<mgrVars, held, nested, inDown>>
          /\ \E p \in {"run", "finish"} : pc' = [pc EXCEPT ![j] = p]
      BY <1>4, <1>0 DEF ClearOld, Run, UpPcs
    <2>2. held[j].kind # "restart" => Locks(j)
      BY <2>1 DEF Locks
    <2> QED
      BY <2>1, <2>2, PcStep DEF Active, UpPcs, DownPcs
  <1> QED
    BY <1>1, <1>2, <1>3, <1>4, MustBeginLock, FinishLockLock, FinishPublishLock DEF Work

LEMMA LockInvariant == LockInv /\ [Next]_vars => LockInv'
  <1> SUFFICES ASSUME LockInv, [Next]_vars PROVE LockInv'
    OBVIOUS
  <1>0. TypeOK'
    BY TypeInvariant DEF LockInv
  <1>1. ASSUME NEW j \in ConsoleReqs, NEW k \in Kinds, ConsoleBegin(j, k) PROVE LockInv'
    BY <1>0, <1>1, AcceptLock, KindsAssumption DEF ConsoleBegin, Jobs, OpKinds
  <1>2. ASSUME NEW j \in ConsoleReqs, ConsoleConflict(j) PROVE LockInv'
    BY <1>0, <1>2, ConflictLock DEF Jobs
  <1>3. ASSUME NEW j \in CliCmds, NEW k \in Kinds, CliBegin(j, k) PROVE LockInv'
    <2>1. PICK q \in OpKinds : Accept(j, q)
      BY <1>3, KindsAssumption DEF CliBegin, OpKinds
    <2> QED
      BY <1>0, <1>3, <2>1, AcceptLock DEF CliBegin, Jobs
  <1>4. ASSUME NEW j \in Jobs, Work(j) PROVE LockInv'
    BY <1>0, <1>4, WorkLock
  <1>5. CASE EngineDies \/ DaemonRestarts
    BY <1>0, <1>5, IdleStep DEF EngineDies, DaemonRestarts, mgrVars, jobVars
  <1>6. ASSUME NEW s \in Subs, Subscribe(s) \/ Unsubscribe(s) \/ Receive(s) PROVE LockInv'
    BY <1>0, <1>6, IdleStep DEF Subscribe, Unsubscribe, Receive, mgrVars, jobVars
  <1>7. CASE UNCHANGED vars
    BY <1>0, <1>7, IdleStep DEF vars, mgrVars
  <1> QED
    BY <1>1, <1>2, <1>3, <1>4, <1>5, <1>6, <1>7 DEF Next

LEMMA InitLock == Init => LockInv
  <1> SUFFICES ASSUME Init PROVE LockInv
    OBVIOUS
  <1>1. \A j \in Jobs : held[j].seq = 0 /\ ~inDown[j] /\ pc[j] = "idle"
    BY DEF Init, Op
  <1>2. \A m \in Managers : Free(m) /\ opSeq[m] = 0
    BY DEF Init, Free, NoOp
  <1> QED
    BY <1>1, <1>2, InitType, ManagerOfType
       DEF LockInv, LocksHold, Locks, SeqIdentifies, NestedIsOwn, SlotHasOwner, DownPcs, UpPcs

LEMMA LockAlways == Spec => []LockInv
  <1>1. Init => LockInv
    BY InitLock
  <1>2. LockInv /\ [Next]_vars => LockInv'
    BY LockInvariant
  <1> QED
    BY <1>1, <1>2, PTL DEF Spec

\* Up and down requests of one manager never run docker commands at the same
\* time; every overlap has the second half of a restart on one side.
THEOREM RestartOverlapOnly == Spec => []OnlyRestartOverlaps
  <1>1. LockInv => OnlyRestartOverlaps
    <2> SUFFICES ASSUME LockInv, NEW i \in Jobs, NEW j \in Jobs,
                        InDocker(i), InDocker(j), i # j, ManagerOf(i) = ManagerOf(j)
                 PROVE \E x \in {i, j} : held[x].kind = "restart" /\ ~inDown[x]
      BY DEF OnlyRestartOverlaps
    <2>1. ~Locks(i) \/ ~Locks(j)
      BY OneLock
    <2>2. \A x \in Jobs : InDocker(x) /\ ~Locks(x) => held[x].kind = "restart" /\ ~inDown[x]
      BY DEF InDocker, Locks
    <2> QED
      BY <2>1, <2>2
  <1> QED
    BY <1>1, LockAlways, PTL

\* A taken slot always has a live goroutine that will free it.
THEOREM SlotNeverOrphaned == Spec => []SlotHasOwner
  <1>1. LockInv => SlotHasOwner
    BY DEF LockInv
  <1> QED
    BY <1>1, LockAlways, PTL

-----------------------------------------------------------------------------
(* Up and down requests of one console: the report is true                 *)

\* A step of the operation tells which operation it is.
PhaseKind ==
  \A j \in Jobs :
    /\ held[j].kind # "restart" /\ pc[j] # "nest"
    /\ pc[j] \in DownPcs => held[j].kind = "down"
    /\ pc[j] \in UpPcs \cup {"resolve"} => held[j].kind = "up"
    /\ pc[j] = "finish" => held[j].kind \in {"up", "down"}

\* The slot shows the kind of the op it records.
KindShown ==
  \A j \in Jobs : held[j].seq > 0 /\ busy[Console].seq = held[j].seq
                    => busy[Console].kind = held[j].kind

\* What an op that has succeeded has done to the container.
Effect(j) ==
  /\ held[j].kind = "up" => container.by = j
  /\ held[j].kind = "down" => container.st = "absent"

EffectDone == \A j \in Jobs : pc[j] = "finish" /\ ok[j] => Effect(j)

ReportInv == LockInv /\ PhaseKind /\ KindShown /\ EffectDone /\ ReportTrue

LEMMA OneManager ==
  ASSUME CliCmds = {}, NEW j \in Jobs
  PROVE  ManagerOf(j) = Console /\ j \in ConsoleReqs
  BY DEF ManagerOf, Jobs

LEMMA ReportAccept ==
  ASSUME ReportInv, LockInv', CliCmds = {}, NEW j \in Jobs, NEW k \in {"up", "down"},
         Accept(j, k)
  PROVE  ReportInv'
  <1>1. /\ \A i \in Jobs : i # j => held'[i] = held[i] /\ pc'[i] = pc[i] /\ ok'[i] = ok[i]
        /\ held'[j] = [seq |-> opSeq[Console] + 1, kind |-> k]
        /\ pc'[j] = FirstPc(j, k)
        /\ container' = container
        /\ ~busy'[Console].done /\ busy'[Console].kind = k
        /\ busy'[Console].seq = opSeq[Console] + 1 /\ opSeq[Console] \in Nat
    BY OneManager DEF Accept, TakeLock, ReportInv, LockInv, TypeOK, Op, Managers
  <1>2. FirstPc(j, k) = IF k = "down" THEN "inspect" ELSE "resolve"
    BY DEF FirstPc
  <1>3. PhaseKind'
    BY <1>1, <1>2 DEF ReportInv, PhaseKind, DownPcs, UpPcs
  <1>4. KindShown'
    <2>1. \A i \in Jobs : held[i].seq \in Nat /\ held[i].seq <= opSeq[Console]
      BY OneManager DEF ReportInv, LockInv, SeqIdentifies, TypeOK, OpInfo
    <2> QED
      BY <1>1, <2>1 DEF KindShown
  <1>5. EffectDone'
    BY <1>1, <1>2 DEF ReportInv, EffectDone, Effect
  <1>6. ReportTrue'
    BY <1>1, OneManager DEF ReportTrue, ManagerOf
  <1> QED
    BY <1>3, <1>4, <1>5, <1>6 DEF ReportInv

\* A docker step is taken by the job that has the slot, so nothing is reported
\* meanwhile and no other job is waiting to report.
LEMMA ReportDocker ==
  ASSUME ReportInv, LockInv', CliCmds = {}, NEW j \in Jobs, NEW p \in Pcs, NEW b \in BOOLEAN,
         Goto(j, p, b), pc[j] \in {"resolve"} \cup DownPcs \cup UpPcs, p # "nest",
         p \in DownPcs => held[j].kind = "down",
         p \in UpPcs => held[j].kind = "up", p # "resolve",
         p = "finish" /\ b => Effect(j)'
  PROVE  ReportInv'
  <1>1. /\ UNCHANGED <<busy, held>>
        /\ \A i \in Jobs : i # j => pc'[i] = pc[i] /\ ok'[i] = ok[i]
        /\ pc'[j] = p /\ ok'[j] = b
    BY DEF Goto, mgrVars, ReportInv, LockInv, TypeOK
  <1>2. Locks(j) /\ ~busy[Console].done
    BY OneManager DEF Locks, ReportInv, PhaseKind, LockInv, LocksHold, UpPcs, DownPcs
  <1>3. \A i \in Jobs : pc[i] = "finish" => i = j
    <2> SUFFICES ASSUME NEW i \in Jobs, pc[i] = "finish" PROVE i = j
      OBVIOUS
    <2>1. Locks(i)
      BY DEF Locks, ReportInv, PhaseKind
    <2> QED
      BY <1>2, <2>1, OneLock, OneManager DEF ReportInv
  <1>4. PhaseKind'
    BY <1>1 DEF ReportInv, PhaseKind
  <1>5. KindShown'
    BY <1>1 DEF ReportInv, KindShown
  <1>6. EffectDone'
    BY <1>1, <1>3 DEF EffectDone
  <1>7. ReportTrue'
    BY <1>1, <1>2, OneManager DEF ReportTrue, ManagerOf
  <1> QED
    BY <1>4, <1>5, <1>6, <1>7 DEF ReportInv

LEMMA ReportFinish ==
  ASSUME ReportInv, LockInv', CliCmds = {}, NEW j \in Jobs, FinishLock(j)
  PROVE  ReportInv'
  <1>1. /\ UNCHANGED <<held, container, ok>>
        /\ pc[j] = "finish" /\ pc'[j] = "publish"
        /\ \A i \in Jobs : i # j => pc'[i] = pc[i]
        /\ Closing(j) = held[j]
    BY DEF FinishLock, ReportInv, LockInv, TypeOK, Closing, PhaseKind
  <1>2. Locks(j) /\ busy[Console].seq = held[j].seq /\ held[j].seq > 0
    BY <1>1, OneManager DEF Locks, ReportInv, PhaseKind, LockInv, LocksHold, SeqIdentifies
  <1>3. busy'[Console] = [seq |-> held[j].seq, kind |-> held[j].kind,
                          done |-> TRUE, ok |-> ok[j]]
    BY <1>1, <1>2, OneManager DEF FinishLock, Release, ReportInv, LockInv, TypeOK, Managers
  <1>4. \A i \in Jobs : held[i].seq = held[j].seq => i = j
    BY <1>2, OneManager DEF ReportInv, LockInv, SeqIdentifies
  <1>5. PhaseKind'
    BY <1>1 DEF ReportInv, PhaseKind, DownPcs, UpPcs
  <1>6. KindShown'
    BY <1>1, <1>3, <1>4 DEF KindShown
  <1>7. EffectDone'
    BY <1>1 DEF ReportInv, EffectDone, Effect
  <1>8. ReportTrue'
    <2>1. ok[j] => Effect(j)
      BY <1>1 DEF ReportInv, EffectDone
    <2>2. busy'[Console].ok = ok[j] /\ busy'[Console].seq = held[j].seq
          /\ busy'[Console].kind = held[j].kind
      BY <1>3
    <2> QED
      BY <1>1, <1>4, <2>1, <2>2, OneManager DEF ReportTrue, ManagerOf, Effect
  <1> QED
    BY <1>5, <1>6, <1>7, <1>8 DEF ReportInv

LEMMA ReportWork ==
  ASSUME ReportInv, LockInv', CliCmds = {}, NEW j \in Jobs, Work(j)
  PROVE  ReportInv'
  <1>0. container \in [st : {"absent", "running", "exited", "stopped"}, by : Jobs \cup {NoBody}]
    BY DEF ReportInv, LockInv, TypeOK
  <1>1. /\ pc[j] # "nest" /\ held[j].kind # "restart"
        /\ pc[j] \in DownPcs => held[j].kind = "down"
        /\ pc[j] \in UpPcs \cup {"resolve"} => held[j].kind = "up"
    BY DEF ReportInv, PhaseKind
  <1>2. CASE Refuse(j)
    <2>1. Goto(j, "finish", FALSE)
      BY <1>2 DEF Refuse, Goto
    <2> QED
      BY <2>1, <1>2, ReportDocker DEF Refuse, Pcs, DownPcs, UpPcs
  <1>3. CASE Launch(j)
    <2>0. held[j].kind = "up"
      BY <1>1, <1>3 DEF Launch
    <2>1. ok[j] \in BOOLEAN /\ Goto(j, "upRm", ok[j])
      BY <1>1, <1>3 DEF Launch, Goto, ReportInv, LockInv, TypeOK
    <2> QED
      BY <2>0, <2>1, <1>3, ReportDocker DEF Launch, Pcs, DownPcs, UpPcs
  <1>4. CASE Inspect(j)
    BY <1>1, <1>4, ReportDocker DEF Inspect, Pcs, DownPcs, UpPcs
  <1>5. CASE Stop(j)
    BY <1>1, <1>5, ReportDocker DEF Stop, Pcs, DownPcs, UpPcs
  <1>6. CASE Remove(j)
    <2>1. pc[j] = "rm" /\ held[j].kind = "down"
      BY <1>1, <1>6 DEF Remove, DownPcs
    <2>2. \/ container' = Absent /\ Goto(j, "finish", TRUE)
          \/ Goto(j, "finish", FALSE)
      BY <1>6 DEF Remove
    <2>3. container' = Absent /\ Goto(j, "finish", TRUE) => Effect(j)'
      BY <2>1 DEF Effect, Absent, Goto
    <2> QED
      BY <2>1, <2>2, <2>3, ReportDocker DEF Pcs, DownPcs, UpPcs
  <1>7. CASE ClearOld(j)
    BY <1>1, <1>7, ReportDocker DEF ClearOld, Pcs, DownPcs, UpPcs
  <1>8. CASE Run(j)
    <2>1. pc[j] = "run" /\ held[j].kind = "up"
      BY <1>1, <1>8 DEF Run, UpPcs
    <2>2. \/ container' = [st |-> "running", by |-> j] /\ Goto(j, "finish", TRUE)
          \/ Goto(j, "finish", FALSE)
      BY <1>8 DEF Run
    <2>3. container' = [st |-> "running", by |-> j] /\ Goto(j, "finish", TRUE) => Effect(j)'
      BY <2>1 DEF Effect, Goto
    <2> QED
      BY <2>1, <2>2, <2>3, ReportDocker DEF Pcs, DownPcs, UpPcs
  <1>9. CASE FinishPublish(j)
    <2>1. /\ UNCHANGED <<busy, held, container, ok>>
          /\ pc'[j] \in {"idle", "done"}
          /\ \A i \in Jobs : i # j => pc'[i] = pc[i]
      BY <1>1, <1>9 DEF FinishPublish, mgrVars, ReportInv, LockInv, TypeOK
    <2> QED
      BY <2>1 DEF ReportInv, PhaseKind, KindShown, EffectDone, Effect, ReportTrue,
                  ManagerOf, DownPcs, UpPcs
  <1> QED
    BY <1>1, <1>2, <1>3, <1>4, <1>5, <1>6, <1>7, <1>8, <1>9, ReportFinish DEF Work, MustBegin

LEMMA ReportInvariant ==
  ASSUME Kinds \subseteq {"up", "down"}, CliCmds = {}
  PROVE  ReportInv /\ [Next]_vars => ReportInv'
  <1> SUFFICES ASSUME ReportInv, [Next]_vars PROVE ReportInv'
    OBVIOUS
  <1>0. LockInv'
    BY LockInvariant DEF ReportInv
  <1>1. ASSUME NEW j \in ConsoleReqs, NEW k \in Kinds, ConsoleBegin(j, k) PROVE ReportInv'
    BY <1>0, <1>1, ReportAccept DEF ConsoleBegin, Jobs
  <1>2. ASSUME NEW j \in ConsoleReqs, ConsoleConflict(j) PROVE ReportInv'
    <2>1. /\ UNCHANGED <<busy, held, container, ok>>
          /\ pc'[j] = "refused" /\ j \in Jobs
          /\ \A i \in Jobs : i # j => pc'[i] = pc[i]
      BY <1>2 DEF ConsoleConflict, mgrVars, ReportInv, LockInv, TypeOK, Jobs
    <2> QED
      BY <1>0, <2>1 DEF ReportInv, PhaseKind, KindShown, EffectDone, Effect, ReportTrue,
                        ManagerOf, DownPcs, UpPcs
  <1>3. ASSUME NEW j \in Jobs, Work(j) PROVE ReportInv'
    BY <1>0, <1>3, ReportWork
  <1>4. CASE EngineDies \/ DaemonRestarts
    <2>1. UNCHANGED <<busy, held, pc, ok>>
      BY <1>4 DEF EngineDies, DaemonRestarts, mgrVars, jobVars
    <2>2. container'.by = container.by /\ (container.st = "absent" => container'.st = "absent")
      BY <1>4 DEF EngineDies, DaemonRestarts, ReportInv, LockInv, TypeOK
    <2> QED
      BY <1>0, <2>1, <2>2 DEF ReportInv, PhaseKind, KindShown, EffectDone, Effect,
                              ReportTrue, ManagerOf
  <1>5. ASSUME UNCHANGED <<busy, held, pc, ok, container>> PROVE ReportInv'
    BY <1>0, <1>5 DEF ReportInv, PhaseKind, KindShown, EffectDone, Effect,
                      ReportTrue, ManagerOf
  <1>6. ASSUME NEW s \in Subs, Subscribe(s) \/ Unsubscribe(s) \/ Receive(s) PROVE ReportInv'
    BY <1>5, <1>6 DEF Subscribe, Unsubscribe, Receive, mgrVars, jobVars
  <1>7. CASE UNCHANGED vars
    BY <1>5, <1>7 DEF vars
  <1> QED
    BY <1>1, <1>2, <1>3, <1>4, <1>6, <1>7 DEF Next

LEMMA ReportAlways ==
  ASSUME Kinds \subseteq {"up", "down"}, CliCmds = {}
  PROVE  Spec => []ReportInv
  <1>1. Init => ReportInv
    <2> SUFFICES ASSUME Init PROVE ReportInv
      OBVIOUS
    <2>1. /\ \A j \in Jobs : pc[j] = "idle" /\ held[j] = [seq |-> 0, kind |-> "none"]
          /\ \A m \in Managers : busy[m].kind = "none"
      BY DEF Init, Op, NoOp
    <2> QED
      BY <2>1, InitLock, ManagerOfType
         DEF ReportInv, PhaseKind, KindShown, EffectDone, ReportTrue, DownPcs, UpPcs
  <1>2. ReportInv /\ [Next]_vars => ReportInv'
    BY ReportInvariant
  <1> QED
    BY <1>1, <1>2, PTL DEF Spec

\* With up and down requests only, and no command line beside the console, the
\* record that the status surfaces show is true of the container.
THEOREM UpDownReportTrue ==
  ASSUME Kinds \subseteq {"up", "down"}, CliCmds = {}
  PROVE  Spec => []ReportTrue
  <1>1. ReportInv => ReportTrue
    BY DEF ReportInv
  <1> QED
    BY <1>1, ReportAlways, PTL

-----------------------------------------------------------------------------
(* Up and down requests of one console implement SerialEngine              *)

\* The job the slot records is the one with its sequence number.
LEMMA RecordedJob ==
  ASSUME ReportInv, CliCmds = {}, NEW j \in Jobs, held[j].seq = busy[Console].seq, held[j].seq > 0
  PROVE  (CHOOSE i \in Jobs : held[i].seq = busy[Console].seq) = j
  <1>1. \A i \in Jobs : held[i].seq = busy[Console].seq => i = j
    BY OneManager DEF ReportInv, LockInv, SeqIdentifies
  <1> QED
    BY <1>1

\* A job at one of its docker commands, or about to finish, is the owner.
LEMMA OwnerIs ==
  ASSUME ReportInv, CliCmds = {}, NEW j \in Jobs, pc[j] \in DownPcs \cup UpPcs \cup {"finish"}
  PROVE  /\ Owner = j /\ Owner # NoBody /\ Task = held[j].kind
         /\ ~Free(Console) /\ busy[Console].seq = held[j].seq /\ held[j].seq > 0
  <1>1. Locks(j) /\ pc[j] \notin {"idle", "refused", "done"}
    BY DEF Locks, ReportInv, PhaseKind, DownPcs, UpPcs
  <1>2. ~Free(Console) /\ busy[Console].seq = held[j].seq /\ held[j].seq > 0
    BY <1>1, OneManager DEF ReportInv, LockInv, LocksHold, SeqIdentifies, Free
  <1>3. Owner = j
    BY <1>2, RecordedJob DEF Owner
  <1>4. Task = held[j].kind
    BY <1>2 DEF Task, ReportInv, KindShown
  <1> QED
    BY <1>2, <1>3, <1>4, NoBodyAssumption

LEMMA SameMapping == ASSUME UNCHANGED <<busy, held>> PROVE UNCHANGED <<Owner, Task, Report>>
  BY DEF Owner, Task, Report, Free

LEMMA AcceptImplements ==
  ASSUME ReportInv, ReportInv', CliCmds = {}, NEW j \in Jobs, NEW k \in {"up", "down"}, Accept(j, k)
  PROVE  Serial!Next
  <1>1. /\ Free(Console) /\ container' = container
        /\ held'[j].seq = opSeq[Console] + 1 /\ opSeq[Console] \in Nat
        /\ busy'[Console] = [seq |-> opSeq[Console] + 1, kind |-> k, done |-> FALSE, ok |-> TRUE]
    BY OneManager DEF Accept, TakeLock, ReportInv, LockInv, TypeOK, Op, Managers
  <1>2. \A i \in Jobs \ {j} : held'[i] = held[i] /\ held[i].seq \in Nat /\ held[i].seq <= opSeq[Console]
    BY OneManager DEF Accept, ReportInv, LockInv, SeqIdentifies, TypeOK, OpInfo
  <1>3. \A i \in Jobs : held'[i].seq = opSeq[Console] + 1 => i = j
    BY <1>1, <1>2
  <1>4. (CHOOSE i \in Jobs : held'[i].seq = opSeq[Console] + 1) = j
    BY <1>1, <1>3
  <1>5. Owner = NoBody /\ Owner' = j
    BY <1>1, <1>4 DEF Owner, Free
  <1>6. Task' = k /\ Report' = Serial!Pending
    BY <1>1 DEF Task, Report, Free, Serial!Pending
  <1> QED
    BY <1>1, <1>5, <1>6 DEF Serial!Next, Serial!Acquire

LEMMA WorkImplements ==
  ASSUME ReportInv, CliCmds = {}, NEW j \in Jobs, Work(j)
  PROVE  Serial!Next \/ UNCHANGED Serial!vars
  <1>0. container \in [st : {"absent", "running", "exited", "stopped"}, by : Jobs \cup {NoBody}]
    BY DEF ReportInv, LockInv, TypeOK
  <1>1. ASSUME UNCHANGED <<busy, held, container>> PROVE UNCHANGED Serial!vars
    BY <1>1, SameMapping DEF Serial!vars
  <1>2. ASSUME UNCHANGED <<busy, held>>, pc[j] \in DownPcs \cup UpPcs,
               \/ container' \in {container, Absent, [container EXCEPT !.st = "stopped"]}
               \/ /\ held[j].kind = "up" /\ container.st = "absent"
                  /\ container' \in [st : {"running", "stopped"}, by : {j}]
        PROVE  Serial!Next \/ UNCHANGED Serial!vars
    <2>1. /\ Owner = j /\ Owner # NoBody /\ Task = held[j].kind
          /\ UNCHANGED <<Owner, Task, Report>>
      BY <1>2, OwnerIs, SameMapping
    <2>2. CASE container' = container
      BY <2>1, <2>2 DEF Serial!vars
    <2>3. CASE container' # container
      <3>1. Serial!Work
        BY <1>2, <2>1, <2>3 DEF Serial!Work, Absent, Serial!Absent
      <3> QED
        BY <3>1 DEF Serial!Next
    <2> QED
      BY <2>2, <2>3
  <1>3. CASE Refuse(j) \/ Launch(j) \/ Inspect(j) \/ FinishPublish(j)
    BY <1>1, <1>3 DEF Refuse, Launch, Inspect, FinishPublish, Goto, mgrVars
  <1>4. CASE MustBegin(j)
    BY <1>4 DEF MustBegin, ReportInv, PhaseKind
  <1>5. CASE Stop(j) \/ Remove(j) \/ ClearOld(j)
    <2>1. /\ UNCHANGED <<busy, held>> /\ pc[j] \in DownPcs \cup UpPcs
          /\ container' \in {container, Absent, [container EXCEPT !.st = "stopped"]}
      BY <1>5 DEF Stop, Remove, ClearOld, Goto, mgrVars, DownPcs, UpPcs
    <2> QED
      BY <1>2, <2>1
  <1>6. CASE Run(j)
    <2>1. UNCHANGED <<busy, held>> /\ pc[j] = "run" /\ pc[j] \in UpPcs
      BY <1>6 DEF Run, Goto, mgrVars, UpPcs
    <2>2. held[j].kind = "up"
      BY <2>1 DEF ReportInv, PhaseKind
    <2>3. \/ container' = container
          \/ container.st = "absent" /\ container' \in [st : {"running", "stopped"}, by : {j}]
      <3>1. \A t \in {"running", "stopped"} : [st |-> t, by |-> j] \in [st : {"running", "stopped"}, by : {j}]
        OBVIOUS
      <3>2. \/ container' = container
            \/ container.st = "absent" /\ \E t \in {"running", "stopped"} : container' = [st |-> t, by |-> j]
        BY <1>6 DEF Run
      <3> QED
        BY <3>1, <3>2
    <2> QED
      BY <1>2, <2>1, <2>2, <2>3
  <1>7. CASE FinishLock(j)
    <2>1. /\ UNCHANGED <<held, container>> /\ pc[j] = "finish" /\ Closing(j) = held[j]
      BY <1>7 DEF FinishLock, ReportInv, PhaseKind, Closing
    <2>2. /\ Owner = j /\ Owner # NoBody /\ Task = held[j].kind
          /\ busy[Console].seq = held[j].seq /\ held[j].seq > 0
      BY <2>1, OwnerIs
    <2>3. busy'[Console] = [seq |-> held[j].seq, kind |-> held[j].kind, done |-> TRUE, ok |-> ok[j]]
      BY <1>7, <2>1, <2>2, OneManager DEF FinishLock, Release, ReportInv, LockInv, TypeOK, Managers
    <2>4. Owner' = NoBody /\ Task' = "none"
      BY <2>3 DEF Owner, Task, Free
    <2>5. (CHOOSE i \in Jobs : held'[i].seq = busy'[Console].seq) = j
      <3>1. \A i \in Jobs : held[i].seq = held[j].seq => i = j
        BY <2>2, OneManager DEF ReportInv, LockInv, SeqIdentifies
      <3>2. busy'[Console].seq = held[j].seq /\ held' = held
        BY <2>1, <2>3
      <3> QED
        BY <3>1, <3>2
    <2>6. Report' = [job |-> j, kind |-> held[j].kind, ok |-> ok[j]]
      <3>1. /\ busy'[Console].seq = held[j].seq /\ busy'[Console].kind = held[j].kind
            /\ busy'[Console].done /\ busy'[Console].ok = ok[j]
        BY <2>3
      <3>2. busy'[Console].seq # 0
        BY <2>2, <3>1
      <3> QED
        BY <2>5, <3>1, <3>2, Zenon DEF Report
    <2>7. ok[j] \in BOOLEAN /\ held[j].kind \in {"up", "down"}
      BY <2>1 DEF ReportInv, LockInv, TypeOK, PhaseKind
    <2>8. ok[j] => Serial!Fulfilled
      BY <2>1, <2>2, <2>7 DEF ReportInv, EffectDone, Effect, Serial!Fulfilled
    <2>9. Serial!ReleaseLock(ok[j])
      BY <2>1, <2>2, <2>4, <2>6, <2>8 DEF Serial!ReleaseLock
    <2> QED
      BY <2>7, <2>9 DEF Serial!Next
  <1> QED
    BY <1>3, <1>4, <1>5, <1>6, <1>7 DEF Work

LEMMA StepImplements ==
  ASSUME Kinds \subseteq {"up", "down"}, CliCmds = {}
  PROVE  ReportInv /\ ReportInv' /\ [Next]_vars => [Serial!Next]_(Serial!vars)
  <1> SUFFICES ASSUME ReportInv, ReportInv', [Next]_vars PROVE Serial!Next \/ UNCHANGED Serial!vars
    OBVIOUS
  <1>1. ASSUME NEW j \in ConsoleReqs, NEW k \in Kinds, ConsoleBegin(j, k) PROVE Serial!Next
    BY <1>1, AcceptImplements DEF ConsoleBegin, Jobs
  <1>2. ASSUME NEW j \in Jobs, Work(j) PROVE Serial!Next \/ UNCHANGED Serial!vars
    BY <1>2, WorkImplements
  <1>3. ASSUME UNCHANGED <<busy, held, container>> PROVE UNCHANGED Serial!vars
    BY <1>3, SameMapping DEF Serial!vars
  <1>4. CASE EngineDies \/ DaemonRestarts
    <2>1. UNCHANGED <<busy, held>>
      BY <1>4 DEF EngineDies, DaemonRestarts, mgrVars, jobVars
    <2>2. UNCHANGED <<Owner, Task, Report>>
      BY <2>1, SameMapping
    <2>3. Serial!EngineDiesOrReturns
      BY <1>4, <2>2 DEF EngineDies, DaemonRestarts, Serial!EngineDiesOrReturns
    <2> QED
      BY <2>3 DEF Serial!Next
  <1>5. ASSUME NEW j \in ConsoleReqs, ConsoleConflict(j) PROVE UNCHANGED Serial!vars
    BY <1>3, <1>5 DEF ConsoleConflict, mgrVars
  <1>6. ASSUME NEW s \in Subs, Subscribe(s) \/ Unsubscribe(s) \/ Receive(s) PROVE UNCHANGED Serial!vars
    BY <1>3, <1>6 DEF Subscribe, Unsubscribe, Receive, mgrVars, jobVars
  <1>7. CASE UNCHANGED vars
    BY <1>3, <1>7 DEF vars
  <1> QED
    BY <1>1, <1>2, <1>4, <1>5, <1>6, <1>7 DEF Next

\* TryBegin and Finish bracket every docker command: for any number of up and down
\* requests and tabs, a console without a command line beside it behaves as if one
\* request at a time owned the engine and left a true report.
THEOREM UpDownIsSerial ==
  ASSUME Kinds \subseteq {"up", "down"}, CliCmds = {}
  PROVE  Spec => SerialSpec
  <1>1. Init => Serial!Init
    <2> SUFFICES ASSUME Init PROVE Serial!Init
      OBVIOUS
    <2>1. busy[Console] = NoOp /\ container = Absent
      BY DEF Init, Managers
    <2>2. Owner = NoBody /\ Task = "none"
      BY <2>1 DEF Owner, Task, Free, NoOp
    <2>3. Report = Serial!Nothing
      BY <2>1 DEF Report, NoOp, Serial!Nothing
    <2> QED
      BY <2>1, <2>2, <2>3 DEF Serial!Init, Absent, Serial!Absent
  <1>2. ReportInv /\ ReportInv' /\ [Next]_vars => [Serial!Next]_(Serial!vars)
    BY StepImplements
  <1> QED
    BY <1>1, <1>2, ReportAlways, PTL DEF Spec, SerialSpec, Serial!Spec

-----------------------------------------------------------------------------
(* The events of the op lock *)

Ordered(q) ==
    \A a, b \in 1..Len(q) :
        a < b /\ q[b].ev = "start" =>
            IF q[a].ev = "start" THEN q[a].seq < q[b].seq ELSE q[a].seq # q[b].seq

\* Every event is about an op that has begun, so the next start is after them all.
Begun(q, m) == \A a \in 1..Len(q) : q[a].seq <= m

EventInv == LockInv /\ \A s \in Subs : Ordered(inbox[s]) /\ Begun(inbox[s], opSeq[Console])

LEMMA StartKeepsOrder ==
  ASSUME NEW q \in Seq(Events), NEW m \in Nat, NEW e \in Events, Ordered(q), Begun(q, m), e.seq = m + 1
  PROVE  Ordered(Append(q, e)) /\ Begun(Append(q, e), m + 1)
  <1> DEFINE t == Append(q, e)
  <1>1. /\ Len(t) = Len(q) + 1 /\ Len(q) \in Nat /\ t[Len(q) + 1] = e
        /\ \A a \in 1..Len(q) : t[a] = q[a] /\ q[a] \in Events
    OBVIOUS
  <1> HIDE DEF t
  <1>2. \A a \in 1..Len(q) : q[a].seq \in Nat /\ q[a].seq < e.seq
    BY <1>1 DEF Begun, Events
  <1>3. ASSUME NEW a \in 1..Len(t), NEW b \in 1..Len(t), a < b, t[b].ev = "start"
        PROVE  IF t[a].ev = "start" THEN t[a].seq < t[b].seq ELSE t[a].seq # t[b].seq
    <2>1. a \in 1..Len(q)
      BY <1>1, <1>3
    <2>2. CASE b = Len(q) + 1
      BY <1>1, <1>2, <2>1, <2>2
    <2>3. CASE b \in 1..Len(q)
      BY <1>1, <1>3, <2>1, <2>3 DEF Ordered
    <2> QED
      BY <1>1, <2>2, <2>3
  <1>4. \A a \in 1..Len(t) : t[a].seq <= m + 1
    BY <1>1, <1>2
  <1> QED
    BY <1>3, <1>4 DEF Ordered, Begun, t

LEMMA FinishKeepsOrder ==
  ASSUME NEW q \in Seq(Events), NEW m \in Nat, NEW e \in Events, Ordered(q), Begun(q, m),
         e.seq <= m, e.ev = "finish"
  PROVE  Ordered(Append(q, e)) /\ Begun(Append(q, e), m)
  <1> DEFINE t == Append(q, e)
  <1>1. /\ Len(t) = Len(q) + 1 /\ Len(q) \in Nat /\ t[Len(q) + 1] = e
        /\ \A a \in 1..Len(q) : t[a] = q[a]
    OBVIOUS
  <1> HIDE DEF t
  <1>2. ASSUME NEW a \in 1..Len(t), NEW b \in 1..Len(t), a < b, t[b].ev = "start"
        PROVE  IF t[a].ev = "start" THEN t[a].seq < t[b].seq ELSE t[a].seq # t[b].seq
    <2>1. b # Len(q) + 1
      BY <1>1, <1>2
    <2>2. a \in 1..Len(q) /\ b \in 1..Len(q)
      BY <1>1, <1>2, <2>1
    <2> QED
      BY <1>1, <1>2, <2>2 DEF Ordered
  <1>3. \A a \in 1..Len(t) : t[a].seq <= m
    BY <1>1 DEF Begun
  <1> QED
    BY <1>2, <1>3 DEF Ordered, Begun, t

LEMMA TailKeepsOrder ==
  ASSUME NEW q \in Seq(Events), NEW m \in Nat, q # <<>>, Ordered(q), Begun(q, m)
  PROVE  Ordered(Tail(q)) /\ Begun(Tail(q), m)
  <1> DEFINE t == Tail(q)
  <1>1. Len(t) = Len(q) - 1 /\ Len(q) \in Nat /\ \A a \in 1..Len(t) : t[a] = q[a + 1]
    OBVIOUS
  <1> HIDE DEF t
  <1>2. \A a \in 1..Len(t) : a + 1 \in 1..Len(q)
    BY <1>1
  <1>3. Ordered(t)
    <2> SUFFICES ASSUME NEW a \in 1..Len(t), NEW b \in 1..Len(t), a < b, t[b].ev = "start"
                 PROVE  IF t[a].ev = "start" THEN t[a].seq < t[b].seq ELSE t[a].seq # t[b].seq
      BY Zenon DEF Ordered
    <2>1. a + 1 \in 1..Len(q) /\ b + 1 \in 1..Len(q) /\ a + 1 < b + 1
      BY <1>1, <1>2
    <2>2. t[a] = q[a + 1] /\ t[b] = q[b + 1]
      BY <1>1, Zenon
    <2> QED
      BY <2>1, <2>2, Zenon DEF Ordered
  <1>4. Begun(t, m)
    BY <1>1, <1>2 DEF Begun
  <1> QED
    BY <1>3, <1>4 DEF t

LEMMA NoEventOrder == ASSUME NEW m \in Nat PROVE Ordered(<<>>) /\ Begun(<<>>, m)
  BY DEF Ordered, Begun

\* A start event, in the channels with room and not in the others.
LEMMA TakeLockEvents ==
  ASSUME EventInv, NEW m \in Managers, NEW k \in OpKinds, TakeLock(m, k), NEW s \in Subs
  PROVE  Ordered(inbox'[s]) /\ Begun(inbox'[s], opSeq'[Console])
  <1> DEFINE e == [seq |-> opSeq[m] + 1, kind |-> k, ev |-> "start"]
  <1>1. /\ opSeq \in [Managers -> Nat] /\ inbox \in [Subs -> Seq(Events)]
        /\ Ordered(inbox[s]) /\ Begun(inbox[s], opSeq[Console]) /\ Console \in Managers
    BY DEF EventInv, LockInv, TypeOK, Managers
  <1>2. e \in Events /\ e.seq = opSeq[m] + 1
    BY <1>1 DEF Events
  <1>3. opSeq' = [opSeq EXCEPT ![m] = opSeq[m] + 1] /\ Publish(m, e)
    BY DEF TakeLock
  <1>4. inbox'[s] = IF m = Console /\ s \in subs /\ Len(inbox[s]) < SubCap
                    THEN Append(inbox[s], e) ELSE inbox[s]
    BY <1>3 DEF Publish
  <1> HIDE DEF e
  <1>5. CASE m = Console /\ inbox'[s] = Append(inbox[s], e)
    <2>1. opSeq'[Console] = opSeq[Console] + 1
      BY <1>1, <1>3, <1>5
    <2> QED
      BY <1>1, <1>2, <1>5, <2>1, StartKeepsOrder
  <1>6. CASE inbox'[s] = inbox[s]
    <2>1. opSeq'[Console] \in {opSeq[Console], opSeq[Console] + 1}
      BY <1>1, <1>3
    <2>2. ASSUME NEW a \in 1..Len(inbox[s]) PROVE inbox[s][a].seq \in Nat
      <3>1. inbox[s][a] \in Events
        BY <1>1
      <3> QED
        BY <3>1 DEF Events
    <2> QED
      BY <1>1, <1>6, <2>1, <2>2 DEF Begun
  <1> QED
    BY <1>4, <1>5, <1>6

LEMMA FinishEvents ==
  ASSUME EventInv, NEW j \in Jobs, FinishPublish(j), NEW s \in Subs
  PROVE  Ordered(inbox'[s]) /\ Begun(inbox'[s], opSeq'[Console])
  <1> DEFINE e == [seq |-> Closing(j).seq, kind |-> Closing(j).kind, ev |-> "finish"]
             m == ManagerOf(j)
  <1>1. /\ opSeq \in [Managers -> Nat] /\ inbox \in [Subs -> Seq(Events)]
        /\ Ordered(inbox[s]) /\ Begun(inbox[s], opSeq[Console]) /\ Console \in Managers
    BY DEF EventInv, LockInv, TypeOK, Managers
  <1>2. e.ev = "finish" /\ e.seq <= opSeq[m]
    BY ClosingSeq DEF EventInv, LockInv, SeqIdentifies
  <1>3. Closing(j) \in OpInfo
    BY DEF Closing, EventInv, LockInv, TypeOK
  <1>4. e \in Events
    BY <1>3 DEF OpInfo, Events
  <1>5. Publish(m, e) /\ opSeq' = opSeq
    BY DEF FinishPublish, mgrVars
  <1>6. inbox'[s] = IF m = Console /\ s \in subs /\ Len(inbox[s]) < SubCap
                    THEN Append(inbox[s], e) ELSE inbox[s]
    BY <1>5 DEF Publish
  <1> HIDE DEF e, m
  <1> QED
    BY <1>1, <1>2, <1>4, <1>5, <1>6, FinishKeepsOrder

LEMMA EventInvariant == EventInv /\ [Next]_vars => EventInv'
  <1> SUFFICES ASSUME EventInv, [Next]_vars PROVE EventInv'
    OBVIOUS
  <1>0. /\ LockInv' /\ opSeq \in [Managers -> Nat] /\ inbox \in [Subs -> Seq(Events)]
        /\ Console \in Managers
    BY LockInvariant DEF EventInv, LockInv, TypeOK, Managers
  <1>1. ASSUME UNCHANGED <<opSeq, inbox>> PROVE EventInv'
    BY <1>0, <1>1 DEF EventInv
  <1>2. ASSUME NEW j \in Jobs, NEW k \in OpKinds, Accept(j, k) PROVE EventInv'
    BY <1>0, <1>2, ManagerOfType, TakeLockEvents DEF Accept, EventInv
  <1>3. ASSUME NEW j \in ConsoleReqs, NEW k \in Kinds, ConsoleBegin(j, k) PROVE EventInv'
    BY <1>2, <1>3, KindsAssumption DEF ConsoleBegin, Jobs, OpKinds
  <1>4. ASSUME NEW j \in CliCmds, NEW k \in Kinds, CliBegin(j, k) PROVE EventInv'
    <2>1. PICK q \in OpKinds : Accept(j, q)
      BY <1>4, KindsAssumption DEF CliBegin, OpKinds
    <2> QED
      BY <1>2, <2>1 DEF Jobs
  <1>5. ASSUME NEW j \in Jobs, Work(j) PROVE EventInv'
    <2>1. CASE MustBegin(j)
      <3>1. CASE Free(ManagerOf(j))
        <4>1. TakeLock(ManagerOf(j), "down")
          BY <2>1, <3>1 DEF MustBegin
        <4> QED
          BY <1>0, <4>1, ManagerOfType, TakeLockEvents DEF EventInv, OpKinds
      <3>2. CASE ~Free(ManagerOf(j))
        BY <1>1, <2>1, <3>2 DEF MustBegin, mgrVars
      <3> QED
        BY <3>1, <3>2
    <2>2. CASE FinishPublish(j)
      BY <1>0, <2>2, FinishEvents DEF EventInv
    <2>3. CASE ~MustBegin(j) /\ ~FinishPublish(j)
      BY <1>1, <1>5, <2>3 DEF Work, Refuse, Launch, Inspect, Stop, Remove, ClearOld, Run, Goto,
                              FinishLock, mgrVars, subVars
    <2> QED
      BY <2>1, <2>2, <2>3
  <1>6. ASSUME NEW s \in Subs, Subscribe(s) PROVE EventInv'
    <2>1. opSeq' = opSeq /\ inbox' = [inbox EXCEPT ![s] = <<>>]
      BY <1>6 DEF Subscribe, mgrVars
    <2>2. Ordered(<<>>) /\ Begun(<<>>, opSeq[Console])
      BY <1>0, NoEventOrder
    <2> QED
      BY <1>0, <2>1, <2>2 DEF EventInv
  <1>7. ASSUME NEW s \in Subs, Receive(s) PROVE EventInv'
    <2>1. opSeq' = opSeq /\ inbox' = [inbox EXCEPT ![s] = Tail(inbox[s])] /\ inbox[s] # <<>>
      BY <1>7 DEF Receive, mgrVars
    <2>2. Ordered(Tail(inbox[s])) /\ Begun(Tail(inbox[s]), opSeq[Console])
      BY <1>0, <2>1, TailKeepsOrder DEF EventInv
    <2> QED
      BY <1>0, <2>1, <2>2 DEF EventInv
  <1>8. CASE (\E j \in ConsoleReqs : ConsoleConflict(j)) \/ EngineDies \/ DaemonRestarts
                \/ (\E s \in Subs : Unsubscribe(s)) \/ UNCHANGED vars
    BY <1>1, <1>8 DEF ConsoleConflict, EngineDies, DaemonRestarts, Unsubscribe, mgrVars, subVars, vars
  <1> QED
    BY <1>3, <1>4, <1>5, <1>6, <1>7, <1>8 DEF Next

\* TryBegin publishes under the lock, Finish after it: for any requests, commands and
\* tabs, and whatever is dropped, a channel holds starts in the order of the lock and
\* no finish ahead of the start of its op.
THEOREM StartsInOrder == Spec => []EventOrder
  <1>1. Init => EventInv
    BY InitLock, NoEventOrder DEF Init, EventInv, Managers
  <1>2. EventInv => EventOrder
    BY DEF EventInv, EventOrder, Ordered
  <1> QED
    BY <1>1, <1>2, EventInvariant, PTL DEF Spec
-----------------------------------------------------------------------------
(* An accepted request comes nearer to its end with each of its steps.     *)

\* A part of the request comes after this one: the Up of a restart, in the console
\* as in a command.
MoreToCome(j) == (held[j].kind = "restart" /\ inDown[j]) \/ todo[j] = "up"

\* An upper bound on the steps of j that are left.
Left(j) ==
  CASE pc[j] \in {"done", "refused"} -> 0
    [] pc[j] = "publish" -> IF MoreToCome(j) THEN 6 ELSE 1
    [] pc[j] = "finish" -> IF MoreToCome(j) THEN 7 ELSE 2
    [] pc[j] = "run" -> 3
    [] pc[j] = "upRm" -> 4
    [] pc[j] = "rm" -> 8
    [] pc[j] = "stop" -> 9
    [] pc[j] = "inspect" -> 10
    [] pc[j] = "nest" -> 11
    [] pc[j] = "resolve" -> 12
    [] pc[j] = "idle" -> IF todo[j] = "up" THEN 5 ELSE 13

\* Only the down of a command's restart has an up to do.
TodoOfDown ==
  \A j \in Jobs : todo[j] = "up" =>
    /\ j \in CliCmds /\ held[j].kind = "down"
    /\ pc[j] \in DownPcs \cup {"finish", "publish", "idle", "done"}

Advances == \A j \in Jobs : Left(j)' <= Left(j) /\ (pc'[j] # pc[j] => Left(j)' < Left(j))

LeftInv == LockInv /\ TodoOfDown

LEMMA LeftIsNat == ASSUME TypeOK PROVE \A j \in Jobs : Left(j) \in Nat
  BY DEF TypeOK, Left, Pcs, DownPcs, UpPcs

LEMMA NobodyMoves == ASSUME LeftInv, UNCHANGED jobVars PROVE TodoOfDown' /\ Advances
  <1>1. TodoOfDown'
    BY DEF LeftInv, TodoOfDown, jobVars
  <1>2. ASSUME NEW i \in Jobs PROVE Left(i)' = Left(i) /\ Left(i) \in Nat /\ pc'[i] = pc[i]
    <2>1. pc' = pc /\ held' = held /\ inDown' = inDown /\ todo' = todo
      BY DEF jobVars
    <2>2. Left(i)' = Left(i)
      BY <2>1, Zenon DEF Left, MoreToCome
    <2> QED
      BY <2>1, <2>2, LeftIsNat DEF LeftInv, LockInv
  <1>3. Advances
    BY <1>2 DEF Advances
  <1> QED
    BY <1>1, <1>3

\* One job moves: it is enough to look at that one.
LEMMA OneMoves ==
  ASSUME LeftInv, TypeOK', NEW j \in Jobs,
         \A i \in Jobs \ {j} : /\ pc'[i] = pc[i] /\ held'[i] = held[i]
                               /\ inDown'[i] = inDown[i] /\ todo'[i] = todo[i],
         Left(j)' < Left(j),
         todo'[j] = "up" => /\ j \in CliCmds /\ held'[j].kind = "down"
                            /\ pc'[j] \in DownPcs \cup {"finish", "publish", "idle", "done"}
  PROVE  TodoOfDown' /\ Advances
  <1>1. TodoOfDown'
    BY DEF LeftInv, TodoOfDown
  <1>2. ASSUME NEW i \in Jobs
        PROVE  Left(i)' <= Left(i) /\ (pc'[i] # pc[i] => Left(i)' < Left(i))
    <2>1. Left(i) \in Nat /\ Left(i)' \in Nat
      BY LeftIsNat DEF LeftInv, LockInv, TypeOK, Left, Pcs, DownPcs, UpPcs
    <2>2. CASE i = j
      BY <2>1, <2>2
    <2>3. CASE i # j
      <3>1. pc'[i] = pc[i] /\ held'[i] = held[i] /\ inDown'[i] = inDown[i] /\ todo'[i] = todo[i]
        BY <2>3
      <3>2. Left(i)' = Left(i)
        BY <3>1, Zenon DEF Left, MoreToCome
      <3> QED
        BY <2>1, <3>1, <3>2
    <2> QED
      BY <2>2, <2>3
  <1> QED
    BY <1>1, <1>2 DEF Advances

LEMMA AcceptAdvances ==
  ASSUME LeftInv, TypeOK', NEW j \in Jobs, NEW k \in OpKinds, pc[j] = "idle", Accept(j, k),
         NEW t \in {"nothing", "up"}, todo' = [todo EXCEPT ![j] = t],
         t = "up" => j \in CliCmds /\ k = "down" /\ todo[j] # "up",
         todo[j] = "up" => k = "up" /\ t = "nothing"
  PROVE  TodoOfDown' /\ Advances
  <1>1. /\ pc' = [pc EXCEPT ![j] = FirstPc(j, k)] /\ held'[j].kind = k /\ todo'[j] = t
        /\ inDown'[j] = (k = "down")
        /\ \A i \in Jobs \ {j} : /\ held'[i] = held[i] /\ inDown'[i] = inDown[i]
                                 /\ todo'[i] = todo[i] /\ pc'[i] = pc[i]
    BY DEF Accept, LeftInv, LockInv, TypeOK, Op
  <1>2. pc'[j] = FirstPc(j, k)
    BY <1>1 DEF LeftInv, LockInv, TypeOK
  <1>3. CASE todo[j] = "up"
    <2>1. j \in CliCmds /\ pc'[j] = "upRm"
      BY <1>2, <1>3 DEF LeftInv, TodoOfDown, FirstPc
    <2>2. Left(j) = 5 /\ Left(j)' = 4
      BY <1>3, <2>1 DEF Left
    <2> QED
      BY <1>1, <1>3, <2>2, OneMoves
  <1>4. CASE todo[j] # "up"
    <2>1. Left(j) = 13
      BY <1>4 DEF Left
    <2>2. pc'[j] \in {"inspect", "upRm", "resolve"} /\ (k = "down" => pc'[j] = "inspect")
      BY <1>2, FirstPcType DEF FirstPc
    <2>3. Left(j)' < 13
      BY <2>2 DEF Left
    <2> QED
      BY <1>1, <2>1, <2>2, <2>3, OneMoves DEF DownPcs
  <1> QED
    BY <1>3, <1>4

\* A goroutine that moves on within its part of the request
LEMMA MoveAdvances ==
  ASSUME LeftInv, TypeOK', NEW j \in Jobs, NEW p \in Pcs, pc' = [pc EXCEPT ![j] = p],
         UNCHANGED <<held, todo>>, \A i \in Jobs \ {j} : inDown'[i] = inDown[i],
         Left(j)' < Left(j),
         todo[j] = "up" => p \in DownPcs \cup {"finish", "publish", "idle", "done"}
  PROVE  TodoOfDown' /\ Advances
  <1>1. pc'[j] = p /\ \A i \in Jobs \ {j} : pc'[i] = pc[i]
    BY DEF LeftInv, LockInv, TypeOK
  <1>2. todo[j] = "up" => j \in CliCmds /\ held[j].kind = "down"
    BY DEF LeftInv, TodoOfDown
  <1> QED
    BY <1>1, <1>2, OneMoves

LEMMA WorkAdvances ==
  ASSUME LeftInv, TypeOK', NEW j \in Jobs, Work(j) PROVE TodoOfDown' /\ Advances
  <1>0. /\ pc \in [Jobs -> Pcs] /\ inDown \in [Jobs -> BOOLEAN]
        /\ todo[j] = "up" => held[j].kind = "down" /\ pc[j] \in DownPcs \cup {"finish", "publish", "idle", "done"}
        /\ pc[j] \in UpPcs \cup {"resolve", "nest"} => ~inDown[j]
    BY DEF LeftInv, LockInv, TypeOK, NestedIsOwn, TodoOfDown
  <1>1. CASE Refuse(j) \/ Launch(j)
    <2>1. /\ pc[j] = "resolve" /\ UNCHANGED <<held, inDown, todo>>
          /\ \E p \in {"finish", "nest", "upRm"} : pc' = [pc EXCEPT ![j] = p]
      BY <1>1 DEF Refuse, Launch
    <2>2. Left(j) = 12 /\ todo[j] # "up"
      BY <1>0, <2>1 DEF Left, DownPcs
    <2>3. pc'[j] \in {"finish", "nest", "upRm"}
      BY <1>0, <2>1
    <2>4. Left(j)' < 12
      BY <2>3 DEF Left
    <2> QED
      BY <2>1, <2>2, <2>4, MoveAdvances DEF Pcs, UpPcs
  <1>2. CASE MustBegin(j)
    <2>1. /\ pc[j] = "nest" /\ UNCHANGED <<held, todo>> /\ pc' = [pc EXCEPT ![j] = "inspect"]
          /\ inDown' = [inDown EXCEPT ![j] = TRUE]
      BY <1>2 DEF MustBegin
    <2>2. Left(j) = 11 /\ Left(j)' = 10
      BY <1>0, <2>1 DEF Left
    <2>3. /\ "inspect" \in Pcs /\ "inspect" \in DownPcs \cup {"finish", "publish", "idle", "done"}
          /\ \A i \in Jobs \ {j} : inDown'[i] = inDown[i]
          /\ Left(j)' < Left(j)
      BY <1>0, <2>1, <2>2 DEF Pcs, DownPcs
    <2> QED
      BY <2>1, <2>3, MoveAdvances
  <1>3. CASE Inspect(j) \/ Stop(j) \/ Remove(j) \/ ClearOld(j) \/ Run(j)
    <2>1. /\ UNCHANGED <<held, inDown, todo>>
          /\ \/ pc[j] = "inspect" /\ \E p \in {"stop", "rm"} : pc' = [pc EXCEPT ![j] = p]
             \/ pc[j] = "stop" /\ \E p \in {"rm", "finish"} : pc' = [pc EXCEPT ![j] = p]
             \/ pc[j] = "rm" /\ pc' = [pc EXCEPT ![j] = "finish"]
             \/ pc[j] = "upRm" /\ pc' = [pc EXCEPT ![j] = "run"]
             \/ pc[j] = "run" /\ pc' = [pc EXCEPT ![j] = "finish"]
      BY <1>3 DEF Inspect, Stop, Remove, ClearOld, Run, Goto
    <2>2. \/ pc[j] = "inspect" /\ pc'[j] \in {"stop", "rm"}
          \/ pc[j] = "stop" /\ pc'[j] \in {"rm", "finish"}
          \/ pc[j] = "rm" /\ pc'[j] = "finish"
          \/ pc[j] = "upRm" /\ pc'[j] = "run"
          \/ pc[j] = "run" /\ pc'[j] = "finish"
      BY <1>0, <2>1
    <2>3. pc[j] \in {"upRm", "run"} => ~MoreToCome(j) /\ ~MoreToCome(j)'
      BY <1>0, <2>1 DEF MoreToCome, UpPcs, DownPcs
    <2>4. Left(j)' < Left(j)
      BY <2>2, <2>3 DEF Left
    <2>5. PICK p \in {"stop", "rm", "run", "finish"} : pc' = [pc EXCEPT ![j] = p]
      BY <2>1
    <2>6. todo[j] = "up" => p \in DownPcs \cup {"finish", "publish", "idle", "done"}
      BY <1>0, <2>2, <2>5 DEF DownPcs
    <2> QED
      BY <2>1, <2>4, <2>5, <2>6, MoveAdvances DEF Pcs, DownPcs, UpPcs
  <1>4. CASE FinishLock(j)
    <2>1. /\ pc[j] = "finish" /\ UNCHANGED <<held, inDown, todo>> /\ pc' = [pc EXCEPT ![j] = "publish"]
      BY <1>4 DEF FinishLock
    <2>2. Left(j)' < Left(j)
      BY <1>0, <2>1 DEF Left, MoreToCome
    <2> QED
      BY <2>1, <2>2, MoveAdvances DEF Pcs
  <1>5. CASE FinishPublish(j)
    <2> DEFINE p == CASE held[j].kind = "restart" /\ inDown[j] -> "upRm"
                      [] todo[j] = "up" /\ ok[j] -> "idle"
                      [] OTHER -> "done"
    <2>1. /\ pc[j] = "publish" /\ UNCHANGED <<held, todo>> /\ pc' = [pc EXCEPT ![j] = p]
          /\ inDown' = [inDown EXCEPT ![j] = FALSE]
      BY <1>5 DEF FinishPublish
    <2>2. /\ p \in {"upRm", "idle", "done"}
          /\ p = "upRm" => held[j].kind = "restart" /\ inDown[j]
          /\ p = "idle" => todo[j] = "up"
      OBVIOUS
    <2> HIDE DEF p
    <2>3. Left(j)' < Left(j)
      BY <1>0, <2>1, <2>2 DEF Left, MoreToCome
    <2>4. todo[j] = "up" => p # "upRm"
      BY <1>0, <2>2
    <2> QED
      BY <1>0, <2>1, <2>2, <2>3, <2>4, MoveAdvances DEF Pcs, UpPcs
  <1> QED
    BY <1>1, <1>2, <1>3, <1>4, <1>5 DEF Work

LEMMA StepAdvances == LeftInv /\ [Next]_vars => TodoOfDown' /\ Advances
  <1> SUFFICES ASSUME LeftInv, [Next]_vars PROVE TodoOfDown' /\ Advances
    OBVIOUS
  <1>0. TypeOK'
    BY TypeInvariant DEF LeftInv, LockInv
  <1>1. ASSUME NEW j \in ConsoleReqs, NEW k \in Kinds, ConsoleBegin(j, k) PROVE TodoOfDown' /\ Advances
    <2>1. todo[j] # "up" /\ todo' = [todo EXCEPT ![j] = "nothing"]
      BY <1>1, JobsAssumption DEF ConsoleBegin, LeftInv, LockInv, TypeOK, TodoOfDown, Jobs
    <2> QED
      BY <1>0, <1>1, <2>1, AcceptAdvances, KindsAssumption DEF ConsoleBegin, Jobs, OpKinds
  <1>2. ASSUME NEW j \in ConsoleReqs, ConsoleConflict(j) PROVE TodoOfDown' /\ Advances
    <2>1. /\ pc[j] = "idle" /\ pc' = [pc EXCEPT ![j] = "refused"] /\ UNCHANGED <<held, inDown, todo>>
      BY <1>2 DEF ConsoleConflict
    <2>2. Left(j)' < Left(j)
      BY <2>1 DEF Left, LeftInv, LockInv, TypeOK, Jobs
    <2>3. todo[j] # "up"
      BY JobsAssumption DEF LeftInv, TodoOfDown, Jobs
    <2> QED
      BY <1>0, <2>1, <2>2, <2>3, MoveAdvances DEF Jobs, Pcs
  <1>3. ASSUME NEW j \in CliCmds, NEW k \in Kinds, CliBegin(j, k) PROVE TodoOfDown' /\ Advances
    <2>1. PICK q \in OpKinds, t \in {"nothing", "up"} :
             /\ Accept(j, q) /\ todo' = [todo EXCEPT ![j] = t]
             /\ todo[j] = "up" => q = "up" /\ t = "nothing"
             /\ t = "up" => q = "down" /\ todo[j] # "up"
      BY <1>3, KindsAssumption DEF CliBegin, OpKinds
    <2> QED
      BY <1>0, <1>3, <2>1, AcceptAdvances DEF CliBegin, Jobs
  <1>4. ASSUME NEW j \in Jobs, Work(j) PROVE TodoOfDown' /\ Advances
    BY <1>0, <1>4, WorkAdvances
  <1>5. CASE EngineDies \/ DaemonRestarts \/ (\E s \in Subs : Subscribe(s) \/ Unsubscribe(s) \/ Receive(s))
    BY <1>5, NobodyMoves DEF EngineDies, DaemonRestarts, Subscribe, Unsubscribe, Receive
  <1>6. CASE UNCHANGED vars
    BY <1>6, NobodyMoves DEF vars, jobVars
  <1> QED
    BY <1>1, <1>2, <1>3, <1>4, <1>5, <1>6 DEF Next

\* engineOp and its goroutine go one way: each step that a request takes, whatever docker
\* answers it, leaves it fewer to take, and no step of anybody else gives it more.  So it
\* has 13 at most, and ends as long as it is scheduled: the part of AcceptedEnds that
\* does not need fairness.
THEOREM RequestsAdvance == Spec => [][Advances]_vars
  <1>1. Init => LeftInv
    BY InitLock DEF Init, LeftInv, TodoOfDown
  <1>2. LeftInv /\ [Next]_vars => LeftInv'
    BY LockInvariant, StepAdvances DEF LeftInv
  <1>3. LeftInv /\ [Next]_vars => [Advances]_vars
    BY StepAdvances
  <1> QED
    BY <1>1, <1>2, <1>3, PTL DEF Spec
=============================================================================
