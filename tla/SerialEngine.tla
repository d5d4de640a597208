---------------------------- MODULE SerialEngine ----------------------------
(***************************************************************************)
(* What the operation lock promises: one request at a time owns the engine *)
(* container, nobody else touches it meanwhile, and the report left behind *)
(* is true of the container. Docker fails, the engine dies and comes back. *)
(***************************************************************************)
CONSTANTS Jobs, NoBody

VARIABLES owner, task, container, report

vars == <<owner, task, container, report>>

Absent == [st |-> "absent", by |-> NoBody]
Pending == [job |-> NoBody, kind |-> "none", ok |-> FALSE]
Nothing == [job |-> NoBody, kind |-> "none", ok |-> TRUE]

Init ==
    /\ owner = NoBody
    /\ task = "none"
    /\ container = Absent
    /\ report = Nothing

Acquire(j, k) ==
    /\ owner = NoBody
    /\ owner' = j
    /\ task' = k
    /\ report' = Pending
    /\ UNCHANGED container

\* the owner removes or stops the container; an "up" may also create its own
Work ==
    /\ owner # NoBody
    /\ container' \in
         {Absent} \cup {[container EXCEPT !.st = "stopped"]} \cup
         (IF task = "up" /\ container.st = "absent"
          THEN [st : {"running", "stopped"}, by : {owner}] ELSE {})
    /\ UNCHANGED <<owner, task, report>>

Fulfilled ==
    \/ task = "up" /\ container.by = owner
    \/ task = "down" /\ container.st = "absent"

ReleaseLock(ok) ==
    /\ owner # NoBody
    /\ ok => Fulfilled
    /\ report' = [job |-> owner, kind |-> task, ok |-> ok]
    /\ owner' = NoBody
    /\ task' = "none"
    /\ UNCHANGED container

EngineDiesOrReturns ==
    /\ container.st \in {"running", "exited"}
    /\ container' \in {[container EXCEPT !.st = s] : s \in {"running", "exited"}}
    /\ UNCHANGED <<owner, task, report>>

Next ==
    \/ \E j \in Jobs, k \in {"up", "down"} : Acquire(j, k)
    \/ Work
    \/ \E ok \in BOOLEAN : ReleaseLock(ok)
    \/ EngineDiesOrReturns

Spec == Init /\ [][Next]_vars
=============================================================================
