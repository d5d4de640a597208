--------------------------- MODULE ConsoleAuth_proofs ---------------------------
(***************************************************************************)
(* Proofs about ConsoleAuth, for any addresses, concurrent logins, limits  *)
(* and times: a lockout bounds the guesses that were in flight when it     *)
(* began, and a request is let in by a session that is neither logged out  *)
(* nor too long idle.                                                      *)
(***************************************************************************)
EXTENDS ConsoleAuth, FiniteSetTheorems, TLAPS

\* The limiter's part of the types: the instants are integers, which a tick moves.
States == [known : BOOLEAN, attempts : Int, age : Int, streak : Nat, gone : Int]
LimTyped == lim \in [Addrs -> States] /\ disk \in [Addrs -> States]
LoginsTyped ==
    /\ pc \in [Reqs -> {"idle", "check", "wrong", "right", "mint"}] /\ addr \in [Reqs -> Addrs]
    /\ behind \in [Addrs -> SUBSET Reqs]
GateInv == LimTyped /\ LoginsTyped /\ BehindLock

---------------------------------------------------------------------------
(* The limiter *)

LEMMA LockoutInt == ASSUME NEW n \in Nat PROVE Lockout(n) \in Int
<1>1. Least(n, MaxShift) \in Nat
  BY GateAssumption DEF Least
<1>2. 2^Least(n, MaxShift) \in Int
  BY <1>1, SMT
<1> QED
  BY <1>2, GateAssumption DEF Lockout

LEMMA NoStateTyped == NoState \in States
BY GateAssumption DEF NoState, States

LEMMA CountedTyped == ASSUME NEW st \in States PROVE Counted(st) \in States
<1> DEFINE known == [st EXCEPT !.known = TRUE]
           young == [known EXCEPT !.age = 0]
           first == [young EXCEPT !.attempts = 1]
           again == [known EXCEPT !.attempts = @ + 1]
<1>1. known \in States
  BY DEF States
<1> HIDE DEF known
<1>2. young \in States /\ again \in States
  BY <1>1 DEF States
<1> HIDE DEF young
<1>3. first \in States
  BY <1>2 DEF States
<1>4. Counted(st) = first \/ Counted(st) = again
  BY Zenon DEF Counted, known, young
<1> QED
  BY <1>2, <1>3, <1>4

LEMMA LockOutTyped == ASSUME NEW st \in States PROVE LockOut(st) \in States
<1>1. st.streak \in Nat
  BY DEF States
<1>2. Lockout(st.streak) \in Int
  BY <1>1, LockoutInt
<1>3. Least(st.streak + 1, MaxShift + 1) \in Nat
  BY <1>1, GateAssumption DEF Least
<1> QED
  BY <1>2, <1>3 DEF LockOut, States

LEMMA AgedTyped ==
    ASSUME NEW st \in States
    PROVE  Aged(st) \in States /\ (Aged(st).gone < 0 => st.gone < 0)
<1>1. st.age \in Int /\ st.gone \in Int
  BY DEF States
<1>2. Least(st.age + 1, Window + 1) \in Int /\ Least(st.gone + 1, Window) \in Int
  BY <1>1, GateAssumption DEF Least
<1>3. Least(st.gone + 1, Window) < 0 => st.gone < 0
  BY <1>1, GateAssumption DEF Least
<1>4. Aged(st) \in States
  BY <1>2 DEF Aged, States
<1>5. Aged(st).gone = Least(st.gone + 1, Window)
  BY DEF Aged, States
<1> QED
  BY <1>3, <1>4, <1>5

LEMMA LoadedTyped == ASSUME NEW st \in States PROVE Loaded(st) \in States
BY NoStateTyped DEF Loaded

---------------------------------------------------------------------------
(* Logins *)

LEMMA AllowKeeps ==
    ASSUME GateInv, NEW r \in Reqs, NEW a \in Addrs, LoginAllow(r, a) PROVE GateInv'
BY DEF GateInv, LimTyped, LoginsTyped, BehindLock, LoginAllow, Go, Locked, limVars, lockHist

LEMMA VerifyKeeps == ASSUME GateInv, NEW r \in Reqs, Verify(r) PROVE GateInv'
BY DEF GateInv, LimTyped, LoginsTyped, BehindLock, Verify, Go, Locked, limVars

LEMMA FailKeeps == ASSUME GateInv, NEW r \in Reqs, Fail(r) PROVE GateInv'
<1> DEFINE a == addr[r]
           st == Counted(lim[a])
           locking == st.attempts > Attempts
           one == IF locking THEN LockOut(st) ELSE st
<1>1. a \in Addrs /\ lim[a] \in States
  BY DEF GateInv, LimTyped, LoginsTyped
<1>2. st \in States /\ one \in States
  BY <1>1, CountedTyped, LockOutTyped
<1>3. lim' = [lim EXCEPT ![a] = one] /\ disk' \in {disk, lim'}
  BY DEF Fail, Persist
<1>4. LimTyped'
  BY <1>1, <1>2, <1>3 DEF GateInv, LimTyped
<1>5. pc' = [pc EXCEPT ![r] = "idle"] /\ addr' = addr
  BY DEF Fail, Go
<1>6. behind' = IF locking THEN [behind EXCEPT ![a] = (IF Locked(a) THEN @ ELSE {}) \cup {r}] ELSE behind
  BY DEF Fail, lockHist
<1>7. LoginsTyped'
  BY <1>1, <1>5, <1>6 DEF GateInv, LoginsTyped
<1>8. ~locking => one.gone = lim[a].gone
  BY <1>1 DEF Counted, States
<1> HIDE DEF one, st, locking
<1>9. BehindLock'
  <2> SUFFICES ASSUME NEW q \in Reqs, pc'[q] = "check", Locked(addr[q])'
               PROVE  q \notin behind'[addr[q]]
    BY <1>5 DEF BehindLock
  <2>1. q # r /\ pc[q] = "check" /\ addr[q] \in Addrs
    BY <1>5 DEF GateInv, LoginsTyped
  <2>2. CASE addr[q] # a
    <3>1. Locked(addr[q]) /\ behind'[addr[q]] = behind[addr[q]]
      BY <1>1, <1>3, <1>5, <1>6, <2>1, <2>2 DEF Locked, GateInv, LimTyped, LoginsTyped
    <3> QED
      BY <2>1, <3>1 DEF GateInv, BehindLock
  <2>3. CASE addr[q] = a /\ locking
    <3>1. behind'[a] = (IF Locked(a) THEN behind[a] ELSE {}) \cup {r}
      BY <1>1, <1>6, <2>3 DEF GateInv, LoginsTyped
    <3> QED
      BY <2>1, <2>3, <3>1 DEF GateInv, BehindLock
  <2>4. CASE addr[q] = a /\ ~locking
    <3>1. Locked(a)
      BY <1>1, <1>3, <1>5, <1>8, <2>4 DEF Locked, GateInv, LimTyped
    <3> QED
      BY <1>6, <2>1, <2>4, <3>1 DEF GateInv, BehindLock
  <2> QED
    BY <2>2, <2>3, <2>4
<1> QED
  BY <1>4, <1>7, <1>9 DEF GateInv

LEMMA SuccessKeeps == ASSUME GateInv, NEW r \in Reqs, Success(r) PROVE GateInv'
<1> DEFINE a == addr[r]
<1>1. a \in Addrs
  BY DEF GateInv, LoginsTyped
<1>2. /\ lim' = [lim EXCEPT ![a] = NoState] \/ lim' = lim
      /\ disk' \in {disk, lim'}
      /\ pc' = [pc EXCEPT ![r] = "mint"] /\ addr' = addr
      /\ behind' = [behind EXCEPT ![a] = {}]
  BY DEF Success, Persist, Go, limVars
<1>3. LimTyped' /\ LoginsTyped'
  BY <1>1, <1>2, NoStateTyped DEF GateInv, LimTyped, LoginsTyped
<1>4. ASSUME NEW q \in Reqs, pc'[q] = "check", Locked(addr[q])' PROVE q \notin behind'[addr[q]]
  <2>1. pc[q] = "check" /\ addr[q] \in Addrs
    BY <1>2, <1>4 DEF GateInv, LoginsTyped
  <2>2. CASE addr[q] = a
    BY <1>1, <1>2, <2>2 DEF GateInv, LoginsTyped
  <2>3. CASE addr[q] # a
    <3>1. Locked(addr[q]) /\ behind'[addr[q]] = behind[addr[q]]
      BY <1>1, <1>2, <1>4, <2>1, <2>3 DEF Locked, GateInv, LimTyped, LoginsTyped
    <3> QED
      BY <2>1, <3>1 DEF GateInv, BehindLock
  <2> QED
    BY <2>2, <2>3
<1> QED
  BY <1>2, <1>3, <1>4 DEF GateInv, BehindLock

LEMMA CreateKeeps == ASSUME GateInv, NEW r \in Reqs, Create(r) PROVE GateInv'
BY DEF GateInv, LimTyped, LoginsTyped, BehindLock, Create, Go, Locked, limVars, lockHist

---------------------------------------------------------------------------
(* Time, restarts, and what leaves the limiter alone *)

LEMMA TickKeeps == ASSUME GateInv, Tick PROVE GateInv'
<1>1. /\ lim' = [a \in Addrs |-> Aged(lim[a])] /\ disk' = [a \in Addrs |-> Aged(disk[a])]
      /\ UNCHANGED <<pc, addr, behind>>
  BY DEF Tick
<1>2. \A a \in Addrs : lim[a] \in States /\ disk[a] \in States
  BY DEF GateInv, LimTyped
<1>3. LimTyped'
  BY <1>1, <1>2, AgedTyped DEF LimTyped
<1>4. \A a \in Addrs : Locked(a)' => Locked(a)
  BY <1>1, <1>2, AgedTyped DEF Locked
<1> QED
  BY <1>1, <1>3, <1>4 DEF GateInv, LoginsTyped, BehindLock

LEMMA RestartKeeps == ASSUME GateInv, Restart PROVE GateInv'
<1>1. /\ lim' = [a \in Addrs |-> Loaded(disk[a])] /\ disk' = disk
      /\ pc' = [r \in Reqs |-> "idle"] /\ addr' = addr /\ behind' = [a \in Addrs |-> {}]
  BY DEF Restart
<1>2. \A a \in Addrs : disk[a] \in States
  BY DEF GateInv, LimTyped
<1>3. LimTyped'
  BY <1>1, <1>2, LoadedTyped DEF GateInv, LimTyped
<1> QED
  BY <1>1, <1>3 DEF GateInv, LoginsTyped, BehindLock

LEMMA ElseKeeps == ASSUME GateInv, UNCHANGED <<lim, disk, pc, addr, behind>> PROVE GateInv'
BY DEF GateInv, LimTyped, LoginsTyped, BehindLock, Locked

LEMMA GateStep == ASSUME GateInv, [Next]_vars PROVE GateInv'
<1>1. ASSUME NEW r \in Reqs, Login(r) PROVE GateInv'
  BY <1>1, AllowKeeps, VerifyKeeps, FailKeeps, SuccessKeeps, CreateKeeps DEF Login
<1>2. ASSUME NEW t \in Tokens, Session(t) PROVE GateInv'
  BY <1>2, ElseKeeps DEF Session, Cookie, Logout, limVars, lockHist
<1>3. CASE Passwd \/ UNCHANGED vars
  BY <1>3, ElseKeeps DEF Passwd, vars, limVars, lockHist
<1> QED
  BY <1>1, <1>2, <1>3, TickKeeps, RestartKeeps DEF Next

\* Behind a lockout each login that was in flight is checked at most once, and the one
\* that locked the address not again, however the logins interleave with each other,
\* with expiring windows and with restarts.
THEOREM LockoutBoundsGuesses == Spec => []BehindLock
<1>1. Init => GateInv
  BY NoStateTyped DEF Init, GateInv, LimTyped, LoginsTyped, BehindLock
<1>2. GateInv => BehindLock
  BY DEF GateInv
<1> QED
  BY <1>1, <1>2, GateStep, PTL DEF Spec

---------------------------------------------------------------------------
(* Lockouts that grow *)

\* The powers of two ascend: 2^n counts the subsets of 1..n.
LEMMA PowersAscend ==
    ASSUME NEW n \in Nat, NEW m \in Nat, n <= m
    PROVE  2^n \in Nat /\ 2^m \in Nat /\ 2^n <= 2^m
<1>1. /\ IsFiniteSet(1..n) /\ Cardinality(1..n) = n
      /\ IsFiniteSet(1..m) /\ Cardinality(1..m) = m
  BY FS_Interval
<1>2. /\ IsFiniteSet(SUBSET (1..n)) /\ Cardinality(SUBSET (1..n)) = 2^n
      /\ IsFiniteSet(SUBSET (1..m)) /\ Cardinality(SUBSET (1..m)) = 2^m
  BY <1>1, FS_SUBSET
<1>3. SUBSET (1..n) \in SUBSET SUBSET (1..m)
  OBVIOUS
<1>4. Cardinality(SUBSET (1..n)) <= Cardinality(SUBSET (1..m))
  BY <1>2, <1>3, FS_Subset
<1>5. Cardinality(SUBSET (1..n)) \in Nat /\ Cardinality(SUBSET (1..m)) \in Nat
  BY <1>2, FS_CardinalityType
<1> QED
  BY <1>2, <1>4, <1>5

LEMMA LockoutGrows ==
    ASSUME NEW n \in Nat, NEW m \in Nat, Least(n, MaxShift) <= Least(m, MaxShift)
    PROVE  Lockout(n) \in Nat /\ Lockout(m) \in Nat /\ Lockout(n) <= Lockout(m)
<1>1. Least(n, MaxShift) \in Nat /\ Least(m, MaxShift) \in Nat
  BY GateAssumption DEF Least
<1> DEFINE p == 2^Least(n, MaxShift)
           q == 2^Least(m, MaxShift)
<1>2. p \in Nat /\ q \in Nat /\ p <= q
  BY <1>1, PowersAscend
<1>3. Lockout(n) = Window * p /\ Lockout(m) = Window * q
  BY DEF Lockout
<1> HIDE DEF p, q
<1> QED
  BY <1>2, <1>3, GateAssumption, SMT

\* What is left of a sworn lockout is at most what the limiter has, and at most what
\* the next lockout will be; the streak is as long as the lockouts in a row; and a
\* lockout is on disk as it is in memory, unless the last write was lost.
Sworn(a) == sworn[a] > 0 => -lim[a].gone >= sworn[a] /\ sworn[a] <= Lockout(lim[a].streak)
Doubled(a) == locks[a] <= lim[a].streak /\ (locks[a] > 0 => dur[a] >= Lockout(locks[a] - 1))
OnDisk(a) == Locked(a) => lim[a].known /\ (~lost => disk[a] = lim[a])
HistTyped ==
    sworn \in [Addrs -> Nat] /\ locks \in [Addrs -> Nat] /\ dur \in [Addrs -> Int] /\ lost \in BOOLEAN
ForceInv ==
    /\ LimTyped /\ HistTyped /\ addr \in [Reqs -> Addrs]
    /\ \A a \in Addrs : Sworn(a) /\ Doubled(a) /\ OnDisk(a)

LEMMA ForceInit == Init => ForceInv
<1> SUFFICES ASSUME Init PROVE ForceInv
  OBVIOUS
<1>1. \A a \in Addrs : lim[a] = NoState /\ sworn[a] = 0 /\ locks[a] = 0
  BY DEF Init
<1>2. NoState.gone = Window /\ NoState.streak = 0
  BY DEF NoState
<1>3. LimTyped
  BY NoStateTyped DEF Init, LimTyped
<1>4. HistTyped /\ addr \in [Reqs -> Addrs]
  <2>1. /\ sworn = [a \in Addrs |-> 0] /\ locks = [a \in Addrs |-> 0] /\ dur = [a \in Addrs |-> 0]
        /\ lost = FALSE /\ addr \in [Reqs -> Addrs]
    BY DEF Init
  <2>2. sworn \in [Addrs -> Nat] /\ locks \in [Addrs -> Nat] /\ dur \in [Addrs -> Int]
    BY <2>1
  <2>3. lost \in BOOLEAN
    BY <2>1, Zenon
  <2> QED
    BY <2>1, <2>2, <2>3, Zenon DEF HistTyped
<1> QED
  BY <1>1, <1>2, <1>3, <1>4, GateAssumption DEF ForceInv, Sworn, Doubled, OnDisk, Locked

LEMMA FailForces == ASSUME ForceInv, NEW r \in Reqs, Fail(r) PROVE ForceInv'
<1> DEFINE a == addr[r]
           st == Counted(lim[a])
           locking == st.attempts > Attempts
           one == IF locking THEN LockOut(st) ELSE st
           L == Lockout(lim[a].streak)
<1>1. a \in Addrs /\ lim[a] \in States
  BY DEF ForceInv, LimTyped
<1>2. st \in States /\ one \in States
  BY <1>1, CountedTyped, LockOutTyped
<1>3. /\ lim' = [lim EXCEPT ![a] = one] /\ addr' = addr
      /\ lost' \in BOOLEAN /\ disk' = IF lost' THEN disk ELSE lim'
  BY DEF Fail, Persist
<1>4. lim[a].streak \in Nat /\ st.streak = lim[a].streak /\ st.gone = lim[a].gone /\ st.known = TRUE
  BY <1>1 DEF Counted, States
<1>5. LimTyped'
  BY <1>1, <1>2, <1>3 DEF ForceInv, LimTyped
<1>6. LockOut(st) = [known |-> TRUE, attempts |-> 0, streak |-> Least(lim[a].streak + 1, MaxShift + 1),
                     age |-> -L, gone |-> -L]
  BY <1>4 DEF LockOut
<1>7. lim'[a] = one /\ \A b \in Addrs : b # a => lim'[b] = lim[b]
  BY <1>1, <1>3 DEF ForceInv, LimTyped
<1>8. IF locking
      THEN /\ sworn' = [sworn EXCEPT ![a] = Most(sworn[a], -one.gone)]
           /\ dur' = [dur EXCEPT ![a] = -one.gone]
           /\ locks' = [locks EXCEPT ![a] = Least(locks[a] + 1, MaxShift + 1)]
      ELSE UNCHANGED <<sworn, dur, locks>>
  BY <1>3, <1>7 DEF Fail, lockHist
<1>9. L \in Nat
  BY <1>4, LockoutGrows, GateAssumption DEF Least
<1>10. \A b \in Addrs : OnDisk(b)'
  <2>1. \A b \in Addrs : lim'[b].gone < 0 => lim'[b].known
    <3>1. one.known = TRUE
      BY <1>4, <1>6
    <3> QED
      BY <1>7, <3>1 DEF ForceInv, OnDisk, Locked
  <2> QED
    BY <1>3, <2>1 DEF OnDisk, Locked
<1>11. CASE locking
  <2>1. one.gone = -L /\ one.streak = Least(lim[a].streak + 1, MaxShift + 1)
    BY <1>6, <1>11
  <2> HIDE DEF one, st, locking, L
  <2>2. sworn[a] \in Nat /\ locks[a] \in Nat /\ locks[a] <= lim[a].streak /\ (sworn[a] > 0 => sworn[a] <= L)
    BY <1>1 DEF ForceInv, HistTyped, Sworn, Doubled, L
  <2>3. sworn'[a] = L /\ dur'[a] = L /\ locks'[a] = Least(locks[a] + 1, MaxShift + 1)
    BY <1>1, <1>8, <1>9, <1>11, <2>1, <2>2 DEF ForceInv, HistTyped, Most
  <2>4. HistTyped'
    BY <1>1, <1>3, <1>8, <1>9, <1>11, <2>1, <2>2, <2>3, GateAssumption DEF ForceInv, HistTyped, Most, Least
  <2>5. one.streak \in Nat /\ L <= Lockout(one.streak)
    BY <1>4, <2>1, LockoutGrows, GateAssumption DEF Least, L
  <2>6. Sworn(a)'
    BY <1>3, <1>7, <1>9, <2>1, <2>3, <2>5 DEF Sworn
  <2>7. locks'[a] <= one.streak /\ locks'[a] - 1 \in Nat
    BY <1>4, <2>1, <2>2, <2>3, GateAssumption DEF Least
  <2>8. Lockout(locks'[a] - 1) <= L
    <3>1. Least(locks'[a] - 1, MaxShift) <= Least(lim[a].streak, MaxShift)
      BY <1>4, <2>2, <2>3, GateAssumption DEF Least
    <3> QED
      BY <1>4, <2>7, <3>1, LockoutGrows DEF L
  <2>9. Doubled(a)'
    BY <1>3, <1>7, <2>3, <2>7, <2>8 DEF Doubled
  <2>10. \A b \in Addrs : b # a => Sworn(b)' /\ Doubled(b)'
    <3>1. \A b \in Addrs : b # a => sworn'[b] = sworn[b] /\ locks'[b] = locks[b] /\ dur'[b] = dur[b]
      BY <1>1, <1>8, <1>11 DEF ForceInv, HistTyped
    <3> QED
      BY <1>7, <3>1 DEF ForceInv, Sworn, Doubled
  <2> QED
    BY <1>3, <1>5, <1>10, <2>4, <2>6, <2>9, <2>10 DEF ForceInv
<1>12. CASE ~locking
  <2>1. one.gone = lim[a].gone /\ one.streak = lim[a].streak
    BY <1>4, <1>12
  <2> HIDE DEF one, st, locking
  <2>2. UNCHANGED <<sworn, dur, locks>>
    BY <1>8, <1>12
  <2>3. \A b \in Addrs : lim'[b].gone = lim[b].gone /\ lim'[b].streak = lim[b].streak
    BY <1>7, <2>1
  <2>4. HistTyped'
    BY <1>3, <2>2 DEF ForceInv, HistTyped
  <2>5. \A b \in Addrs : Sworn(b)' /\ Doubled(b)'
    BY <2>2, <2>3 DEF ForceInv, Sworn, Doubled
  <2> QED
    BY <1>3, <1>5, <1>10, <2>4, <2>5 DEF ForceInv
<1> QED
  BY <1>11, <1>12

LEMMA SuccessForces == ASSUME ForceInv, NEW r \in Reqs, Success(r) PROVE ForceInv'
<1> DEFINE a == addr[r]
<1>1. a \in Addrs
  BY DEF ForceInv
<1>2. /\ \/ lim' = [lim EXCEPT ![a] = NoState] /\ lost' \in BOOLEAN /\ disk' = IF lost' THEN disk ELSE lim'
         \/ UNCHANGED limVars
      /\ sworn' = [sworn EXCEPT ![a] = 0] /\ locks' = [locks EXCEPT ![a] = 0]
      /\ dur' = [dur EXCEPT ![a] = 0] /\ addr' = addr
  BY DEF Success, Persist
<1>3. LimTyped' /\ HistTyped'
  BY <1>1, <1>2, NoStateTyped DEF ForceInv, LimTyped, HistTyped, limVars
<1>4. NoState.gone = Window /\ NoState.streak = 0
  BY DEF NoState
<1>5. lim[a].streak \in Nat
  BY <1>1 DEF ForceInv, LimTyped, States
<1>6. lim'[a].streak \in Nat /\ \A b \in Addrs : lim'[b] = lim[b] \/ (b = a /\ lim'[b] = NoState)
  BY <1>1, <1>2, <1>4, <1>5 DEF ForceInv, LimTyped, limVars
<1>7. sworn'[a] = 0 /\ locks'[a] = 0
  BY <1>1, <1>2 DEF ForceInv, HistTyped
<1>8. \A b \in Addrs : b # a => sworn'[b] = sworn[b] /\ locks'[b] = locks[b] /\ dur'[b] = dur[b]
  BY <1>1, <1>2 DEF ForceInv, HistTyped
<1>9. ASSUME NEW b \in Addrs PROVE Sworn(b)' /\ Doubled(b)'
  <2>1. CASE b = a
    BY <1>6, <1>7, <2>1 DEF Sworn, Doubled
  <2>2. CASE b # a
    BY <1>6, <1>8, <2>2 DEF ForceInv, Sworn, Doubled
  <2> QED
    BY <2>1, <2>2
<1>10. ASSUME NEW b \in Addrs PROVE OnDisk(b)'
  <2>1. lim'[b].gone < 0 => lim'[b] = lim[b] /\ lim'[b].known
    BY <1>4, <1>6, GateAssumption DEF ForceInv, OnDisk, Locked
  <2>2. UNCHANGED limVars \/ (~lost' => disk' = lim')
    BY <1>2
  <2> QED
    BY <2>1, <2>2 DEF ForceInv, OnDisk, Locked, limVars
<1> QED
  BY <1>1, <1>2, <1>3, <1>9, <1>10 DEF ForceInv

LEMMA TickForces == ASSUME ForceInv, Tick PROVE ForceInv'
<1>1. /\ lim' = [a \in Addrs |-> Aged(lim[a])] /\ disk' = [a \in Addrs |-> Aged(disk[a])]
      /\ sworn' = [a \in Addrs |-> IF sworn[a] = 0 THEN 0 ELSE sworn[a] - 1]
      /\ UNCHANGED <<lost, addr, locks, dur>>
  BY DEF Tick
<1>2. \A a \in Addrs : lim[a] \in States /\ disk[a] \in States /\ sworn[a] \in Nat
  BY DEF ForceInv, LimTyped, HistTyped
<1>3. LimTyped' /\ HistTyped'
  <2>1. \A a \in Addrs : Aged(lim[a]) \in States /\ Aged(disk[a]) \in States
    BY <1>2, AgedTyped
  <2>2. sworn' \in [Addrs -> Nat]
    BY <1>1, <1>2
  <2> QED
    BY <1>1, <2>1, <2>2 DEF ForceInv, LimTyped, HistTyped
<1>4. ASSUME NEW a \in Addrs PROVE Sworn(a)' /\ Doubled(a)' /\ OnDisk(a)'
  <2>1. lim'[a] = Aged(lim[a]) /\ disk'[a] = Aged(disk[a])
    BY <1>1
  <2>2. lim[a].gone \in Int
    BY <1>2 DEF States
  <2>3. /\ lim'[a].streak = lim[a].streak /\ lim'[a].known = lim[a].known
        /\ lim'[a].gone = Least(lim[a].gone + 1, Window)
    BY <1>2, <2>1 DEF Aged, States
  <2>4. sworn'[a] = IF sworn[a] = 0 THEN 0 ELSE sworn[a] - 1
    BY <1>1
  <2>5. Sworn(a)'
    <3>1. Sworn(a)
      BY DEF ForceInv
    <3> SUFFICES ASSUME sworn'[a] > 0
                 PROVE  -lim'[a].gone >= sworn'[a] /\ sworn'[a] <= Lockout(lim'[a].streak)
      BY DEF Sworn
    <3>2. sworn[a] > 0 /\ sworn'[a] = sworn[a] - 1
      BY <1>2, <2>4
    <3>3. Lockout(lim[a].streak) \in Int
      BY <1>2, LockoutInt DEF States
    <3> QED
      BY <1>2, <2>2, <2>3, <3>1, <3>2, <3>3, GateAssumption DEF Sworn, Least
  <2>6. Doubled(a)'
    BY <1>1, <2>3 DEF ForceInv, Doubled
  <2>7. OnDisk(a)'
    BY <1>1, <2>1, <2>2, <2>3, GateAssumption DEF ForceInv, OnDisk, Locked, Least
  <2> QED
    BY <2>5, <2>6, <2>7
<1> QED
  BY <1>1, <1>3, <1>4 DEF ForceInv

LEMMA RestartForces == ASSUME ForceInv, Restart PROVE ForceInv'
<1>1. /\ lim' = [a \in Addrs |-> Loaded(disk[a])] /\ UNCHANGED <<disk, lost, addr>>
      /\ sworn' = [a \in Addrs |-> IF lost THEN 0 ELSE sworn[a]]
      /\ locks' = [a \in Addrs |-> IF ~lost /\ Locked(a) THEN locks[a] ELSE 0]
      /\ dur' = [a \in Addrs |-> IF ~lost /\ Locked(a) THEN dur[a] ELSE 0]
  BY DEF Restart
<1>2. \A a \in Addrs : lim[a] \in States /\ disk[a] \in States
  BY DEF ForceInv, LimTyped
<1>3. LimTyped' /\ HistTyped'
  BY <1>1, <1>2, LoadedTyped DEF ForceInv, LimTyped, HistTyped
<1>4. NoState.gone = Window
  BY DEF NoState
<1>5. ASSUME NEW a \in Addrs PROVE Sworn(a)' /\ Doubled(a)' /\ OnDisk(a)'
  <2>1. lim'[a] = Loaded(disk[a]) /\ lim'[a] \in States
    BY <1>1, <1>2, LoadedTyped
  <2>2. lim[a].gone \in Int /\ lim'[a].streak \in Nat
    BY <1>2, <2>1 DEF States
  <2>3. ~lost /\ Locked(a) => lim'[a] = lim[a]
    BY <2>1, <2>2, GateAssumption DEF ForceInv, OnDisk, Loaded, Locked
  <2>4. Sworn(a)'
    <3>1. Sworn(a) /\ sworn'[a] = (IF lost THEN 0 ELSE sworn[a]) /\ sworn[a] \in Nat
      BY <1>1 DEF ForceInv, HistTyped
    <3> QED
      BY <2>2, <2>3, <3>1 DEF Sworn, Locked
  <2>5. Doubled(a)'
    <3>1. /\ Doubled(a) /\ locks'[a] = IF ~lost /\ Locked(a) THEN locks[a] ELSE 0
          /\ dur'[a] = IF ~lost /\ Locked(a) THEN dur[a] ELSE 0
      BY <1>1 DEF ForceInv
    <3> QED
      BY <2>2, <2>3, <3>1 DEF Doubled
  <2>6. OnDisk(a)'
    BY <1>1, <1>4, <2>1, GateAssumption DEF OnDisk, Locked, Loaded
  <2> QED
    BY <2>4, <2>5, <2>6
<1> QED
  BY <1>1, <1>3, <1>5 DEF ForceInv

LEMMA ElseForces == ASSUME ForceInv, UNCHANGED <<lim, disk, lost, addr, sworn, locks, dur>> PROVE ForceInv'
BY DEF ForceInv, LimTyped, HistTyped, Sworn, Doubled, OnDisk, Locked

LEMMA ForceStep == ASSUME ForceInv, [Next]_vars PROVE ForceInv'
<1>1. ASSUME NEW r \in Reqs, Login(r) PROVE ForceInv'
  <2>1. ASSUME NEW a \in Addrs, LoginAllow(r, a) PROVE ForceInv'
    BY <2>1 DEF LoginAllow, ForceInv, LimTyped, HistTyped, Sworn, Doubled, OnDisk, Locked, limVars, lockHist
  <2>2. CASE Verify(r) \/ Create(r)
    BY <2>2, ElseForces DEF Verify, Create, limVars, lockHist
  <2> QED
    BY <1>1, <2>1, <2>2, FailForces, SuccessForces DEF Login
<1>2. ASSUME NEW t \in Tokens, Session(t) PROVE ForceInv'
  BY <1>2, ElseForces DEF Session, Cookie, Logout, limVars, lockHist
<1>3. CASE Passwd \/ UNCHANGED vars
  BY <1>3, ElseForces DEF Passwd, vars, limVars, lockHist
<1> QED
  BY <1>1, <1>2, <1>3, TickForces, RestartForces DEF Next

\* An address stays locked for as long as any of its failures locked it for, through
\* restarts and later failures, unless it logs in or the file could not be written; and
\* lockouts in a row double up to the largest one.
THEOREM LockoutsStand == Spec => []LockoutInForce
<1>1. ForceInv => LockoutInForce
  <2> SUFFICES ASSUME ForceInv, NEW a \in Addrs
               PROVE  /\ sworn[a] > 0 => Locked(a) /\ -lim[a].gone >= sworn[a]
                      /\ locks[a] > 0 => dur[a] >= Lockout(locks[a] - 1)
    BY DEF LockoutInForce
  <2>1. Sworn(a) /\ Doubled(a) /\ sworn[a] \in Nat /\ lim[a].gone \in Int
    BY DEF ForceInv, HistTyped, LimTyped, States
  <2> QED
    BY <2>1 DEF Sworn, Doubled, Locked
<1> QED
  BY <1>1, ForceInit, ForceStep, PTL DEF Spec

---------------------------------------------------------------------------
(* Sessions *)

\* A session that has time left was not logged out, and has been quiet for no longer
\* than the time it has lost.
SessInv ==
    /\ ttl \in [Tokens -> 0..Idle] /\ quiet \in [Tokens -> 0..Idle]
    /\ minted \in 0..MaxTokens /\ out \in SUBSET Tokens
    /\ \A t \in out : t <= minted /\ ttl[t] = 0
    /\ \A t \in Tokens : ttl[t] > 0 => quiet[t] + ttl[t] <= Idle

Earned == \A t \in Tokens : quiet'[t] < quiet[t] /\ minted' = minted => t \notin out /\ quiet[t] < Idle

LEMMA ElseKeepsSessions ==
    ASSUME SessInv, UNCHANGED <<ttl, minted, out, quiet>> PROVE SessInv' /\ Earned
BY DEF SessInv, Earned, Tokens

LEMMA SameSessions == ASSUME SessInv, UNCHANGED sesVars PROVE SessInv' /\ Earned
BY ElseKeepsSessions DEF sesVars

LEMMA CreateEarned == ASSUME SessInv, NEW r \in Reqs, Create(r) PROVE SessInv' /\ Earned
<1>1. CASE UNCHANGED sesVars
  BY <1>1, SameSessions
<1>2. CASE /\ minted < MaxTokens /\ minted' = minted + 1
           /\ ttl' = [ttl EXCEPT ![minted'] = Idle]
           /\ quiet' = [quiet EXCEPT ![minted'] = 0]
           /\ UNCHANGED <<out, stale>>
  <2>1. minted' \in Tokens /\ minted' \notin out /\ minted' # minted
    BY <1>2, GateAssumption DEF SessInv, Tokens
  <2>2. ttl' \in [Tokens -> 0..Idle] /\ quiet' \in [Tokens -> 0..Idle] /\ minted' \in 0..MaxTokens
    BY <1>2, <2>1, GateAssumption DEF SessInv, Tokens
  <2>3. \A t \in out' : t <= minted' /\ ttl'[t] = 0
    BY <1>2, <2>1, GateAssumption DEF SessInv, Tokens
  <2>4. \A t \in Tokens : ttl'[t] > 0 => quiet'[t] + ttl'[t] <= Idle
    BY <1>2, <2>1, GateAssumption DEF SessInv
  <2> QED
    BY <1>2, <2>1, <2>2, <2>3, <2>4 DEF SessInv, Earned
<1> QED
  BY <1>1, <1>2 DEF Create

LEMMA CookieEarned == ASSUME SessInv, NEW t \in Tokens, Cookie(t) PROVE SessInv' /\ Earned
<1>1. /\ ttl[t] > 0 /\ ttl' = [ttl EXCEPT ![t] = Idle] /\ quiet' = [quiet EXCEPT ![t] = 0]
      /\ UNCHANGED <<minted, out>>
  BY DEF Cookie
<1>2. t \notin out /\ quiet[t] < Idle
  BY <1>1, GateAssumption DEF SessInv, Tokens
<1>3. SessInv'
  <2>1. ttl' \in [Tokens -> 0..Idle] /\ quiet' \in [Tokens -> 0..Idle]
    BY <1>1, GateAssumption DEF SessInv
  <2>2. minted' \in 0..MaxTokens /\ out' \in SUBSET Tokens
    BY <1>1 DEF SessInv
  <2>3. \A u \in out' : u <= minted' /\ ttl'[u] = 0
    BY <1>1, <1>2 DEF SessInv
  <2>4. \A u \in Tokens : ttl'[u] > 0 => quiet'[u] + ttl'[u] <= Idle
    BY <1>1, GateAssumption DEF SessInv
  <2> QED
    BY <2>1, <2>2, <2>3, <2>4 DEF SessInv
<1>4. Earned
  BY <1>1, <1>2, GateAssumption DEF SessInv, Earned
<1> QED
  BY <1>3, <1>4

LEMMA LogoutEarned == ASSUME SessInv, NEW t \in Tokens, Logout(t) PROVE SessInv' /\ Earned
<1>1. /\ t <= minted /\ ttl' = [ttl EXCEPT ![t] = 0] /\ out' = out \cup {t}
      /\ UNCHANGED <<minted, quiet>>
  BY DEF Logout
<1>2. SessInv'
  <2>1. ttl' \in [Tokens -> 0..Idle] /\ quiet' \in [Tokens -> 0..Idle]
    BY <1>1, GateAssumption DEF SessInv
  <2>2. minted' \in 0..MaxTokens /\ out' \in SUBSET Tokens
    BY <1>1 DEF SessInv
  <2>3. \A u \in out' : u <= minted' /\ ttl'[u] = 0
    BY <1>1 DEF SessInv
  <2>4. \A u \in Tokens : ttl'[u] > 0 => quiet'[u] + ttl'[u] <= Idle
    BY <1>1 DEF SessInv
  <2> QED
    BY <2>1, <2>2, <2>3, <2>4 DEF SessInv
<1>3. Earned
  BY <1>1, GateAssumption DEF SessInv, Earned
<1> QED
  BY <1>2, <1>3

LEMMA TickEarned == ASSUME SessInv, Tick PROVE SessInv' /\ Earned
<1>1. /\ ttl' = [t \in Tokens |-> IF ttl[t] = 0 THEN 0 ELSE ttl[t] - 1]
      /\ quiet' = [t \in Tokens |-> Least(quiet[t] + 1, Idle)]
      /\ UNCHANGED <<minted, out>>
  BY DEF Tick
<1>2. \A t \in Tokens : ttl[t] \in 0..Idle /\ quiet[t] \in 0..Idle
  BY DEF SessInv
<1>3. ttl' \in [Tokens -> 0..Idle] /\ quiet' \in [Tokens -> 0..Idle]
  BY <1>1, <1>2, GateAssumption DEF Least
<1>4. \A t \in Tokens : quiet'[t] >= quiet[t]
  BY <1>1, <1>2, GateAssumption DEF Least
<1>5. \A t \in out : t <= minted /\ ttl'[t] = 0
  BY <1>1 DEF SessInv
<1>6. \A t \in Tokens : ttl'[t] > 0 => quiet'[t] + ttl'[t] <= Idle
  BY <1>1, <1>2, GateAssumption DEF SessInv, Least
<1>7. Earned
  BY <1>2, <1>3, <1>4 DEF Earned
<1> QED
  BY <1>1, <1>3, <1>5, <1>6, <1>7 DEF SessInv

LEMMA RestartEarned == ASSUME SessInv, Restart PROVE SessInv' /\ Earned
<1>1. /\ ttl' = [t \in Tokens |-> 0] /\ out' = out \cup 1..minted /\ UNCHANGED <<minted, quiet>>
  BY DEF Restart
<1>2. out' \in SUBSET Tokens /\ \A t \in out' : t \in Tokens /\ t <= minted
  BY <1>1, GateAssumption DEF SessInv, Tokens
<1>3. SessInv'
  BY <1>1, <1>2, GateAssumption DEF SessInv
<1>4. Earned
  BY <1>1, GateAssumption DEF SessInv, Earned
<1> QED
  BY <1>3, <1>4

LEMMA SessStep == ASSUME SessInv, [Next]_vars PROVE SessInv' /\ Earned
<1>1. ASSUME NEW r \in Reqs, Login(r) PROVE SessInv' /\ Earned
  BY <1>1, SameSessions, CreateEarned DEF Login, LoginAllow, Verify, Fail, Success
<1>2. ASSUME NEW t \in Tokens, Session(t) PROVE SessInv' /\ Earned
  BY <1>2, CookieEarned, LogoutEarned DEF Session
<1>3. CASE Passwd \/ UNCHANGED vars
  BY <1>3, ElseKeepsSessions DEF Passwd, vars
<1> QED
  BY <1>1, <1>2, <1>3, TickEarned, RestartEarned DEF Next

\* A request is let in by a session only if that was neither logged out, nor left idle
\* for its time, nor minted by an earlier console.
THEOREM EntryIsEarned == Spec => EntryEarned
<1>1. Init => SessInv
  BY GateAssumption DEF Init, SessInv, Tokens
<1>2. SessInv /\ [Next]_vars => SessInv' /\ [Earned]_vars
  BY SessStep
<1> QED
  BY <1>1, <1>2, PTL DEF Spec, EntryEarned, Earned
=============================================================================
