----------------------------- MODULE ConsoleAuth -----------------------------
(***************************************************************************)
(* The gate of the console: the login handler, the limiter of wrong        *)
(* passwords per source address, and the table of browser sessions.        *)
(* Logins run concurrently: Allow, VerifyPassword, Fail or Success, and    *)
(* Create are separate critical sections.                                  *)
(*                                                                         *)
(* Times are relative to now, and a tick moves them all: an instant in the *)
(* future is negative.  An instant too long ago to matter stays where it   *)
(* is.  Reading the credentials is one step here; CredStore has its steps, *)
(* and the bearer keys that the handlers' wrapper takes besides a session. *)
(***************************************************************************)
EXTENDS Integers

CONSTANTS
    Addrs,          \* source addresses
    Reqs,           \* concurrent logins
    Attempts,       \* attemptsPerWindow
    Window,         \* window and lockoutBase: one minute
    MaxShift,       \* the largest shift of lockoutBase
    Idle,           \* idle time of a session
    MaxTokens       \* bound: sessions minted

ASSUME GateAssumption ==
    /\ Attempts \in Nat /\ Window \in Nat \ {0} /\ MaxShift \in Nat /\ Idle \in Nat \ {0}
    /\ MaxTokens \in Nat

VARIABLES
    lim,        \* Limiter.state, NoState where an address has none
    disk,       \* login-attempts.json
    lost,       \* the last write of that file failed
    pc,         \* per login: "idle", "check", "wrong", "right", "mint"
    addr,       \* per login: its source address
    ttl,        \* Sessions.table: per token what is left of its idle time, 0 if none
    minted,     \* tokens minted so far; they are random, so none comes twice
    \* history
    behind,     \* per address: the logins checked since its lockout began, the last one before it too
    sworn,      \* per address: what is left of the longest lockout it was told of
    locks, dur, \* per address: lockouts in a row, and how long the last one was
    out,        \* tokens logged out
    quiet,      \* per token: time since it was last let in
    stale       \* sessions that were alive when the password was last changed

limVars == <<lim, disk, lost>>
sesVars == <<ttl, minted, out, quiet, stale>>
lockHist == <<behind, sworn, locks, dur>>
vars == <<lim, disk, lost, pc, addr, ttl, minted, behind, sworn, locks, dur, out, quiet, stale>>

Tokens == 1..MaxTokens
Least(a, b) == IF a <= b THEN a ELSE b
Most(a, b) == IF a <= b THEN b ELSE a

\* lockoutBase << min(streak, 6), which reaches lockoutMax and no more
Lockout(streak) == Window * 2^Least(streak, MaxShift)

\* "age" is the time since the window began, "gone" since the lockout ended.  The
\* zero times of a new entry are long ago.
NoState == [known |-> FALSE, attempts |-> 0, age |-> Window + 1, streak |-> 0, gone |-> Window]

Locked(a) == lim[a].gone < 0

TypeOK ==
    /\ \A s \in {lim, disk} : \A a \in Addrs :
          /\ s[a].known \in BOOLEAN /\ s[a].attempts \in 0..Attempts
          /\ s[a].streak \in 0..MaxShift + 1
          /\ s[a].age \in -Lockout(MaxShift)..Window + 1 /\ s[a].gone \in -Lockout(MaxShift)..Window
    /\ lost \in BOOLEAN
    /\ pc \in [Reqs -> {"idle", "check", "wrong", "right", "mint"}] /\ addr \in [Reqs -> Addrs]
    /\ ttl \in [Tokens -> 0..Idle] /\ minted \in 0..MaxTokens
    /\ behind \in [Addrs -> SUBSET Reqs] /\ out \in SUBSET Tokens /\ stale \in SUBSET Tokens

Init ==
    /\ lim = [a \in Addrs |-> NoState] /\ disk = lim /\ lost = FALSE
    /\ pc = [r \in Reqs |-> "idle"] /\ addr \in [Reqs -> Addrs]
    /\ ttl = [t \in Tokens |-> 0] /\ minted = 0
    /\ behind = [a \in Addrs |-> {}] /\ sworn = [a \in Addrs |-> 0]
    /\ locks = [a \in Addrs |-> 0] /\ dur = [a \in Addrs |-> 0]
    /\ out = {} /\ quiet = [t \in Tokens |-> 0] /\ stale = {}

---------------------------------------------------------------------------
(* hLogin *)

Go(r, s) == pc' = [pc EXCEPT ![r] = s]

\* mutant: the failures are looked at, which a lockout has set back
LoginAllowLax(r, a) ==
    /\ pc[r] = "idle" /\ lim[a].attempts <= Attempts
    /\ addr' = [addr EXCEPT ![r] = a] /\ Go(r, "check")
    /\ UNCHANGED <<limVars, sesVars, lockHist>>

\* Limiter.Allow, and a body that can be read.  A locked address is answered 429, a
\* bad body 400; neither changes anything.
LoginAllow(r, a) ==
    /\ pc[r] = "idle" /\ ~Locked(a)
    /\ addr' = [addr EXCEPT ![r] = a] /\ Go(r, "check")
    /\ UNCHANGED <<limVars, sesVars, lockHist>>

\* Store.VerifyPassword: slow on purpose, and outside every lock
Verify(r) ==
    /\ pc[r] = "check"
    /\ \E answer \in {"wrong", "right"} : Go(r, answer)
    /\ behind' = IF Locked(addr[r]) THEN [behind EXCEPT ![addr[r]] = @ \cup {r}] ELSE behind
    /\ UNCHANGED <<limVars, addr, sesVars, sworn, locks, dur>>

\* persistLocked writes the whole map to a temporary file and renames it; an error
\* is ignored.
Persist(state) ==
    /\ lost' \in BOOLEAN
    /\ disk' = IF lost' THEN disk ELSE state

\* the window restarts when it is over, and counts this failure
Counted(st) ==
    IF st.age > Window THEN [st EXCEPT !.known = TRUE, !.age = 0, !.attempts = 1]
    ELSE [st EXCEPT !.known = TRUE, !.attempts = @ + 1]

\* mutant: every lockout is the first
LockOutFlat(st) ==
    [known |-> TRUE, attempts |-> 0, streak |-> st.streak, age |-> -Lockout(st.streak), gone |-> -Lockout(st.streak)]

LockOut(st) ==
    [known |-> TRUE, attempts |-> 0, streak |-> Least(st.streak + 1, MaxShift + 1),
     age |-> -Lockout(st.streak), gone |-> -Lockout(st.streak)]

\* Limiter.Fail
Fail(r) ==
    LET a == addr[r]
        st == Counted(lim[a])
        locking == st.attempts > Attempts
        after == [lim EXCEPT ![a] = IF locking THEN LockOut(st) ELSE st]
    IN /\ pc[r] = "wrong" /\ Go(r, "idle")
       /\ lim' = after /\ Persist(after)
       /\ IF locking
          THEN /\ sworn' = [sworn EXCEPT ![a] = Most(@, -after[a].gone)]
               /\ dur' = [dur EXCEPT ![a] = -after[a].gone]
               /\ locks' = [locks EXCEPT ![a] = Least(@ + 1, MaxShift + 1)]
               /\ behind' = [behind EXCEPT ![a] = (IF Locked(a) THEN @ ELSE {}) \cup {r}]
          ELSE UNCHANGED lockHist
       /\ UNCHANGED <<addr, sesVars>>

\* Limiter.Success: a right password ends a lockout that began after this login was
\* let in.
Success(r) ==
    LET a == addr[r]
        after == [lim EXCEPT ![a] = NoState]
    IN /\ pc[r] = "right" /\ Go(r, "mint")
       /\ IF lim[a].known THEN lim' = after /\ Persist(after) ELSE UNCHANGED limVars
       /\ sworn' = [sworn EXCEPT ![a] = 0] /\ locks' = [locks EXCEPT ![a] = 0]
       /\ dur' = [dur EXCEPT ![a] = 0] /\ behind' = [behind EXCEPT ![a] = {}]
       /\ UNCHANGED <<addr, sesVars>>

\* Sessions.Create: prune and add, or no randomness to be had.  An entry with nothing
\* left is as good as pruned.
Create(r) ==
    /\ pc[r] = "mint" /\ Go(r, "idle")
    /\ \/ UNCHANGED sesVars
       \/ /\ minted < MaxTokens /\ minted' = minted + 1
          /\ ttl' = [ttl EXCEPT ![minted'] = Idle]
          /\ quiet' = [quiet EXCEPT ![minted'] = 0]
          /\ UNCHANGED <<out, stale>>
    /\ UNCHANGED <<limVars, addr, lockHist>>

---------------------------------------------------------------------------
(* Sessions, as the wrapper of the handlers and hLogout use them *)

\* Sessions.Validate, which slides the idle time
Cookie(t) ==
    /\ ttl[t] > 0
    /\ ttl' = [ttl EXCEPT ![t] = Idle] /\ quiet' = [quiet EXCEPT ![t] = 0]
    /\ UNCHANGED <<limVars, pc, addr, minted, lockHist, out, stale>>

\* mutant: the cookie is taken back and the session stays
LogoutCookieOnly(t) ==
    /\ t <= minted /\ t \notin out
    /\ out' = out \cup {t}
    /\ UNCHANGED <<limVars, pc, addr, ttl, minted, quiet, stale, lockHist>>

\* hLogout: Sessions.Revoke
Logout(t) ==
    /\ t <= minted /\ t \notin out
    /\ ttl' = [ttl EXCEPT ![t] = 0] /\ out' = out \cup {t}
    /\ UNCHANGED <<limVars, pc, addr, minted, quiet, stale, lockHist>>

---------------------------------------------------------------------------
(* Commands, time, restarts *)

\* qfn passwd writes the credentials; the console's table is in another process
Passwd ==
    /\ stale' = {t \in Tokens : ttl[t] > 0}
    /\ UNCHANGED <<limVars, pc, addr, ttl, minted, out, quiet, lockHist>>

Aged(st) == [st EXCEPT !.age = Least(@ + 1, Window + 1), !.gone = Least(@ + 1, Window)]

Tick ==
    /\ lim' = [a \in Addrs |-> Aged(lim[a])] /\ disk' = [a \in Addrs |-> Aged(disk[a])]
    /\ ttl' = [t \in Tokens |-> IF ttl[t] = 0 THEN 0 ELSE ttl[t] - 1]
    /\ quiet' = [t \in Tokens |-> Least(quiet[t] + 1, Idle)]
    /\ sworn' = [a \in Addrs |-> IF sworn[a] = 0 THEN 0 ELSE sworn[a] - 1]
    /\ UNCHANGED <<lost, pc, addr, minted, behind, locks, dur, out, stale>>

\* Limiter.load: an entry whose lockout ended a window ago or more is left out
Loaded(st) == IF st.known /\ st.gone < Window THEN st ELSE NoState

\* The console exits and another one starts.  What a failed write did not keep is
\* not held against it.
Restart ==
    /\ lim' = [a \in Addrs |-> Loaded(disk[a])]
    /\ pc' = [r \in Reqs |-> "idle"] /\ ttl' = [t \in Tokens |-> 0]
    /\ out' = out \cup 1..minted
    /\ sworn' = [a \in Addrs |-> IF lost THEN 0 ELSE sworn[a]]
    /\ locks' = [a \in Addrs |-> IF ~lost /\ Locked(a) THEN locks[a] ELSE 0]
    /\ dur' = [a \in Addrs |-> IF ~lost /\ Locked(a) THEN dur[a] ELSE 0]
    /\ behind' = [a \in Addrs |-> {}]
    /\ UNCHANGED <<disk, lost, addr, minted, quiet, stale>>

---------------------------------------------------------------------------

Login(r) == (\E a \in Addrs : LoginAllow(r, a)) \/ Verify(r) \/ Fail(r) \/ Success(r) \/ Create(r)
Session(t) == Cookie(t) \/ Logout(t)

Next == (\E r \in Reqs : Login(r)) \/ (\E t \in Tokens : Session(t)) \/ Passwd \/ Tick \/ Restart

Spec == Init /\ [][Next]_vars

---------------------------------------------------------------------------
(* Properties *)

\* Allow and VerifyPassword are far apart, so logins let in before a lockout are still
\* checked behind it; but each of them once, and the one that locked the address not
\* again.  A lockout therefore bounds the guesses whatever was in flight.
BehindLock == \A r \in Reqs : pc[r] = "check" /\ Locked(addr[r]) => r \notin behind[addr[r]]

\* "Lockout state persists in the state dir so a reboot does not reset it": an address
\* stays locked for as long as any of its failures locked it for, through restarts and
\* later failures, unless it logs in (or the file could not be written).  And "exponential
\* backoff": lockouts in a row double up to the largest one, across expired windows,
\* failures that come late and restarts during a lockout.
LockoutInForce ==
    \A a \in Addrs : /\ sworn[a] > 0 => Locked(a) /\ -lim[a].gone >= sworn[a]
                     /\ locks[a] > 0 => dur[a] >= Lockout(locks[a] - 1)

\* A request is let in by a session only if that was neither logged out nor left idle
\* for its time, nor minted by an earlier console.
EntryEarned ==
    [][\A t \in Tokens : quiet'[t] < quiet[t] /\ minted' = minted
                            => t \notin out /\ quiet[t] < Idle]_vars

\* What is said but does not hold.

\* setup.go:252 "password updated — browser sessions invalidated"
PasswdEndsSessions == [][\A t \in Tokens : quiet'[t] < quiet[t] => t \notin stale]_vars

\* ratelimit.go:13 "so a reboot does not reset it", of the streak after the lockout
RebootKeepsStreak == [][Restart => \A a \in Addrs : ~lost => lim'[a].streak >= lim[a].streak]_vars
=============================================================================
