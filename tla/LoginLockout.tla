---------------------------- MODULE LoginLockout ----------------------------
(***************************************************************************)
(* Logins of one account: the lock test, the verification of the password, *)
(* the failures counted towards a lock and the reset by a success, over    *)
(* the Redis store, each of whose calls is a step, or the store of one     *)
(* process, whose calls hold a lock of their own.                          *)
(*                                                                         *)
(* What is left of a lifetime is counted in seconds, so that time needs no *)
(* bound.                                                                  *)
(***************************************************************************)
EXTENDS Naturals, FiniteSets

CONSTANTS
  Client,       \* logins in flight at once
  Store,        \* a subset of redis and process
  MaxAttempts,  \* login_max_attempts
  Window,       \* login_lockout, in seconds
  MaxDied       \* bound: no more handlers die between calls of record_failure

ASSUME ClientAssumption == IsFiniteSet(Client)
ASSUME StoreAssumption == Store \subseteq {"redis", "process"}
ASSUME BudgetAssumption == MaxAttempts \in Nat \ {0}
ASSUME WindowAssumption == Window \in Nat
ASSUME BoundAssumption == MaxDied \in Nat

\* A lifetime in Redis is at least a second.
Seconds == IF Window = 0 THEN 1 ELSE Window

VARIABLES
  store,     \* the implementation of LoginLockout in use
  attempts,  \* failures counted
  life,      \* seconds until the counter expires, 0: it does not
  lock,      \* seconds until the lock ends, 0: none
  member,    \* the account has an ACTIVE membership
  login,     \* login[c]: the request of client c
  late,      \* history: passwords verified since the lock was set
  died       \* history: the handlers that died between calls of record_failure

counter == <<attempts, life>>
vars == <<store, counter, lock, member, login, late, died>>

\* right: what was typed is the password of an ACTIVE user; current: the row of app_user read by the
\* handler is still the one stored; count: what INCR returned, until EXPIRE is done.
Request ==
  [pc: {"idle", "read", "member", "commit", "reset", "failed", "expire",
        "lock", "delete"},
   right: BOOLEAN, current: BOOLEAN, count: Nat]
IdleRequest == [pc |-> "idle", right |-> FALSE, current |-> FALSE, count |-> 0]

Init ==
  /\ store \in Store
  /\ attempts = 0 /\ life = 0 /\ lock = 0
  /\ member \in BOOLEAN
  /\ login = [c \in Client |-> IdleRequest]
  /\ late = 0 /\ died = 0

\* On to a step that needs nothing of what came before.
Goto(c, pc) == login' = [login EXCEPT ![c] = [IdleRequest EXCEPT !.pc = pc]]
Stop(c) == login' = [login EXCEPT ![c] = IdleRequest]
Recording == {"expire", "lock", "delete"}

(***************************************************************************)
(* The handler of a login.                                                 *)
(***************************************************************************)
\* Mutant: the lock is not tested.
AskUnchecked(c) ==
  /\ login[c].pc = "idle"
  /\ \E right \in BOOLEAN :
       login' = [login EXCEPT ![c].pc = "read", ![c].right = right]
  /\ UNCHANGED <<store, counter, lock, member, late, died>>
\* _reject_locked; a locked key is a 429.
Ask(c) ==
  /\ login[c].pc = "idle" /\ lock = 0
  /\ \E right \in BOOLEAN :
       login' = [login EXCEPT ![c].pc = "read", ![c].right = right]
  /\ UNCHANGED <<store, counter, lock, member, late, died>>

\* authenticate, up to the verification of the password.
Verify(c) ==
  /\ login[c].pc = "read"
  /\ IF login[c].right
     THEN login' = [login EXCEPT ![c].pc = "member", ![c].current = TRUE]
     ELSE Goto(c, "failed")
  /\ late' = IF lock = 0 THEN 0 ELSE late + 1
  /\ UNCHANGED <<store, counter, lock, member, died>>

\* authenticate: the self-lookup of an ACTIVE membership.
FindMember(c) ==
  /\ login[c].pc = "member"
  /\ IF member THEN login' = [login EXCEPT ![c].pc = "commit"]
               ELSE Goto(c, "failed")
  /\ UNCHANGED <<store, counter, lock, member, late, died>>

\* Any change of the row of app_user; the others have read an older version.
Outdated == [c \in Client |-> [login[c] EXCEPT !.current = FALSE]]

\* Mutant: last_login_at is written without the version of the row.
CommitAnyway(c) ==
  /\ login[c].pc = "commit"
  /\ login' = [Outdated EXCEPT ![c] = [IdleRequest EXCEPT !.pc = "reset"]]
  /\ UNCHANGED <<store, counter, lock, member, late, died>>
\* authenticate: last_login_at, under the version of the row; a stale row is a 500.
Commit(c) ==
  /\ login[c].pc = "commit"
  /\ IF login[c].current
     THEN login' = [Outdated EXCEPT ![c] = [IdleRequest EXCEPT !.pc = "reset"]]
     ELSE Stop(c)
  /\ UNCHANGED <<store, counter, lock, member, late, died>>

\* reset: one DEL of both keys.  The pair is issued next.
Reset(c) ==
  /\ login[c].pc = "reset"
  /\ attempts' = 0 /\ life' = 0 /\ lock' = 0
  /\ late' = 0
  /\ Stop(c)
  /\ UNCHANGED <<store, member, died>>

(***************************************************************************)
(* record_failure.                                                         *)
(***************************************************************************)
\* Mutant: the lock comes one failure late.
OverBudget(n) == n > MaxAttempts
Spent(n) == n >= MaxAttempts

\* In the process: one call, under the guard.
RecordFailure(c) ==
  /\ login[c].pc = "failed" /\ store = "process"
  /\ IF Spent(attempts + 1)
     THEN attempts' = 0 /\ lock' = Window
     ELSE attempts' = attempts + 1 /\ UNCHANGED lock
  /\ late' = IF lock = 0 THEN 0 ELSE late
  /\ Stop(c)
  /\ UNCHANGED <<store, life, member, died>>

\* Mutant: EXPIRE is given up on.
NoExpire(n) == IF Spent(n) THEN "lock" ELSE "idle"
\* After an INCR that returned n: EXPIRE for the first, SETEX when the budget is spent.
AfterIncr(n) == IF n = 1 THEN "expire" ELSE IF Spent(n) THEN "lock" ELSE "idle"

Incr(c) ==
  LET n == attempts + 1
  IN /\ login[c].pc = "failed" /\ store = "redis"
     /\ attempts' = n
     /\ login' = [login EXCEPT ![c].pc = AfterIncr(n),
                               ![c].count = IF AfterIncr(n) = "expire" THEN n ELSE 0]
     /\ UNCHANGED <<store, life, lock, member, late, died>>

\* EXPIRE of a counter that another handler deleted does nothing.
Expire(c) ==
  /\ login[c].pc = "expire"
  /\ life' = IF attempts = 0 THEN 0 ELSE Seconds
  /\ Goto(c, IF Spent(login[c].count) THEN "lock" ELSE "idle")
  /\ UNCHANGED <<store, attempts, lock, member, late, died>>

SetLock(c) ==
  /\ login[c].pc = "lock"
  /\ lock' = Seconds
  /\ late' = IF lock = 0 THEN 0 ELSE late
  /\ Goto(c, "delete")
  /\ UNCHANGED <<store, counter, member, died>>

DeleteCounter(c) ==
  /\ login[c].pc = "delete"
  /\ attempts' = 0 /\ life' = 0
  /\ Stop(c)
  /\ UNCHANGED <<store, lock, member, late, died>>

(***************************************************************************)
(* The rest of the system.                                                 *)
(***************************************************************************)
\* reset_member_password: an ACTIVE membership, a new random password.
ResetPassword ==
  /\ member
  /\ login' = [c \in Client |-> [Outdated[c] EXCEPT !.right = FALSE]]
  /\ UNCHANGED <<store, counter, lock, member, late, died>>

\* update_member, or create_member in another tenant.
ChangeMember ==
  /\ member' = ~ member
  /\ UNCHANGED <<store, counter, lock, login, late, died>>

\* The handler dies, or a call of Redis or of the database fails.
Abandon(c) ==
  /\ login[c].pc # "idle"
  /\ IF login[c].pc \in Recording THEN died < MaxDied /\ died' = died + 1
                                  ELSE UNCHANGED died
  /\ Stop(c)
  /\ UNCHANGED <<store, counter, lock, member, late>>

\* The process restarts; what Redis holds stays.
Restart ==
  /\ store = "process"
  /\ attempts' = 0 /\ lock' = 0 /\ late' = 0
  /\ login' = [c \in Client |-> IdleRequest]
  /\ UNCHANGED <<store, life, member, died>>

\* Mutant: a lock that has ended counts on, downwards.
AgePastZero == lock' = lock - 1
\* Mutant: a lock without an end.
Endless == UNCHANGED lock
\* Redis drops what has expired; is_locked and record_failure forget an ended lock first.
Age == lock' = IF lock = 0 THEN 0 ELSE lock - 1

Tick ==
  /\ lock # 0 \/ life # 0
  /\ Age
  /\ life' = IF life = 0 THEN 0 ELSE life - 1
  /\ attempts' = IF life = 1 THEN 0 ELSE attempts
  /\ late' = IF lock <= 1 THEN 0 ELSE late
  /\ UNCHANGED <<store, member, login, died>>

Next ==
  \/ Tick \/ Restart \/ ResetPassword \/ ChangeMember
  \/ \E c \in Client :
       \/ Ask(c) \/ Verify(c) \/ FindMember(c) \/ Commit(c) \/ Reset(c)
       \/ RecordFailure(c) \/ Incr(c) \/ Expire(c) \/ SetLock(c)
       \/ DeleteCounter(c) \/ Abandon(c)

Spec == Init /\ [][Next]_vars
\* Time passes.
FairSpec == Spec /\ WF_vars(Tick)

(***************************************************************************)
(* Properties.                                                             *)
(***************************************************************************)
\* Every variable stays in its domain.
TypeOK ==
  /\ store \in {"redis", "process"}
  /\ attempts \in Nat /\ life \in Nat /\ lock \in Nat
  /\ member \in BOOLEAN
  /\ login \in [Client -> Request]
  /\ late \in Nat /\ died \in Nat

\* The lock is tested before the password is verified, and other requests run
\* in between: while a lock lasts each other login in flight verifies at most
\* the one password it had passed the test for.
Verifying == {c \in Client : login[c].pc = "read"}
GuessesBounded == lock # 0 => late + Cardinality(Verifying) < Cardinality(Client)

\* ports.py: the key is locked once the budget is spent.  Between the calls of
\* record_failure a spent counter is always in the hands of a handler that
\* still locks or deletes it, unless one died there.
LockFollowsBudget ==
  attempts >= MaxAttempts => died # 0 \/ \E c \in Client : login[c].pc \in Recording

\* A counter of Redis expires: INCR and EXPIRE are two calls, and only the
\* death of a handler between them leaves a counter that never ends.
CounterExpires ==
  store = "redis" /\ attempts # 0 /\ life = 0
    => died # 0 \/ \E c \in Client : login[c].pc = "expire"

\* A login succeeds with the password the account has when it commits: a
\* password reset after the verification makes the row stale.
CurrentPassword ==
  [][\A c \in Client :
       login[c].pc = "commit" /\ login'[c].pc = "reset" => login[c].right]_vars

\* login_lockout.py: the lock stays bounded by the window.  While it lasts nobody
\* joins those who may set it again, and whoever does leaves them: with n logins
\* in flight an account is locked for at most n windows at a stretch.
Locking ==
  {c \in Client :
     login[c].pc \in {"read", "member", "commit", "failed", "expire", "lock"}}
LockRunsOut ==
  [][lock # 0 /\ lock' # 0 =>
       Locking' \subseteq Locking /\ (lock' > lock => Locking' # Locking)]_vars

\* login_lockout.py: a locked account recovers on its own.
Recovers == lock # 0 ~> lock = 0

(***************************************************************************)
(* The inductive invariant.                                                *)
(***************************************************************************)
\* A spent counter is in the hands of a handler that is about to lock or to
\* delete it: one that still has to set the lifetime knows that it is the last.
Closing(q) ==
  \/ q.pc \in {"lock", "delete"}
  \/ q.pc = "expire" /\ Spent(q.count)
BudgetInv == attempts >= MaxAttempts => died # 0 \/ \E c \in Client : Closing(login[c])

\* Who still holds a current row holds the right password.
PasswordInv(q) == q.current => q.right /\ q.pc \in {"member", "commit"}

IInv ==
  /\ TypeOK /\ GuessesBounded /\ BudgetInv /\ CounterExpires
  /\ \A c \in Client : PasswordInv(login[c])
=============================================================================
