------------------------- MODULE LoginLockoutProofs -------------------------
(***************************************************************************)
(* Theorems about LoginLockout for every finite set of logins, budget and  *)
(* lockout.                                                                *)
(***************************************************************************)
EXTENDS LoginLockout, FiniteSetTheorems, TLAPS

LEMMA SecondsType == Seconds \in Nat \ {0}
BY WindowAssumption DEF Seconds

LEMMA IdleType == IdleRequest \in Request
BY DEF IdleRequest, Request

LEMMA PcType ==
  ASSUME NEW q \in Request,
         NEW pc \in {"idle", "read", "member", "commit", "reset", "failed",
                     "expire", "lock", "delete"}
  PROVE  [q EXCEPT !.pc = pc] \in Request
BY DEF Request

LEMMA RightType ==
  ASSUME NEW q \in Request, NEW right \in BOOLEAN
  PROVE  /\ [q EXCEPT !.right = right] \in Request
         /\ [q EXCEPT !.right = right].pc = q.pc
         /\ [q EXCEPT !.right = right].count = q.count
BY DEF Request

LEMMA CountType ==
  ASSUME NEW q \in Request, NEW n \in Nat
  PROVE  [q EXCEPT !.count = n] \in Request
BY DEF Request

LEMMA MoveType ==
  ASSUME NEW c \in Client, login \in [Client -> Request],
         NEW pc \in {"idle", "read", "member", "commit", "reset", "failed",
                     "expire", "lock", "delete"},
         NEW n \in Nat, login' = [login EXCEPT ![c].pc = pc, ![c].count = n]
  PROVE  login' \in [Client -> Request]
<1>1. [[login[c] EXCEPT !.pc = pc] EXCEPT !.count = n] \in Request
  BY PcType, CountType
<1>. QED  BY <1>1

\* Goto and Stop leave a request that remembers nothing.
LEMMA GotoType ==
  ASSUME NEW c \in Client, login \in [Client -> Request],
         NEW pc \in {"idle", "read", "member", "commit", "reset", "failed",
                     "expire", "lock", "delete"},
         Goto(c, pc)
  PROVE  /\ login' \in [Client -> Request]
         /\ login'[c].pc = pc /\ login'[c].current = FALSE
         /\ \A d \in Client \ {c} : login'[d] = login[d]
BY IdleType DEF Goto, IdleRequest, Request

LEMMA StopType ==
  ASSUME NEW c \in Client, login \in [Client -> Request], Stop(c)
  PROVE  /\ login' \in [Client -> Request]
         /\ login'[c] = IdleRequest
         /\ \A d \in Client \ {c} : login'[d] = login[d]
BY IdleType DEF Stop

\* A change of the account's row leaves every request where it is.
LEMMA OutdatedType ==
  ASSUME login \in [Client -> Request]
  PROVE  /\ Outdated \in [Client -> Request]
         /\ \A c \in Client : /\ Outdated[c].pc = login[c].pc
                              /\ Outdated[c].count = login[c].count
                              /\ Outdated[c].current = FALSE
BY DEF Outdated, Request

(***************************************************************************)
(* Types.                                                                  *)
(***************************************************************************)
LEMMA InitIInv == Init => IInv
<1>. SUFFICES ASSUME Init PROVE IInv
  OBVIOUS
<1>1. \A c \in Client : login[c] = IdleRequest
  BY DEF Init
<1>2. TypeOK
  BY StoreAssumption, IdleType DEF Init, TypeOK
<1>3. GuessesBounded /\ CounterExpires
  BY DEF Init, GuessesBounded, CounterExpires
<1>4. BudgetInv
  BY BudgetAssumption DEF Init, BudgetInv
<1>5. \A c \in Client : PasswordInv(login[c])
  BY <1>1 DEF PasswordInv, IdleRequest
<1>. QED  BY <1>2, <1>3, <1>4, <1>5 DEF IInv

LEMMA TypeNext ==
  ASSUME TypeOK, Next
  PROVE  TypeOK'
<1>. USE DEF TypeOK
<1>1. CASE Tick
  <2>1. lock' \in Nat
    BY <1>1 DEF Tick, Age
  <2>. QED  BY <1>1, <2>1 DEF Tick
<1>2. CASE Restart
  BY <1>2, IdleType DEF Restart
<1>3. CASE ResetPassword
  <2>1. \A d \in Client : [Outdated[d] EXCEPT !.right = FALSE] \in Request
    BY OutdatedType, RightType
  <2>2. login' \in [Client -> Request]
    BY <1>3, <2>1 DEF ResetPassword
  <2>. QED  BY <1>3, <2>2 DEF ResetPassword, counter
<1>4. CASE ChangeMember
  BY <1>4 DEF ChangeMember, counter
<1>5. ASSUME NEW c \in Client, Ask(c) PROVE TypeOK'
  <2>1. login' \in [Client -> Request]
    <3>1. PICK right \in BOOLEAN :
            login' = [login EXCEPT ![c].pc = "read", ![c].right = right]
      BY <1>5 DEF Ask
    <3>2. [[login[c] EXCEPT !.pc = "read"] EXCEPT !.right = right] \in Request
      BY RightType, PcType
    <3>. QED  BY <3>1, <3>2
  <2>. QED  BY <1>5, <2>1 DEF Ask, counter
<1>6. ASSUME NEW c \in Client, Verify(c) PROVE TypeOK'
  <2>1. login' \in [Client -> Request]
    <3>1. CASE login[c].right
      BY <1>6, <3>1 DEF Verify, Request
    <3>2. CASE ~ login[c].right
      BY <1>6, <3>2, GotoType DEF Verify
    <3>. QED  BY <3>1, <3>2
  <2>. QED  BY <1>6, <2>1 DEF Verify, counter
<1>7. ASSUME NEW c \in Client, FindMember(c) PROVE TypeOK'
  <2>1. login' \in [Client -> Request]
    <3>1. CASE member
      BY <1>7, <3>1 DEF FindMember, Request
    <3>2. CASE ~ member
      BY <1>7, <3>2, GotoType DEF FindMember
    <3>. QED  BY <3>1, <3>2
  <2>. QED  BY <1>7, <2>1 DEF FindMember, counter
<1>8. ASSUME NEW c \in Client, Commit(c) PROVE TypeOK'
  <2>1. login' \in [Client -> Request]
    <3>1. CASE login[c].current
      <4>1. [IdleRequest EXCEPT !.pc = "reset"] \in Request
        BY DEF IdleRequest, Request
      <4>. QED  BY <1>8, <3>1, <4>1, OutdatedType DEF Commit
    <3>2. CASE ~ login[c].current
      BY <1>8, <3>2, StopType DEF Commit
    <3>. QED  BY <3>1, <3>2
  <2>. QED  BY <1>8, <2>1 DEF Commit, counter
<1>9. ASSUME NEW c \in Client, Reset(c) PROVE TypeOK'
  BY <1>9, StopType DEF Reset
<1>10. ASSUME NEW c \in Client, RecordFailure(c) PROVE TypeOK'
  BY <1>10, StopType, WindowAssumption DEF RecordFailure
<1>11. ASSUME NEW c \in Client, Incr(c) PROVE TypeOK'
  <2>1. AfterIncr(attempts + 1) \in {"expire", "lock", "idle"}
    BY DEF AfterIncr
  <2>2. login' \in [Client -> Request]
    <3>. DEFINE n == IF AfterIncr(attempts + 1) = "expire" THEN attempts + 1 ELSE 0
    <3>1. login' = [login EXCEPT ![c].pc = AfterIncr(attempts + 1), ![c].count = n]
      BY <1>11 DEF Incr
    <3>2. n \in Nat
      OBVIOUS
    <3>. HIDE DEF n
    <3>. QED  BY <2>1, <3>1, <3>2, MoveType
  <2>. QED  BY <1>11, <2>2 DEF Incr
<1>12. ASSUME NEW c \in Client, Expire(c) PROVE TypeOK'
  BY <1>12, GotoType, SecondsType DEF Expire
<1>13. ASSUME NEW c \in Client, SetLock(c) PROVE TypeOK'
  BY <1>13, GotoType, SecondsType DEF SetLock, counter
<1>14. ASSUME NEW c \in Client, DeleteCounter(c) PROVE TypeOK'
  BY <1>14, StopType DEF DeleteCounter
<1>15. ASSUME NEW c \in Client, Abandon(c) PROVE TypeOK'
  <2>1. died' \in Nat
    BY <1>15 DEF Abandon
  <2>. QED  BY <1>15, <2>1, StopType DEF Abandon, counter
<1>. QED
  BY <1>1, <1>2, <1>3, <1>4, <1>5, <1>6, <1>7, <1>8, <1>9, <1>10, <1>11, <1>12, <1>13,
     <1>14, <1>15 DEF Next

(***************************************************************************)
(* The password.                                                           *)
(***************************************************************************)
LEMMA PasswordNext ==
  ASSUME IInv, Next
  PROVE  \A c \in Client : PasswordInv(login'[c])
<1>. TypeOK /\ \A c \in Client : PasswordInv(login[c])
  BY DEF IInv
<1>0. login \in [Client -> Request]
  BY DEF TypeOK
<1>. DEFINE Goal == \A c \in Client : PasswordInv(login'[c])
<1>1. CASE Tick \/ ChangeMember
  BY <1>1 DEF Tick, ChangeMember
<1>2. CASE Restart
  BY <1>2 DEF Restart, PasswordInv, IdleRequest
<1>3. CASE ResetPassword
  <2>1. \A c \in Client : login'[c].current = FALSE
    BY <1>0, <1>3, OutdatedType DEF ResetPassword, Request
  <2>. QED  BY <2>1 DEF PasswordInv
<1>5. ASSUME NEW c \in Client, Ask(c) PROVE Goal
  <2>1. ~ login[c].current
    BY <1>5 DEF Ask, PasswordInv
  <2>2. ~ login'[c].current
    BY <1>0, <1>5, <2>1 DEF Ask, Request
  <2>3. \A d \in Client \ {c} : login'[d] = login[d]
    BY <1>0, <1>5 DEF Ask
  <2>. QED  BY <2>2, <2>3 DEF PasswordInv
<1>6. ASSUME NEW c \in Client, Verify(c) PROVE Goal
  <2>1. CASE login[c].right
    BY <1>0, <1>6, <2>1 DEF Verify, PasswordInv, Request
  <2>2. CASE ~ login[c].right
    BY <1>0, <1>6, <2>2, GotoType DEF Verify, PasswordInv
  <2>. QED  BY <2>1, <2>2
<1>7. ASSUME NEW c \in Client, FindMember(c) PROVE Goal
  <2>1. CASE member
    BY <1>0, <1>7, <2>1 DEF FindMember, PasswordInv, Request
  <2>2. CASE ~ member
    BY <1>0, <1>7, <2>2, GotoType DEF FindMember, PasswordInv
  <2>. QED  BY <2>1, <2>2
<1>8. ASSUME NEW c \in Client, Commit(c) PROVE Goal
  <2>1. CASE login[c].current
    BY <1>0, <1>8, <2>1, OutdatedType DEF Commit, PasswordInv, IdleRequest
  <2>2. CASE ~ login[c].current
    BY <1>0, <1>8, <2>2, StopType DEF Commit, PasswordInv, IdleRequest
  <2>. QED  BY <2>1, <2>2
<1>9. ASSUME NEW c \in Client, Stop(c) PROVE Goal
  BY <1>0, <1>9, StopType DEF PasswordInv, IdleRequest
<1>11. ASSUME NEW c \in Client, Incr(c) PROVE Goal
  <2>1. login'[c].current = login[c].current /\ ~ login[c].current
    BY <1>0, <1>11 DEF Incr, PasswordInv, Request
  <2>2. \A d \in Client \ {c} : login'[d] = login[d]
    BY <1>0, <1>11 DEF Incr
  <2>. QED  BY <2>1, <2>2 DEF PasswordInv
<1>12. ASSUME NEW c \in Client, Expire(c) PROVE Goal
  BY <1>0, <1>12, GotoType DEF Expire, PasswordInv
<1>13. ASSUME NEW c \in Client, SetLock(c) PROVE Goal
  BY <1>0, <1>13, GotoType DEF SetLock, PasswordInv
<1>. QED
  BY <1>1, <1>2, <1>3, <1>5, <1>6, <1>7, <1>8, <1>9, <1>11, <1>12, <1>13
     DEF Next, Reset, RecordFailure, DeleteCounter, Abandon

(***************************************************************************)
(* The counter.                                                            *)
(***************************************************************************)
LEMMA CounterNext ==
  ASSUME IInv, Next
  PROVE  CounterExpires' /\ BudgetInv'
<1>. TypeOK /\ CounterExpires /\ BudgetInv
  BY DEF IInv
<1>0. /\ login \in [Client -> Request] /\ attempts \in Nat /\ life \in Nat
      /\ died \in Nat /\ MaxAttempts \in Nat \ {0}
  BY BudgetAssumption DEF TypeOK
<1>. DEFINE Holder(q) == q.pc = "expire"
<1>. DEFINE Goal == CounterExpires' /\ BudgetInv'
\* A step that leaves the counter alone, and everybody who holds it.
<1>a. ASSUME UNCHANGED <<store, attempts, life, died>>,
             \A d \in Client : Holder(login[d]) \/ Closing(login[d]) =>
                 login'[d].pc = login[d].pc /\ login'[d].count = login[d].count
      PROVE  Goal
  BY <1>a DEF CounterExpires, BudgetInv, Closing, Spent
\* A step that deletes it.
<1>b. ASSUME attempts' = 0 PROVE Goal
  BY <1>0, <1>b DEF CounterExpires, BudgetInv
<1>1. CASE Tick
  <2>1. CASE life = 1
    BY <1>1, <2>1, <1>b DEF Tick
  <2>2. CASE life # 1
    <3>1. attempts' = attempts /\ (life' = 0 => life = 0)
      BY <1>0, <1>1, <2>2 DEF Tick
    <3>. QED  BY <1>1, <3>1 DEF Tick, CounterExpires, BudgetInv
  <2>. QED  BY <2>1, <2>2
<1>2. CASE Restart
  BY <1>2, <1>b DEF Restart
<1>3. CASE ResetPassword
  <2>1. \A d \in Client : login'[d].pc = login[d].pc /\ login'[d].count = login[d].count
    BY <1>0, <1>3, OutdatedType, RightType DEF ResetPassword
  <2>. QED  BY <1>3, <2>1, <1>a DEF ResetPassword, counter
<1>4. CASE ChangeMember
  BY <1>4, <1>a DEF ChangeMember, counter
<1>5. ASSUME NEW c \in Client, Ask(c) PROVE Goal
  <2>1. login[c].pc = "idle" /\ \A d \in Client \ {c} : login'[d] = login[d]
    BY <1>0, <1>5 DEF Ask
  <2>. QED  BY <1>5, <2>1, <1>a DEF Ask, Closing, counter
<1>6. ASSUME NEW c \in Client, Verify(c) PROVE Goal
  <2>1. \A d \in Client \ {c} : login'[d] = login[d]
    BY <1>0, <1>6 DEF Verify, Goto
  <2>. QED  BY <1>6, <2>1, <1>a DEF Verify, Closing, counter
<1>7. ASSUME NEW c \in Client, FindMember(c) PROVE Goal
  <2>1. \A d \in Client \ {c} : login'[d] = login[d]
    BY <1>0, <1>7 DEF FindMember, Goto
  <2>. QED  BY <1>7, <2>1, <1>a DEF FindMember, Closing, counter
<1>8. ASSUME NEW c \in Client, Commit(c) PROVE Goal
  <2>1. \A d \in Client \ {c} : login'[d].pc = login[d].pc /\ login'[d].count = login[d].count
    BY <1>0, <1>8, OutdatedType DEF Commit, Stop
  <2>. QED  BY <1>8, <2>1, <1>a DEF Commit, Closing, counter
<1>9. ASSUME NEW c \in Client, Reset(c) PROVE Goal
  BY <1>9, <1>b DEF Reset
<1>10. ASSUME NEW c \in Client, RecordFailure(c) PROVE Goal
  <2>1. attempts' < MaxAttempts /\ store' = "process"
    BY <1>0, <1>10 DEF RecordFailure, Spent
  <2>2. ~ (attempts' >= MaxAttempts)
    <3>1. attempts' \in Nat
      BY <1>0, <1>10 DEF RecordFailure
    <3>. QED  BY <3>1, <2>1, <1>0
  <2>. QED  BY <2>1, <2>2 DEF CounterExpires, BudgetInv
<1>11. ASSUME NEW c \in Client, Incr(c) PROVE Goal
  <2>. DEFINE n == attempts + 1
  <2>1. /\ login[c].pc = "failed" /\ attempts' = n /\ UNCHANGED <<store, life, died>>
        /\ login'[c].pc = AfterIncr(n)
        /\ AfterIncr(n) = "expire" => login'[c].count = n
        /\ \A d \in Client \ {c} : login'[d] = login[d]
    BY <1>0, <1>11 DEF Incr, Request
  <2>2. CounterExpires'
    <3>1. CASE attempts = 0
      BY <2>1, <3>1 DEF CounterExpires, AfterIncr
    <3>2. CASE attempts # 0
      BY <2>1, <3>2 DEF CounterExpires
    <3>. QED  BY <3>1, <3>2
  <2>3. BudgetInv'
    <3>1. CASE Spent(n)
      BY <2>1, <3>1 DEF BudgetInv, Closing, AfterIncr
    <3>2. CASE ~ Spent(n)
      BY <2>1, <3>2 DEF BudgetInv, Spent
    <3>. QED  BY <3>1, <3>2
  <2>. QED  BY <2>2, <2>3
<1>12. ASSUME NEW c \in Client, Expire(c) PROVE Goal
  <2>1. /\ login'[c].pc = IF Spent(login[c].count) THEN "lock" ELSE "idle"
        /\ \A d \in Client \ {c} : login'[d] = login[d]
        /\ login[c].pc = "expire" /\ UNCHANGED <<store, attempts, died>>
        /\ life' = IF attempts = 0 THEN 0 ELSE Seconds
    BY <1>0, <1>12, GotoType DEF Expire
  <2>2. CounterExpires'
    BY <2>1, SecondsType DEF CounterExpires
  <2>3. BudgetInv'
    BY <2>1 DEF BudgetInv, Closing
  <2>. QED  BY <2>2, <2>3
<1>13. ASSUME NEW c \in Client, SetLock(c) PROVE Goal
  <2>1. /\ login[c].pc = "lock" /\ login'[c].pc = "delete"
        /\ \A d \in Client \ {c} : login'[d] = login[d]
    BY <1>0, <1>13, GotoType DEF SetLock
  <2>. QED  BY <1>13, <2>1 DEF SetLock, CounterExpires, BudgetInv, Closing, counter
<1>14. ASSUME NEW c \in Client, DeleteCounter(c) PROVE Goal
  BY <1>14, <1>b DEF DeleteCounter
<1>15. ASSUME NEW c \in Client, Abandon(c) PROVE Goal
  <2>1. CASE login[c].pc \in Recording
    <3>1. died' # 0
      BY <1>0, <1>15, <2>1 DEF Abandon
    <3>. QED  BY <3>1 DEF CounterExpires, BudgetInv
  <2>2. CASE login[c].pc \notin Recording
    <3>1. \A d \in Client \ {c} : login'[d] = login[d]
      BY <1>0, <1>15, StopType DEF Abandon
    <3>. QED  BY <1>15, <2>2, <3>1, <1>a DEF Abandon, Recording, Closing, counter
  <2>. QED  BY <2>1, <2>2
<1>. QED
  BY <1>1, <1>2, <1>3, <1>4, <1>5, <1>6, <1>7, <1>8, <1>9, <1>10, <1>11, <1>12, <1>13,
     <1>14, <1>15 DEF Next
(***************************************************************************)
(* The passwords verified under a lock.                                    *)
(***************************************************************************)
LEMMA VerifyingCount ==
  /\ IsFiniteSet(Verifying) /\ Verifying \subseteq Client
  /\ Cardinality(Verifying) \in Nat /\ Cardinality(Client) \in Nat
  /\ \A c \in Client : login[c].pc # "read" => Cardinality(Verifying) < Cardinality(Client)
<1>1. Verifying \in SUBSET Client
  BY DEF Verifying
<1>2. /\ IsFiniteSet(Verifying) /\ Cardinality(Verifying) <= Cardinality(Client)
      /\ Cardinality(Client) = Cardinality(Verifying) => Client = Verifying
  BY <1>1, ClientAssumption, FS_Subset
<1>3. Cardinality(Verifying) \in Nat /\ Cardinality(Client) \in Nat
  BY <1>2, ClientAssumption, FS_CardinalityType
<1>4. ASSUME NEW c \in Client, login[c].pc # "read"
      PROVE  Cardinality(Verifying) < Cardinality(Client)
  <2>1. c \notin Verifying
    BY <1>4 DEF Verifying
  <2>. QED  BY <1>2, <1>3, <2>1
<1>. QED  BY <1>1, <1>2, <1>3, <1>4

LEMMA GuessesNext ==
  ASSUME IInv, Next
  PROVE  GuessesBounded'
<1>. TypeOK /\ GuessesBounded
  BY DEF IInv
<1>0. login \in [Client -> Request] /\ late \in Nat /\ lock \in Nat
  BY DEF TypeOK
<1>. DEFINE Goal == GuessesBounded'
\* A step that leaves the lock alone, and after which nobody else verifies.
<1>a. ASSUME UNCHANGED <<lock, late>>,
             \A d \in Client : login'[d].pc = "read" => login[d].pc = "read"
      PROVE  Goal
  <2>1. Verifying' \in SUBSET Verifying
    BY <1>a DEF Verifying
  <2>2. Cardinality(Verifying') <= Cardinality(Verifying) /\ Cardinality(Verifying') \in Nat
    BY <2>1, VerifyingCount, FS_Subset, FS_CardinalityType
  <2>. QED  BY <1>0, <1>a, <2>2, VerifyingCount DEF GuessesBounded
\* A step of a handler after its verification, which may set the lock anew.
<1>b. ASSUME NEW c \in Client, login[c].pc # "read", login'[c].pc # "read",
             \A d \in Client \ {c} : login'[d] = login[d],
             late' = IF lock = 0 THEN 0 ELSE late
      PROVE  Goal
  <2>1. Verifying' = Verifying
    BY <1>b DEF Verifying
  <2>. QED  BY <1>0, <1>b, <2>1, VerifyingCount DEF GuessesBounded
<1>c. ASSUME lock' = 0 PROVE Goal
  BY <1>c DEF GuessesBounded
<1>1. CASE Tick
  <2>1. CASE lock' = 0
    BY <2>1, <1>c
  <2>2. CASE lock' # 0
    <3>1. lock # 0 /\ ~ (lock <= 1)
      BY <1>0, <1>1, <2>2 DEF Tick, Age
    <3>2. late' = late /\ Verifying' = Verifying
      BY <1>1, <3>1 DEF Tick, Verifying
    <3>. QED  BY <3>1, <3>2 DEF GuessesBounded
  <2>. QED  BY <2>1, <2>2
<1>2. CASE Restart
  BY <1>2, <1>c DEF Restart
<1>3. CASE ResetPassword
  <2>1. \A d \in Client : login'[d].pc = login[d].pc
    BY <1>0, <1>3, OutdatedType, RightType DEF ResetPassword
  <2>. QED  BY <1>3, <2>1, <1>a DEF ResetPassword
<1>4. CASE ChangeMember
  BY <1>4, <1>a DEF ChangeMember
<1>5. ASSUME NEW c \in Client, Ask(c) PROVE Goal
  BY <1>5, <1>c DEF Ask
<1>6. ASSUME NEW c \in Client, Verify(c) PROVE Goal
  <2>1. login'[c].pc # "read"
    <3>1. CASE login[c].right
      BY <1>0, <1>6, <3>1 DEF Verify, Request
    <3>2. CASE ~ login[c].right
      BY <1>0, <1>6, <3>2, GotoType DEF Verify
    <3>. QED  BY <3>1, <3>2
  <2>2. \A d \in Client \ {c} : login'[d] = login[d]
    BY <1>0, <1>6 DEF Verify, Goto
  <2>3. Verifying' = Verifying \ {c} /\ c \in Verifying
    BY <1>6, <2>1, <2>2 DEF Verify, Verifying
  <2>4. Cardinality(Verifying') = Cardinality(Verifying) - 1
    BY <2>3, VerifyingCount, FS_RemoveElement
  <2>5. lock' = lock /\ late' = IF lock = 0 THEN 0 ELSE late + 1
    BY <1>6 DEF Verify
  <2>6. ASSUME NEW n \in Nat, NEW k, k = n - 1, lock # 0, late + n < Cardinality(Client)
        PROVE  late + 1 + k < Cardinality(Client)
    BY <2>6, <1>0, VerifyingCount
  <2>. QED  BY <1>0, <2>4, <2>5, <2>6, VerifyingCount DEF GuessesBounded
<1>7. ASSUME NEW c \in Client, FindMember(c) PROVE Goal
  <2>1. login'[c].pc # "read"
    <3>1. CASE member
      BY <1>0, <1>7, <3>1 DEF FindMember, Request
    <3>2. CASE ~ member
      BY <1>0, <1>7, <3>2, GotoType DEF FindMember
    <3>. QED  BY <3>1, <3>2
  <2>2. \A d \in Client \ {c} : login'[d] = login[d]
    BY <1>0, <1>7 DEF FindMember, Goto
  <2>. QED  BY <1>7, <2>1, <2>2, <1>a DEF FindMember
<1>8. ASSUME NEW c \in Client, Commit(c) PROVE Goal
  <2>1. \A d \in Client : login'[d].pc = "read" => login[d].pc = "read"
    <3>1. CASE login[c].current
      BY <1>0, <1>8, <3>1, OutdatedType DEF Commit, IdleRequest
    <3>2. CASE ~ login[c].current
      BY <1>0, <1>8, <3>2, StopType DEF Commit, IdleRequest
    <3>. QED  BY <3>1, <3>2
  <2>. QED  BY <1>8, <2>1, <1>a DEF Commit
<1>9. ASSUME NEW c \in Client, Reset(c) PROVE Goal
  BY <1>9, <1>c DEF Reset
<1>10. ASSUME NEW c \in Client, RecordFailure(c) PROVE Goal
  BY <1>0, <1>10, StopType, <1>b DEF RecordFailure, IdleRequest
<1>11. ASSUME NEW c \in Client, Incr(c) PROVE Goal
  <2>1. login'[c].pc # "read"
    BY <1>0, <1>11 DEF Incr, AfterIncr, Request
  <2>2. \A d \in Client \ {c} : login'[d] = login[d]
    BY <1>0, <1>11 DEF Incr
  <2>. QED  BY <1>11, <2>1, <2>2, <1>a DEF Incr
<1>12. ASSUME NEW c \in Client, Expire(c) PROVE Goal
  BY <1>0, <1>12, GotoType, <1>a DEF Expire
<1>13. ASSUME NEW c \in Client, SetLock(c) PROVE Goal
  BY <1>0, <1>13, GotoType, <1>b DEF SetLock
<1>14. ASSUME NEW c \in Client, DeleteCounter(c) PROVE Goal
  BY <1>0, <1>14, StopType, <1>a DEF DeleteCounter, IdleRequest
<1>15. ASSUME NEW c \in Client, Abandon(c) PROVE Goal
  BY <1>0, <1>15, StopType, <1>a DEF Abandon, IdleRequest
<1>. QED
  BY <1>1, <1>2, <1>3, <1>4, <1>5, <1>6, <1>7, <1>8, <1>9, <1>10, <1>11, <1>12, <1>13,
     <1>14, <1>15 DEF Next

LEMMA StutterIInv == IInv /\ UNCHANGED vars => IInv'
<1>. SUFFICES ASSUME IInv, UNCHANGED vars PROVE IInv'
  OBVIOUS
<1>. USE DEF vars, counter
<1>1. TypeOK'
  BY DEF IInv, TypeOK
<1>2. GuessesBounded'
  BY DEF IInv, GuessesBounded, Verifying
<1>3. BudgetInv' /\ CounterExpires'
  BY DEF IInv, BudgetInv, CounterExpires
<1>4. \A c \in Client : PasswordInv(login'[c])
  BY DEF IInv
<1>. QED  BY <1>1, <1>2, <1>3, <1>4 DEF IInv

LEMMA NextIInv == IInv /\ [Next]_vars => IInv'
<1>1. ASSUME IInv, Next PROVE IInv'
  <2>1. TypeOK
    BY <1>1 DEF IInv
  <2>. QED  BY <1>1, <2>1, TypeNext, GuessesNext, CounterNext, PasswordNext DEF IInv
<1>. QED  BY <1>1, StutterIInv

(***************************************************************************)
(* The theorems.                                                           *)
(***************************************************************************)
\* The state of the lockout and of every login in flight stays in the
\* invariant the properties below follow from.
THEOREM Invariant == Spec => []IInv
<1>. QED  BY InitIInv, NextIInv, PTL DEF Spec

\* Every variable stays in its domain: neither a lifetime nor a counter of
\* login_lockout.py runs below zero.
THEOREM TypeCorrect == Spec => []TypeOK
<1>1. IInv => TypeOK
  BY DEF IInv
<1>. QED  BY <1>1, Invariant, PTL

\* While a lock lasts, the logins that passed _reject_locked before it was set
\* verify at most one password each.
THEOREM GuessesCorrect == Spec => []GuessesBounded
<1>1. IInv => GuessesBounded
  BY DEF IInv
<1>. QED  BY <1>1, Invariant, PTL

\* record_failure never leaves a spent counter behind unless a handler died
\* between its calls.
THEOREM LockCorrect == Spec => []LockFollowsBudget
<1>1. IInv => LockFollowsBudget
  BY DEF IInv, BudgetInv, LockFollowsBudget, Closing, Recording
<1>. QED  BY <1>1, Invariant, PTL

\* Nor a counter without an expiry.
THEOREM ExpiryCorrect == Spec => []CounterExpires
<1>1. IInv => CounterExpires
  BY DEF IInv
<1>. QED  BY <1>1, Invariant, PTL

\* The version of app_user lets a login commit only with the password that is
\* stored when it does.
THEOREM PasswordCorrect == Spec => CurrentPassword
<1>1. ASSUME IInv, Next
      PROVE  \A c \in Client :
               login[c].pc = "commit" /\ login'[c].pc = "reset" => login[c].right
  <2>. SUFFICES ASSUME NEW c \in Client, login[c].pc = "commit", login'[c].pc = "reset"
                PROVE  login[c].current
    BY <1>1 DEF IInv, PasswordInv
  <2>0. login \in [Client -> Request]
    BY <1>1 DEF IInv, TypeOK
  <2>1. CASE Commit(c)
    BY <2>0, <2>1, StopType DEF Commit, IdleRequest
  <2>2. ~ (Tick \/ Restart \/ ResetPassword \/ ChangeMember)
    <3>1. ~ (Tick \/ ChangeMember)
      BY DEF Tick, ChangeMember
    <3>2. ~ Restart
      BY DEF Restart, IdleRequest
    <3>3. ASSUME ResetPassword PROVE FALSE
      <4>1. login'[c].pc = Outdated[c].pc
        BY <2>0, <3>3, OutdatedType, RightType DEF ResetPassword
      <4>. QED  BY <2>0, <4>1, OutdatedType
    <3>. QED  BY <3>1, <3>2, <3>3
  <2>3. ASSUME NEW d \in Client \ {c} PROVE login'[c].pc = login[c].pc \/ ~ Commit(d)
    BY <2>0, <2>3, OutdatedType DEF Commit, Stop
  <2>4. ASSUME NEW d \in Client,
               \/ Ask(d) \/ Verify(d) \/ FindMember(d) \/ Reset(d) \/ RecordFailure(d)
               \/ Incr(d) \/ Expire(d) \/ SetLock(d) \/ DeleteCounter(d) \/ Abandon(d)
        PROVE  FALSE
    <3>1. CASE d = c
      BY <2>0, <2>4, <3>1, StopType
         DEF Ask, Verify, FindMember, Reset, RecordFailure, Incr, Expire, SetLock,
             DeleteCounter, Abandon, IdleRequest
    <3>2. CASE d # c
      BY <2>0, <2>4, <3>2
         DEF Ask, Verify, FindMember, Reset, RecordFailure, Incr, Expire, SetLock,
             DeleteCounter, Abandon, Stop, Goto
    <3>. QED  BY <3>1, <3>2
  <2>. QED  BY <1>1, <2>1, <2>2, <2>3, <2>4 DEF Next
<1>2. IInv /\ [Next]_vars
      => [\A c \in Client :
            login[c].pc = "commit" /\ login'[c].pc = "reset" => login[c].right]_vars
  BY <1>1
<1>. QED  BY <1>2, Invariant, PTL DEF Spec, CurrentPassword
\* The safety half of the recovery of a locked account: nobody who did not pass
\* _reject_locked before can lengthen the lock, and nobody lengthens it twice.
THEOREM RunsOutCorrect == Spec => LockRunsOut
<1>. DEFINE Before == {"read", "member", "commit", "failed", "expire", "lock"}
            Goal == /\ Locking' \subseteq Locking
                    /\ lock' > lock => Locking' # Locking
<1>1. ASSUME IInv, Next, lock # 0, lock' # 0 PROVE Goal
  <2>0. login \in [Client -> Request] /\ lock \in Nat
    BY <1>1 DEF IInv, TypeOK
  \* A step that lengthens nothing and moves nobody in.
  <2>a. ASSUME lock' <= lock,
               \A d \in Client : login'[d].pc \in Before => login[d].pc \in Before
        PROVE  Goal
    <3>1. Locking' \subseteq Locking
      BY <2>a DEF Locking
    <3>2. ~ (lock' > lock)
      <4>1. lock' \in Nat
        BY <1>1, TypeNext DEF IInv, TypeOK
      <4>. QED  BY <2>0, <2>a, <4>1
    <3>. QED  BY <3>1, <3>2
  \* A step by which one handler gets beyond its lock.
  <2>b. ASSUME NEW c \in Client, login[c].pc \in Before, login'[c].pc \notin Before,
               \A d \in Client \ {c} : login'[d] = login[d]
        PROVE  Goal
    <3>1. Locking' = Locking \ {c} /\ c \in Locking
      BY <2>b DEF Locking
    <3>. QED  BY <3>1
  <2>s. lock <= lock
    BY <2>0
  <2>1. CASE Tick
    <3>1. lock' <= lock
      BY <1>1, <2>0, <2>1 DEF Tick, Age
    <3>. QED  BY <2>1, <3>1, <2>a DEF Tick
  <2>2. CASE Restart
    BY <1>1, <2>2 DEF Restart
  <2>3. CASE ResetPassword
    <3>1. \A d \in Client : login'[d].pc = login[d].pc
      BY <2>0, <2>3, OutdatedType, RightType DEF ResetPassword
    <3>. QED  BY <2>3, <2>s, <3>1, <2>a DEF ResetPassword
  <2>4. CASE ChangeMember
    BY <2>4, <2>s, <2>a DEF ChangeMember
  <2>5. ASSUME NEW c \in Client, Ask(c) PROVE Goal
    BY <1>1, <2>5 DEF Ask
  <2>6. ASSUME NEW c \in Client, Verify(c) PROVE Goal
    <3>1. login[c].pc \in Before /\ \A d \in Client \ {c} : login'[d] = login[d]
      BY <2>0, <2>6 DEF Verify, Goto
    <3>. QED  BY <2>6, <2>s, <3>1, <2>a DEF Verify
  <2>7. ASSUME NEW c \in Client, FindMember(c) PROVE Goal
    <3>1. login[c].pc \in Before /\ \A d \in Client \ {c} : login'[d] = login[d]
      BY <2>0, <2>7 DEF FindMember, Goto
    <3>. QED  BY <2>7, <2>s, <3>1, <2>a DEF FindMember
  <2>8. ASSUME NEW c \in Client, Commit(c) PROVE Goal
    <3>1. login[c].pc \in Before /\ \A d \in Client \ {c} : login'[d].pc = login[d].pc
      <4>1. CASE login[c].current
        BY <2>0, <2>8, <4>1, OutdatedType DEF Commit
      <4>2. CASE ~ login[c].current
        BY <2>0, <2>8, <4>2, StopType DEF Commit
      <4>. QED  BY <4>1, <4>2
    <3>. QED  BY <2>8, <2>s, <3>1, <2>a DEF Commit
  <2>9. ASSUME NEW c \in Client, Reset(c) PROVE Goal
    BY <1>1, <2>9 DEF Reset
  <2>10. ASSUME NEW c \in Client, RecordFailure(c) PROVE Goal
    BY <2>0, <2>10, StopType, <2>b DEF RecordFailure, IdleRequest
  <2>11. ASSUME NEW c \in Client, Incr(c) PROVE Goal
    <3>1. login[c].pc \in Before /\ \A d \in Client \ {c} : login'[d] = login[d]
      BY <2>0, <2>11 DEF Incr
    <3>. QED  BY <2>11, <2>s, <3>1, <2>a DEF Incr
  <2>12. ASSUME NEW c \in Client, Expire(c) PROVE Goal
    <3>1. login[c].pc \in Before /\ \A d \in Client \ {c} : login'[d] = login[d]
      BY <2>0, <2>12 DEF Expire, Goto
    <3>. QED  BY <2>12, <2>s, <3>1, <2>a DEF Expire
  <2>13. ASSUME NEW c \in Client, SetLock(c) PROVE Goal
    BY <2>0, <2>13, GotoType, <2>b DEF SetLock
  <2>14. ASSUME NEW c \in Client, DeleteCounter(c) PROVE Goal
    BY <2>0, <2>14, <2>s, StopType, <2>a DEF DeleteCounter, IdleRequest
  <2>15. ASSUME NEW c \in Client, Abandon(c) PROVE Goal
    BY <2>0, <2>15, <2>s, StopType, <2>a DEF Abandon, IdleRequest
  <2>. QED
    BY <1>1, <2>1, <2>2, <2>3, <2>4, <2>5, <2>6, <2>7, <2>8, <2>9, <2>10, <2>11, <2>12,
       <2>13, <2>14, <2>15 DEF Next
<1>2. IInv /\ [Next]_vars => [lock # 0 /\ lock' # 0 => Goal]_vars
  BY <1>1
<1>. QED  BY <1>2, Invariant, PTL DEF Spec, LockRunsOut
=============================================================================
