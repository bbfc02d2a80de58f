----------------------------- MODULE HumanTask -----------------------------
(***************************************************************************)
(* Human-in-the-loop tasks: claim, reassign, submit, approve, reject and   *)
(* assign, while administrators suspend and restore memberships and the    *)
(* leases of claimed tasks run out.                                        *)
(*                                                                         *)
(* A handler reads the task, then the policy in a transaction of its own,  *)
(* then sends the versioned UPDATE: three steps that other requests may    *)
(* separate.                                                               *)
(***************************************************************************)
EXTENDS Naturals

CONSTANTS
  Member,        \* users with a membership, each with one request in flight
  Outsider,      \* user ids without one, which a reassign may carry
  HTask,         \* rows of human_task, all loaded by the seed script
  MaxVersion,    \* bound: no request starts a write of a row this old
  Permitted,     \* Permitted[m]: review actions the roles of m grant
  Nobody,        \* NULL assignee or editor
  NoDecision,    \* NULL decision
  NoTask         \* nothing read, no task looked at

Person == Member \cup Outsider
Decision == {"APPROVE", "EDIT_AND_APPROVE", "REJECT"}
Decides == {"approve", "submit", "reject"}
Action == Decides \cup {"claim", "reassign", "assign"}

\* Where an action may start: TASK_TRANSITIONS, and the guard of assign.
\* Mutant: assign has no guard.
AssignAnywhere(a) ==
  CASE a = "claim" -> {"OPEN"}
    [] a = "submit" -> {"CLAIMED"}
    [] a = "assign" -> {"OPEN", "CLAIMED", "COMPLETED"}
    [] OTHER -> {"OPEN", "CLAIMED"}
StartsFrom(a) ==
  CASE a = "claim" -> {"OPEN"}
    [] a = "submit" -> {"CLAIMED"}
    [] OTHER -> {"OPEN", "CLAIMED"}

\* Where it leads, and the decision it records.
Target(a) == CASE a \in Decides -> "COMPLETED"
               [] a = "reassign" -> "OPEN"
               [] OTHER -> "CLAIMED"
\* Mutant: the name of the action is stored as the decision.
ActionAsDecision(a) == a
DecisionOf(a) == CASE a = "approve" -> "APPROVE"
                   [] a = "submit" -> "EDIT_AND_APPROVE"
                   [] a = "reject" -> "REJECT"
                   [] OTHER -> NoDecision

\* lease: lease_expires_at is set.
Row == [status: {"OPEN", "CLAIMED", "COMPLETED"},
        decision: Decision \cup {NoDecision}, assignee: Person \cup {Nobody},
        lease: BOOLEAN, by: Member \cup {Nobody}, version: Nat]
MaybeRow == Row \cup {NoTask}

ASSUME TaskAssumption == /\ MaxVersion \in Nat
                         /\ Permitted \in [Member -> SUBSET Action]
                         /\ Member \cap Outsider = {}
ASSUME NullAssumption == /\ Nobody \notin Person
                         /\ NoDecision \notin Decision
                         /\ NoTask \notin Row \cup HTask

VARIABLES
  task,      \* task[t]: the committed human_task row
  active,    \* members whose membership is ACTIVE
  overdue,   \* tasks whose lease_expires_at lies in the past; no handler reads it
  req        \* req[m]: the request m has in flight

vars == <<task, active, overdue, req>>

IdleRequest == [pc |-> "idle", of |-> NoTask, view |-> NoTask, base |-> NoTask,
                act |-> "none", to |-> Nobody]

\* view: the row the user saw; base: the row the transaction read; to: the
\* person an assign or a reassign names.
Request == [pc: {"idle", "viewing", "policy", "commit"},
            of: HTask \cup {NoTask}, view: MaybeRow, base: MaybeRow,
            act: Action \cup {"none"}, to: Person \cup {Nobody}]

(***************************************************************************)
(* Init: the seed script, or migration 0007 on older rows, which finds no  *)
(* assignee for the tasks it marks CLAIMED.                                *)
(***************************************************************************)
SeedRow == [status: {"OPEN", "CLAIMED"}, decision: {NoDecision},
            assignee: Member \cup {Nobody}, lease: {FALSE}, by: {Nobody},
            version: {0}]

Init ==
  /\ task \in [HTask -> SeedRow]
  /\ \A t \in HTask : task[t].status = "OPEN" => task[t].assignee = Nobody
  /\ active = Member /\ overdue = {}
  /\ req = [m \in Member |-> IdleRequest]

(***************************************************************************)
(* The versioned UPDATE.  A lease is a fresh timestamp, so writing one     *)
(* always sends an UPDATE; equal columns otherwise send none.              *)
(***************************************************************************)
\* Mutant: the mapper is not told which column is the version.
NeverMoved(t, base) == FALSE
Moved(t, base) == task[t].version # base.version

Sends(base, new) == new # base \/ new.lease
Stale(t, base, new) == Sends(base, new) /\ Moved(t, base)

(***************************************************************************)
(* Requests.                                                               *)
(***************************************************************************)
\* A member loads a task and keeps its version for If-Match.
Look(m) ==
  /\ req[m].pc = "idle"
  /\ \E t \in HTask :
       req' = [req EXCEPT ![m] = [IdleRequest EXCEPT !.pc = "viewing", !.of = t,
                                    !.view = task[t]]]
  /\ UNCHANGED <<task, active, overdue>>

\* Whom the body of the action may name; only assign checks the membership.
Nameable(a) == CASE a = "assign" -> active
                 [] a = "reassign" -> Person \cup {Nobody}
                 [] OTHER -> {Nobody}

\* Read the row and compare If-Match.
ReadTask(m, a) ==
  LET q == req[m]
  IN /\ q.pc = "viewing"
     /\ task[q.of].version = q.view.version
     /\ task[q.of].version < MaxVersion
     /\ \E p \in Nameable(a) :
          req' = [req EXCEPT ![m] = [q EXCEPT !.pc = "policy", !.act = a,
                                       !.to = p, !.base = task[q.of]]]
     /\ UNCHANGED <<task, active, overdue>>

\* The policy repository reads the membership now; then the state machine
\* judges the row read before.
Authorized(m, a) == m \in active /\ a \in Permitted[m]

Authorize(m) ==
  LET q == req[m]
  IN /\ q.pc = "policy"
     /\ Authorized(m, q.act)
     /\ q.base.status \in StartsFrom(q.act)
     /\ req' = [req EXCEPT ![m].pc = "commit"]
     /\ UNCHANGED <<task, active, overdue>>

\* 400, 412, 403 or 409: nothing was written.
Refuse(m) ==
  LET q == req[m]
  IN /\ \/ q.pc = "viewing" /\ task[q.of].version # q.view.version
        \/ /\ q.pc = "policy"
           /\ ~ (Authorized(m, q.act) /\ q.base.status \in StartsFrom(q.act))
     /\ req' = [req EXCEPT ![m] = IdleRequest]
     /\ UNCHANGED <<task, active, overdue>>

\* A lease runs for whoever handles the task next, until it is decided.
\* Mutant: a decision leaves the lease running.
LeaseStays(a, p) == p # Nobody
Leased(a, p) == a \notin Decides /\ p # Nobody

\* The columns the action assigns, over the row its transaction read.
Edited(m) ==
  LET q == req[m]
      handler == CASE q.act = "claim" -> m
                   [] q.act \in Decides -> q.base.assignee
                   [] OTHER -> q.to
  IN [q.base EXCEPT !.status = Target(q.act), !.decision = DecisionOf(q.act),
        !.by = m, !.assignee = handler, !.lease = Leased(q.act, handler)]

Commit(m) ==
  LET q == req[m]
      new == Edited(m)
  IN /\ q.pc = "commit"
     /\ ~ Stale(q.of, q.base, new)
     /\ IF Sends(q.base, new)
        THEN /\ task' = [task EXCEPT ![q.of] = [new EXCEPT !.version = @ + 1]]
             /\ overdue' = overdue \ {q.of}   \* a fresh timestamp, or NULL
        ELSE UNCHANGED <<task, overdue>>
     /\ req' = [req EXCEPT ![m] = IdleRequest]
     /\ UNCHANGED active

\* StaleDataError, answered 409.
LoseRace(m) ==
  /\ req[m].pc = "commit"
  /\ Stale(req[m].of, req[m].base, Edited(m))
  /\ req' = [req EXCEPT ![m] = IdleRequest]
  /\ UNCHANGED <<task, active, overdue>>

\* The API process dies inside the transaction: it is rolled back.
RequestCrash(m) ==
  /\ req[m].pc \in {"policy", "commit"}
  /\ req' = [req EXCEPT ![m] = IdleRequest]
  /\ UNCHANGED <<task, active, overdue>>

\* An administrator suspends or restores a membership.
UpdateMember(m) ==
  /\ active' = IF m \in active THEN active \ {m} ELSE active \cup {m}
  /\ UNCHANGED <<task, overdue, req>>

\* The time of a lease passes.  No code compares lease_expires_at with a clock,
\* so nothing else changes, and no guard above asks for it.
LeaseEnds(t) ==
  /\ task[t].lease /\ t \notin overdue
  /\ overdue' = overdue \cup {t}
  /\ UNCHANGED <<task, active, req>>

Next ==
  \/ \E m \in Member :
       \/ Look(m) \/ \E a \in Action : ReadTask(m, a)
       \/ Authorize(m) \/ Refuse(m) \/ Commit(m) \/ LoseRace(m)
       \/ RequestCrash(m) \/ UpdateMember(m)
  \/ \E t \in HTask : LeaseEnds(t)

Spec == Init /\ [][Next]_vars

(***************************************************************************)
(* Properties.                                                             *)
(***************************************************************************)
\* Every variable stays in its domain; only a lease that is set can run out.
TypeOK ==
  /\ task \in [HTask -> Row]
  /\ active \subseteq Member
  /\ overdue \subseteq {t \in HTask : task[t].lease}
  /\ req \in [Member -> Request]

\* The columns of a task agree with its status, whatever sequence of claims,
\* releases and assignments led there: a decision is recorded exactly when the
\* task is closed, a lease runs only for a named handler of an undecided task,
\* and nobody from outside the tenant ever holds a claimed one (a reassign may
\* name anybody, and must therefore reopen the task).
ColumnsAgree ==
  \A t \in HTask :
    /\ task[t].status = "COMPLETED" <=> task[t].decision # NoDecision
    /\ task[t].lease => /\ task[t].assignee # Nobody
                        /\ task[t].status # "COMPLETED"
    /\ task[t].status = "CLAIMED" => task[t].assignee \notin Outsider

\* Two reviewers never both decide a task, and an assign racing a decision does
\* not clear it: once decided, a task never changes again (the comment in
\* _apply_assign, and the acceptance criterion that of two concurrent approvals
\* one is refused).
DecidedOnce ==
  [][\A t \in HTask :
       task[t].decision # NoDecision => task'[t] = task[t]]_vars

\* A member who holds a task keeps it, as long as the lease has not run out, until
\* it is decided, or handed over by assign or reassign: a second claim of the
\* version both saw open does not steal it.  Of an overdue task this says
\* nothing: models.py:170 and repositories.py:160-161 let others claim it then.
HolderKeepsTask ==
  [][\A t \in HTask :
       /\ task[t].status = "CLAIMED" /\ t \notin overdue
       /\ task'[t].assignee # task[t].assignee
       => \E m \in Member : /\ req[m].pc = "commit" /\ req[m].of = t
                            /\ req[m].act \in {"assign", "reassign"}
                            /\ req'[m].pc = "idle"]_vars

\* An action that changes a task finds it, when it commits, exactly as its
\* author saw it when deciding, although the policy was read in between.
ActionsApplyToWhatWasSeen ==
  [][\A m \in Member :
       /\ req[m].pc = "commit" /\ req'[m].pc # "commit" /\ task' # task
       => task[req[m].of] = req[m].view]_vars

\* To a reader of the task list a task only ever moves as TaskBoard says: the
\* three steps of a handler, with other handlers and suspensions in between,
\* amount to one claim, release, assign or decision, or to nothing at all.
BoardOf(f) ==
  [t \in HTask |-> [status |-> f[t].status, decision |-> f[t].decision,
                    assignee |-> f[t].assignee, version |-> f[t].version]]

Board == INSTANCE TaskBoard WITH board <- BoardOf(task)
ImplementsTaskBoard == Board!Spec

(***************************************************************************)
(* The inductive invariant: what a request knows about the stored tasks f  *)
(* at each step it may be in.                                              *)
(***************************************************************************)
Agrees(f, t, copy) ==
  /\ copy.version <= f[t].version
  /\ copy.version = f[t].version => copy = f[t]

ReqInv(f, q) ==
  /\ q \in Request
  /\ q.pc # "idle" =>
       q.of \in HTask /\ q.view \in Row /\ Agrees(f, q.of, q.view)
  /\ q.pc \in {"policy", "commit"} =>
       /\ q.act \in Action /\ q.base \in Row /\ Agrees(f, q.of, q.base)
       /\ q.base.version = q.view.version
       /\ q.act = "assign" => q.to \in Member
  /\ q.pc = "commit" => q.base.status \in StartsFrom(q.act)

IInv ==
  /\ TypeOK
  /\ ColumnsAgree
  /\ \A m \in Member : ReqInv(task, req[m])
=============================================================================
