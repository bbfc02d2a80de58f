-------------------------- MODULE HumanTaskProofs --------------------------
(***************************************************************************)
(* Theorems about HumanTask for every set of members, outsiders and tasks  *)
(* and every policy.                                                       *)
(***************************************************************************)
EXTENDS HumanTask, TLAPS

\* What a step does to the stored tasks: a changed one has a higher version.
Grows(f, g) ==
  \A t \in HTask : g[t] = f[t] \/ f[t].version < g[t].version

LEMMA AgreesStays ==
  ASSUME NEW f \in [HTask -> Row], NEW g \in [HTask -> Row], Grows(f, g),
         NEW t \in HTask, NEW copy \in Row, Agrees(f, t, copy)
  PROVE  Agrees(g, t, copy)
<1>1. /\ copy.version \in Nat /\ f[t].version \in Nat /\ g[t].version \in Nat
      /\ g[t] = f[t] \/ f[t].version < g[t].version
  BY DEF Row, Grows
<1>. QED  BY <1>1 DEF Agrees

LEMMA ReqInvStays ==
  ASSUME NEW f \in [HTask -> Row], NEW g \in [HTask -> Row], Grows(f, g),
         NEW q, ReqInv(f, q)
  PROVE  ReqInv(g, q)
<1>1. q.pc # "idle" => Agrees(g, q.of, q.view)
  BY AgreesStays DEF ReqInv
<1>2. q.pc \in {"policy", "commit"} => Agrees(g, q.of, q.base)
  BY AgreesStays DEF ReqInv
<1>. QED  BY <1>1, <1>2 DEF ReqInv

LEMMA RowAgrees ==
  ASSUME NEW f \in [HTask -> Row], NEW t \in HTask
  PROVE  Agrees(f, t, f[t])
<1>1. f[t].version \in Nat
  BY DEF Row
<1>. QED  BY <1>1 DEF Agrees

LEMMA IdleRequestInv ==
  ASSUME NEW f
  PROVE  ReqInv(f, IdleRequest)
BY DEF ReqInv, IdleRequest, Request, MaybeRow

\* Only a lease that is set has run out.
LateLeases(f, late) == late \subseteq {t \in HTask : f[t].lease}

\* A step that moves the request of one member and keeps or grows the tasks.
LEMMA Assemble ==
  ASSUME IInv, NEW m \in Member, NEW x, req' = [req EXCEPT ![m] = x],
         task' \in [HTask -> Row], Grows(task, task'), ReqInv(task', x),
         active' \subseteq Member, LateLeases(task', overdue'), ColumnsAgree'
  PROVE  IInv'
<1>1. req \in [Member -> Request] /\ task \in [HTask -> Row]
  BY DEF IInv, TypeOK
<1>2. ASSUME NEW d \in Member PROVE ReqInv(task', req'[d])
  <2>1. CASE d = m
    BY <2>1, <1>1
  <2>2. CASE d # m
    <3>1. req'[d] = req[d] /\ ReqInv(task, req[d])
      BY <2>2, <1>1 DEF IInv
    <3>. QED  BY <3>1, <1>1, ReqInvStays
  <2>. QED  BY <2>1, <2>2
<1>3. req' \in [Member -> Request]
  BY <1>1 DEF ReqInv
<1>. QED  BY <1>2, <1>3 DEF IInv, TypeOK, LateLeases

\* The same when only a request moves.
LEMMA RequestMoves ==
  ASSUME IInv, NEW m \in Member, NEW x, req' = [req EXCEPT ![m] = x],
         ReqInv(task, x), UNCHANGED <<task, active, overdue>>
  PROVE  IInv'
<1>1. /\ task' = task /\ task \in [HTask -> Row] /\ Grows(task, task')
      /\ active' \subseteq Member /\ LateLeases(task', overdue')
  BY DEF IInv, TypeOK, Grows, LateLeases
<1>2. ColumnsAgree'
  BY <1>1 DEF IInv, ColumnsAgree
<1>3. ReqInv(task', x)
  BY <1>1
<1>. QED  BY <1>1, <1>2, <1>3, Assemble

LEMMA SeedIsRow == SeedRow \subseteq Row
<1> SUFFICES ASSUME NEW r \in SeedRow PROVE r \in Row
  OBVIOUS
<1>1. /\ r = [status |-> r.status, decision |-> r.decision,
              assignee |-> r.assignee, lease |-> r.lease, by |-> r.by,
              version |-> r.version]
      /\ r.status \in {"OPEN", "CLAIMED"} /\ r.decision = NoDecision
      /\ r.assignee \in Member \cup {Nobody} /\ r.lease \in BOOLEAN
      /\ r.by = Nobody /\ r.version = 0
  BY DEF SeedRow
<1>. QED  BY <1>1 DEF Row, Person

LEMMA InitIInv == Init => IInv
<1> SUFFICES ASSUME Init PROVE IInv
  OBVIOUS
<1>1. task \in [HTask -> Row]
  BY SeedIsRow DEF Init
<1>2. \A t \in HTask : /\ task[t].decision = NoDecision /\ task[t].lease = FALSE
                       /\ task[t].status \in {"OPEN", "CLAIMED"}
                       /\ task[t].assignee \in Member \cup {Nobody}
  BY DEF Init, SeedRow
<1>3. ColumnsAgree
  BY <1>2, TaskAssumption, NullAssumption DEF ColumnsAgree, Person
<1>4. \A m \in Member : req[m] = IdleRequest
  BY DEF Init
<1>5. \A m \in Member : ReqInv(task, req[m])
  BY <1>4, IdleRequestInv
<1>6. IdleRequest \in Request
  BY DEF IdleRequest, Request, MaybeRow
<1>7. TypeOK
  BY <1>1, <1>6 DEF TypeOK, Init
<1>. QED  BY <1>3, <1>5, <1>7 DEF IInv

LEMMA LookStep ==
  ASSUME IInv, NEW m \in Member, Look(m)
  PROVE  IInv'
<1>1. PICK t \in HTask :
        req' = [req EXCEPT ![m] = [IdleRequest EXCEPT !.pc = "viewing", !.of = t,
                                     !.view = task[t]]]
  BY DEF Look
<1> DEFINE x == [IdleRequest EXCEPT !.pc = "viewing", !.of = t,
                                    !.view = task[t]]
<1>2. task \in [HTask -> Row] /\ task[t] \in Row
  BY DEF IInv, TypeOK
<1>3. x \in Request /\ x.pc = "viewing" /\ x.of = t /\ x.view = task[t]
  BY <1>2 DEF IdleRequest, Request, MaybeRow
<1> HIDE DEF x
<1>4. ReqInv(task, x)
  BY <1>2, <1>3, RowAgrees DEF ReqInv
<1>. QED  BY <1>1, <1>4, RequestMoves DEF Look, x

LEMMA ReadTaskStep ==
  ASSUME IInv, NEW m \in Member, NEW a \in Action, ReadTask(m, a)
  PROVE  IInv'
<1> DEFINE q == req[m]
<1>1. PICK p \in Nameable(a) :
        req' = [req EXCEPT ![m] = [q EXCEPT !.pc = "policy", !.act = a, !.to = p,
                                     !.base = task[q.of]]]
  BY DEF ReadTask
<1> DEFINE x == [q EXCEPT !.pc = "policy", !.act = a, !.to = p,
                          !.base = task[q.of]]
<1>2. /\ ReqInv(task, q) /\ q \in Request /\ q.pc = "viewing"
      /\ task[q.of].version = q.view.version
  BY DEF IInv, ReadTask, ReqInv
<1>3. /\ q.of \in HTask /\ task \in [HTask -> Row] /\ task[q.of] \in Row
      /\ q.view \in Row /\ Agrees(task, q.of, q.view)
  BY <1>2 DEF IInv, TypeOK, ReqInv
<1>4. p \in Person \cup {Nobody} /\ (a = "assign" => p \in Member)
  BY DEF Nameable, IInv, TypeOK, Person
<1>5. /\ x \in Request /\ x.pc = "policy" /\ x.of = q.of /\ x.view = q.view
      /\ x.base = task[q.of] /\ x.act = a /\ x.to = p
  BY <1>2, <1>3, <1>4 DEF Request, MaybeRow
<1> HIDE DEF x
<1>6. ReqInv(task, x)
  BY <1>2, <1>3, <1>4, <1>5, RowAgrees DEF ReqInv
<1>. QED  BY <1>1, <1>6, RequestMoves DEF ReadTask, x

LEMMA AuthorizeStep ==
  ASSUME IInv, NEW m \in Member, Authorize(m)
  PROVE  IInv'
<1> DEFINE q == req[m]
           x == [q EXCEPT !.pc = "commit"]
<1>1. /\ ReqInv(task, q) /\ q \in Request /\ q.pc = "policy"
      /\ q.base.status \in StartsFrom(q.act)
  BY DEF IInv, Authorize, ReqInv
<1>2. /\ x \in Request /\ x.pc = "commit" /\ x.of = q.of /\ x.view = q.view
      /\ x.base = q.base /\ x.act = q.act /\ x.to = q.to
  BY <1>1 DEF Request
<1>3. req' = [req EXCEPT ![m] = x]
  BY DEF Authorize
<1> HIDE DEF x
<1>4. ReqInv(task, x)
  BY <1>1, <1>2 DEF ReqInv
<1>. QED  BY <1>3, <1>4, RequestMoves DEF Authorize

LEMMA RequestEnds ==
  ASSUME IInv, NEW m \in Member, req' = [req EXCEPT ![m] = IdleRequest],
         UNCHANGED <<task, active, overdue>>
  PROVE  IInv'
BY IdleRequestInv, RequestMoves

\* What a request that commits holds, and what it writes.
LEMMA CommitFacts ==
  ASSUME IInv, NEW m \in Member, Commit(m)
  PROVE  LET q == req[m]
             new == [Edited(m) EXCEPT !.version = @ + 1]
         IN /\ q.of \in HTask /\ q.act \in Action /\ q.base \in Row
            /\ new \in Row /\ new.version = q.base.version + 1
            /\ new.status = Target(q.act) /\ new.decision = DecisionOf(q.act)
            /\ new.lease = Leased(q.act, new.assignee)
            /\ q.act = "claim" => new.assignee = m
            /\ q.act = "assign" => new.assignee = q.to /\ q.to \in Member
            /\ q.act \in Decides => new.assignee = q.base.assignee
            /\ new.assignee \in Person \cup {Nobody}
            /\ q.base.status \in StartsFrom(q.act)
            /\ q.base.version = q.view.version
            /\ q.view \in Row /\ Agrees(task, q.of, q.view)
            /\ task' # task =>
                 /\ task[q.of] = q.base
                 /\ task' = [task EXCEPT ![q.of] = new]
            /\ \/ task' = task /\ overdue' \subseteq overdue
               \/ task' = [task EXCEPT ![q.of] = new] /\ overdue' = overdue \ {q.of}
<1> DEFINE q == req[m]
           new == [Edited(m) EXCEPT !.version = @ + 1]
           handler == CASE q.act = "claim" -> m
                        [] q.act \in Decides -> q.base.assignee
                        [] OTHER -> q.to
<1>1. /\ ReqInv(task, q) /\ q.pc = "commit" /\ q \in Request
      /\ task \in [HTask -> Row]
  BY DEF IInv, TypeOK, Commit, ReqInv
<1>2. /\ q.of \in HTask /\ q.act \in Action /\ q.base \in Row
      /\ Agrees(task, q.of, q.base)
      /\ q.base.status \in StartsFrom(q.act)
      /\ q.base.version = q.view.version
      /\ q.view \in Row /\ Agrees(task, q.of, q.view)
      /\ q.to \in Person \cup {Nobody}
      /\ q.act = "assign" => q.to \in Member
  BY <1>1 DEF ReqInv, Request
<1>3. handler \in Person \cup {Nobody}
  BY <1>2 DEF Row, Person
<1>4. /\ Target(q.act) \in {"OPEN", "CLAIMED", "COMPLETED"}
      /\ DecisionOf(q.act) \in Decision \cup {NoDecision}
      /\ Leased(q.act, handler) \in BOOLEAN
  BY DEF Target, DecisionOf, Decision, Leased
<1>5. Edited(m) = [q.base EXCEPT !.status = Target(q.act),
                     !.decision = DecisionOf(q.act), !.by = m,
                     !.assignee = handler, !.lease = Leased(q.act, handler)]
  BY DEF Edited
<1> HIDE DEF handler
<1>6. /\ Edited(m) \in Row /\ Edited(m).version = q.base.version
      /\ Edited(m).status = Target(q.act)
      /\ Edited(m).decision = DecisionOf(q.act)
      /\ Edited(m).lease = Leased(q.act, handler)
      /\ Edited(m).assignee = handler
  <2> DEFINE s == Target(q.act)
             d == DecisionOf(q.act)
             l == Leased(q.act, handler)
             x == Edited(m)
             r == q.base
  <2>1. /\ s \in {"OPEN", "CLAIMED", "COMPLETED"}
        /\ d \in Decision \cup {NoDecision} /\ l \in BOOLEAN
        /\ x = [r EXCEPT !.status = s, !.decision = d, !.by = m,
                  !.assignee = handler, !.lease = l]
        /\ r \in Row
    BY <1>2, <1>4, <1>5
  <2> HIDE DEF s, d, l, x, r
  <2>2. /\ x \in Row /\ x.version = r.version /\ x.status = s
        /\ x.decision = d /\ x.assignee = handler /\ x.lease = l
    BY <1>3, <2>1 DEF Row
  <2>. QED  BY <2>2 DEF s, d, l, x, r
<1>7. /\ new \in Row /\ new.version = q.base.version + 1
      /\ new.status = Target(q.act) /\ new.decision = DecisionOf(q.act)
      /\ new.assignee = handler /\ new.lease = Leased(q.act, handler)
  BY <1>6 DEF Row
<1>8. /\ q.act = "claim" => handler = m
      /\ q.act = "assign" => handler = q.to
      /\ q.act \in Decides => handler = q.base.assignee
  BY DEF handler, Decides
<1>9. ASSUME task' # task
      PROVE  task[q.of] = q.base /\ task' = [task EXCEPT ![q.of] = new]
  <2>1. Sends(q.base, Edited(m)) /\ ~ Stale(q.of, q.base, Edited(m))
    BY <1>9 DEF Commit
  <2>2. task[q.of].version = q.base.version
    BY <2>1 DEF Stale, Moved
  <2>3. task' = [task EXCEPT ![q.of] = new]
    BY <2>1 DEF Commit
  <2>. QED  BY <1>2, <2>2, <2>3 DEF Agrees
<1>10. \/ task' = task /\ overdue' \subseteq overdue
       \/ task' = [task EXCEPT ![q.of] = new] /\ overdue' = overdue \ {q.of}
  BY DEF Commit
<1> HIDE DEF new
<1>. QED  BY <1>2, <1>3, <1>7, <1>8, <1>9, <1>10 DEF new

LEMMA CommitStep ==
  ASSUME IInv, NEW m \in Member, Commit(m)
  PROVE  IInv'
<1> DEFINE q == req[m]
           new == [Edited(m) EXCEPT !.version = @ + 1]
<1>1. /\ q.of \in HTask /\ q.act \in Action /\ q.base \in Row
      /\ new \in Row /\ new.version = q.base.version + 1
      /\ new.status = Target(q.act) /\ new.decision = DecisionOf(q.act)
      /\ new.lease = Leased(q.act, new.assignee)
      /\ q.act = "claim" => new.assignee = m
      /\ q.act = "assign" => new.assignee \in Member
      /\ task' # task => /\ task[q.of] = q.base
                         /\ task' = [task EXCEPT ![q.of] = new]
      /\ \/ task' = task /\ overdue' \subseteq overdue
         \/ task' = [task EXCEPT ![q.of] = new] /\ overdue' = overdue \ {q.of}
  BY CommitFacts
<1> HIDE DEF new
<1>2. task \in [HTask -> Row] /\ ColumnsAgree
  BY DEF IInv, TypeOK
<1>3. task' \in [HTask -> Row]
  BY <1>1, <1>2
<1>4. q.base.version \in Nat
  BY <1>1 DEF Row
<1>5. Grows(task, task')
  BY <1>1, <1>2, <1>4 DEF Grows
<1>6. ColumnsAgree'
  <2> SUFFICES ASSUME NEW t \in HTask, task' # task, t = q.of
               PROVE /\ new.status = "COMPLETED" <=> new.decision # NoDecision
                     /\ new.lease => /\ new.assignee # Nobody
                                     /\ new.status # "COMPLETED"
                     /\ new.status = "CLAIMED" => new.assignee \notin Outsider
    BY <1>1, <1>2 DEF ColumnsAgree
  <2>1. new.status = "COMPLETED" <=> q.act \in Decides
    BY <1>1 DEF Target, Decides
  <2>2. new.decision # NoDecision <=> q.act \in Decides
    BY <1>1, NullAssumption DEF DecisionOf, Decides, Decision
  <2>3. new.lease => new.assignee # Nobody /\ q.act \notin Decides
    BY <1>1 DEF Leased
  <2>4. new.status = "CLAIMED" => q.act \in {"claim", "assign"}
    BY <1>1 DEF Target, Action
  <2>5. new.status = "CLAIMED" => new.assignee \in Member
    BY <1>1, <2>4
  <2>. QED  BY <2>1, <2>2, <2>3, <2>5, TaskAssumption
<1>7. active' \subseteq Member
  BY DEF Commit, IInv, TypeOK
<1>8. req' = [req EXCEPT ![m] = IdleRequest]
  BY DEF Commit
<1>9. LateLeases(task', overdue')
  BY <1>1, <1>2 DEF IInv, TypeOK, LateLeases
<1>. QED  BY <1>3, <1>5, <1>6, <1>7, <1>8, <1>9, IdleRequestInv, Assemble

\* The surroundings move no task and no request.
LEMMA SurroundingsStep ==
  ASSUME IInv, UNCHANGED <<task, req>>, active' \subseteq Member,
         LateLeases(task, overdue')
  PROVE  IInv'
BY DEF IInv, TypeOK, ColumnsAgree, LateLeases

LEMMA StepIInv == IInv /\ [Next]_vars => IInv'
<1> SUFFICES ASSUME IInv, [Next]_vars PROVE IInv'
  OBVIOUS
<1>1. CASE UNCHANGED vars
  BY <1>1, SurroundingsStep DEF vars, IInv, TypeOK, LateLeases
<1>2. ASSUME NEW m \in Member, Look(m) PROVE IInv'
  BY <1>2, LookStep
<1>3. ASSUME NEW m \in Member, NEW a \in Action, ReadTask(m, a) PROVE IInv'
  BY <1>3, ReadTaskStep
<1>4. ASSUME NEW m \in Member, Authorize(m) PROVE IInv'
  BY <1>4, AuthorizeStep
<1>5. ASSUME NEW m \in Member, Commit(m) PROVE IInv'
  BY <1>5, CommitStep
<1>6. ASSUME NEW m \in Member, Refuse(m) \/ LoseRace(m) \/ RequestCrash(m)
      PROVE  IInv'
  BY <1>6, RequestEnds DEF Refuse, LoseRace, RequestCrash
<1>7. ASSUME NEW m \in Member, UpdateMember(m) PROVE IInv'
  <2>1. active' \subseteq Member /\ LateLeases(task, overdue')
    BY <1>7 DEF UpdateMember, IInv, TypeOK, LateLeases
  <2>. QED  BY <1>7, <2>1, SurroundingsStep DEF UpdateMember
<1>8. ASSUME NEW t \in HTask, LeaseEnds(t) PROVE IInv'
  <2>1. active' \subseteq Member /\ LateLeases(task, overdue')
    BY <1>8 DEF LeaseEnds, IInv, TypeOK, LateLeases
  <2>. QED  BY <1>8, <2>1, SurroundingsStep DEF LeaseEnds
<1>. QED
  BY <1>1, <1>2, <1>3, <1>4, <1>5, <1>6, <1>7, <1>8 DEF Next

\* The inductive invariant holds in every reachable state.
THEOREM Invariant == Spec => []IInv
BY InitIInv, StepIInv, PTL DEF Spec

\* Every variable stays in its domain.
THEOREM TypeCorrect == Spec => []TypeOK
<1>1. IInv => TypeOK
  BY DEF IInv
<1>. QED  BY <1>1, Invariant, PTL

\* The columns of a task agree with its status, whatever the history.
THEOREM ColumnsCorrect == Spec => []ColumnsAgree
<1>1. IInv => ColumnsAgree
  BY DEF IInv
<1>. QED  BY <1>1, Invariant, PTL

\* A task changes only by the commit of one request.
LEMMA TaskChange ==
  ASSUME IInv, [Next]_vars, task' # task
  PROVE  \E m \in Member : /\ Commit(m) /\ req[m].pc = "commit"
                           /\ req' = [req EXCEPT ![m] = IdleRequest]
BY DEF Next, vars, Look, ReadTask, Authorize, Refuse, Commit, LoseRace,
       RequestCrash, UpdateMember, LeaseEnds

\* Once decided, a task never changes again.
THEOREM DecidedCorrect == Spec => DecidedOnce
<1>1. ASSUME IInv, [Next]_vars, NEW t \in HTask, task[t].decision # NoDecision
      PROVE  task'[t] = task[t]
  <2> SUFFICES ASSUME task' # task PROVE task'[t] = task[t]
    OBVIOUS
  <2>1. PICK m \in Member : Commit(m)
    BY <1>1, TaskChange
  <2> DEFINE q == req[m]
  <2>2. /\ task[q.of] = q.base /\ q.base.status \in StartsFrom(q.act)
        /\ q.of \in HTask /\ \A s \in HTask : s # q.of => task'[s] = task[s]
    BY <1>1, <2>1, CommitFacts DEF IInv, TypeOK
  <2>3. task[t].status = "COMPLETED"
    BY <1>1 DEF IInv, ColumnsAgree
  <2>4. q.base.status # "COMPLETED"
    BY <2>2 DEF StartsFrom
  <2>. QED  BY <2>2, <2>3, <2>4
<1>2. IInv /\ [Next]_vars =>
        [\A t \in HTask :
           task[t].decision # NoDecision => task'[t] = task[t]]_vars
  BY <1>1
<1>. QED  BY <1>2, Invariant, PTL DEF Spec, DecidedOnce

\* As long as the lease has not run out, a holder keeps the task until it is
\* decided or handed over.
THEOREM HolderCorrect == Spec => HolderKeepsTask
<1>1. ASSUME IInv, [Next]_vars, NEW t \in HTask,
             task[t].status = "CLAIMED", t \notin overdue,
             task'[t].assignee # task[t].assignee
      PROVE  \E m \in Member : /\ req[m].pc = "commit" /\ req[m].of = t
                               /\ req[m].act \in {"assign", "reassign"}
                               /\ req'[m].pc = "idle"
  <2>1. PICK m \in Member : /\ Commit(m) /\ req[m].pc = "commit"
                            /\ req' = [req EXCEPT ![m] = IdleRequest]
    BY <1>1, TaskChange
  <2> DEFINE q == req[m]
             new == [Edited(m) EXCEPT !.version = @ + 1]
  <2>2. /\ task[q.of] = q.base /\ q.base.status \in StartsFrom(q.act)
        /\ q.of \in HTask /\ q.act \in Action
        /\ task' = [task EXCEPT ![q.of] = new]
        /\ q.act \in Decides => new.assignee = q.base.assignee
    BY <1>1, <2>1, CommitFacts
  <2> HIDE DEF new
  <2>3. q.of = t /\ task'[t] = new
    BY <1>1, <2>2 DEF IInv, TypeOK
  <2>4. q.act # "claim"
    BY <1>1, <2>2, <2>3 DEF StartsFrom
  <2>5. q.act \in {"assign", "reassign"}
    BY <1>1, <2>2, <2>3, <2>4 DEF Action
  <2>6. req'[m].pc = "idle"
    BY <1>1, <2>1 DEF IInv, TypeOK, IdleRequest
  <2>. QED  BY <2>1, <2>3, <2>5, <2>6
<1>2. IInv /\ [Next]_vars =>
        [\A t \in HTask :
           /\ task[t].status = "CLAIMED" /\ t \notin overdue
           /\ task'[t].assignee # task[t].assignee
           => \E m \in Member : /\ req[m].pc = "commit" /\ req[m].of = t
                                /\ req[m].act \in {"assign", "reassign"}
                                /\ req'[m].pc = "idle"]_vars
  BY <1>1
<1>. QED  BY <1>2, Invariant, PTL DEF Spec, HolderKeepsTask

\* An action applies to the task its author saw.
THEOREM SeenCorrect == Spec => ActionsApplyToWhatWasSeen
<1>1. ASSUME IInv, [Next]_vars, NEW m \in Member, req[m].pc = "commit",
             req'[m].pc # "commit", task' # task
      PROVE  task[req[m].of] = req[m].view
  <2>1. PICK d \in Member : /\ Commit(d)
                            /\ req' = [req EXCEPT ![d] = IdleRequest]
    BY <1>1, TaskChange
  <2>2. d = m
    BY <1>1, <2>1 DEF IInv, TypeOK
  <2>. QED  BY <1>1, <2>1, <2>2, CommitFacts DEF Agrees
<1>2. IInv /\ [Next]_vars =>
        [\A m \in Member :
           /\ req[m].pc = "commit" /\ req'[m].pc # "commit" /\ task' # task
           => task[req[m].of] = req[m].view]_vars
  BY <1>1
<1>. QED  BY <1>2, Invariant, PTL DEF Spec, ActionsApplyToWhatWasSeen

(***************************************************************************)
(* The refinement: the stored tasks, without lease and editor, behave as   *)
(* the board of TaskBoard.                                                 *)
(***************************************************************************)
LEMMA BoardInit == Init => Board!Init
<1> SUFFICES ASSUME Init PROVE Board!Init
  OBVIOUS
<1>1. \A t \in HTask :
        /\ BoardOf(task)[t] \in
             [status: {"OPEN", "CLAIMED"}, decision: {NoDecision},
              assignee: Member \cup {Nobody}, version: {0}]
        /\ BoardOf(task)[t].status = "OPEN" => BoardOf(task)[t].assignee = Nobody
  BY DEF Init, SeedRow, BoardOf
<1>. QED  BY <1>1 DEF Board!Init, BoardOf

\* What a reader sees of a task that got its next version.
LEMMA BoardChange ==
  ASSUME task \in [HTask -> Row], NEW t \in HTask, NEW new \in Row,
         task' = [task EXCEPT ![t] = new], new.version = task[t].version + 1
  PROVE  Board!Change(t, new.status, new.decision, new.assignee)
<1>1. task'[t] = new /\ \A s \in HTask : s # t => task'[s] = task[s]
  OBVIOUS
<1>2. BoardOf(task)[t].version = task[t].version
  BY DEF BoardOf
<1>3. BoardOf(task')[t] =
        [status |-> new.status, decision |-> new.decision,
         assignee |-> new.assignee, version |-> BoardOf(task)[t].version + 1]
  BY <1>1, <1>2 DEF BoardOf
<1>4. \A s \in HTask : s # t => BoardOf(task')[s] = BoardOf(task)[s]
  BY <1>1 DEF BoardOf
<1>5. BoardOf(task') =
        [BoardOf(task) EXCEPT
           ![t] = [status |-> new.status, decision |-> new.decision,
                   assignee |-> new.assignee,
                   version |-> BoardOf(task)[t].version + 1]]
  BY <1>3, <1>4 DEF BoardOf
<1>6. BoardOf(task)' = BoardOf(task')
  BY DEF BoardOf
<1>. QED  BY <1>5, <1>6 DEF Board!Change

\* A commit is one of the four steps of the board.
LEMMA BoardStep ==
  ASSUME IInv, [Next]_vars, BoardOf(task)' # BoardOf(task)
  PROVE  Board!Next
<1>1. task' # task
  BY DEF BoardOf
<1>2. PICK m \in Member : Commit(m)
  BY <1>1, TaskChange
<1> DEFINE q == req[m]
           t == q.of
           new == [Edited(m) EXCEPT !.version = @ + 1]
<1>3. /\ t \in HTask /\ q.act \in Action /\ new \in Row
      /\ task[t] = q.base /\ new.version = task[t].version + 1
      /\ task' = [task EXCEPT ![t] = new]
      /\ new.status = Target(q.act) /\ new.decision = DecisionOf(q.act)
      /\ task[t].status \in StartsFrom(q.act)
      /\ new.assignee \in Person \cup {Nobody}
      /\ q.act = "claim" => new.assignee = m
      /\ q.act = "assign" => new.assignee \in Member
      /\ q.act \in Decides => new.assignee = task[t].assignee
  BY <1>1, <1>2, CommitFacts
<1> HIDE DEF new
<1>4. task \in [HTask -> Row]
  BY DEF IInv, TypeOK
<1>5. Board!Change(t, new.status, new.decision, new.assignee)
  BY <1>3, <1>4, BoardChange
<1>6. /\ BoardOf(task)[t].status = task[t].status
      /\ BoardOf(task)[t].assignee = task[t].assignee
  BY <1>3 DEF BoardOf
<1>7. BoardOf(task)[t].status \in {"OPEN", "CLAIMED"}
  BY <1>3, <1>6 DEF StartsFrom
<1>8. CASE q.act \in {"claim", "assign"}
  <2>1. new.status = "CLAIMED" /\ new.decision = NoDecision
    BY <1>3, <1>8 DEF Target, DecisionOf, Decides
  <2>2. new.assignee \in Member
    BY <1>3, <1>8
  <2>3. Board!Hold(t)
    BY <1>5, <1>7, <2>1, <2>2 DEF Board!Hold, Board!Pending
  <2>. QED  BY <1>3, <2>3 DEF Board!Next
<1>9. CASE q.act = "reassign"
  <2>1. new.status = "OPEN" /\ new.decision = NoDecision
    BY <1>3, <1>9 DEF Target, DecisionOf, Decides
  <2>2. Board!Release(t)
    BY <1>3, <1>5, <1>7, <2>1 DEF Board!Release, Board!Pending, Person
  <2>. QED  BY <1>3, <2>2 DEF Board!Next
<1>10. CASE q.act \in {"approve", "reject"}
  <2>1. /\ new.status = "COMPLETED" /\ new.decision \in {"APPROVE", "REJECT"}
        /\ new.assignee = BoardOf(task)[t].assignee
    BY <1>3, <1>6, <1>10 DEF Target, DecisionOf, Decides
  <2>2. Board!Decide(t)
    BY <1>5, <1>7, <2>1 DEF Board!Decide, Board!Pending
  <2>. QED  BY <1>3, <2>2 DEF Board!Next
<1>11. CASE q.act = "submit"
  <2>1. /\ new.status = "COMPLETED" /\ new.decision = "EDIT_AND_APPROVE"
        /\ new.assignee = BoardOf(task)[t].assignee
        /\ BoardOf(task)[t].status = "CLAIMED"
    BY <1>3, <1>6, <1>11 DEF Target, DecisionOf, Decides, StartsFrom
  <2>2. Board!Submit(t)
    BY <1>5, <2>1 DEF Board!Submit
  <2>. QED  BY <1>3, <2>2 DEF Board!Next
<1>. QED  BY <1>3, <1>8, <1>9, <1>10, <1>11 DEF Action, Decides

\* Readers, claims, decisions and suspensions together implement the board:
\* whatever they interleave, a task moves as TaskBoard allows.
THEOREM TaskBoardImplemented == Spec => ImplementsTaskBoard
<1>1. IInv /\ [Next]_vars => [Board!Next]_(BoardOf(task))
  BY BoardStep
<1>. QED
  BY <1>1, BoardInit, Invariant, PTL DEF Spec, ImplementsTaskBoard, Board!Spec
=============================================================================
