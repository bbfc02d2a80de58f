-------------------------- MODULE ContentRunProofs --------------------------
(***************************************************************************)
(* Theorems about ContentRun for every number of runs, clients, workers    *)
(* and materials, and every version bound.                                 *)
(***************************************************************************)
EXTENDS ContentRun, TLAPS

(***************************************************************************)
(* Facts about the stored rows, stated without variables: f is the board   *)
(* before a step and g after it.                                           *)
(***************************************************************************)
\* A copy that agreed with the board still does after any step.
LEMMA AgreesStays ==
  ASSUME NEW f \in [Run -> MaybeRow], NEW g \in [Run -> MaybeRow],
         Grows(f, g), NEW r, NEW copy \in MaybeRow, Agrees(f, r, copy)
  PROVE  Agrees(g, r, copy)
<1> SUFFICES ASSUME copy # Absent
             PROVE  /\ r \in Run /\ g[r] # Absent
                    /\ copy.version <= g[r].version
                    /\ copy.version = g[r].version => copy = g[r]
  BY DEF Agrees
<1>1. /\ r \in Run /\ f[r] # Absent
      /\ copy.version <= f[r].version
      /\ copy.version = f[r].version => copy = f[r]
  BY DEF Agrees
<1>2. copy \in Row /\ f[r] \in Row /\ g[r] \in Row
  BY <1>1 DEF MaybeRow, Grows
<1>3. copy.version \in Nat /\ f[r].version \in Nat /\ g[r].version \in Nat
  BY <1>2 DEF Row
<1>4. g[r] # Absent /\ (g[r] = f[r] \/ f[r].version < g[r].version)
  BY <1>1 DEF Grows
<1>. QED  BY <1>1, <1>3, <1>4

\* The row itself is a copy that agrees.
LEMMA RowAgrees ==
  ASSUME NEW f \in [Run -> MaybeRow], NEW r \in Run
  PROVE  Agrees(f, r, f[r])
<1>1. f[r] # Absent => f[r].version \in Nat
  BY DEF MaybeRow, Row
<1>. QED  BY <1>1 DEF Agrees

\* A request that did not move knows as much after a step of someone else.
LEMMA ReqInvStays ==
  ASSUME NEW f \in [Run -> MaybeRow], NEW g \in [Run -> MaybeRow],
         Grows(f, g), NEW q, ReqInv(f, q)
  PROVE  ReqInv(g, q)
<1>1. q.view \in MaybeRow /\ q.base \in MaybeRow
  BY DEF ReqInv, Request
<1>2. Agrees(g, q.run, q.view) /\ Agrees(g, q.run, q.base)
  BY <1>1, AgreesStays DEF ReqInv
<1>3. q.pc = "enqueue" => g[q.run] # Absent
  BY DEF ReqInv, Grows
<1>. QED  BY <1>2, <1>3 DEF ReqInv

\* So does a task.
LEMMA TaskInvStays ==
  ASSUME NEW f \in [Run -> MaybeRow], NEW g \in [Run -> MaybeRow],
         Grows(f, g), NEW t, TaskInv(f, t)
  PROVE  TaskInv(g, t)
<1>1. t.base \in MaybeRow
  BY DEF TaskInv, Task
<1>2. Agrees(g, t.run, t.base)
  BY <1>1, AgreesStays DEF TaskInv
<1>3. t.pc # "idle" => g[t.run] # Absent
  BY DEF TaskInv, Grows
<1>4. t.pc = "done" => g[t.run].content # NoText
  BY DEF TaskInv, Grows
<1>5. t.base # Absent /\ t.base.content # NoText => g[t.run].content # NoText
  BY DEF TaskInv, Agrees, Grows
<1>. QED  BY <1>2, <1>3, <1>4, <1>5 DEF TaskInv

\* A versioned UPDATE that is not stale: the row read is the row stored, and
\* the board grows.
LEMMA StoreGrows ==
  ASSUME IInv, NEW r \in Run, NEW base \in Row, NEW new \in Row,
         Agrees(row, r, base), ~ Stale(r, base, new), Store(r, base, new),
         base.content # NoText => new.content # NoText
  PROVE  /\ row' \in [Run -> MaybeRow]
         /\ Grows(row, row')
         /\ row' # row => base = row[r]
         /\ row' # row => row' = [row EXCEPT ![r] = Bump(base, new)]
<1>1. row \in [Run -> MaybeRow]
  BY DEF IInv, TypeOK
<1>2. CASE new = base
  <2>1. row' = row
    BY <1>2 DEF Store
  <2>. QED  BY <1>1, <2>1 DEF Grows
<1>3. CASE new # base
  <2>1. row[r].version = base.version
    BY <1>3 DEF Stale, Moved
  <2>2. base # Absent
    BY SentinelAssumption
  <2>3. base = row[r]
    BY <2>1, <2>2 DEF Agrees
  <2>4. row' = [row EXCEPT ![r] = Bump(base, new)]
    BY <1>3 DEF Store
  <2>5. /\ Bump(base, new) \in Row
        /\ Bump(base, new).version = base.version + 1
        /\ Bump(base, new).content = new.content
        /\ base.version \in Nat
    BY DEF Bump, Row
  <2>6. Bump(base, new) # Absent
    BY <2>5, SentinelAssumption
  <2>7. row' \in [Run -> MaybeRow]
    BY <1>1, <2>4, <2>5 DEF MaybeRow
  <2>8. Grows(row, row')
    <3> SUFFICES ASSUME NEW s \in Run, row[s] # Absent
                 PROVE  /\ row'[s] # Absent
                        /\ row'[s] = row[s] \/ row[s].version < row'[s].version
                        /\ row[s].content # NoText => row'[s].content # NoText
      BY DEF Grows
    <3>1. CASE s # r
      BY <3>1, <1>1, <2>4
    <3>2. CASE s = r
      <4>1. row'[s] = Bump(base, new)
        BY <3>2, <1>1, <2>4
      <4>. QED  BY <3>2, <4>1, <2>3, <2>5, <2>6
    <3>. QED  BY <3>1, <3>2
  <2>. QED  BY <2>3, <2>4, <2>7, <2>8
<1>. QED  BY <1>2, <1>3

(***************************************************************************)
(* Assembling IInv' from what a step does to each variable.                *)
(***************************************************************************)
LEMMA RowsKept ==
  ASSUME IInv, row' = row
  PROVE  row' \in [Run -> MaybeRow] /\ Grows(row, row')
BY DEF IInv, TypeOK, Grows

\* One request moves to x, the others stay.
LEMMA OneRequestMoves ==
  ASSUME IInv, row' \in [Run -> MaybeRow], Grows(row, row'),
         NEW c \in Client, NEW x, req' = [req EXCEPT ![c] = x],
         ReqInv(row', x)
  PROVE  /\ req' \in [Client -> Request]
         /\ \A d \in Client : ReqInv(row', req'[d])
<1>1. row \in [Run -> MaybeRow] /\ req \in [Client -> Request]
  BY DEF IInv, TypeOK
<1>2. x \in Request
  BY DEF ReqInv
<1>3. ASSUME NEW d \in Client
      PROVE  ReqInv(row', req'[d])
  <2>1. CASE d = c
    BY <2>1, <1>1
  <2>2. CASE d # c
    <3>1. req'[d] = req[d] /\ ReqInv(row, req[d])
      BY <2>2, <1>1 DEF IInv
    <3>. QED  BY <3>1, <1>1, ReqInvStays
  <2>. QED  BY <2>1, <2>2
<1>. QED  BY <1>1, <1>2, <1>3

\* One task moves to x, the others stay.
LEMMA OneTaskMoves ==
  ASSUME IInv, row' \in [Run -> MaybeRow], Grows(row, row'),
         NEW w \in Worker, NEW x, wk' = [wk EXCEPT ![w] = x],
         TaskInv(row', x)
  PROVE  /\ wk' \in [Worker -> Task]
         /\ \A v \in Worker : TaskInv(row', wk'[v])
<1>1. row \in [Run -> MaybeRow] /\ wk \in [Worker -> Task]
  BY DEF IInv, TypeOK
<1>2. x \in Task
  BY DEF TaskInv
<1>3. ASSUME NEW v \in Worker
      PROVE  TaskInv(row', wk'[v])
  <2>1. CASE v = w
    BY <2>1, <1>1
  <2>2. CASE v # w
    <3>1. wk'[v] = wk[v] /\ TaskInv(row, wk[v])
      BY <2>2, <1>1 DEF IInv
    <3>. QED  BY <3>1, <1>1, TaskInvStays
  <2>. QED  BY <2>1, <2>2
<1>. QED  BY <1>1, <1>2, <1>3

LEMMA RequestsKept ==
  ASSUME IInv, row' \in [Run -> MaybeRow], Grows(row, row'), req' = req
  PROVE  /\ req' \in [Client -> Request]
         /\ \A d \in Client : ReqInv(row', req'[d])
<1>1. row \in [Run -> MaybeRow] /\ req \in [Client -> Request]
      /\ \A d \in Client : ReqInv(row, req[d])
  BY DEF IInv, TypeOK
<1>. QED  BY <1>1, ReqInvStays

LEMMA TasksKept ==
  ASSUME IInv, row' \in [Run -> MaybeRow], Grows(row, row'), wk' = wk
  PROVE  /\ wk' \in [Worker -> Task]
         /\ \A v \in Worker : TaskInv(row', wk'[v])
<1>1. row \in [Run -> MaybeRow] /\ wk \in [Worker -> Task]
      /\ \A v \in Worker : TaskInv(row, wk[v])
  BY DEF IInv, TypeOK
<1>. QED  BY <1>1, TaskInvStays

\* The parts of IInv that are not about single requests and tasks.
LEMMA RestKept ==
  ASSUME IInv, row' \in [Run -> MaybeRow], Grows(row, row'),
         queue' = queue, links' = links, exports' = exports, dropped' = dropped
  PROVE  /\ queue' \in [Run \X Client -> Nat]
         /\ \A r \in Run, c \in Client : queue'[<<r, c>>] > 0 => row'[r] # Absent
         /\ links' \in [Run -> SUBSET Material]
         /\ exports' \subseteq Payload
         /\ dropped' \in [Run -> BOOLEAN]
BY DEF IInv, TypeOK, Exists, Grows

LEMMA Assemble ==
  ASSUME row' \in [Run -> MaybeRow],
         req' \in [Client -> Request],
         \A c \in Client : ReqInv(row', req'[c]),
         wk' \in [Worker -> Task],
         \A w \in Worker : TaskInv(row', wk'[w]),
         queue' \in [Run \X Client -> Nat],
         \A r \in Run, c \in Client : queue'[<<r, c>>] > 0 => row'[r] # Absent,
         links' \in [Run -> SUBSET Material],
         exports' \subseteq Payload,
         dropped' \in [Run -> BOOLEAN]
  PROVE  IInv'
BY DEF IInv, TypeOK, Exists

(***************************************************************************)
(* The requests: one lemma per action.                                     *)
(***************************************************************************)
LEMMA IdleRequestInv ==
  ASSUME NEW f
  PROVE  ReqInv(f, IdleRequest)
BY DEF ReqInv, IdleRequest, Request, Agrees, MaybeRow

LEMMA LookStep ==
  ASSUME IInv, NEW c \in Client, Look(c)
  PROVE  IInv'
<1>1. PICK r \in Run :
        /\ Exists(r)
        /\ req' = [req EXCEPT ![c] = [IdleRequest EXCEPT !.pc = "viewing",
                                        !.run = r, !.view = row[r]]]
  BY DEF Look
<1>2. row' = row /\ wk' = wk /\ queue' = queue /\ links' = links
      /\ exports' = exports /\ dropped' = dropped
  BY DEF Look
<1>3. row \in [Run -> MaybeRow]
  BY DEF IInv, TypeOK
<1>4. ReqInv(row, [IdleRequest EXCEPT !.pc = "viewing", !.run = r,
                                      !.view = row[r]])
  <2>1. Agrees(row, r, row[r]) /\ row[r] \in MaybeRow /\ row[r] # Absent
    BY <1>1, <1>3, RowAgrees DEF Exists
  <2>. QED
    BY <2>1 DEF ReqInv, IdleRequest, Request, Agrees, MaybeRow
<1>. QED
  BY <1>1, <1>2, <1>4, RowsKept, OneRequestMoves, TasksKept, RestKept, Assemble

\* Every refusal, lost race and crash of a request ends it and nothing else.
LEMMA RequestEnds ==
  ASSUME IInv, NEW c \in Client, req' = [req EXCEPT ![c] = IdleRequest],
         UNCHANGED <<row, links, exports, queue, wk, dropped>>
  PROVE  IInv'
BY IdleRequestInv, RowsKept, OneRequestMoves, TasksKept, RestKept, Assemble

LEMMA ReadForActionStep ==
  ASSUME IInv, NEW c \in Client, NEW a \in Transitions \cup SideEffects,
         ReadForAction(c, a)
  PROVE  IInv'
<1> DEFINE q == req[c]
           adds == IF a = "collect" THEN Matches[q.run] \ links[q.run] ELSE {}
           x == [q EXCEPT !.pc = "commit", !.act = a, !.base = row[q.run],
                          !.adds = adds]
<1>1. req' = [req EXCEPT ![c] = x]
  BY DEF ReadForAction
<1>2. row' = row /\ wk' = wk /\ queue' = queue /\ links' = links
      /\ exports' = exports /\ dropped' = dropped
  BY DEF ReadForAction
<1>3. /\ row \in [Run -> MaybeRow] /\ links \in [Run -> SUBSET Material]
      /\ ReqInv(row, q)
  BY DEF IInv, TypeOK
<1>4. /\ q \in Request /\ q.pc = "viewing" /\ q.view # Absent
      /\ Agrees(row, q.run, q.view)
      /\ row[q.run].version = q.view.version
  BY <1>3 DEF ReadForAction, Admitted, ReqInv
<1>5. q.run \in Run /\ row[q.run] # Absent
  BY <1>4 DEF Agrees
<1>6. adds \in SUBSET Material
  BY <1>5, PolicyAssumption
<1>7. Agrees(row, q.run, row[q.run]) /\ row[q.run] \in MaybeRow
  BY <1>3, <1>5, RowAgrees
<1>8. a \in Action /\ a # "create"
  BY DEF Action, Transitions, SideEffects
<1>9. /\ x.pc = "commit" /\ x.run = q.run /\ x.act = a /\ x.view = q.view
      /\ x.base = row[q.run] /\ x.adds = adds /\ x \in Request
  BY <1>4, <1>6, <1>7, <1>8 DEF Request
<1>10. a \in Transitions => row[q.run].status \in StartsFrom[a]
  BY DEF ReadForAction, Admitted
<1>11. ReqInv(row, x)
  BY <1>4, <1>5, <1>7, <1>8, <1>9, <1>10 DEF ReqInv
<1> HIDE DEF x
<1>. QED
  BY <1>1, <1>2, <1>11, RowsKept, OneRequestMoves, TasksKept, RestKept,
     Assemble

LEMMA ReadForLinkStep ==
  ASSUME IInv, NEW c \in Client, ReadForLink(c)
  PROVE  IInv'
<1>1. PICK r \in Run, m \in Material :
        /\ Exists(r)
        /\ req' = [req EXCEPT ![c] =
                    [IdleRequest EXCEPT !.pc = "commit", !.run = r,
                       !.act = "link", !.base = row[r],
                       !.adds = {m} \ links[r]]]
  BY DEF ReadForLink
<1>2. row' = row /\ wk' = wk /\ queue' = queue /\ links' = links
      /\ exports' = exports /\ dropped' = dropped
  BY DEF ReadForLink
<1>3. row \in [Run -> MaybeRow]
  BY DEF IInv, TypeOK
<1>4. ReqInv(row, [IdleRequest EXCEPT !.pc = "commit", !.run = r,
                     !.act = "link", !.base = row[r], !.adds = {m} \ links[r]])
  <2>1. Agrees(row, r, row[r]) /\ row[r] \in MaybeRow /\ row[r] # Absent
    BY <1>1, <1>3, RowAgrees DEF Exists
  <2>. QED
    BY <2>1 DEF ReqInv, IdleRequest, Request, Agrees, MaybeRow, Action,
                Transitions, SideEffects
<1>. QED
  BY <1>1, <1>2, <1>4, RowsKept, OneRequestMoves, TasksKept, RestKept, Assemble

LEMMA ReadForCreateStep ==
  ASSUME IInv, NEW c \in Client, ReadForCreate(c)
  PROVE  IInv'
<1>1. PICK r \in Run :
        req' = [req EXCEPT ![c] = [IdleRequest EXCEPT !.pc = "commit",
                                     !.run = r, !.act = "create"]]
  BY DEF ReadForCreate
<1>2. row' = row /\ wk' = wk /\ queue' = queue /\ links' = links
      /\ exports' = exports /\ dropped' = dropped
  BY DEF ReadForCreate
<1>3. ReqInv(row, [IdleRequest EXCEPT !.pc = "commit", !.run = r,
                                      !.act = "create"])
  BY DEF ReqInv, IdleRequest, Request, Agrees, MaybeRow, Action, Transitions,
         SideEffects
<1>. QED
  BY <1>1, <1>2, <1>3, RowsKept, OneRequestMoves, TasksKept, RestKept, Assemble

\* What a request that is about to commit over an existing row holds.
LEMMA CommitFacts ==
  ASSUME IInv, NEW c \in Client, req[c].pc = "commit", req[c].act # "create"
  PROVE  /\ req[c].run \in Run /\ req[c] \in Request
         /\ req[c].base \in Row /\ req[c].act \in Action
         /\ Agrees(row, req[c].run, req[c].base)
         /\ row[req[c].run] \in Row
         /\ Edited(c) \in Row
         /\ Edited(c).content = req[c].base.content
         /\ req[c].adds \in SUBSET Material
<1>1. /\ ReqInv(row, req[c]) /\ req[c] \in Request
      /\ row \in [Run -> MaybeRow]
  BY DEF IInv, TypeOK
<1>2. /\ req[c].run \in Run /\ req[c].base \in Row /\ req[c].act \in Action
      /\ Agrees(row, req[c].run, req[c].base)
      /\ req[c].adds \in SUBSET Material
  BY <1>1 DEF ReqInv, Request, MaybeRow
<1>3. row[req[c].run] \in Row
  BY <1>1, <1>2, SentinelAssumption DEF Agrees, MaybeRow
<1>4. req[c].act \in Transitions => Target[req[c].act] \in Status
  BY DEF Transitions, Target, Status
<1>5. Edited(c) \in Row /\ Edited(c).content = req[c].base.content
  <2>1. CASE req[c].act \in Transitions
    BY <2>1, <1>2, <1>4 DEF Edited, Row
  <2>2. CASE req[c].act = "link"
    BY <2>2, <1>2 DEF Edited, Row, Transitions
  <2>3. CASE req[c].act \notin Transitions \cup {"link"}
    BY <2>3, <1>2 DEF Edited, Row
  <2>. QED  BY <2>1, <2>2, <2>3
<1>. QED  BY <1>1, <1>2, <1>3, <1>5

LEMMA CommitTransitionStep ==
  ASSUME IInv, NEW c \in Client, CommitTransition(c)
  PROVE  IInv' /\ Grows(row, row')
<1> DEFINE q == req[c]
           x == IF q.act \in AsyncActions THEN [q EXCEPT !.pc = "enqueue"]
                ELSE IdleRequest
<1>1. /\ q.pc = "commit" /\ q.act \in Transitions /\ q.act # "create"
      /\ ~ Stale(q.run, q.base, Edited(c)) /\ Store(q.run, q.base, Edited(c))
      /\ req' = [req EXCEPT ![c] = x]
      /\ wk' = wk /\ queue' = queue /\ links' = links /\ exports' = exports
  BY DEF CommitTransition, Transitions
<1>2. /\ q.run \in Run /\ q \in Request /\ q.base \in Row
      /\ Edited(c) \in Row /\ Agrees(row, q.run, q.base)
      /\ Edited(c).content = q.base.content
      /\ row[q.run] \in Row
  BY <1>1, CommitFacts
<1>3. row' \in [Run -> MaybeRow] /\ Grows(row, row')
  BY <1>1, <1>2, StoreGrows
<1>4. row \in [Run -> MaybeRow] /\ ReqInv(row, q)
  BY DEF IInv, TypeOK
<1>5. ReqInv(row', x)
  <2>1. ReqInv(row', q)
    BY <1>3, <1>4, ReqInvStays
  <2>2. row'[q.run] # Absent
    BY <1>2, <1>3, SentinelAssumption DEF Grows
  <2>3. CASE q.act \in AsyncActions
    <3>1. /\ x = [q EXCEPT !.pc = "enqueue"] /\ x \in Request
          /\ x.pc = "enqueue" /\ x.run = q.run /\ x.view = q.view
          /\ x.base = q.base
      BY <2>3, <1>2 DEF Request
    <3>. QED  BY <3>1, <2>1, <2>2, <1>2 DEF ReqInv
  <2>4. CASE q.act \notin AsyncActions
    BY <2>4, IdleRequestInv
  <2>. QED  BY <2>3, <2>4
<1>6. dropped' \in [Run -> BOOLEAN]
  BY DEF CommitTransition, IInv, TypeOK
<1>7. /\ queue' \in [Run \X Client -> Nat]
      /\ \A r \in Run, d \in Client : queue'[<<r, d>>] > 0 => row'[r] # Absent
      /\ links' \in [Run -> SUBSET Material]
      /\ exports' \subseteq Payload
  BY <1>1, <1>3 DEF IInv, TypeOK, Exists, Grows
<1> HIDE DEF x
<1>. QED
  BY <1>1, <1>3, <1>5, <1>6, <1>7, OneRequestMoves, TasksKept, Assemble

LEMMA CommitExportStep ==
  ASSUME IInv, NEW c \in Client, CommitExport(c)
  PROVE  IInv' /\ Grows(row, row') /\ row[req[c].run] = req[c].base
<1> DEFINE q == req[c]
<1>1. /\ q.pc = "commit" /\ q.act = "export" /\ q.act # "create"
      /\ row[q.run].version = q.base.version
      /\ row' = [row EXCEPT ![q.run] = Bump(q.base, Edited(c))]
      /\ req' = [req EXCEPT ![c] = IdleRequest]
      /\ wk' = wk /\ queue' = queue /\ links' = links /\ dropped' = dropped
      /\ exports' = exports \cup {[run |-> q.run, status |-> q.base.status,
                                   content |-> q.base.content]}
  BY DEF CommitExport, Moved
<1>2. /\ q.run \in Run /\ q.base \in Row
      /\ Edited(c) \in Row /\ Agrees(row, q.run, q.base)
      /\ Edited(c).content = q.base.content
  BY <1>1, CommitFacts
<1>3. row[q.run] = q.base
  BY <1>1, <1>2, SentinelAssumption DEF Agrees
<1>4. row \in [Run -> MaybeRow]
  BY DEF IInv, TypeOK
<1>5. /\ Bump(q.base, Edited(c)) \in Row
      /\ Bump(q.base, Edited(c)).version = q.base.version + 1
      /\ Bump(q.base, Edited(c)).content = q.base.content
      /\ q.base.version \in Nat
  BY <1>2 DEF Bump, Row
<1>6. Bump(q.base, Edited(c)) # Absent
  BY <1>5, SentinelAssumption
<1>7. row' \in [Run -> MaybeRow]
  BY <1>1, <1>4, <1>5 DEF MaybeRow
<1>8. Grows(row, row')
  <2> SUFFICES ASSUME NEW s \in Run, row[s] # Absent
               PROVE  /\ row'[s] # Absent
                      /\ row'[s] = row[s] \/ row[s].version < row'[s].version
                      /\ row[s].content # NoText => row'[s].content # NoText
    BY DEF Grows
  <2>1. CASE s # q.run
    BY <2>1, <1>1, <1>4
  <2>2. CASE s = q.run
    <3>1. row'[s] = Bump(q.base, Edited(c))
      BY <2>2, <1>1, <1>4
    <3>. QED  BY <2>2, <3>1, <1>3, <1>5, <1>6
  <2>. QED  BY <2>1, <2>2
<1>9. exports' \subseteq Payload
  BY <1>1, <1>2 DEF IInv, TypeOK, Payload, Row
<1>10. /\ queue' \in [Run \X Client -> Nat]
       /\ \A r \in Run, d \in Client : queue'[<<r, d>>] > 0 => row'[r] # Absent
       /\ links' \in [Run -> SUBSET Material]
       /\ dropped' \in [Run -> BOOLEAN]
  BY <1>1, <1>8 DEF IInv, TypeOK, Exists, Grows
<1>. QED
  BY <1>1, <1>3, <1>7, <1>8, <1>9, <1>10, IdleRequestInv, OneRequestMoves,
     TasksKept, Assemble

LEMMA CommitLinksStep ==
  ASSUME IInv, NEW c \in Client, CommitLinks(c)
  PROVE  IInv' /\ Grows(row, row')
<1> DEFINE q == req[c]
<1>1. /\ q.pc = "commit" /\ q.act # "create"
      /\ ~ Stale(q.run, q.base, Edited(c)) /\ Store(q.run, q.base, Edited(c))
      /\ req' = [req EXCEPT ![c] = IdleRequest]
      /\ links' = [links EXCEPT ![q.run] = @ \cup q.adds]
      /\ wk' = wk /\ queue' = queue /\ exports' = exports /\ dropped' = dropped
  BY DEF CommitLinks
<1>2. /\ q.run \in Run /\ q.base \in Row
      /\ Edited(c) \in Row /\ Agrees(row, q.run, q.base)
      /\ Edited(c).content = q.base.content
      /\ q.adds \in SUBSET Material
  BY <1>1, CommitFacts
<1>3. row' \in [Run -> MaybeRow] /\ Grows(row, row')
  BY <1>1, <1>2, StoreGrows
<1>4. links' \in [Run -> SUBSET Material]
  BY <1>1, <1>2 DEF IInv, TypeOK
<1>5. /\ queue' \in [Run \X Client -> Nat]
      /\ \A r \in Run, d \in Client : queue'[<<r, d>>] > 0 => row'[r] # Absent
      /\ exports' \subseteq Payload
      /\ dropped' \in [Run -> BOOLEAN]
  BY <1>1, <1>3 DEF IInv, TypeOK, Exists, Grows
<1>. QED
  BY <1>1, <1>3, <1>4, <1>5, IdleRequestInv, OneRequestMoves, TasksKept,
     Assemble

LEMMA CommitCreateStep ==
  ASSUME IInv, NEW c \in Client, CommitCreate(c)
  PROVE  IInv' /\ Grows(row, row')
<1> DEFINE q == req[c]
           new == [status |-> "RUNNING", version |-> 0, content |-> NoText,
                   by |-> c, fresh |-> TRUE]
           x == [q EXCEPT !.pc = "enqueue"]
<1>1. /\ q.pc = "commit" /\ row[q.run] = Absent
      /\ row' = [row EXCEPT ![q.run] = new]
      /\ req' = [req EXCEPT ![c] = x]
      /\ wk' = wk /\ queue' = queue /\ links' = links /\ exports' = exports
      /\ dropped' = dropped
  BY DEF CommitCreate, CodeTaken, Exists
<1>2. /\ row \in [Run -> MaybeRow] /\ ReqInv(row, q) /\ q \in Request
      /\ q.run \in Run
  BY <1>1 DEF IInv, TypeOK, ReqInv
<1>3. new \in Row
  BY DEF Row, Status
<1> HIDE DEF new
<1>4. row' \in [Run -> MaybeRow] /\ row'[q.run] = new /\ new # Absent
  BY <1>1, <1>2, <1>3, SentinelAssumption DEF MaybeRow
<1>5. Grows(row, row')
  BY <1>1, <1>2 DEF Grows
<1>6. ReqInv(row', x)
  <2>1. ReqInv(row', q)
    BY <1>2, <1>4, <1>5, ReqInvStays
  <2>2. /\ x \in Request /\ x.pc = "enqueue" /\ x.run = q.run
        /\ x.view = q.view /\ x.base = q.base
    BY <1>2 DEF Request
  <2>. QED  BY <2>1, <2>2, <1>2, <1>3, <1>4 DEF ReqInv
<1> HIDE DEF x
<1>. QED
  BY <1>1, <1>4, <1>5, <1>6, OneRequestMoves, TasksKept, RestKept, Assemble

LEMMA EnqueueStep ==
  ASSUME IInv, NEW c \in Client, Enqueue(c)
  PROVE  IInv'
<1>1. /\ req[c].pc = "enqueue"
      /\ queue' = [queue EXCEPT ![<<req[c].run, c>>] = @ + 1]
      /\ req' = [req EXCEPT ![c] = IdleRequest]
      /\ row' = row /\ wk' = wk /\ links' = links /\ exports' = exports
      /\ dropped' = dropped
  BY DEF Enqueue
<1>2. /\ req[c].run \in Run /\ row[req[c].run] # Absent
      /\ queue \in [Run \X Client -> Nat]
  BY <1>1 DEF IInv, TypeOK, ReqInv
<1>3. /\ queue' \in [Run \X Client -> Nat]
      /\ \A r \in Run, d \in Client : queue'[<<r, d>>] > 0 => row'[r] # Absent
  <2>1. queue' \in [Run \X Client -> Nat]
    BY <1>1, <1>2
  <2>2. ASSUME NEW r \in Run, NEW d \in Client, queue'[<<r, d>>] > 0
        PROVE  row'[r] # Absent
    <3>1. CASE <<r, d>> = <<req[c].run, c>>
      BY <3>1, <1>1, <1>2
    <3>2. CASE <<r, d>> # <<req[c].run, c>>
      <4>1. queue'[<<r, d>>] = queue[<<r, d>>]
        BY <3>2, <1>1, <1>2
      <4>. QED  BY <4>1, <2>2, <1>1 DEF IInv, Exists
    <3>. QED  BY <3>1, <3>2
  <2>. QED  BY <2>1, <2>2
<1>4. /\ links' \in [Run -> SUBSET Material] /\ exports' \subseteq Payload
      /\ dropped' \in [Run -> BOOLEAN]
  BY <1>1 DEF IInv, TypeOK
<1>. QED
  BY <1>1, <1>3, <1>4, IdleRequestInv, RowsKept, OneRequestMoves, TasksKept,
     Assemble

LEMMA EnqueueLostStep ==
  ASSUME IInv, NEW c \in Client, EnqueueLost(c)
  PROVE  IInv'
<1>1. /\ req' = [req EXCEPT ![c] = IdleRequest]
      /\ row' = row /\ wk' = wk /\ queue' = queue /\ links' = links
      /\ exports' = exports
      /\ dropped' = [dropped EXCEPT ![req[c].run] = TRUE]
  BY DEF EnqueueLost
<1>2. /\ queue' \in [Run \X Client -> Nat]
      /\ \A r \in Run, d \in Client : queue'[<<r, d>>] > 0 => row'[r] # Absent
      /\ links' \in [Run -> SUBSET Material] /\ exports' \subseteq Payload
      /\ dropped' \in [Run -> BOOLEAN]
  BY <1>1 DEF IInv, TypeOK, Exists
<1>. QED
  BY <1>1, <1>2, IdleRequestInv, RowsKept, OneRequestMoves, TasksKept, Assemble

(***************************************************************************)
(* The task: one lemma per action, the four writes sharing WriteStep.      *)
(***************************************************************************)
LEMMA IdleWorkerInv ==
  ASSUME NEW f
  PROVE  TaskInv(f, IdleWorker)
BY DEF TaskInv, IdleWorker, Task, Agrees, MaybeRow

LEMMA TakeStep ==
  ASSUME IInv, NEW w \in Worker, Take(w)
  PROVE  IInv'
<1>1. PICK r \in Run, c \in Client :
        /\ queue[<<r, c>>] > 0
        /\ queue' = [queue EXCEPT ![<<r, c>>] = @ - 1]
        /\ wk' = [wk EXCEPT ![w] = [IdleWorker EXCEPT !.pc = "load", !.run = r,
                                      !.actor = c]]
  BY DEF Take, Waiting
<1>2. /\ row' = row /\ req' = req /\ links' = links /\ exports' = exports
      /\ dropped' = dropped
  BY DEF Take, Waiting
<1>3. queue \in [Run \X Client -> Nat] /\ row[r] # Absent
  BY <1>1 DEF IInv, TypeOK, Exists
<1>4. /\ queue' \in [Run \X Client -> Nat]
      /\ \A s \in Run, d \in Client : queue'[<<s, d>>] <= queue[<<s, d>>]
  BY <1>1, <1>3
<1>5. \A s \in Run, d \in Client : queue'[<<s, d>>] > 0 => row'[s] # Absent
  BY <1>2, <1>3, <1>4 DEF IInv, Exists
<1>6. TaskInv(row, [IdleWorker EXCEPT !.pc = "load", !.run = r, !.actor = c])
  BY <1>3 DEF TaskInv, IdleWorker, Task, Agrees, MaybeRow
<1>7. /\ links' \in [Run -> SUBSET Material] /\ exports' \subseteq Payload
      /\ dropped' \in [Run -> BOOLEAN]
  BY <1>2 DEF IInv, TypeOK
<1>. QED
  BY <1>1, <1>2, <1>4, <1>5, <1>6, <1>7, RowsKept, OneTaskMoves, RequestsKept,
     Assemble

LEMMA LoadStatusStep ==
  ASSUME IInv, NEW w \in Worker, LoadStatus(w)
  PROVE  IInv'
<1> DEFINE t == wk[w]
           x == IF ~ Exists(t.run) \/ row[t.run].status \in Terminal
                THEN IdleWorker ELSE [t EXCEPT !.pc = "mark"]
<1>1. /\ t.pc = "load" /\ wk' = [wk EXCEPT ![w] = x]
      /\ row' = row /\ req' = req /\ queue' = queue /\ links' = links
      /\ exports' = exports /\ dropped' = dropped
  BY DEF LoadStatus
<1>2. TaskInv(row, t) /\ t \in Task
  BY DEF IInv, TypeOK
<1>3. TaskInv(row, x)
  <2>1. CASE x = IdleWorker
    BY <2>1, IdleWorkerInv
  <2>2. CASE x = [t EXCEPT !.pc = "mark"]
    <3>1. /\ x \in Task /\ x.pc = "mark" /\ x.run = t.run
          /\ x.actor = t.actor /\ x.base = t.base
      BY <2>2, <1>2 DEF Task
    <3>. QED  BY <3>1, <1>1, <1>2 DEF TaskInv
  <2>. QED  BY <2>1, <2>2
<1> HIDE DEF x
<1>. QED
  BY <1>1, <1>3, RowsKept, OneTaskMoves, RequestsKept, RestKept, Assemble

LEMMA ReadRowStep ==
  ASSUME IInv, NEW w \in Worker, ReadRow(w)
  PROVE  IInv'
<1> DEFINE t == wk[w]
           x == [t EXCEPT !.base = row[t.run]]
<1>1. /\ wk' = [wk EXCEPT ![w] = x] /\ t.pc # "idle"
      /\ row' = row /\ req' = req /\ queue' = queue /\ links' = links
      /\ exports' = exports /\ dropped' = dropped
  BY DEF ReadRow
<1>2. /\ TaskInv(row, t) /\ t \in Task /\ t.run \in Run
      /\ row \in [Run -> MaybeRow]
  BY <1>1 DEF IInv, TypeOK, TaskInv
<1>3. Agrees(row, t.run, row[t.run]) /\ row[t.run] \in MaybeRow
  BY <1>2, RowAgrees
<1>4. /\ x \in Task /\ x.pc = t.pc /\ x.run = t.run /\ x.actor = t.actor
      /\ x.base = row[t.run] /\ x.text = t.text
  BY <1>2, <1>3 DEF Task
<1>5. TaskInv(row, x)
  BY <1>2, <1>3, <1>4 DEF TaskInv
<1> HIDE DEF x
<1>. QED
  BY <1>1, <1>5, RowsKept, OneTaskMoves, RequestsKept, RestKept, Assemble

LEMMA GenerateStep ==
  ASSUME IInv, NEW w \in Worker, Generate(w)
  PROVE  IInv'
<1>1. /\ wk[w].pc = "generate"
      /\ row' = row /\ req' = req /\ queue' = queue /\ links' = links
      /\ exports' = exports /\ dropped' = dropped
  BY DEF Generate, OnError
<1>2. TaskInv(row, wk[w]) /\ wk[w] \in Task /\ wk \in [Worker -> Task]
  BY DEF IInv, TypeOK
<1>3. CASE \E text \in Text :
             wk' = [wk EXCEPT ![w] = [At(w, "write") EXCEPT !.text = text]]
  <2>1. PICK text \in Text :
          wk' = [wk EXCEPT ![w] = [At(w, "write") EXCEPT !.text = text]]
    BY <1>3
  <2> DEFINE x == [At(w, "write") EXCEPT !.text = text]
  <2>2. /\ x \in Task /\ x.pc = "write" /\ x.run = wk[w].run
        /\ x.actor = wk[w].actor /\ x.base = Absent /\ x.text = text
    BY <1>2 DEF At, Task, MaybeRow
  <2>3. TaskInv(row, x)
    BY <1>1, <1>2, <2>2 DEF TaskInv, Agrees
  <2> HIDE DEF x
  <2>. QED
    BY <1>1, <2>1, <2>3, RowsKept, OneTaskMoves, RequestsKept, RestKept,
       Assemble DEF x
<1>4. CASE wk' = [wk EXCEPT ![w] = At(w, "fail")]
  <2>1. /\ At(w, "fail") \in Task /\ At(w, "fail").pc = "fail"
        /\ At(w, "fail").run = wk[w].run
        /\ At(w, "fail").actor = wk[w].actor /\ At(w, "fail").base = Absent
    BY <1>2 DEF At, Task, MaybeRow
  <2>2. TaskInv(row, At(w, "fail"))
    BY <1>1, <1>2, <2>1 DEF TaskInv, Agrees
  <2>. QED
    BY <1>1, <1>4, <2>2, RowsKept, OneTaskMoves, RequestsKept, RestKept,
       Assemble
<1>. QED  BY <1>3, <1>4 DEF Generate, OnError

\* A task that ends its transaction and moves to another point of the code, or
\* to the idle state, knows what TaskInv asks there.
LEMMA AtInv ==
  ASSUME IInv, NEW w \in Worker, wk[w].pc # "idle",
         NEW pc \in {"generate", "done", "fail"},
         NEW g \in [Run -> MaybeRow], Grows(row, g),
         pc = "done" => g[wk[w].run].content # NoText
  PROVE  TaskInv(g, At(w, pc))
<1>1. TaskInv(row, wk[w]) /\ wk[w] \in Task /\ row \in [Run -> MaybeRow]
  BY DEF IInv, TypeOK
<1>2. /\ At(w, pc) \in Task /\ At(w, pc).pc = pc
      /\ At(w, pc).run = wk[w].run /\ At(w, pc).actor = wk[w].actor
      /\ At(w, pc).base = Absent
  BY <1>1 DEF At, Task, MaybeRow
<1>3. g[wk[w].run] # Absent
  BY <1>1 DEF TaskInv, Grows
<1>. QED  BY <1>1, <1>2, <1>3 DEF TaskInv, Agrees

\* What a task that read the row in its current transaction holds.
LEMMA TaskFacts ==
  ASSUME IInv, NEW w \in Worker, wk[w].pc # "idle", wk[w].base # Absent
  PROVE  /\ wk[w] \in Task /\ TaskInv(row, wk[w])
         /\ wk[w].run \in Run /\ wk[w].actor \in Client
         /\ wk[w].base \in Row
         /\ Agrees(row, wk[w].run, wk[w].base)
         /\ wk[w].base.content # NoText => row[wk[w].run].content # NoText
         /\ row[wk[w].run] \in Row
<1>1. TaskInv(row, wk[w]) /\ wk[w] \in Task /\ row \in [Run -> MaybeRow]
  BY DEF IInv, TypeOK
<1>2. wk[w].base \in Row /\ row[wk[w].run] \in Row
  BY <1>1, SentinelAssumption DEF TaskInv, Task, MaybeRow, Agrees
<1>. QED  BY <1>1, <1>2 DEF TaskInv

\* One of the worker's four writing transactions.
LEMMA WriteStep ==
  ASSUME IInv, NEW w \in Worker,
         NEW pc \in {"mark", "write", "done", "fail"},
         NEW new \in Row, NEW next, NEW ifStale,
         Write(w, pc, new, next, ifStale),
         wk[w].base.content # NoText => new.content # NoText,
         next \in {IdleWorker, At(w, "generate"), At(w, "done")},
         next = At(w, "done") => new.content # NoText,
         ifStale \in {IdleWorker, At(w, "fail")}
  PROVE  /\ IInv' /\ Grows(row, row')
         /\ row' # row =>
              /\ wk[w].base = row[wk[w].run]
              /\ row' = [row EXCEPT ![wk[w].run] = Bump(wk[w].base, new)]
<1> DEFINE t == wk[w]
<1>1. /\ t.pc = pc /\ t.pc # "idle" /\ t.base # Absent
      /\ links' = links /\ exports' = exports /\ queue' = queue /\ req' = req
  BY DEF Write
<1>2. /\ t.run \in Run /\ t.base \in Row /\ Agrees(row, t.run, t.base)
      /\ t.base.content # NoText => row[t.run].content # NoText
      /\ row[t.run] \in Row
  BY <1>1, TaskFacts
<1>3. dropped' \in [Run -> BOOLEAN]
  BY <1>2 DEF Write, IInv, TypeOK
<1>4. row \in [Run -> MaybeRow]
  BY DEF IInv, TypeOK
<1>5. CASE Stale(t.run, t.base, new)
  <2>1. row' = row /\ wk' = [wk EXCEPT ![w] = ifStale]
    BY <1>5 DEF Write
  <2>2. row' \in [Run -> MaybeRow] /\ Grows(row, row')
    BY <2>1, RowsKept
  <2>3. TaskInv(row', ifStale)
    <3>1. CASE ifStale = IdleWorker
      BY <3>1, IdleWorkerInv
    <3>2. CASE ifStale = At(w, "fail")
      BY <3>2, <1>1, <2>2, AtInv
    <3>. QED  BY <3>1, <3>2
  <2>4. /\ wk' \in [Worker -> Task]
        /\ \A v \in Worker : TaskInv(row', wk'[v])
    BY <2>1, <2>2, <2>3, OneTaskMoves
  <2>5. /\ queue' \in [Run \X Client -> Nat]
        /\ \A r \in Run, c \in Client : queue'[<<r, c>>] > 0 => row'[r] # Absent
        /\ links' \in [Run -> SUBSET Material] /\ exports' \subseteq Payload
    BY <1>1, <2>2 DEF IInv, TypeOK, Exists, Grows
  <2>. QED
    BY <1>1, <1>3, <2>1, <2>2, <2>4, <2>5, RequestsKept, Assemble
<1>6. CASE ~ Stale(t.run, t.base, new)
  <2>1. Store(t.run, t.base, new) /\ wk' = [wk EXCEPT ![w] = next]
    BY <1>6 DEF Write
  <2>2. /\ row' \in [Run -> MaybeRow] /\ Grows(row, row')
        /\ row' # row =>
             /\ t.base = row[t.run]
             /\ row' = [row EXCEPT ![t.run] = Bump(t.base, new)]
    BY <1>2, <1>6, <2>1, StoreGrows
  <2>3. new.content # NoText => row'[t.run].content # NoText
    <3>1. CASE row' = row
      <4>1. new = t.base \/ row[t.run] = Bump(t.base, new)
        BY <3>1, <2>1, <1>2, <1>4 DEF Store
      <4>2. Bump(t.base, new).content = new.content
        BY DEF Bump, Row
      <4>. QED  BY <3>1, <4>1, <4>2, <1>2
    <3>2. CASE row' # row
      <4>1. row'[t.run] = Bump(t.base, new)
        BY <3>2, <2>2, <1>2, <1>4
      <4>2. Bump(t.base, new).content = new.content
        BY DEF Bump, Row
      <4>. QED  BY <4>1, <4>2
    <3>. QED  BY <3>1, <3>2
  <2>4. TaskInv(row', next)
    <3>1. CASE next = IdleWorker
      BY <3>1, IdleWorkerInv
    <3>2. CASE next = At(w, "generate")
      BY <3>2, <1>1, <2>2, AtInv
    <3>3. CASE next = At(w, "done")
      BY <3>3, <1>1, <2>2, <2>3, AtInv
    <3>. QED  BY <3>1, <3>2, <3>3
  <2>5. /\ wk' \in [Worker -> Task]
        /\ \A v \in Worker : TaskInv(row', wk'[v])
    BY <2>1, <2>2, <2>4, OneTaskMoves
  <2>6. /\ queue' \in [Run \X Client -> Nat]
        /\ \A r \in Run, c \in Client : queue'[<<r, c>>] > 0 => row'[r] # Absent
        /\ links' \in [Run -> SUBSET Material] /\ exports' \subseteq Payload
    BY <1>1, <2>2 DEF IInv, TypeOK, Exists, Grows
  <2>. QED
    BY <1>1, <1>3, <2>2, <2>5, <2>6, RequestsKept, Assemble
<1>. QED  BY <1>5, <1>6

LEMMA WithStatusRow ==
  ASSUME IInv, NEW w \in Worker, wk[w].pc # "idle", wk[w].base # Absent,
         NEW status \in Status
  PROVE  /\ WithStatus(w, status) \in Row
         /\ WithStatus(w, status).content = wk[w].base.content
         /\ WithStatus(w, status).status = status
<1>1. wk[w].base \in Row /\ wk[w].actor \in Client
  BY TaskFacts
<1>. QED  BY <1>1 DEF WithStatus, Row

LEMMA MarkRunningStep ==
  ASSUME IInv, NEW w \in Worker, MarkRunning(w)
  PROVE  /\ IInv' /\ Grows(row, row')
         /\ row' # row =>
              /\ wk[w].base = row[wk[w].run] /\ wk[w].run \in Run
              /\ row' = [row EXCEPT ![wk[w].run] =
                           Bump(wk[w].base, WithStatus(w, "RUNNING"))]
<1> DEFINE new == WithStatus(w, "RUNNING")
<1>1. Write(w, "mark", new, At(w, "generate"), IdleWorker)
  BY DEF MarkRunning
<1>2. wk[w].pc = "mark" /\ wk[w].base # Absent
  BY <1>1 DEF Write
<1>3. "RUNNING" \in Status
  BY DEF Status
<1>4. new \in Row /\ new.content = wk[w].base.content /\ wk[w].run \in Run
  BY <1>2, <1>3, WithStatusRow, TaskFacts
<1>5. At(w, "generate") # At(w, "done")
  <2>1. wk[w] \in Task
    BY <1>2, TaskFacts
  <2>2. At(w, "generate").pc = "generate" /\ At(w, "done").pc = "done"
    BY <2>1 DEF At, Task
  <2>. QED  BY <2>2
<1> HIDE DEF new
<1>. QED  BY <1>1, <1>4, <1>5, WriteStep DEF new

LEMMA WriteContentStep ==
  ASSUME IInv, NEW w \in Worker, WriteContent(w)
  PROVE  /\ IInv' /\ Grows(row, row')
         /\ row' # row =>
              /\ wk[w].base = row[wk[w].run] /\ wk[w].run \in Run
              /\ row' = [row EXCEPT ![wk[w].run] =
                           Bump(wk[w].base,
                                [wk[w].base EXCEPT !.content = wk[w].text])]
<1> DEFINE new == [wk[w].base EXCEPT !.content = wk[w].text]
<1>1. Write(w, "write", new, At(w, "done"), At(w, "fail"))
  BY DEF WriteContent, OnError
<1>2. wk[w].pc = "write" /\ wk[w].base # Absent
  BY <1>1 DEF Write
<1>3. /\ wk[w].base \in Row /\ wk[w].text \in Text /\ wk[w].run \in Run
      /\ NoText \notin Text
  BY <1>2, TaskFacts, SentinelAssumption DEF TaskInv
<1>4. new \in Row /\ new.content # NoText
  BY <1>3 DEF Row
<1> HIDE DEF new
<1>. QED  BY <1>1, <1>3, <1>4, WriteStep DEF new

LEMMA WriteCompletedStep ==
  ASSUME IInv, NEW w \in Worker, WriteCompleted(w)
  PROVE  /\ IInv' /\ Grows(row, row')
         /\ row[wk[w].run].content # NoText
         /\ row' # row =>
              /\ wk[w].base = row[wk[w].run] /\ wk[w].run \in Run
              /\ row' = [row EXCEPT ![wk[w].run] =
                           Bump(wk[w].base, WithStatus(w, "COMPLETED"))]
<1> DEFINE new == WithStatus(w, "COMPLETED")
<1>1. Write(w, "done", new, IdleWorker, At(w, "fail"))
  BY DEF WriteCompleted, OnError
<1>2. wk[w].pc = "done" /\ wk[w].base # Absent
  BY <1>1 DEF Write
<1>3. "COMPLETED" \in Status
  BY DEF Status
<1>4. /\ new \in Row /\ new.content = wk[w].base.content /\ wk[w].run \in Run
      /\ row[wk[w].run].content # NoText /\ wk[w] \in Task
  BY <1>2, <1>3, WithStatusRow, TaskFacts DEF TaskInv
<1>5. IdleWorker # At(w, "done")
  <2>1. IdleWorker.pc = "idle" /\ At(w, "done").pc = "done"
    BY <1>4 DEF At, Task, IdleWorker
  <2>. QED  BY <2>1
<1> HIDE DEF new
<1>. QED  BY <1>1, <1>4, <1>5, WriteStep DEF new

LEMMA WriteFailedStep ==
  ASSUME IInv, NEW w \in Worker, WriteFailed(w)
  PROVE  /\ IInv' /\ Grows(row, row')
         /\ row' # row =>
              /\ wk[w].base = row[wk[w].run] /\ wk[w].run \in Run
              /\ row' = [row EXCEPT ![wk[w].run] =
                           Bump(wk[w].base, WithStatus(w, "FAILED"))]
<1> DEFINE new == WithStatus(w, "FAILED")
<1>1. Write(w, "fail", new, IdleWorker, IdleWorker)
  BY DEF WriteFailed
<1>2. wk[w].pc = "fail" /\ wk[w].base # Absent
  BY <1>1 DEF Write
<1>3. "FAILED" \in Status
  BY DEF Status
<1>4. /\ new \in Row /\ new.content = wk[w].base.content /\ wk[w].run \in Run
      /\ wk[w] \in Task
  BY <1>2, <1>3, WithStatusRow, TaskFacts
<1>5. IdleWorker # At(w, "done")
  <2>1. IdleWorker.pc = "idle" /\ At(w, "done").pc = "done"
    BY <1>4 DEF At, Task, IdleWorker
  <2>. QED  BY <2>1
<1> HIDE DEF new
<1>. QED  BY <1>1, <1>4, <1>5, WriteStep DEF new

LEMMA WorkerCrashStep ==
  ASSUME IInv, NEW w \in Worker, WorkerCrash(w)
  PROVE  IInv'
<1>1. /\ wk' = [wk EXCEPT ![w] = IdleWorker]
      /\ row' = row /\ req' = req /\ queue' = queue /\ links' = links
      /\ exports' = exports
      /\ dropped' = [dropped EXCEPT ![wk[w].run] = TRUE]
  BY DEF WorkerCrash
<1>2. /\ queue' \in [Run \X Client -> Nat]
      /\ \A r \in Run, d \in Client : queue'[<<r, d>>] > 0 => row'[r] # Absent
      /\ links' \in [Run -> SUBSET Material] /\ exports' \subseteq Payload
      /\ dropped' \in [Run -> BOOLEAN]
  BY <1>1 DEF IInv, TypeOK, Exists
<1>. QED
  BY <1>1, <1>2, IdleWorkerInv, RowsKept, OneTaskMoves, RequestsKept, Assemble

(***************************************************************************)
(* The invariant and what follows from it.                                 *)
(***************************************************************************)
LEMMA InitIInv == Init => IInv
<1> SUFFICES ASSUME Init PROVE IInv
  OBVIOUS
<1>1. row \in [Run -> MaybeRow]
  <2>1. ASSUME NEW x \in SeedRow
        PROVE  x \in Row
    <3>1. {FALSE} \subseteq BOOLEAN /\ SeedStatus \subseteq Status
      BY PolicyAssumption
    <3>2. {0} \subseteq Nat
      OBVIOUS
    <3>. QED  BY <3>1, <3>2 DEF SeedRow, Row
  <2>2. SeedRow \cup {Absent} \subseteq MaybeRow
    BY <2>1 DEF MaybeRow
  <2>. QED  BY <2>2 DEF Init
<1>2. req \in [Client -> Request]
  BY DEF Init, Request, IdleRequest, MaybeRow
<1>3. wk \in [Worker -> Task]
  BY DEF Init, Task, IdleWorker, MaybeRow
<1>4. \A c \in Client : ReqInv(row, req[c])
  BY IdleRequestInv DEF Init
<1>5. \A w \in Worker : TaskInv(row, wk[w])
  BY IdleWorkerInv DEF Init
<1>6. /\ queue \in [Run \X Client -> Nat]
      /\ \A r \in Run, c \in Client : queue[<<r, c>>] > 0 => Exists(r)
      /\ links \in [Run -> SUBSET Material] /\ exports \subseteq Payload
      /\ dropped \in [Run -> BOOLEAN]
  BY DEF Init, Exists
<1>. QED  BY <1>1, <1>2, <1>3, <1>4, <1>5, <1>6 DEF IInv, TypeOK

LEMMA ClientKeepsIInv ==
  ASSUME IInv, NEW c \in Client, ClientStep(c)
  PROVE  IInv'
<1>1. CASE Look(c)  BY <1>1, LookStep
<1>2. CASE Refuse(c)  BY <1>2, RequestEnds DEF Refuse
<1>3. CASE ReadForLink(c)  BY <1>3, ReadForLinkStep
<1>4. CASE ReadForCreate(c)  BY <1>4, ReadForCreateStep
<1>5. CASE \E a \in Transitions \cup SideEffects : ReadForAction(c, a)
  BY <1>5, ReadForActionStep
<1>6. CASE CommitTransition(c)  BY <1>6, CommitTransitionStep
<1>7. CASE CommitExport(c)  BY <1>7, CommitExportStep
<1>8. CASE CommitLinks(c)  BY <1>8, CommitLinksStep
<1>9. CASE CommitCreate(c)  BY <1>9, CommitCreateStep
<1>10. CASE LoseRace(c)  BY <1>10, RequestEnds DEF LoseRace
<1>11. CASE Enqueue(c)  BY <1>11, EnqueueStep
<1>12. CASE EnqueueLost(c)  BY <1>12, EnqueueLostStep
<1>13. CASE RequestCrash(c)  BY <1>13, RequestEnds DEF RequestCrash
<1>. QED
  BY <1>1, <1>2, <1>3, <1>4, <1>5, <1>6, <1>7, <1>8, <1>9, <1>10, <1>11,
     <1>12, <1>13 DEF ClientStep

LEMMA TaskKeepsIInv ==
  ASSUME IInv, NEW w \in Worker, TaskStep(w) \/ WorkerCrash(w)
  PROVE  IInv'
BY TakeStep, LoadStatusStep, ReadRowStep, MarkRunningStep, GenerateStep,
   WriteContentStep, WriteCompletedStep, WriteFailedStep, WorkerCrashStep
   DEF TaskStep

LEMMA StepIInv == IInv /\ [Next]_vars => IInv'
<1> SUFFICES ASSUME IInv, [Next]_vars PROVE IInv'
  OBVIOUS
<1>1. CASE Next
  BY <1>1, ClientKeepsIInv, TaskKeepsIInv DEF Next
<1>2. CASE UNCHANGED vars
  BY <1>2, RowsKept, RequestsKept, TasksKept, RestKept, Assemble DEF vars
<1>. QED  BY <1>1, <1>2

\* The inductive invariant holds in every reachable state.
THEOREM Invariant == Spec => []IInv
BY InitIInv, StepIInv, PTL DEF Spec

\* Every variable stays in its domain.
THEOREM TypeCorrect == Spec => []TypeOK
<1>1. IInv => TypeOK
  BY DEF IInv
<1>. QED  BY <1>1, Invariant, PTL

\* The version of a row identifies its contents for everyone who ever read it.
THEOREM VersionCorrect == Spec => []VersionIdentifiesRow
<1>1. IInv => VersionIdentifiesRow
  BY DEF IInv, VersionIdentifiesRow, ReqInv, TaskInv
<1>. QED  BY <1>1, Invariant, PTL

\* The broker and the workers only ever hear of committed runs.
THEOREM TasksCorrect == Spec => []TasksNameCommittedRuns
<1>1. IInv => TasksNameCommittedRuns
  BY DEF IInv, TasksNameCommittedRuns, ReqInv, TaskInv, Exists
<1>. QED  BY <1>1, Invariant, PTL

\* Only the committing client's own step moves its request; the step of another
\* client or of a task leaves it alone.
LEMMA CommitStepIsOwn ==
  ASSUME IInv, [Next]_vars, NEW c \in Client, req[c].pc = "commit",
         req[c].act # "create", req'[c].pc # "commit", row' # row
  PROVE  CommitTransition(c) \/ CommitExport(c) \/ CommitLinks(c)
<1>1. req \in [Client -> Request]
  BY DEF IInv, TypeOK
<1>2. req' # req /\ row' # row
  OBVIOUS
<1>3. \A w \in Worker : ~ (TaskStep(w) \/ WorkerCrash(w))
  BY <1>2 DEF TaskStep, WorkerCrash, Take, LoadStatus, ReadRow, MarkRunning,
              Generate, WriteContent, WriteCompleted, WriteFailed, Write
<1>4. PICK d \in Client : ClientStep(d)
  BY <1>2, <1>3 DEF Next, vars
<1>5. \/ CommitTransition(d) \/ CommitExport(d) \/ CommitLinks(d)
      \/ CommitCreate(d)
  BY <1>2, <1>4 DEF ClientStep, Look, Refuse, ReadForLink, ReadForCreate,
              ReadForAction, LoseRace, Enqueue, EnqueueLost, RequestCrash
<1>6. d = c
  <2>1. ASSUME d # c PROVE req'[c] = req[c]
    BY <2>1, <1>1, <1>5
       DEF CommitTransition, CommitExport, CommitLinks, CommitCreate
  <2>. QED  BY <2>1
<1>. QED  BY <1>5, <1>6 DEF CommitCreate, CodeTaken

\* A transition or an export applies to the row the user saw.
THEOREM SeenCorrect == Spec => WritesApplyToWhatWasSeen
<1>1. ASSUME IInv, [Next]_vars, NEW c \in Client, req[c].pc = "commit",
             req[c].act \in Transitions \cup {"export"},
             req'[c].pc # "commit", row' # row
      PROVE  row[req[c].run] = req[c].view
  <2> DEFINE q == req[c]
  <2>1. q.act # "create" /\ q.act \in Transitions \cup SideEffects
    BY <1>1 DEF Transitions, SideEffects
  <2>2. /\ q.run \in Run /\ q.base \in Row /\ Edited(c) \in Row
        /\ Agrees(row, q.run, q.base) /\ row[q.run] \in Row
        /\ Edited(c).content = q.base.content
    BY <1>1, <2>1, CommitFacts
  <2>3. /\ q.view # Absent /\ q.view.version = q.base.version
        /\ Agrees(row, q.run, q.view)
    BY <1>1, <2>1 DEF IInv, ReqInv
  <2>4. CommitTransition(c) \/ CommitExport(c) \/ CommitLinks(c)
    BY <1>1, <2>1, CommitStepIsOwn
  <2>5. row[q.run] = q.base
    <3>1. CASE CommitExport(c)
      BY <1>1, <3>1, CommitExportStep
    <3>2. CASE CommitTransition(c) \/ CommitLinks(c)
      <4>1. ~ Stale(q.run, q.base, Edited(c)) /\ Store(q.run, q.base, Edited(c))
        BY <3>2 DEF CommitTransition, CommitLinks
      <4>. QED  BY <1>1, <2>2, <4>1, StoreGrows
    <3>. QED  BY <2>4, <3>1, <3>2
  <2>. QED  BY <2>3, <2>5 DEF Agrees
<1>2. IInv /\ [Next]_vars =>
        [\A c \in Client :
           /\ req[c].pc = "commit" /\ req[c].act \in Transitions \cup {"export"}
           /\ req'[c].pc # "commit"
           /\ row' # row
           => row[req[c].run] = req[c].view]_vars
  BY <1>1
<1>. QED  BY <1>2, Invariant, PTL DEF Spec, WritesApplyToWhatWasSeen

\* An exported artifact is the run as stored at the moment of the export.
THEOREM ExportCorrect == Spec => ExportIsSnapshot
<1>1. ASSUME IInv, [Next]_vars, NEW e \in exports' \ exports
      PROVE  /\ Exists(e.run)
             /\ e.status = row[e.run].status
             /\ e.content = row[e.run].content
  <2>1. exports' # exports
    BY <1>1
  <2>2. \A w \in Worker : ~ (TaskStep(w) \/ WorkerCrash(w))
    BY <2>1 DEF TaskStep, WorkerCrash, Take, LoadStatus, ReadRow, MarkRunning,
                Generate, WriteContent, WriteCompleted, WriteFailed, Write
  <2>3. PICK c \in Client : ClientStep(c)
    BY <1>1, <2>1, <2>2 DEF Next, vars
  <2>4. CommitExport(c)
    BY <2>1, <2>3
       DEF ClientStep, Look, Refuse, ReadForLink, ReadForCreate, ReadForAction,
           CommitTransition, CommitLinks, CommitCreate, LoseRace, Enqueue,
           EnqueueLost, RequestCrash
  <2>5. row[req[c].run] = req[c].base /\ req[c].base \in Row
    BY <1>1, <2>4, CommitExportStep, CommitFacts DEF CommitExport
  <2>6. e = [run |-> req[c].run, status |-> req[c].base.status,
             content |-> req[c].base.content]
    BY <1>1, <2>4 DEF CommitExport
  <2>. QED  BY <2>5, <2>6, SentinelAssumption DEF Exists
<1>2. IInv /\ [Next]_vars =>
        [\A e \in exports' \ exports :
           /\ Exists(e.run)
           /\ e.status = row[e.run].status
           /\ e.content = row[e.run].content]_vars
  BY <1>1
<1>. QED  BY <1>2, Invariant, PTL DEF Spec, ExportIsSnapshot

\* No step makes a run vanish, reuses a version or clears a body.
LEMMA StepGrows ==
  ASSUME IInv, [Next]_vars
  PROVE  Grows(row, row')
<1>1. CASE row' = row
  BY <1>1, RowsKept
<1>2. CASE row' # row
  <2>1. CASE \E c \in Client : ClientStep(c)
    <3>1. PICK c \in Client :
            \/ CommitTransition(c) \/ CommitExport(c) \/ CommitLinks(c)
            \/ CommitCreate(c)
      BY <1>2, <2>1 DEF ClientStep, Look, Refuse, ReadForLink, ReadForCreate,
                ReadForAction, LoseRace, Enqueue, EnqueueLost, RequestCrash
    <3>. QED
      BY <3>1, CommitTransitionStep, CommitExportStep, CommitLinksStep,
         CommitCreateStep
  <2>2. CASE \E w \in Worker : TaskStep(w) \/ WorkerCrash(w)
    <3>1. PICK w \in Worker :
            \/ MarkRunning(w) \/ WriteContent(w) \/ WriteCompleted(w)
            \/ WriteFailed(w)
      BY <1>2, <2>2 DEF TaskStep, WorkerCrash, Take, LoadStatus, ReadRow,
                        Generate
    <3>. QED
      BY <3>1, MarkRunningStep, WriteContentStep, WriteCompletedStep,
         WriteFailedStep
  <2>. QED  BY <1>2, <2>1, <2>2 DEF Next, vars
<1>. QED  BY <1>1, <1>2

\* The ways the board can change: a run appears, or one run gets its next
\* version, with the status of a side effect, of a user's transition or of the
\* worker.
LEMMA RowChange ==
  ASSUME IInv, [Next]_vars, row' # row
  PROVE  \/ \E c \in Client : CommitCreate(c)
         \/ \E r \in Run, new \in Row :
              /\ row[r] \in Row
              /\ row' = [row EXCEPT ![r] = Bump(row[r], new)]
              /\ \/ new.status = row[r].status
                 \/ <<row[r].status, new.status>> \in Board!UserMoves
                 \/ new.status \in {"RUNNING", "FAILED"}
                 \/ new.status = "COMPLETED" /\ row[r].content # NoText
<1>1. row \in [Run -> MaybeRow]
  BY DEF IInv, TypeOK
<1>2. ASSUME NEW c \in Client, ClientStep(c), ~ CommitCreate(c)
      PROVE  \E r \in Run, new \in Row :
               /\ row[r] \in Row
               /\ row' = [row EXCEPT ![r] = Bump(row[r], new)]
               /\ \/ new.status = row[r].status
                  \/ <<row[r].status, new.status>> \in Board!UserMoves
  <2> DEFINE q == req[c]
  <2>1. CommitTransition(c) \/ CommitExport(c) \/ CommitLinks(c)
    BY <1>2 DEF ClientStep, Look, Refuse, ReadForLink, ReadForCreate,
                ReadForAction, LoseRace, Enqueue, EnqueueLost, RequestCrash
  <2>2. q.pc = "commit" /\ q.act # "create"
    BY <2>1 DEF CommitTransition, CommitExport, CommitLinks, Transitions
  <2>3. /\ q.run \in Run /\ q.base \in Row /\ Edited(c) \in Row
        /\ Agrees(row, q.run, q.base) /\ row[q.run] \in Row
        /\ Edited(c).content = q.base.content
    BY <2>2, CommitFacts
  <2>4. /\ row[q.run] = q.base
        /\ row' = [row EXCEPT ![q.run] = Bump(q.base, Edited(c))]
    <3>1. CASE CommitExport(c)
      BY <3>1, CommitExportStep DEF CommitExport, Moved
    <3>2. CASE CommitTransition(c) \/ CommitLinks(c)
      <4>1. ~ Stale(q.run, q.base, Edited(c)) /\ Store(q.run, q.base, Edited(c))
        BY <3>2 DEF CommitTransition, CommitLinks
      <4>. QED  BY <2>3, <4>1, StoreGrows
    <3>. QED  BY <2>1, <3>1, <3>2
  <2>5. \/ Edited(c).status = q.base.status
        \/ <<q.base.status, Edited(c).status>> \in Board!UserMoves
    <3>1. CASE q.act \in Transitions
      <4>1. Edited(c).status = Target[q.act]
        BY <3>1, <2>3 DEF Edited, Row, Transitions
      <4>2. q.base.status \in StartsFrom[q.act]
        BY <3>1, <2>2 DEF IInv, ReqInv
      <4>3. <<q.base.status, Target[q.act]>> \in Board!UserMoves
        BY <3>1, <4>2 DEF Transitions, Target, StartsFrom, Board!UserMoves
      <4>. QED  BY <4>1, <4>3
    <3>2. CASE q.act = "link"
      BY <3>2, <2>3 DEF Edited, Row, Transitions
    <3>3. CASE q.act \notin Transitions \cup {"link"}
      BY <3>3, <2>3 DEF Edited, Row
    <3>. QED  BY <3>1, <3>2, <3>3
  <2>. QED  BY <2>3, <2>4, <2>5
<1>3. ASSUME NEW w \in Worker, TaskStep(w) \/ WorkerCrash(w)
      PROVE  \E r \in Run, new \in Row :
               /\ row[r] \in Row
               /\ row' = [row EXCEPT ![r] = Bump(row[r], new)]
               /\ \/ new.status = row[r].status
                  \/ new.status \in {"RUNNING", "FAILED"}
                  \/ new.status = "COMPLETED" /\ row[r].content # NoText
  <2> DEFINE t == wk[w]
  <2>1. \/ MarkRunning(w) \/ WriteContent(w) \/ WriteCompleted(w)
        \/ WriteFailed(w)
    BY <1>3 DEF TaskStep, WorkerCrash, Take, LoadStatus, ReadRow, Generate
  <2>2. t.pc # "idle" /\ t.base # Absent
    BY <2>1 DEF MarkRunning, WriteContent, WriteCompleted, WriteFailed, Write
  <2>3. t.base \in Row /\ t.run \in Run /\ t \in Task /\ row[t.run] \in Row
    BY <2>2, TaskFacts
  <2>4. CASE MarkRunning(w)
    <3> DEFINE new == WithStatus(w, "RUNNING")
    <3>1. new \in Row /\ new.status = "RUNNING"
      BY <2>2, WithStatusRow DEF Status
    <3>2. t.base = row[t.run] /\ row' = [row EXCEPT ![t.run] = Bump(t.base, new)]
      BY <2>4, MarkRunningStep
    <3> HIDE DEF new
    <3>. QED  BY <2>3, <3>1, <3>2
  <2>5. CASE WriteContent(w)
    <3> DEFINE new == [t.base EXCEPT !.content = t.text]
    <3>1. new \in Row /\ new.status = t.base.status
      BY <2>3 DEF Row, Task
    <3>2. t.base = row[t.run] /\ row' = [row EXCEPT ![t.run] = Bump(t.base, new)]
      BY <2>5, WriteContentStep
    <3> HIDE DEF new
    <3>. QED  BY <2>3, <3>1, <3>2
  <2>6. CASE WriteCompleted(w)
    <3> DEFINE new == WithStatus(w, "COMPLETED")
    <3>1. new \in Row /\ new.status = "COMPLETED"
      BY <2>2, WithStatusRow DEF Status
    <3>2. /\ t.base = row[t.run]
          /\ row' = [row EXCEPT ![t.run] = Bump(t.base, new)]
          /\ row[t.run].content # NoText
      BY <2>6, WriteCompletedStep
    <3> HIDE DEF new
    <3>. QED  BY <2>3, <3>1, <3>2
  <2>7. CASE WriteFailed(w)
    <3> DEFINE new == WithStatus(w, "FAILED")
    <3>1. new \in Row /\ new.status = "FAILED"
      BY <2>2, WithStatusRow DEF Status
    <3>2. t.base = row[t.run] /\ row' = [row EXCEPT ![t.run] = Bump(t.base, new)]
      BY <2>7, WriteFailedStep
    <3> HIDE DEF new
    <3>. QED  BY <2>3, <3>1, <3>2
  <2>. QED  BY <2>1, <2>4, <2>5, <2>6, <2>7
<1>4. (\E c \in Client : ClientStep(c))
      \/ \E w \in Worker : TaskStep(w) \/ WorkerCrash(w)
  BY DEF Next, vars
<1>5. CASE \E c \in Client : ClientStep(c)
  BY <1>2, <1>5
<1>6. CASE \E w \in Worker : TaskStep(w) \/ WorkerCrash(w)
  BY <1>3, <1>6
<1>. QED  BY <1>4, <1>5, <1>6

\* A run becomes COMPLETED only with a generated body stored.
THEOREM CompletionCorrect == Spec => CompletionHasBody
<1>1. ASSUME IInv, [Next]_vars, NEW r \in Run, Exists(r),
             row[r].status # "COMPLETED", row'[r].status = "COMPLETED"
      PROVE  row'[r].content # NoText
  <2>1. row \in [Run -> MaybeRow] /\ row' # row
    BY <1>1 DEF IInv, TypeOK
  <2>2. ~ \E c \in Client : CommitCreate(c)
    <3> SUFFICES ASSUME NEW c \in Client, CommitCreate(c) PROVE FALSE
      OBVIOUS
    <3>. QED  BY <1>1, <2>1 DEF CommitCreate, CodeTaken, Exists
  <2>3. row[r].content # NoText
    <3>1. PICK s \in Run, new \in Row :
            /\ row' = [row EXCEPT ![s] = Bump(row[s], new)]
            /\ \/ new.status = row[s].status
               \/ <<row[s].status, new.status>> \in Board!UserMoves
               \/ new.status \in {"RUNNING", "FAILED"}
               \/ new.status = "COMPLETED" /\ row[s].content # NoText
      BY <1>1, <2>1, <2>2, RowChange
    <3>2. Bump(row[s], new).status = new.status
      BY DEF Bump, Row
    <3>3. s = r /\ new.status = "COMPLETED"
      BY <1>1, <2>1, <3>1, <3>2
    <3>. QED  BY <1>1, <3>1, <3>3 DEF Board!UserMoves
  <2>4. Grows(row, row')
    BY <1>1, StepGrows
  <2>. QED  BY <1>1, <2>3, <2>4 DEF Grows, Exists
<1>2. IInv /\ [Next]_vars =>
        [\A r \in Run :
           /\ Exists(r) /\ row[r].status # "COMPLETED"
           /\ row'[r].status = "COMPLETED"
           => row'[r].content # NoText]_vars
  BY <1>1
<1>. QED  BY <1>2, Invariant, PTL DEF Spec, CompletionHasBody

(***************************************************************************)
(* Who drives a RUNNING run.                                               *)
(***************************************************************************)
\* The step of a request that makes a run RUNNING, or that clears its record of
\* a lost task, leaves the request about to hand the run to the broker.
LEMMA RequestOwes ==
  ASSUME IInv, NEW c \in Client, ClientStep(c), NEW r \in Run, Owed(r)'
  PROVE  Owed(r) \/ (req'[c].pc = "enqueue" /\ req'[c].run = r)
<1> DEFINE q == req[c]
<1>1. row \in [Run -> MaybeRow] /\ req \in [Client -> Request]
      /\ dropped \in [Run -> BOOLEAN]
  BY DEF IInv, TypeOK
<1>2. row'[r] # Absent /\ row'[r].status = "RUNNING" /\ ~ dropped'[r]
  BY DEF Owed, Exists
<1>3. CASE CommitTransition(c)
  <2>1. /\ q.pc = "commit" /\ q.act \in Transitions /\ q.act # "create"
        /\ ~ Stale(q.run, q.base, Edited(c)) /\ Store(q.run, q.base, Edited(c))
        /\ q.act \in AsyncActions =>
             req' = [req EXCEPT ![c] = [q EXCEPT !.pc = "enqueue"]]
        /\ dropped' = [dropped EXCEPT ![q.run] =
                         IF q.act \in {"rerun", "resume"} THEN FALSE ELSE @]
    BY <1>3 DEF CommitTransition, Transitions
  <2>2. /\ q.run \in Run /\ q \in Request /\ q.base \in Row
        /\ Edited(c) \in Row /\ Agrees(row, q.run, q.base)
        /\ Edited(c).content = q.base.content
    BY <2>1, CommitFacts
  <2>3. /\ row' # row => q.base = row[q.run]
        /\ row' # row => row' = [row EXCEPT ![q.run] = Bump(q.base, Edited(c))]
    BY <2>1, <2>2, StoreGrows
  <2>4. CASE r # q.run
    <3>1. row'[r] = row[r] /\ dropped'[r] = dropped[r]
      BY <2>1, <2>3, <2>4, <1>1
    <3>. QED  BY <3>1, <1>2 DEF Owed, Exists
  <2>5. CASE r = q.run /\ q.act \in AsyncActions
    BY <2>1, <2>2, <2>5, <1>1 DEF Request
  <2>6. CASE r = q.run /\ q.act \notin AsyncActions
    <3>1. dropped'[r] = dropped[r]
      BY <2>1, <2>2, <2>6, <1>1 DEF AsyncActions
    <3>2. Edited(c).status = Target[q.act] /\ Target[q.act] # "RUNNING"
      BY <2>1, <2>2, <2>6 DEF Edited, Row, Transitions, Target, AsyncActions
    <3>3. row' = row
      <4>1. Bump(q.base, Edited(c)).status # "RUNNING"
        BY <2>2, <3>2 DEF Bump, Row
      <4>. QED  BY <4>1, <2>2, <2>3, <2>6, <1>1, <1>2
    <3>. QED  BY <3>1, <3>3, <1>2 DEF Owed, Exists
  <2>. QED  BY <2>4, <2>5, <2>6
<1>4. CASE CommitCreate(c)
  <2>1. /\ row' = [row EXCEPT ![q.run] =
                     [status |-> "RUNNING", version |-> 0, content |-> NoText,
                      by |-> c, fresh |-> TRUE]]
        /\ req' = [req EXCEPT ![c] = [q EXCEPT !.pc = "enqueue"]]
        /\ dropped' = dropped
    BY <1>4 DEF CommitCreate
  <2>2. CASE r = q.run
    BY <2>1, <2>2, <1>1 DEF Request
  <2>3. CASE r # q.run
    <3>1. row'[r] = row[r]
      BY <2>1, <2>3, <1>1
    <3>. QED  BY <3>1, <2>1, <1>2 DEF Owed, Exists
  <2>. QED  BY <2>2, <2>3
<1>5. CASE CommitExport(c) \/ CommitLinks(c)
  <2>1. /\ q.pc = "commit" /\ q.act \in {"export", "collect", "link"}
        /\ dropped' = dropped
    BY <1>5 DEF CommitExport, CommitLinks
  <2>2. /\ q.run \in Run /\ q.base \in Row
        /\ Edited(c) \in Row /\ Agrees(row, q.run, q.base)
        /\ Edited(c).content = q.base.content
    BY <2>1, CommitFacts
  <2>3. /\ row' # row => q.base = row[q.run]
        /\ row' # row => row' = [row EXCEPT ![q.run] = Bump(q.base, Edited(c))]
    <3>1. CASE CommitExport(c)
      BY <3>1, CommitExportStep DEF CommitExport
    <3>2. CASE CommitLinks(c)
      BY <3>2, <2>2, StoreGrows DEF CommitLinks
    <3>. QED  BY <1>5, <3>1, <3>2
  <2>4. Bump(q.base, Edited(c)).status = q.base.status
    BY <2>1, <2>2 DEF Edited, Bump, Row, Transitions
  <2>5. row' # row => row'[r] # Absent /\ row[r] # Absent
                      /\ row'[r].status = row[r].status
    <3>1. CASE r = q.run
      BY <3>1, <2>2, <2>3, <2>4, <1>1, <1>2, SentinelAssumption
    <3>2. CASE r # q.run
      BY <3>2, <2>3, <1>1, <1>2
    <3>. QED  BY <3>1, <3>2
  <2>. QED  BY <2>1, <2>5, <1>2 DEF Owed, Exists
<1>6. CASE EnqueueLost(c)
  <2>1. row' = row /\ dropped' = [dropped EXCEPT ![q.run] = TRUE]
    BY <1>6 DEF EnqueueLost
  <2>2. dropped'[r] = dropped[r]
    BY <2>1, <1>1, <1>2
  <2>. QED  BY <2>1, <2>2, <1>2 DEF Owed, Exists
<1>7. CASE row' = row /\ dropped' = dropped
  BY <1>7, <1>2 DEF Owed, Exists
<1>. QED
  BY <1>3, <1>4, <1>5, <1>6, <1>7
     DEF ClientStep, Look, Refuse, ReadForLink, ReadForCreate, ReadForAction,
         LoseRace, Enqueue, RequestCrash

\* A request that hands over its run leaves a message; every other step of a
\* request leaves the run driven by whoever drove it.
LEMMA RequestKeepsDriven ==
  ASSUME IInv, NEW c \in Client, ClientStep(c), NEW r \in Run, Driven(r),
         ~ dropped'[r]
  PROVE  Driven(r)'
<1> DEFINE q == req[c]
<1>1. req \in [Client -> Request] /\ queue \in [Run \X Client -> Nat]
      /\ dropped \in [Run -> BOOLEAN] /\ ReqInv(row, q)
  BY DEF IInv, TypeOK
<1>2. wk' = wk
  BY DEF ClientStep, Look, Refuse, ReadForLink, ReadForCreate, ReadForAction,
         CommitTransition, CommitExport, CommitLinks, CommitCreate, LoseRace,
         Enqueue, EnqueueLost, RequestCrash
<1>3. CASE \E w \in Worker : Drives(w, r)
  BY <1>2, <1>3 DEF Driven, Drives
<1>4. CASE Enqueue(c)
  <2>1. /\ q.pc = "enqueue" /\ q.run \in Run
        /\ queue' = [queue EXCEPT ![<<q.run, c>>] = @ + 1]
        /\ req' = [req EXCEPT ![c] = IdleRequest]
    BY <1>1, <1>4 DEF Enqueue, ReqInv
  <2>2. \A d \in Client : queue[<<r, d>>] > 0 => queue'[<<r, d>>] > 0
    <3> SUFFICES ASSUME NEW d \in Client, queue[<<r, d>>] > 0
                 PROVE  queue'[<<r, d>>] > 0
      OBVIOUS
    <3>1. CASE <<r, d>> = <<q.run, c>>
      BY <3>1, <2>1, <1>1
    <3>2. CASE <<r, d>> # <<q.run, c>>
      BY <3>2, <2>1, <1>1
    <3>. QED  BY <3>1, <3>2
  <2>3. q.run = r => queue'[<<r, c>>] > 0
    BY <2>1, <1>1
  <2>4. \A d \in Client : d # c => req'[d] = req[d]
    BY <2>1, <1>1
  <2>. QED  BY <1>3, <2>2, <2>3, <2>4 DEF Driven
<1>5. CASE EnqueueLost(c)
  <2>1. /\ queue' = queue /\ req' = [req EXCEPT ![c] = IdleRequest]
        /\ dropped' = [dropped EXCEPT ![q.run] = TRUE]
    BY <1>5 DEF EnqueueLost
  <2>2. q.run # r
    BY <2>1, <1>1
  <2>3. \A d \in Client : d # c => req'[d] = req[d]
    BY <2>1, <1>1
  <2>. QED  BY <1>3, <2>1, <2>2, <2>3 DEF Driven
<1>6. CASE q.pc # "enqueue"
  <2>1. queue' = queue
    BY <1>6 DEF ClientStep, Look, Refuse, ReadForLink, ReadForCreate,
         ReadForAction, CommitTransition, CommitExport, CommitLinks,
         CommitCreate, LoseRace, Enqueue, EnqueueLost, RequestCrash
  <2>2. \A d \in Client : d # c => req'[d] = req[d]
    BY <1>1 DEF ClientStep, Look, Refuse, ReadForLink, ReadForCreate,
         ReadForAction, CommitTransition, CommitExport, CommitLinks,
         CommitCreate, LoseRace, Enqueue, EnqueueLost, RequestCrash
  <2>. QED  BY <1>3, <1>6, <2>1, <2>2 DEF Driven
<1>7. CASE q.pc = "enqueue" /\ ~ Enqueue(c) /\ ~ EnqueueLost(c)
  BY <1>7 DEF ClientStep, Look, Refuse, ReadForLink, ReadForCreate,
       ReadForAction, CommitTransition, CommitExport, CommitLinks,
       CommitCreate, LoseRace, RequestCrash
<1>. QED  BY <1>4, <1>5, <1>6, <1>7

\* A task that has just moved on to another of its transactions has read nothing
\* yet: it drives its run.
LEMMA AtDrives ==
  ASSUME IInv, NEW w \in Worker, wk[w].pc # "idle",
         NEW pc \in {"generate", "write", "done", "fail"}, NEW text,
         wk' = [wk EXCEPT ![w] = [At(w, pc) EXCEPT !.text = text]],
         NEW r, r = wk[w].run
  PROVE  Drives(w, r)'
<1>1. wk \in [Worker -> Task]
  BY DEF IInv, TypeOK
<1>2. wk'[w].pc = pc /\ wk'[w].run = wk[w].run /\ wk'[w].base = Absent
  BY <1>1 DEF At, Task
<1>. QED  BY <1>2 DEF Drives

\* A write of the task, stale or not, leaves its run driven, ended or recorded
\* as lost.
LEMMA WriteKeepsDriven ==
  ASSUME IInv, NEW w \in Worker,
         NEW pc \in {"mark", "write", "done", "fail"},
         NEW new \in Row, NEW next, NEW ifStale,
         Write(w, pc, new, next, ifStale),
         next = IdleWorker => new.status # "RUNNING" /\ pc \in {"done", "fail"},
         next \in {IdleWorker, At(w, "generate"), At(w, "done")},
         ifStale \in {IdleWorker, At(w, "fail")},
         NEW r, Drives(w, r), Owed(r)'
  PROVE  Drives(w, r)'
<1> DEFINE t == wk[w]
<1>1. /\ t.pc = pc /\ t.base # Absent /\ t.pc # "idle"
      /\ dropped' = [dropped EXCEPT ![t.run] =
                       @ \/ (Stale(t.run, t.base, new) /\ ifStale = IdleWorker)]
  BY DEF Write
<1>2. /\ t \in Task /\ t.run \in Run /\ t.base \in Row
      /\ Agrees(row, t.run, t.base)
  BY <1>1, TaskFacts
<1>3. /\ wk \in [Worker -> Task] /\ row \in [Run -> MaybeRow]
      /\ dropped \in [Run -> BOOLEAN]
  BY DEF IInv, TypeOK
<1>4. r = t.run /\ ~ dropped'[r] /\ row'[r].status = "RUNNING"
  BY DEF Owed, Drives
<1>5. \A p \in {"generate", "done", "fail"} :
        At(w, p) = [At(w, p) EXCEPT !.text = NoText]
  BY <1>2 DEF At, Task
<1>6. CASE Stale(t.run, t.base, new)
  <2>1. ifStale = At(w, "fail") /\ wk' = [wk EXCEPT ![w] = ifStale]
    BY <1>1, <1>2, <1>3, <1>4, <1>6 DEF Write
  <2>. QED  BY <1>1, <1>4, <1>5, <2>1, AtDrives
<1>7. CASE ~ Stale(t.run, t.base, new)
  <2>1. wk' = [wk EXCEPT ![w] = next] /\ Store(t.run, t.base, new)
    BY <1>7 DEF Write
  <2>2. CASE next \in {At(w, "generate"), At(w, "done")}
    BY <1>1, <1>4, <1>5, <2>1, <2>2, AtDrives
  <2>3. CASE next = IdleWorker
    <3>1. new.status # "RUNNING" /\ t.base.status = "RUNNING"
      BY <1>1, <2>3 DEF Drives
    <3>2. new # t.base
      BY <3>1
    <3>3. row' = [row EXCEPT ![t.run] = Bump(t.base, new)]
      BY <2>1, <3>2 DEF Store
    <3>4. Bump(t.base, new).status = new.status
      BY DEF Bump, Row
    <3>. QED  BY <1>2, <1>3, <1>4, <3>1, <3>3, <3>4
  <2>. QED  BY <2>2, <2>3
<1>. QED  BY <1>6, <1>7

LEMMA TaskKeepsDrives ==
  ASSUME IInv, NEW w \in Worker, TaskStep(w) \/ WorkerCrash(w),
         NEW r, Drives(w, r), Owed(r)'
  PROVE  Drives(w, r)'
<1> DEFINE t == wk[w]
<1>1. /\ wk \in [Worker -> Task] /\ row \in [Run -> MaybeRow]
      /\ dropped \in [Run -> BOOLEAN] /\ t \in Task /\ TaskInv(row, t)
  BY DEF IInv, TypeOK
<1>2. t.pc # "idle" /\ t.run \in Run /\ r = t.run
  BY <1>1 DEF Drives, TaskInv
<1>3. row'[r] # Absent /\ row'[r].status = "RUNNING" /\ ~ dropped'[r]
  BY DEF Owed, Exists
<1>4. CASE LoadStatus(w)
  <2>1. wk' = [wk EXCEPT ![w] = [t EXCEPT !.pc = "mark"]]
    BY <1>2, <1>3, <1>4 DEF LoadStatus, Exists, Terminal
  <2>. QED  BY <1>1, <1>2, <2>1 DEF Drives, Task
<1>5. CASE ReadRow(w)
  <2>1. wk' = [wk EXCEPT ![w] = [t EXCEPT !.base = row[t.run]]] /\ row' = row
    BY <1>5 DEF ReadRow
  <2>2. wk'[w].pc = t.pc /\ wk'[w].run = t.run /\ wk'[w].base = row[t.run]
    BY <1>1, <2>1 DEF Task
  <2>. QED  BY <1>2, <1>3, <2>1, <2>2 DEF Drives
<1>6. CASE Generate(w)
  <2>1. CASE \E text \in Text :
               wk' = [wk EXCEPT ![w] = [At(w, "write") EXCEPT !.text = text]]
    BY <1>2, <2>1, AtDrives
  <2>2. CASE wk' = [wk EXCEPT ![w] = At(w, "fail")]
    <3>1. At(w, "fail") = [At(w, "fail") EXCEPT !.text = NoText]
      BY <1>1 DEF At, Task
    <3>. QED  BY <1>2, <2>2, <3>1, AtDrives
  <2>. QED  BY <1>6, <2>1, <2>2 DEF Generate, OnError
<1>7. CASE MarkRunning(w)
  <2>1. t.base # Absent
    BY <1>7 DEF MarkRunning, Write
  <2>2. WithStatus(w, "RUNNING") \in Row
    BY <1>2, <2>1, WithStatusRow DEF Status
  <2>3. At(w, "generate") # IdleWorker
    BY <1>1 DEF At, IdleWorker, Task
  <2>. QED
    BY <1>7, <2>2, <2>3, WriteKeepsDriven DEF MarkRunning
<1>8. CASE WriteContent(w)
  <2>1. t.base # Absent
    BY <1>8 DEF WriteContent, Write
  <2>2. [t.base EXCEPT !.content = t.text] \in Row
    BY <1>1, <1>2, <2>1, TaskFacts DEF Row, Task
  <2>3. At(w, "done") # IdleWorker
    BY <1>1 DEF At, IdleWorker, Task
  <2>. QED
    BY <1>8, <2>2, <2>3, WriteKeepsDriven DEF WriteContent, OnError
<1>9. CASE WriteCompleted(w)
  <2>1. t.base # Absent
    BY <1>9 DEF WriteCompleted, Write
  <2>2. /\ WithStatus(w, "COMPLETED") \in Row
        /\ WithStatus(w, "COMPLETED").status # "RUNNING"
    BY <1>2, <2>1, WithStatusRow DEF Status
  <2>. QED
    BY <1>9, <2>2, WriteKeepsDriven DEF WriteCompleted, OnError
<1>10. CASE WriteFailed(w)
  <2>1. t.base # Absent
    BY <1>10 DEF WriteFailed, Write
  <2>2. /\ WithStatus(w, "FAILED") \in Row
        /\ WithStatus(w, "FAILED").status # "RUNNING"
    BY <1>2, <2>1, WithStatusRow DEF Status
  <2>. QED
    BY <1>10, <2>2, WriteKeepsDriven DEF WriteFailed
<1>11. CASE WorkerCrash(w)
  BY <1>1, <1>2, <1>3, <1>11 DEF WorkerCrash
<1>. QED
  BY <1>2, <1>4, <1>5, <1>6, <1>7, <1>8, <1>9, <1>10, <1>11
     DEF TaskStep, Take

\* A task makes a run RUNNING only by marking it, and goes on to generate.
LEMMA TaskOwes ==
  ASSUME IInv, NEW w \in Worker, TaskStep(w) \/ WorkerCrash(w),
         NEW r \in Run, Owed(r)'
  PROVE  Owed(r) \/ Drives(w, r)'
<1> DEFINE t == wk[w]
<1>1. /\ row \in [Run -> MaybeRow] /\ dropped \in [Run -> BOOLEAN]
      /\ wk \in [Worker -> Task] /\ t \in Task /\ TaskInv(row, t)
  BY DEF IInv, TypeOK
<1>2. row'[r] # Absent /\ row'[r].status = "RUNNING" /\ ~ dropped'[r]
  BY DEF Owed, Exists
<1>3. ~ dropped[r]
  <2>1. CASE dropped' = dropped
    BY <2>1, <1>2
  <2>2. CASE WorkerCrash(w)
    BY <2>2, <1>1, <1>2 DEF WorkerCrash
  <2>3. CASE \E pc, new, next, ifStale : Write(w, pc, new, next, ifStale)
    <3>1. PICK lost \in BOOLEAN :
            dropped' = [dropped EXCEPT ![t.run] = @ \/ lost]
      BY <2>3 DEF Write
    <3>. QED  BY <3>1, <1>1, <1>2
  <2>. QED
    BY <2>1, <2>2, <2>3
       DEF TaskStep, Take, LoadStatus, ReadRow, Generate, MarkRunning,
           WriteContent, WriteCompleted, WriteFailed
<1>4. CASE row' = row
  BY <1>2, <1>3, <1>4 DEF Owed, Exists
<1>5. CASE row' # row
  <2>1. \/ MarkRunning(w) \/ WriteContent(w) \/ WriteCompleted(w)
        \/ WriteFailed(w)
    BY <1>5 DEF TaskStep, WorkerCrash, Take, LoadStatus, ReadRow, Generate
  <2>2. t.pc # "idle" /\ t.base # Absent
    BY <2>1 DEF MarkRunning, WriteContent, WriteCompleted, WriteFailed, Write
  <2>3. t.base \in Row /\ t.run \in Run
    BY <2>2, TaskFacts
  <2>4. CASE MarkRunning(w)
    <3> DEFINE new == WithStatus(w, "RUNNING")
    <3>1. row' = [row EXCEPT ![t.run] = Bump(t.base, new)]
      BY <1>5, <2>4, MarkRunningStep
    <3>2. wk' = [wk EXCEPT ![w] = At(w, "generate")]
      BY <1>5, <2>4 DEF MarkRunning, Write
    <3>3. r = t.run => Drives(w, r)'
      BY <1>1, <3>2 DEF Drives, At, Task
    <3>4. r # t.run => row'[r] = row[r]
      BY <1>1, <3>1
    <3>. QED  BY <1>2, <1>3, <3>3, <3>4 DEF Owed, Exists
  <2>5. CASE WriteContent(w)
    <3> DEFINE new == [t.base EXCEPT !.content = t.text]
    <3>1. /\ row' = [row EXCEPT ![t.run] = Bump(t.base, new)]
          /\ t.base = row[t.run]
      BY <1>5, <2>5, WriteContentStep
    <3>2. Bump(t.base, new).status = t.base.status
      BY <2>3 DEF Bump, Row
    <3>3. r # t.run => row'[r] = row[r]
      BY <1>1, <3>1
    <3>4. row'[t.run].status = row[t.run].status
      BY <1>1, <2>3, <3>1, <3>2
    <3>. QED
      BY <1>2, <1>3, <2>2, <3>1, <3>3, <3>4 DEF Owed, Exists
  <2>6. CASE WriteCompleted(w) \/ WriteFailed(w)
    <3>1. PICK status \in {"COMPLETED", "FAILED"} :
            row' = [row EXCEPT ![t.run] = Bump(t.base, WithStatus(w, status))]
      BY <1>5, <2>6, WriteCompletedStep, WriteFailedStep
    <3>2. Bump(t.base, WithStatus(w, status)).status = status
      <4>1. WithStatus(w, status) \in Row /\ WithStatus(w, status).status = status
        BY <2>2, WithStatusRow DEF Status
      <4>. QED  BY <4>1 DEF Bump, Row
    <3>3. r # t.run
      BY <1>1, <1>2, <2>3, <3>1, <3>2
    <3>4. row'[r] = row[r]
      BY <1>1, <3>1, <3>3
    <3>. QED  BY <1>2, <1>3, <3>4 DEF Owed, Exists
  <2>. QED  BY <2>1, <2>4, <2>5, <2>6
<1>. QED  BY <1>4, <1>5

\* A delivery turns the message into a task; every other step of a task leaves
\* the messages, the requests and the other tasks alone.
LEMMA TaskKeepsDriven ==
  ASSUME IInv, NEW w \in Worker, TaskStep(w) \/ WorkerCrash(w),
         NEW r \in Run, Driven(r), Owed(r)'
  PROVE  Driven(r)'
<1>1. wk \in [Worker -> Task] /\ queue \in [Run \X Client -> Nat]
  BY DEF IInv, TypeOK
<1>2. req' = req
  BY DEF TaskStep, WorkerCrash, Take, LoadStatus, ReadRow, Generate,
         MarkRunning, WriteContent, WriteCompleted, WriteFailed, Write
<1>3. \A v \in Worker : v # w => wk'[v] = wk[v]
  BY <1>1 DEF TaskStep, WorkerCrash, Take, LoadStatus, ReadRow, Generate,
         MarkRunning, WriteContent, WriteCompleted, WriteFailed, Write
<1>4. CASE \E c \in Client : req[c].pc = "enqueue" /\ req[c].run = r
  BY <1>2, <1>4 DEF Driven
<1>5. CASE \E v \in Worker : Drives(v, r)
  <2>1. PICK v \in Worker : Drives(v, r)
    BY <1>5
  <2>2. CASE v = w
    <3>1. Drives(w, r)'
      BY <2>1, <2>2, TaskKeepsDrives
    <3>. QED  BY <3>1 DEF Driven
  <2>3. CASE v # w
    BY <1>3, <2>1, <2>3 DEF Driven, Drives
  <2>. QED  BY <2>2, <2>3
<1>6. CASE \E c \in Client : queue[<<r, c>>] > 0
  <2>1. PICK c \in Client : queue[<<r, c>>] > 0
    BY <1>6
  <2>2. CASE Take(w)
    <3>1. PICK s \in Run, d \in Client :
            /\ queue' = [queue EXCEPT ![<<s, d>>] = @ - 1]
            /\ wk' = [wk EXCEPT ![w] = [IdleWorker EXCEPT !.pc = "load",
                                          !.run = s, !.actor = d]]
      BY <2>2 DEF Take
    <3>2. CASE <<s, d>> = <<r, c>>
      BY <1>1, <3>1, <3>2 DEF Driven, Drives, IdleWorker
    <3>3. CASE <<s, d>> # <<r, c>>
      <4>1. queue'[<<r, c>>] = queue[<<r, c>>]
        BY <1>1, <3>1, <3>3
      <4>. QED  BY <2>1, <4>1 DEF Driven
    <3>. QED  BY <3>2, <3>3
  <2>3. CASE ~ Take(w)
    <3>1. queue' = queue
      BY <2>3 DEF TaskStep, WorkerCrash, LoadStatus, ReadRow, Generate,
         MarkRunning, WriteContent, WriteCompleted, WriteFailed, Write
    <3>. QED  BY <2>1, <3>1 DEF Driven
  <2>. QED  BY <2>2, <2>3
<1>. QED  BY <1>4, <1>5, <1>6 DEF Driven

LEMMA StepDriven ==
  ASSUME IInv, DrivenInv, [Next]_vars
  PROVE  DrivenInv'
<1> SUFFICES ASSUME NEW r \in Run, Owed(r)' PROVE Driven(r)'
  BY DEF DrivenInv
<1>1. CASE \E c \in Client : ClientStep(c)
  <2>1. PICK c \in Client : ClientStep(c)
    BY <1>1
  <2>2. CASE Owed(r)
    BY <2>1, <2>2, RequestKeepsDriven DEF DrivenInv, Owed
  <2>3. CASE req'[c].pc = "enqueue" /\ req'[c].run = r
    BY <2>3 DEF Driven
  <2>. QED  BY <2>1, <2>2, <2>3, RequestOwes
<1>2. CASE \E w \in Worker : TaskStep(w) \/ WorkerCrash(w)
  <2>1. PICK w \in Worker : TaskStep(w) \/ WorkerCrash(w)
    BY <1>2
  <2>2. CASE Owed(r)
    BY <2>1, <2>2, TaskKeepsDriven DEF DrivenInv
  <2>3. CASE Drives(w, r)'
    BY <2>3 DEF Driven
  <2>. QED  BY <2>1, <2>2, <2>3, TaskOwes
<1>3. CASE UNCHANGED vars
  BY <1>3 DEF vars, DrivenInv, Owed, Exists, Driven, Drives
<1>. QED  BY <1>1, <1>2, <1>3 DEF Next

\* A run shown as RUNNING is being driven by someone, unless its hand-off or its
\* task is recorded as lost.
THEOREM ExecutorCorrect == Spec => []RunningHasExecutor
<1>1. Init => DrivenInv
  BY DEF Init, DrivenInv, Owed, Exists
<1>2. IInv /\ DrivenInv /\ [Next]_vars => DrivenInv'
  BY StepDriven
<1>3. DrivenInv => RunningHasExecutor
  BY DEF DrivenInv, Owed, Driven, Drives, RunningHasExecutor, HasExecutor
<1>. QED  BY <1>1, <1>2, <1>3, Invariant, PTL DEF Spec

(***************************************************************************)
(* The refinement: the stored rows, seen as status and version, behave as  *)
(* the board of RunBoard.                                                  *)
(***************************************************************************)
LEMMA BoardInit == Init => Board!Init
<1> SUFFICES ASSUME Init PROVE Board!Init
  OBVIOUS
<1>1. \A r \in Run : row[r] \in SeedRow \cup {Absent}
  BY DEF Init
<1>2. \A r \in Run :
        BoardOf(row)[r] \in [status: SeedStatus, version: {0}] \cup {Absent}
  BY <1>1 DEF BoardOf, SeedRow
<1>. QED  BY <1>2 DEF Board!Init, BoardOf

\* What the reader sees after one run got its next version.
LEMMA BoardChange ==
  ASSUME IInv, NEW r \in Run, NEW new \in Row, row[r] \in Row,
         row' = [row EXCEPT ![r] = Bump(row[r], new)]
  PROVE  Board!Change(r, new.status)
<1>1. row \in [Run -> MaybeRow]
  BY DEF IInv, TypeOK
<1>2. /\ Bump(row[r], new).status = new.status
      /\ Bump(row[r], new).version = row[r].version + 1
      /\ Bump(row[r], new) # Absent
  <2>1. Bump(row[r], new) \in Row
    BY DEF Bump, Row
  <2>. QED  BY <2>1, SentinelAssumption DEF Bump, Row
<1>3. row[r] # Absent /\ row[r].status \in Status /\ row[r].version \in Nat
  BY SentinelAssumption DEF Row
<1>4. BoardOf(row)[r] = [status |-> row[r].status, version |-> row[r].version]
  BY <1>3 DEF BoardOf
<1>5. BoardOf(row)[r] # Absent
  BY <1>3, <1>4, SentinelAssumption
<1>6. BoardOf(row') = [BoardOf(row) EXCEPT
                         ![r] = [status |-> new.status,
                                 version |-> BoardOf(row)[r].version + 1]]
  <2>1. row'[r] = Bump(row[r], new)
    BY <1>1
  <2>2. \A s \in Run : s # r => row'[s] = row[s]
    BY <1>1
  <2>3. BoardOf(row)[r].version = row[r].version
    BY <1>4
  <2>4. BoardOf(row')[r] = [status |-> new.status,
                            version |-> BoardOf(row)[r].version + 1]
    BY <1>2, <2>1, <2>3 DEF BoardOf
  <2>5. \A s \in Run : s # r => BoardOf(row')[s] = BoardOf(row)[s]
    BY <2>2 DEF BoardOf
  <2>. QED  BY <2>4, <2>5 DEF BoardOf
<1>7. BoardOf(row)' = BoardOf(row')
  BY DEF BoardOf
<1>. QED  BY <1>5, <1>6, <1>7 DEF Board!Change

\* A created run appears RUNNING at version 0.
LEMMA BoardAppear ==
  ASSUME IInv, NEW c \in Client, CommitCreate(c)
  PROVE  \E r \in Run : Board!Appear(r)
<1> DEFINE r == req[c].run
           new == [status |-> "RUNNING", version |-> 0, content |-> NoText,
                   by |-> c, fresh |-> TRUE]
<1>1. row \in [Run -> MaybeRow] /\ r \in Run
  BY DEF IInv, TypeOK, ReqInv, CommitCreate
<1>2. row[r] = Absent /\ row' = [row EXCEPT ![r] = new]
  BY DEF CommitCreate, CodeTaken, Exists
<1>3. new # Absent
  <2>1. new \in Row
    BY DEF Row, Status
  <2> HIDE DEF new
  <2>. QED  BY <2>1, SentinelAssumption
<1>4. row'[r] = new /\ \A s \in Run : s # r => row'[s] = row[s]
  BY <1>1, <1>2
<1>5. BoardOf(row)[r] = Absent
  BY <1>1, <1>2 DEF BoardOf
<1>6. BoardOf(row')[r] = [status |-> "RUNNING", version |-> 0]
  BY <1>1, <1>3, <1>4 DEF BoardOf
<1>7. \A s \in Run : s # r => BoardOf(row')[s] = BoardOf(row)[s]
  BY <1>4 DEF BoardOf
<1>8. BoardOf(row') = [BoardOf(row) EXCEPT
                         ![r] = [status |-> "RUNNING", version |-> 0]]
  BY <1>1, <1>6, <1>7 DEF BoardOf
<1>9. BoardOf(row)' = BoardOf(row')
  BY DEF BoardOf
<1>. QED  BY <1>1, <1>5, <1>8, <1>9 DEF Board!Appear

LEMMA BoardStep ==
  ASSUME IInv, [Next]_vars, BoardOf(row)' # BoardOf(row)
  PROVE  Board!Next
<1>1. row' # row
  BY DEF BoardOf
<1>2. CASE \E c \in Client : CommitCreate(c)
  BY <1>2, BoardAppear DEF Board!Next
<1>3. CASE ~ \E c \in Client : CommitCreate(c)
  <2>1. PICK r \in Run, new \in Row :
          /\ row[r] \in Row
          /\ row' = [row EXCEPT ![r] = Bump(row[r], new)]
          /\ \/ new.status = row[r].status
             \/ <<row[r].status, new.status>> \in Board!UserMoves
             \/ new.status \in {"RUNNING", "FAILED"}
             \/ new.status = "COMPLETED" /\ row[r].content # NoText
    BY <1>1, <1>3, RowChange
  <2>2. Board!Change(r, new.status)
    BY <2>1, BoardChange
  <2>3. BoardOf(row)[r].status = row[r].status
    BY <2>1, SentinelAssumption DEF BoardOf
  <2>4. CASE new.status = row[r].status
    BY <2>2, <2>3, <2>4 DEF Board!Next, Board!Edit
  <2>5. CASE <<row[r].status, new.status>> \in Board!UserMoves
    <3>1. new.status \in {"PAUSED", "RUNNING", "CANCELLED"}
      BY <2>5 DEF Board!UserMoves
    <3>2. Board!UserMove(r)
      BY <2>2, <2>3, <2>5, <3>1 DEF Board!UserMove
    <3>. QED  BY <3>2 DEF Board!Next
  <2>6. CASE new.status \in {"RUNNING", "FAILED", "COMPLETED"}
    <3>1. Board!EngineMove(r)
      BY <2>2, <2>6 DEF Board!EngineMove, Board!EngineStatus
    <3>. QED  BY <3>1 DEF Board!Next
  <2>. QED  BY <2>1, <2>4, <2>5, <2>6
<1>. QED  BY <1>2, <1>3

\* Requests, broker and workers together implement the board: whatever they
\* interleave, its reader sees only steps of RunBoard.
THEOREM BoardImplemented == Spec => ImplementsBoard
<1>1. IInv /\ [Next]_vars => [Board!Next]_(BoardOf(row))
  BY BoardStep
<1>. QED  BY <1>1, BoardInit, Invariant, PTL DEF Spec, ImplementsBoard, Board!Spec
=============================================================================
