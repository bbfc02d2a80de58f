----------------------------- MODULE ContentRun -----------------------------
(***************************************************************************)
(* A content run from creation to its terminal status: the row guarded by  *)
(* row_version, the API requests that read it in one step and commit in a  *)
(* later one, the hand-off to the broker after the commit, and the worker  *)
(* task whose five transactions write the outcome back.                    *)
(*                                                                         *)
(* A database transaction is two steps, the SELECT and the guarded UPDATE: *)
(* under READ COMMITTED any other transaction may commit in between.  The  *)
(* mapper sends no UPDATE, and so checks no version, when the assignments  *)
(* leave every column as it was read.                                      *)
(***************************************************************************)
EXTENDS Naturals

CONSTANTS
  Client,        \* signed-in users, each with at most one request in flight
  Worker,        \* processes executing content.run.execute
  Material,      \* rows of the material library
  Text,          \* bodies the model gateway can return
  MaxRun,        \* bound: runs are numbered 1..MaxRun by seq
  MaxVersion,    \* bound: no request starts a write of a row this old
  SeedStatus,    \* statuses a row loaded by the seed script may have
  Permitted,     \* Permitted[c]: actions the policy grants to c
  Matches,       \* Matches[r]: materials that mention the run's brand or title
  Faults,        \* TRUE: processes crash and the broker may be unreachable
  Absent, Nobody, NoText   \* no row, NULL updated_by, NULL content

Status == {"DRAFT", "RUNNING", "WAITING_HUMAN", "PAUSED", "FAILED",
           "COMPLETED", "CANCELLED"}
Terminal == {"COMPLETED", "CANCELLED"}

\* CONTENT_TRANSITIONS: where each action may start, and where it leads.
StartsFrom ==
  [pause  |-> {"RUNNING", "WAITING_HUMAN"},
   resume |-> {"PAUSED"},
   rerun  |-> {"FAILED", "COMPLETED"},
   cancel |-> {"DRAFT", "RUNNING", "WAITING_HUMAN", "PAUSED", "FAILED"}]
Target ==
  [pause |-> "PAUSED", resume |-> "RUNNING", rerun |-> "RUNNING",
   cancel |-> "CANCELLED"]
Transitions == {"pause", "resume", "rerun", "cancel"}
\* Mutant: only a rerun is handed to the broker.
RerunOnly == {"rerun"}
\* The route enqueues after these.
AsyncActions == {"rerun", "resume"}
SideEffects == {"export", "collect"}
Action == Transitions \cup SideEffects \cup {"link", "create"}

Run == 1 .. MaxRun
\* fresh: updated_at_label is the label every write assigns.
Row == [status: Status, version: Nat, content: Text \cup {NoText},
        by: Client \cup {Nobody}, fresh: BOOLEAN]
MaybeRow == Row \cup {Absent}
Payload == [run: Run, status: Status, content: Text \cup {NoText}]

ASSUME BoundAssumption == MaxRun \in Nat /\ MaxVersion \in Nat
ASSUME PolicyAssumption == /\ Permitted \in [Client -> SUBSET Action]
                           /\ Matches \in [Run -> SUBSET Material]
                           /\ SeedStatus \subseteq Status
                           /\ Faults \in BOOLEAN
ASSUME SentinelAssumption == /\ Absent \notin Row
                             /\ Absent \notin [status: Status, version: Nat]
                             /\ Nobody \notin Client
                             /\ NoText \notin Text

VARIABLES
  row,      \* row[r]: the committed content_run row
  links,    \* links[r]: materials linked to r
  exports,  \* payloads of the content_export rows
  queue,    \* queue[<<r, c>>]: copies of that task message at the broker
  req,      \* req[c]: the request c has in flight
  wk,       \* wk[w]: the task w executes
  dropped   \* history: dropped[r], the hand-off or the task of r was lost

vars == <<row, links, exports, queue, req, wk, dropped>>

IdleRequest == [pc |-> "idle", run |-> 0, act |-> "none", view |-> Absent,
                base |-> Absent, adds |-> {}]
IdleWorker == [pc |-> "idle", run |-> 0, actor |-> Nobody, base |-> Absent,
               text |-> NoText]

\* view: the row the client saw; base: the row its transaction read.
Request == [pc: {"idle", "viewing", "commit", "enqueue"}, run: Run \cup {0},
            act: Action \cup {"none"}, view: MaybeRow, base: MaybeRow,
            adds: SUBSET Material]
Task == [pc: {"idle", "load", "mark", "generate", "write", "done", "fail"},
         run: Run \cup {0}, actor: Client \cup {Nobody}, base: MaybeRow,
         text: Text \cup {NoText}]

Exists(r) == row[r] # Absent

(***************************************************************************)
(* Init: an empty board, or one filled by the seed script, whose rows have *)
(* no editor, no body, a display label of their own and no task.           *)
(***************************************************************************)
SeedRow == [status: SeedStatus, version: {0}, content: {NoText},
            by: {Nobody}, fresh: {FALSE}]

Init ==
  /\ row \in [Run -> SeedRow \cup {Absent}]
  /\ \A r, s \in Run : r < s /\ Exists(s) => Exists(r)
  /\ links = [r \in Run |-> {}]
  /\ exports = {}
  /\ queue = [m \in Run \X Client |-> 0]
  /\ req = [c \in Client |-> IdleRequest]
  /\ wk = [w \in Worker |-> IdleWorker]
  /\ dropped = [r \in Run |-> Exists(r)]

(***************************************************************************)
(* The versioned UPDATE.  Writing new over base is refused when there is   *)
(* something to write and the stored version is not the one that was read. *)
(***************************************************************************)
\* Mutant: the mapper is not told which column is the version.
NeverMoved(r, base) == FALSE
Moved(r, base) == row[r].version # base.version

Stale(r, base, new) == new # base /\ Moved(r, base)

\* Mutant: the version column is compared but not advanced.
NoBump(base, new) == new
Bump(base, new) == [new EXCEPT !.version = base.version + 1]

Store(r, base, new) ==
  row' = IF new = base THEN row ELSE [row EXCEPT ![r] = Bump(base, new)]

(***************************************************************************)
(* Requests.                                                               *)
(***************************************************************************)
\* The client loads a run and keeps its version for If-Match.
Look(c) ==
  /\ req[c].pc = "idle"
  /\ \E r \in Run :
       /\ Exists(r)
       /\ req' = [req EXCEPT ![c] = [IdleRequest EXCEPT !.pc = "viewing",
                                       !.run = r, !.view = row[r]]]
  /\ UNCHANGED <<row, links, exports, queue, wk, dropped>>

\* The checks of a write, in the order of the code: If-Match, the policy, the
\* state machine.
Admitted(c, a, view, cur) ==
  /\ cur.version = view.version
  /\ a \in Permitted[c]
  /\ a \in Transitions => cur.status \in StartsFrom[a]

\* First half of apply_content_action: read the row and check it.
ReadForAction(c, a) ==
  LET q == req[c]
      cur == row[q.run]
  IN /\ q.pc = "viewing"
     /\ Admitted(c, a, q.view, cur)
     /\ cur.version < MaxVersion
     /\ req' = [req EXCEPT ![c] =
                 [q EXCEPT !.pc = "commit", !.act = a, !.base = cur,
                           !.adds = IF a = "collect"
                                    THEN Matches[q.run] \ links[q.run]
                                    ELSE {}]]
     /\ UNCHANGED <<row, links, exports, queue, wk, dropped>>

\* 412, 403 or 409: nothing was written.
Refuse(c) ==
  /\ req[c].pc = "viewing"
  /\ \E a \in Transitions \cup SideEffects :
       ~ Admitted(c, a, req[c].view, row[req[c].run])
  /\ req' = [req EXCEPT ![c] = IdleRequest]
  /\ UNCHANGED <<row, links, exports, queue, wk, dropped>>

\* link_material_to_run asks for the collect permission and no version.
ReadForLink(c) ==
  /\ req[c].pc = "idle"
  /\ "collect" \in Permitted[c]
  /\ \E r \in Run, m \in Material :
       /\ Exists(r)
       /\ row[r].version < MaxVersion
       /\ req' = [req EXCEPT ![c] =
                   [IdleRequest EXCEPT !.pc = "commit", !.run = r,
                      !.act = "link", !.base = row[r],
                      !.adds = {m} \ links[r]]]
  /\ UNCHANGED <<row, links, exports, queue, wk, dropped>>

\* create_content_run numbers the run max(seq) + 1 from the committed rows.
ReadForCreate(c) ==
  /\ req[c].pc = "idle"
  /\ "create" \in Permitted[c]
  /\ \E r \in Run :
       /\ ~ Exists(r)
       /\ \A s \in Run : Exists(s) <=> s < r
       /\ req' = [req EXCEPT ![c] = [IdleRequest EXCEPT !.pc = "commit",
                                       !.run = r, !.act = "create"]]
  /\ UNCHANGED <<row, links, exports, queue, wk, dropped>>

\* The columns a write assigns, over the row its transaction read.
Edited(c) ==
  LET q == req[c]
  IN CASE q.act \in Transitions ->
            [q.base EXCEPT !.status = Target[q.act], !.by = c, !.fresh = TRUE]
       [] q.act = "link" -> [q.base EXCEPT !.by = c, !.fresh = TRUE]
       [] OTHER -> [q.base EXCEPT !.by = c]

CommitTransition(c) ==
  LET q == req[c]
  IN /\ q.pc = "commit" /\ q.act \in Transitions
     /\ ~ Stale(q.run, q.base, Edited(c))
     /\ Store(q.run, q.base, Edited(c))
     /\ req' = [req EXCEPT ![c] = IF q.act \in AsyncActions
                                  THEN [q EXCEPT !.pc = "enqueue"]
                                  ELSE IdleRequest]
     /\ dropped' = [dropped EXCEPT ![q.run] =
                      IF q.act \in {"rerun", "resume"} THEN FALSE ELSE @]
     /\ UNCHANGED <<links, exports, queue, wk>>

\* An export always stamps exported_at, so its UPDATE is never empty.
CommitExport(c) ==
  LET q == req[c]
  IN /\ q.pc = "commit" /\ q.act = "export"
     /\ ~ Moved(q.run, q.base)
     /\ row' = [row EXCEPT ![q.run] = Bump(q.base, Edited(c))]
     /\ exports' = exports \cup {[run |-> q.run, status |-> q.base.status,
                                  content |-> q.base.content]}
     /\ req' = [req EXCEPT ![c] = IdleRequest]
     /\ UNCHANGED <<links, queue, wk, dropped>>

\* collect and link insert rows under a unique constraint and touch the run.
CommitLinks(c) ==
  LET q == req[c]
  IN /\ q.pc = "commit" /\ q.act \in {"collect", "link"}
     /\ q.adds \cap links[q.run] = {}
     /\ ~ Stale(q.run, q.base, Edited(c))
     /\ Store(q.run, q.base, Edited(c))
     /\ links' = [links EXCEPT ![q.run] = @ \cup q.adds]
     /\ req' = [req EXCEPT ![c] = IdleRequest]
     /\ UNCHANGED <<exports, queue, wk, dropped>>

\* The unique constraint on (tenant, code) accepts one of the equal numbers.
\* Mutant: there is no such constraint.
NoConstraint(r) == FALSE
CodeTaken(r) == Exists(r)

CommitCreate(c) ==
  LET q == req[c]
  IN /\ q.pc = "commit" /\ q.act = "create"
     /\ ~ CodeTaken(q.run)
     /\ row' = [row EXCEPT ![q.run] =
                 [status |-> "RUNNING", version |-> 0, content |-> NoText,
                  by |-> c, fresh |-> TRUE]]
     /\ req' = [req EXCEPT ![c] = [q EXCEPT !.pc = "enqueue"]]
     /\ UNCHANGED <<links, exports, queue, wk, dropped>>

\* Another transaction won: StaleDataError (409) or IntegrityError (500).
LoseRace(c) ==
  LET q == req[c]
  IN /\ q.pc = "commit"
     /\ \/ q.act = "create" /\ CodeTaken(q.run)
        \/ q.act = "export" /\ Moved(q.run, q.base)
        \/ /\ q.act \notin {"create", "export"}
           /\ \/ Stale(q.run, q.base, Edited(c))
              \/ q.adds \cap links[q.run] # {}
     /\ req' = [req EXCEPT ![c] = IdleRequest]
     /\ UNCHANGED <<row, links, exports, queue, wk, dropped>>

\* The route hands the committed run to the broker.
Enqueue(c) ==
  /\ req[c].pc = "enqueue"
  /\ queue' = [queue EXCEPT ![<<req[c].run, c>>] = @ + 1]
  /\ req' = [req EXCEPT ![c] = IdleRequest]
  /\ UNCHANGED <<row, links, exports, wk, dropped>>

\* The broker is unreachable (logged and forgotten) or the API process dies
\* between the commit and the hand-off.
EnqueueLost(c) ==
  /\ Faults
  /\ req[c].pc = "enqueue"
  /\ dropped' = [dropped EXCEPT ![req[c].run] = TRUE]
  /\ req' = [req EXCEPT ![c] = IdleRequest]
  /\ UNCHANGED <<row, links, exports, queue, wk>>

\* Mutant: the hand-off is in a finally clause, the commit may have failed.
EnqueueAnyway(c) ==
  /\ Faults
  /\ req[c].pc = "commit"
  /\ req' = [req EXCEPT ![c].pc = "enqueue"]
  /\ UNCHANGED <<row, links, exports, queue, wk, dropped>>

\* The API process dies inside the transaction: it is rolled back.
RequestCrash(c) ==
  /\ Faults
  /\ req[c].pc = "commit"
  /\ req' = [req EXCEPT ![c] = IdleRequest]
  /\ UNCHANGED <<row, links, exports, queue, wk, dropped>>

(***************************************************************************)
(* The task.  No code deletes a run, so a run found once is found again.   *)
(***************************************************************************)
\* Mutant: a delivery that does not depend on a message being there.
AlwaysWaiting(r, c) == TRUE
Waiting(r, c) == queue[<<r, c>>] > 0

\* The message is acknowledged as it is taken: a crash later loses the task.
Take(w) ==
  /\ wk[w].pc = "idle"
  /\ \E r \in Run, c \in Client :
       /\ Waiting(r, c)
       /\ queue' = [queue EXCEPT ![<<r, c>>] = @ - 1]
       /\ wk' = [wk EXCEPT ![w] = [IdleWorker EXCEPT !.pc = "load", !.run = r,
                                     !.actor = c]]
  /\ UNCHANGED <<row, links, exports, req, dropped>>

\* _load_status: a missing or terminal run ends the task.
LoadStatus(w) ==
  LET t == wk[w]
  IN /\ t.pc = "load"
     /\ wk' = [wk EXCEPT ![w] =
                IF ~ Exists(t.run) \/ row[t.run].status \in Terminal
                THEN IdleWorker
                ELSE [t EXCEPT !.pc = "mark"]]
     /\ UNCHANGED <<row, links, exports, queue, req, dropped>>

\* Every later write starts by reading the row in its own transaction.
ReadRow(w) ==
  /\ wk[w].pc \in {"mark", "write", "done", "fail"}
  /\ wk[w].base = Absent
  /\ Exists(wk[w].run)
  /\ wk' = [wk EXCEPT ![w] = [@ EXCEPT !.base = row[wk[w].run]]]
  /\ UNCHANGED <<row, links, exports, queue, req, dropped>>

\* _apply_status and updated_by, whatever the status was.
WithStatus(w, status) ==
  [wk[w].base EXCEPT !.status = status, !.by = wk[w].actor, !.fresh = TRUE]

\* The transaction of pc writes new and moves on, or it is stale and the task
\* goes on at ifStale.
Write(w, pc, new, next, ifStale) ==
  LET t == wk[w]
  IN /\ t.pc = pc /\ t.base # Absent
     /\ IF Stale(t.run, t.base, new)
        THEN /\ wk' = [wk EXCEPT ![w] = ifStale]
             /\ UNCHANGED row
        ELSE /\ wk' = [wk EXCEPT ![w] = next]
             /\ Store(t.run, t.base, new)
     /\ dropped' = [dropped EXCEPT ![t.run] =
                      @ \/ /\ Stale(t.run, t.base, new)
                           /\ ifStale = IdleWorker]
     /\ UNCHANGED <<links, exports, queue, req>>

At(w, pc) == [wk[w] EXCEPT !.pc = pc, !.base = Absent, !.text = NoText]

\* The except clause of the task: FAILED has still to be written.
\* Mutants: the error is swallowed; the error ends the task.
ErrorSwallowed(w) == At(w, "done")
ErrorEnds(w) == IdleWorker
OnError(w) == At(w, "fail")

\* _set_status(RUNNING) is outside the try block: a stale write ends the task.
MarkRunning(w) ==
  Write(w, "mark", WithStatus(w, "RUNNING"), At(w, "generate"), IdleWorker)

\* The gateway answers or raises; the request is built from columns no one
\* changes.
Generate(w) ==
  /\ wk[w].pc = "generate"
  /\ \/ \E text \in Text :
          wk' = [wk EXCEPT ![w] = [At(w, "write") EXCEPT !.text = text]]
     \/ wk' = [wk EXCEPT ![w] = OnError(w)]
  /\ UNCHANGED <<row, links, exports, queue, req, dropped>>

WriteContent(w) ==
  Write(w, "write", [wk[w].base EXCEPT !.content = wk[w].text],
        At(w, "done"), OnError(w))

WriteCompleted(w) ==
  Write(w, "done", WithStatus(w, "COMPLETED"), IdleWorker, OnError(w))

\* Inside the except clause: a stale write ends the task.
WriteFailed(w) ==
  Write(w, "fail", WithStatus(w, "FAILED"), IdleWorker, IdleWorker)

WorkerCrash(w) ==
  /\ Faults
  /\ wk[w].pc # "idle"
  /\ dropped' = [dropped EXCEPT ![wk[w].run] = TRUE]
  /\ wk' = [wk EXCEPT ![w] = IdleWorker]
  /\ UNCHANGED <<row, links, exports, queue, req>>

(***************************************************************************)
(* The system.  A worker that took a message keeps executing, and a server *)
(* thread that committed reaches the hand-off; users owe nothing.          *)
(***************************************************************************)
ClientStep(c) ==
  \/ Look(c) \/ Refuse(c) \/ ReadForLink(c) \/ ReadForCreate(c)
  \/ \E a \in Transitions \cup SideEffects : ReadForAction(c, a)
  \/ CommitTransition(c) \/ CommitExport(c) \/ CommitLinks(c)
  \/ CommitCreate(c) \/ LoseRace(c) \/ Enqueue(c)
  \/ EnqueueLost(c) \/ RequestCrash(c)

TaskStep(w) ==
  \/ Take(w) \/ LoadStatus(w) \/ ReadRow(w) \/ MarkRunning(w) \/ Generate(w)
  \/ WriteContent(w) \/ WriteCompleted(w) \/ WriteFailed(w)

Next ==
  \/ \E c \in Client : ClientStep(c)
  \/ \E w \in Worker : TaskStep(w) \/ WorkerCrash(w)

Spec == Init /\ [][Next]_vars

FairSpec ==
  /\ Spec
  /\ \A w \in Worker : WF_vars(TaskStep(w))
  /\ \A c \in Client : WF_vars(Enqueue(c))

(***************************************************************************)
(* Properties.                                                             *)
(***************************************************************************)
\* Every variable stays in its domain; in particular a message is never taken
\* twice (the counts of queue stay naturals).
TypeOK ==
  /\ row \in [Run -> MaybeRow]
  /\ links \in [Run -> SUBSET Material]
  /\ exports \subseteq Payload
  /\ queue \in [Run \X Client -> Nat]
  /\ req \in [Client -> Request]
  /\ wk \in [Worker -> Task]
  /\ dropped \in [Run -> BOOLEAN]

\* A copy of run r that a client, a request or a task still holds, against the
\* stored rows f.
Agrees(f, r, copy) ==
  copy # Absent =>
    /\ r \in Run /\ f[r] # Absent
    /\ copy.version <= f[r].version
    /\ copy.version = f[r].version => copy = f[r]

\* What row_version promises: whoever holds a copy of a run with the stored
\* version, however long ago it was read, holds the stored row.  Every write
\* path (requests, side effects, the worker's four writes) must bump it.
VersionIdentifiesRow ==
  /\ \A c \in Client : /\ Agrees(row, req[c].run, req[c].view)
                       /\ Agrees(row, req[c].run, req[c].base)
  /\ \A w \in Worker : Agrees(row, wk[w].run, wk[w].base)

\* The hand-off follows the commit: a message at the broker, a request about to
\* enqueue and a task past its first read name a run that exists, so the task
\* never answers not_found.
TasksNameCommittedRuns ==
  /\ \A r \in Run, c \in Client : queue[<<r, c>>] > 0 => Exists(r)
  /\ \A c \in Client : req[c].pc = "enqueue" => Exists(req[c].run)
  /\ \A w \in Worker : wk[w].pc # "idle" => Exists(wk[w].run)

\* Someone will still drive r: a request about to enqueue it, a message at the
\* broker or a task that executes it.
HasExecutor(r) ==
  \/ \E c \in Client : req[c].pc = "enqueue" /\ req[c].run = r
  \/ \E c \in Client : queue[<<r, c>>] > 0
  \/ \E w \in Worker : wk[w].pc # "idle" /\ wk[w].run = r

\* A run shown as RUNNING is being driven by someone, unless its hand-off was
\* lost (broker, API crash), its task was lost (worker crash), or a concurrent
\* write made the task's first or failure write stale.
RunningHasExecutor ==
  \A r \in Run :
    Exists(r) /\ row[r].status = "RUNNING" /\ ~ dropped[r] => HasExecutor(r)

\* A transition or an export, when it commits, finds the row exactly as the user
\* saw it when deciding: no decision of another writer is overwritten unseen.
WritesApplyToWhatWasSeen ==
  [][\A c \in Client :
       /\ req[c].pc = "commit" /\ req[c].act \in Transitions \cup {"export"}
       /\ req'[c].pc # "commit"
       /\ row' # row
       => row[req[c].run] = req[c].view]_vars

\* A run becomes COMPLETED only with a generated body stored, whatever other
\* tasks, pauses and reruns of the run are interleaved with the worker's writes.
CompletionHasBody ==
  [][\A r \in Run :
       /\ Exists(r) /\ row[r].status # "COMPLETED"
       /\ row'[r].status = "COMPLETED"
       => row'[r].content # NoText]_vars

\* The artifact an export stores is the body and the status the run has at the
\* moment the export commits, not those of an older read.
ExportIsSnapshot ==
  [][\A e \in exports' \ exports :
       /\ Exists(e.run)
       /\ e.status = row[e.run].status
       /\ e.content = row[e.run].content]_vars

\* With fair workers a run does not stay RUNNING for ever, unless its hand-off
\* or its task was lost.
RunningEnds ==
  \A r \in Run :
    (Exists(r) /\ row[r].status = "RUNNING")
      ~> ((Exists(r) /\ row[r].status # "RUNNING") \/ dropped[r])

\* What a reader of the board sees of the rows, and the promise made to him.
BoardOf(f) ==
  [r \in Run |-> IF f[r] # Absent
                 THEN [status |-> f[r].status, version |-> f[r].version]
                 ELSE Absent]
Board == INSTANCE RunBoard WITH Seed <- SeedStatus, board <- BoardOf(row)

\* Requests, broker and worker together implement the board: no status appears
\* outside the transition table and the worker's three, every change is visible
\* as one more version of one run, and no run vanishes or is created twice.
ImplementsBoard == Board!Spec

(***************************************************************************)
(* Properties that the repository states and the code does not keep.       *)
(***************************************************************************)
\* docs/02-workflow-state-machine.md: CANCELLED is a terminal status.  Once a
\* cancel was accepted the run stays cancelled.
CancelledIsFinal ==
  [][\A r \in Run :
       Exists(r) /\ row[r].status = "CANCELLED"
         => row'[r].status = "CANCELLED"]_vars

\* docs/adr/0004: a failing task sets FAILED.  Without crashes and with the
\* broker up, a created run that is RUNNING is driven by someone.
NoOrphanWithoutFaults ==
  \A r \in Run : Exists(r) /\ row[r].status = "RUNNING" => HasExecutor(r)

(***************************************************************************)
(* The inductive invariant.  ReqInv and TaskInv say what one request or    *)
(* one task knows about the stored rows f at each step it may be in.       *)
(***************************************************************************)
ReqInv(f, q) ==
  /\ q \in Request
  /\ q.pc \in {"commit", "enqueue"} => q.run \in Run
  /\ q.pc = "viewing" => q.view # Absent
  /\ q.pc = "commit" =>
       /\ q.act \in Action
       /\ q.act # "create" => q.base # Absent
       /\ q.act \in Transitions \cup SideEffects =>
            q.view # Absent /\ q.view.version = q.base.version
       /\ q.act \in Transitions => q.base.status \in StartsFrom[q.act]
  /\ q.pc = "enqueue" => f[q.run] # Absent
  /\ Agrees(f, q.run, q.view)
  /\ Agrees(f, q.run, q.base)

TaskInv(f, t) ==
  /\ t \in Task
  /\ t.pc # "idle" =>
       t.run \in Run /\ t.actor \in Client /\ f[t.run] # Absent
  /\ t.pc = "write" => t.text \in Text
  /\ t.pc = "done" => f[t.run].content # NoText
  /\ t.base # Absent /\ t.base.content # NoText => f[t.run].content # NoText
  /\ Agrees(f, t.run, t.base)

IInv ==
  /\ TypeOK
  /\ \A r \in Run, c \in Client : queue[<<r, c>>] > 0 => Exists(r)
  /\ \A c \in Client : ReqInv(row, req[c])
  /\ \A w \in Worker : TaskInv(row, wk[w])

\* Task w will still write an outcome over run r: it executes r and has not read
\* the row, for its last write, at a moment when it was not RUNNING.
Drives(w, r) ==
  /\ wk[w].pc # "idle" /\ wk[w].run = r
  /\ wk[w].pc \in {"done", "fail"} /\ wk[w].base # Absent =>
       wk[w].base.status = "RUNNING"

Driven(r) ==
  \/ \E c \in Client : req[c].pc = "enqueue" /\ req[c].run = r
  \/ \E c \in Client : queue[<<r, c>>] > 0
  \/ \E w \in Worker : Drives(w, r)

Owed(r) == Exists(r) /\ row[r].status = "RUNNING" /\ ~ dropped[r]

\* RunningHasExecutor made inductive: a task whose last write was prepared from
\* a row that was not RUNNING does not count, it may end without a trace.
DrivenInv == \A r \in Run : Owed(r) => Driven(r)

\* What any step does to the rows: none vanishes, a changed one has a higher
\* version, and a stored body is never cleared.
Grows(f, g) ==
  \A r \in Run : f[r] # Absent =>
    /\ g[r] # Absent
    /\ g[r] = f[r] \/ f[r].version < g[r].version
    /\ f[r].content # NoText => g[r].content # NoText
=============================================================================
