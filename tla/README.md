# Verification of the aipy content platform

These TLA+ modules model the parts of aipy whose correctness depends on the
order in which requests, database transactions, the message broker and worker
processes take their steps. TLC checks them on small instances; the TLA+ proof
system (TLAPS) proves the most important results for instances of any size.
Paths are relative to the repository.

## 1. The system

aipy is a multi-tenant editorial console: a FastAPI process
(`apps/api`, handlers in `routes/`, all reads and writes in `repositories.py`),
a Celery worker (`apps/worker/tasks.py`), PostgreSQL behind SQLAlchemy, Redis as
broker and as store of token revocations and login locks, and a web console that
only talks to the API.

| Component | State it keeps | Operations | Interacts with |
|---|---|---|---|
| Content runs (`repositories.py`, `routes/workflow_runs.py`, `content/state_machine.py`) | `content_run` rows with `status`, `content`, `updated_by`, `row_version`; `content_run_material` links; `content_export` rows | create, pause, resume, rerun, cancel, export, collect, link | broker (hand-off after commit), worker (writes the same rows), authorization |
| Workflow task (`apps/worker/tasks.py`) | what a running task remembers: run, actor, generated text | load status, mark RUNNING, generate, write content, write COMPLETED, write FAILED | content runs, LLM gateway, broker |
| Human tasks (`repositories.py`, `routes/human_tasks.py`) | `human_task` rows: status, decision, assignee, lease, `row_version` | claim, reassign, submit, approve, reject, assign | authorization, memberships |
| Materials, uploads, URL import | `material`, `material_file` | create, upload, download | content runs (collect, link) |
| Tokens and revocation (`modules/identity`) | revoked token and session ids with a lifetime | issue, verify, rotate, log out | every request |
| Login lockout (`login_lockout.py`, `routes/auth.py`, `authenticate`) | failure counter and lock per e-mail | record a failure, test, reset | login, `app_user` row |
| Authorization (`modules/authorization`) | roles, permissions, memberships (read per decision) | authorize, allowed actions | every content and task action |
| Members, roles, audit | memberships, accounts, role permissions, audit events | create, update, reset password, replace permissions, append | authorization, login |
| Workflow templates | templates and versions | publish | - |
| Model credentials and routing | credentials, routing policies, candidates | create, test, revoke, replace | audit |
| Quotas | policies, usage buckets (read only) | upsert, overview | audit |
| Schema and migrations (`migrations/versions`, `env.py`) | the schema, row security, seeded roles, backfilled statuses | upgrade, downgrade, fail, be interrupted | everything that maps a table |
| LLM gateway | none | complete | workflow task |
| Tenancy and sessions | transaction scope, row level security, `row_version` | begin, commit, roll back | everything that writes |

### What is hard

* **Read, then write.** A handler reads a row, checks the client's `If-Match`
  version, the policy and the state machine, then sends an UPDATE. Under READ
  COMMITTED other transactions commit in between; the only thing that notices is
  the version in the UPDATE (`mixins.py:47-61`) - and SQLAlchemy sends no UPDATE
  when the assignments change no column.
* **Commit, then hand-off.** `routes/workflow_runs.py` enqueues after the
  transaction; `tasks.py:136-149` logs and forgets a broker failure.
* **Five transactions of one task.** The task tests the status once
  (`tasks.py:101-105`) and later overwrites whatever status it reads; it may run
  beside user actions and beside another task of the same run.
* **Early acknowledgement.** A worker that dies loses its message.
* **The policy is read in a transaction of its own**, between the read of the row
  and its UPDATE.
* **Entries that expire, counters changed in several calls**: revocations and
  login failures in Redis.
* **Delete, then insert.** Replacing the permissions of a role or the candidates
  of a policy deletes the rows one statement sees and inserts others; what two
  replacements leave behind is decided by unique keys and by whether the parent
  row is written at all.
* **The change, then its audit event**, in two transactions.
* **Two branches of one revision tree** that create the same tables, with seeds
  that turn row security off and on again, in commands that may fail half way.

### What makes each component correct

* Content runs: a stored version identifies the row; an accepted transition or
  export applies to what the user saw; statuses follow the table of the state
  machine and the engine's three; a run exists before anyone is asked to execute
  it; a RUNNING run is being driven; COMPLETED means a body is stored; an
  exported artifact is the stored run.
* Human tasks: one decision per task, for ever; decision, lease and holder agree
  with the status; a claim is not stolen while its lease lasts; an action applies to what was seen.
* Tokens: a refresh token is used once; a logged-out session stays out.
* Lockout: a spent budget is followed by a lock, requests that passed the test
  before verify at most one password each while it lasts, and it ends; a login
  commits with the password the account has then.
* Authorization: the job title counts only while no role is assigned.
* Administration: every change has its audit event; what is stored is what one
  request asked for, never a mixture of two; a test passes on a credential that is
  in force.
* Migrations: the schema is the one the applied revisions define, whatever came
  before, but for the row security 0012 leaves on the role tables; tenant tables are isolated in every committed schema; a command is all
  or nothing; statuses agree with the labels they were filled from.

## 2. Modules

| Module | Kind | About |
|---|---|---|
| `ContentRun` | model | content runs, requests, broker, workers |
| `RunBoard` | abstract specification | what a reader of the board is promised |
| `MCContentRun` | TLC instances | who may do what in each run |
| `ContentRunProofs` | proofs | theorems about `ContentRun` |
| `HumanTask` | model | human tasks, requests, memberships, leases |
| `TaskBoard` | abstract specification | what a reader of the tasks is promised |
| `MCHumanTask` | TLC instances | policies of each run |
| `HumanTaskProofs` | proofs | theorems about `HumanTask` |
| `TokenRotation` | model | login, access check, refresh, logout, revocation store |
| `MCTokenRotation` | TLC instances | symmetry of the tabs |
| `TokenRotationProofs` | proofs | theorems about `TokenRotation` |
| `LoginLockout` | model | logins of one account, lock, counter, password |
| `MCLoginLockout` | TLC instance | three logins over either store |
| `LoginLockoutProofs` | proofs | theorems about `LoginLockout` |
| `Authorization` | operators | the policy and the order of its denials |
| `Administration` | model | members, roles, credentials, routes, quotas, audit; extends `Authorization` |
| `MCAdministration` | TLC instances | a tenant with two roles and two members |
| `AdministrationProofs` | proofs | theorems about `Administration` |
| `Migrations` | model | revisions, commands, seeded and backfilled rows |
| `MCMigrations` | TLC instances | symmetry of the tenants |
| `MigrationsProofs` | proofs | theorems about `Migrations`: branches, atomic commands |
| `MigrationsDataProofs` | proofs | theorems about `Migrations`: schema, isolation, seeded and filled rows |

### ContentRun

`row[r]` is the committed row of run number `r` (`Absent` before it is created),
with the columns the properties tell apart; `fresh` stands for
`updated_at_label`, which the seed fills with a label of its own and every write
sets to the same text, so it decides whether an UPDATE is sent. `links`,
`exports` are the other two tables. `queue` counts the copies of a message at the
broker: a bag, because nothing in the code relies on the order. `req[c]` is the
request of user `c`, `wk[w]` the task of worker `w`. `dropped[r]` is a history
variable: the hand-off or the task of `r` was lost, and nobody asked again.

| Code | Actions |
|---|---|
| `get_content_run_detail` (the version the client keeps) | `Look` |
| `apply_content_action`, up to the assignments | `ReadForAction`, `Refuse` |
| assignments, flush, commit | `CommitTransition`, `CommitExport`, `CommitLinks`, `LoseRace` |
| `link_material_to_run` | `ReadForLink`, `CommitLinks`, `LoseRace` |
| `create_content_run` | `ReadForCreate`, `CommitCreate`, `LoseRace` |
| `enqueue_content_run` | `Enqueue`, `EnqueueLost` |
| delivery | `Take` |
| `_load_status` and the test of `_TERMINAL` | `LoadStatus` |
| the SELECT of each later transaction | `ReadRow` |
| `_set_status(RUNNING)`, outside the `try` | `MarkRunning` |
| `select_gateway().complete` | `Generate` |
| the rest of the `try` block | `WriteContent`, `WriteCompleted` |
| the `except` block | `WriteFailed` |
| a process dies | `RequestCrash`, `WorkerCrash`, `EnqueueLost` |

`Stale(r, base, new)` is the heart of it: a write conflicts when it has something
to write *and* the stored version moved. `MarkRunning` and `WriteFailed` end the
task when stale, the writes of the `try` block go on to `fail`.

### RunBoard

The abstract specification has one variable, the status and version of each run,
and four kinds of step: a run appears RUNNING at version 0, a user's move along
the table, an engine write, an edit that leaves the status. Each changes one run
and adds one to its version. `ContentRun!ImplementsBoard` is its specification
under the mapping `BoardOf(row)`.

### HumanTask

`task[t]` is the row (`lease` says that `lease_expires_at` is set), `active` the
members whose membership is ACTIVE, `req[m]` the request of member `m`. A request
takes three steps, because
`SqlAuthorizationPolicyRepository.get_policy` opens its own transaction:
`ReadTask` (row read, `If-Match` compared, for assign the target's membership
tested), `Authorize` (the policy as stored now, then the state machine on the row
read before), `Commit` or `LoseRace`. `UpdateMember` is the administrator.
`LeaseEnds` lets the time of a lease pass: it adds the task to `overdue`, which a
write takes it off again, and which no guard reads, because no code compares
`lease_expires_at` with the time. It is there for what may be promised:
`HolderKeepsTask` speaks of leases that have not run out. Tasks exist only through
the seed script, hence `Init`.
Since no code stores `created_by` on them, the rule that separates creator and
approver never applies.

### TaskBoard

One variable: status, decision, assignee and version of each task. Four steps,
each on one pending task, each adding one to its version: a member becomes its
holder (`Hold`: a claim or an assign), it is reopened for anybody (`Release`), it
is decided (`Decide`), an edited text is submitted for a task that is held
(`Submit`). Nothing starts from a decided task. `HumanTask!ImplementsTaskBoard` is
its specification under the mapping `BoardOf(task)`; a write that changes only
editor or lease is a step too, since it raises the version.

### TokenRotation

One browser, whose tabs share the two cookies (`jar`: both hold the same pair).
`pairs` are the pairs issued, with session, time and the refresh token they came
from; `tokenEnd` and `sessionEnd` are the store: when the entry of a token id or a
session id ends, 0 if there is none. `Shared` chooses the store
(`get_revocations`): Redis, whose entries end, or the one of the process, whose
entries do not. A tick is a fraction of a second: expiries (`exp`) and lifetimes
(`_ttl`) are cut to whole seconds, the clock is not, and one tick later the entry
of a token may be gone while the token is still accepted. `out` remembers, for
each session, the earliest expiry among the refresh tokens that logged it out;
`req[c].barred`, that a request was sent after its session had been logged out.

| Code | Actions |
|---|---|
| `login`, a new session | `Login` |
| the cookies a request carries | `Send` |
| `_decode`, `is_token_revoked` | `CheckToken` (a refresh passes twice) |
| `is_session_revoked` | `CheckSession` |
| `consume_refresh_token`, Redis | `Consume` |
| `consume_refresh_token`, in process | `TestUsed`, `AddUsed` |
| `issue_token_pair` after it | `Rotate` |
| `revoke_access_token`, `revoke_session` | `RevokeAccess`, `RevokeSession` |
| the answer sets or deletes the cookies | `Receive` |
| the answer is lost, is a 401 without cookies, or a store call fails | `Abandon` |
| the clock; Redis drops what has ended | `Tick` |

### LoginLockout

The account has one key, hence one counter (`attempts`, with `life` seconds left)
and one `lock` (seconds left); `store` chooses Redis, where `record_failure` is
four calls, or the process, where it is one under a mutex. Time left instead of
the time makes the state space finite without a bound on the clock. `login[c]` is
a handler between two of its calls: `right` says whether the password typed is
the account's now (a reset makes it wrong), `current` whether the `app_user` row
the handler read is still the stored one (`last_login_at` is written under its
version).

| Code | Actions |
|---|---|
| `_reject_locked` | `Ask` |
| `authenticate`, the password | `Verify` |
| `authenticate`, the membership | `FindMember` |
| `authenticate`, `last_login_at` and commit | `Commit` |
| `reset` | `Reset` |
| `record_failure`, in process | `RecordFailure` |
| `record_failure`: INCR, EXPIRE, SETEX, DEL | `Incr`, `Expire`, `SetLock`, `DeleteCounter` |
| `reset_member_password`; changes of the membership | `ResetPassword`, `ChangeMember` |
| a call fails or the handler dies; the process restarts | `Abandon`, `Restart` |
| the clock | `Tick` |

### Authorization and Administration

The endpoints of the administration work alike, and one module models them: an
object is a versioned row (`fields[o]`, the columns that properties tell apart)
with the rows that belong to it (`rows[o]`: `role_permission` of a role,
`model_route_candidate` of a policy, each named with the request that inserted
it). A request loads its object (`Load`), deletes what belongs to it where the
body says so (`Delete`: the rows this statement sees), and writes in one
transaction (`Flush`): only columns that changed, under the version the row was
loaded with, and the new rows, unless a unique key is taken. `Changed` and
`StaleRow` are the heart: a request that changes no column of the parent row does
not notice that another one came first. `Audit` is the second transaction, `Die`
a crash or an error anywhere. `Requests` lists what the endpoints accept, with
the checks the schemas and handlers make before they load anything.

`area` is the part of the administration a behaviour is about; the parts share
only the audit log, so one behaviour exercises one of them. `Authorization` gives
the decision as an operator: `Denials` in the order of the code, `Decision` the
first that applies. `Administration` evaluates it on the rows it changes.

### Migrations

`Upgrade[r]` and `Downgrade[r]` are the tables, columns, late constraints,
policies and forced row security each of the 16 revisions creates and drops;
`Fill` and `Forget` what it does to rows: roles and their default (`FillA06`,
`FillA12`), bindings of members, row security switched off and on around the
seeds, statuses filled from labels (`FillB07`). `db` is the committed database and
`work` what the running command made of it: `env.py` runs a command in one
transaction, so `Commit` takes all of it and `Rollback` none. `Command` begins an
upgrade to a revision or to `heads`, in either order of the branches, or a
downgrade; `Step` applies the next revision, which fails where it creates a table
that is there (`Clash`). The migrating role (`owner`) may bypass row security or
not: then a forced table without a tenant in the session shows it no row
(`Visible`). Between commands tenants appear, runs get labels, and the program
writes statuses once its columns are there.

## 3. Runs

The passing runs check deadlock (users may always look again, a tab may always
send or abandon, a command may always begin), except `administration`, whose
bound on the number of requests lets a behaviour end.

| Run | Question and answer |
|---|---|
| `content_core` | Two editors with every state action, two workers, crashes and an unreachable broker, one run seeded in each of the seven statuses or created. The version identifies the row; messages name committed runs; a RUNNING run has an executor unless it was dropped; transitions apply to what was seen; COMPLETED has a body; the whole implements `RunBoard`. |
| `content_side_effects` | A collector who reruns and a colleague who exports, cancels and collects, two different bodies: the artifact is the stored run. With a fair worker, RUNNING ends or the run was dropped. |
| `content_cancelled` | *Violation.* docs/02 calls CANCELLED terminal; the task's later writes undo a cancel. |
| `content_orphan` | *Violation.* ADR-0004 says an exception sets FAILED; a stale first or failure write leaves RUNNING with nobody driving it, without any fault. |
| `human_core` | Two members with every action, a user id from outside, memberships suspended and restored, leases running out: decided once, columns agree, holders keep their task while the lease lasts, actions apply to what was seen; the whole implements `TaskBoard`. |
| `token_redis` | Two tabs use, refresh and log out over Redis across the life of the refresh token. A token is rotated twice only from the last second of its life on (truncation and the skew of `_decode`); until the refresh token that was logged out expires, nothing sent after the logout is granted. |
| `token_process` | The same over the store of one process: used tokens stay on record, a logged-out session stays refused. |
| `login` | Three logins over either store, handlers that die between calls, resets and restarts. A lock bounds what is still verified, follows a spent budget, is prolonged by each login in flight at most once, and ends; counters of Redis expire; a login commits with the password of that moment. |
| `administration` | Two handlers on the same object in each area: what is stored is what one request asked for, replaced rows are gone, a test passes on a credential in force, the trail is complete but for handlers that died. |
| `role_fallback` | *Violation.* `policy_repository.py` says the job title counts only while no role is assigned; a role whose permissions were all removed falls back too. |
| `schema` | Two tenants live through every order of upgrades and downgrades, by either kind of owner, with failures anywhere: the schema is what the revisions define, plus exactly the row security that 0012 leaves on the role tables; tenant tables are isolated, roles have one default, statuses match labels, commands are atomic, one branch is applied at most. |
| `schema_head` | *Violation.* ci.yml:73-76 (`alembic check` after `upgrade head`), docs/08:188 and deploy/compose.yaml:112 take a database at the head to have what the models map; either head lacks tables and columns the models map, and no command reaches both. |

More disagreements between documents and code were met while modelling; no run
states them, because each follows from a line or two:

* `models.py:170`, `repositories.py:160-161`, docs/02:490 (section 11.2) and the column
  comment of migration 20260925_0007:97 let others claim a task whose lease has run
  out; nothing reads the lease, `claim` starts from OPEN only, so an overdue task
  stays with its holder until an assign or a reassign. ADR-0003:86 lists the recovery
  as not done. `HolderKeepsTask` makes no promise about an overdue task.
* ADR-0003:35 lets `submit` start from OPEN; the table lets it start from CLAIMED.
* ADR-0003:69 promises that a listed action is accepted; `_allowed_actions` does not
  look at the status.
* ADR-0005 says that side effects check the lock; a collect by the last editor
  changes no column of the run, so it sends no UPDATE and links to a run it did not
  see.
* docs/07:42 keeps the record of a used refresh token for a buffer beyond its
  expiry; over Redis the entry ends up to a second before the expiry and the token
  is accepted for the skew longer (`ForkOnlyPastExpiry` states what remains true).
* docs/08:99: a logout ends the whole session; a pair that a racing refresh obtained
  outlives the entry of the session in Redis.
* `ports.py:27` says that a refresh token is consumed atomically; the in-process
  store tests, then adds (`TestUsed`, `AddUsed`), with no lock between the threads.
* `repositories.py:1705-1707` replaces all permissions of a role; two replacements at
  once may leave the union, since neither writes the role row
  (`ReplacementIsTotal` states what remains true).
* docs/04:181 asks the system to keep an administrator; nothing does.
* `repositories.py:2084-2088`: a test of a revoked credential replaces REVOKED by
  INVALID, and the next test passes.
* `build_session` lists the permissions of the job title, decisions use role rows.
* 0012:25 "Rebinds members that have a NULL role_id": the role rows are hidden again
  when an ordinary owner binds them, so nobody is bound. 0012:9-10 says that 0006
  forced row security on the roles; it did not, and 0012 leaves them unlocked where
  there is no tenant.
* 0012:200-202 undoes 0012 by dropping the two policies. ENABLE and FORCE ROW LEVEL
  SECURITY, which its seed has set on `role` and `role_permission` (lines 103-104,
  167-168), stay, as do the roles: after `downgrade` to 0011 an ordinary role sees no
  row of the two tables, where it saw all before 0012. Only the downgrade of 0006,
  which drops the tables, ends it. `SchemaMatchesRevisions` names this as the one
  thing a downgrade leaves behind.
* `members.py:89` and its likes commit the change, then the audit event: a process that
  dies in between leaves a change without an event, and nothing finds it later
  (`AuditComplete` excuses exactly the handlers that died).
* 20260925_0007:18-20 fills statuses from labels; an ordinary owner sees no row under
  forced row security, and every run gets the column's default (`StatusMatchesLabel`
  says so in its premise).
* `seed_dev.py` starts with `alembic upgrade head`, which the two heads make fail;
  its `Role(is_system, status)` does not fit the ORM's columns either.

### Bounds

* `MaxRun`: one run. Runs share no row and a worker executes one task at a time, so
  they do not interact; two users who create at once compete for its number.
* `MaxVersion`: no *request* starts on a row that old; the writes of tasks and of
  requests under way go beyond it, so a bounded state space still contains a full
  task after the last user action. Three user writes suffice for
  pause-resume-rerun overlaps with two live tasks.
* Two users and two workers: every property relates at most two writers of one
  row. Symmetry permutes workers, and users with equal permissions; the run with
  different users (`SideEffectUsers`), which checks liveness too, uses none.
* `Text`: one body where only its presence matters, two where an artifact could
  hold an old one.
* `human_core` uses one task (a request concerns one task only) and version
  bound three: claim, release and decision, each able to race another.
* Tokens: two tabs (a fork needs two requests with one token), one login (sessions
  share nothing), two or three pairs (a token, its successor, and the second
  successor a fork would be). Lifetimes of two to four ticks stand for 15 minutes
  and 14 days, one or two ticks of skew for 30 s and of `MinTTL` for 60 s: what
  matters is that the clock passes the end of the entry, the expiry and the end of
  the skew, which `MaxTime` allows. `token_redis` counts whole seconds, to afford a
  third pair; what truncation to seconds does is exercised by `token_process`, with
  two ticks to a second, and proved for every number of ticks.
* Login: three logins (one that locks, one that resets or counts, one that passed
  the test before), a budget of two (the first failure, which sets the lifetime,
  and the last), a window of two seconds (a lock that is new and one about to end),
  one death between calls of `record_failure`: a second one adds only states in
  which the properties say nothing.
* Administration: two handlers (each property relates two requests at a time, and
  a third replacement can only meet what two left); two to four requests in all,
  fewest in `people`, where members, roles and permission lists multiply, four for
  a credential (create, test, revoke and test again); lists of up to two candidates
  of one model, limits of 1 and 2 or none. The proofs cover any number.
* Migrations: the tree is the real one; two tenants (one seen by a seed and one that
  appears later), each with one member and at most one run.

### Fairness

Two runs assume any. `content_side_effects`: weak fairness of each worker's steps
(a worker process keeps executing the task it took and takes messages while there
are any: Celery's loop) and of `Enqueue` (a server thread that committed reaches
the next line). Users owe nothing; crashes and broker failures are never forced
and never excluded. `login`: weak fairness of `Tick`, because time passes and Redis
drops what has expired; no client and no handler owes a step, so the lock ends
although logins that passed the test before may set it again.

## 4. Proofs

Assumptions on constants are the named `ASSUME`s of the models: bounds are
naturals, lifetimes positive, policies are functions to sets of actions, the sentinels for NULL are
not values. Sets of users, workers, runs, materials and tasks are arbitrary.

**ContentRunProofs.** The inductive invariant `IInv` joins the types with what
each request and each task knows of the stored rows: `ReqInv` and `TaskInv`. The
core is `Agrees`: a copy is not newer than the stored row, and equal to it when
the versions are equal. It is not inductive alone: a commit needs to know that
the row it read has the version the user saw, that its status was a legal start,
and that a task past `WriteContent` left a body (`TaskInv`). Every step `Grows`
the rows (a run never vanishes, a changed one has a higher version, a body is
never cleared), so the knowledge of all *other* processes survives by one lemma
each (`ReqInvStays`, `TaskInvStays`) and each action needs only its own case. From
`IInv` follow type correctness, `VersionIdentifiesRow`, `TasksNameCommittedRuns`,
the action properties `WritesApplyToWhatWasSeen`, `ExportIsSnapshot`,
`CompletionHasBody`, and the refinement `ImplementsBoard` (`RowChange` splits a
step by what it does to the rows, `BoardChange` and `BoardAppear` map each kind).

`RunningHasExecutor` needs a second invariant on top, `DrivenInv`. The property
counts any task as an executor, but a last write prepared from a row that already
has the status it would set changes no column, sends no UPDATE and notices
nothing: that task ends without a trace. So one asks who `Drives` a run: a task,
unless its last write was prepared from a row that was not RUNNING. Prepared from
a RUNNING row, the write ends RUNNING, or is stale, and then the task goes on to
its failure write or the run is `dropped`. Whoever makes a run RUNNING is about to
hand it over or is such a task, and each step leaves who drives a run alone,
hands it on (request to message, message to task) or ends the debt (`Owed`).

**HumanTaskProofs.** The same shape: `ReqInv` says that a request at `commit`
holds a base row that agrees with the stored one, has the version the user saw
and a status the action may start from. From `IInv` follow type correctness,
`ColumnsAgree`, `DecidedOnce` (a decided task is COMPLETED, no action starts
there, and a write that conflicts is refused), `HolderKeepsTask` and
`ActionsApplyToWhatWasSeen`. That a lease runs out changes no row and no request
(`SurroundingsStep`); only a lease that is set does (`LateLeases`). The refinement `ImplementsTaskBoard` rests on the same
facts about a commit (`CommitFacts`): what it overwrites is the row its action
started from, so each of the six actions is one step of the board (`BoardStep`)
and everything before it a stutter.

**TokenRotationProofs.** `IInv` joins the types with `EndInv` (an entry of Redis
ends less than a second before its token does: `EndBounds`, from the arithmetic of
`Whole`), `RecordInv` (what was used or logged out is on record or `Past`: expired,
or in its last second), `ForkInv` (two exchanges of one token, by a pair issued or
by a request about to issue one, happen only when it is past) and `ReqInv` (a
barred request beyond its last check is past). `Later` says what every step
leaves: pairs stay, time goes on, a logged-out session stays so, to an earlier
expiry at most; what is past stays past, so the requests a step does not touch
keep what they know, by one lemma (`OthersInformed`). The time bounds are free of
any relation between the lifetimes, the skew and `MinTTL`, except that `MinTTL` is
at least a second. From `IInv` follow type correctness, `ForkOnlyPastExpiry` (over
Redis), `LogoutHolds` (both stores), and, over the process-local store,
`RecordOutlivesToken` and `LogoutIsLasting`.

**LoginLockoutProofs.** `LockFollowsBudget` is not inductive: a handler between
INCR and EXPIRE holds a spent counter only if it is the one that spent it, so
`BudgetInv` asks for a handler that is `Closing` (about to lock, to delete, or to
set the lifetime of a counter whose first failure spent the budget). `PasswordInv`
says that who holds a current row holds the right password: a reset outdates every
row. `GuessesBounded` is proved by counting: `late` grows when a handler leaves
`Verifying`, nobody enters it under a lock, and the handler that set the lock is
not in it. `LockRunsOut` is the safety half of `Recovers`: while a lock lasts
nobody joins the logins that may set it again (`Locking`: they have all passed
`_reject_locked`), and whoever sets it leaves them, so with n logins in flight an
account stays locked for at most n windows at a stretch. The theorems hold for any finite set of clients, any budget and window.

**AdministrationProofs.** `IInv` says of a request what it asked for and, once it
has loaded, that its row is what is stored while it is `current` (`CurrentInv`);
of history that a request is named once, before anything it changes (`IdInv`); of
rows that what a pending DELETE has not seen came after the request (`RowsInv`) and
that a pending DELETE has seen all candidates of a policy or none (`RouteInv`).
The last holds because a list of candidates is numbered from 1: of two requests
that delete the same rows, the second finds the key of the first one's list taken,
or inserts nothing. That is why `CandidatesOfOneRequest` holds for policies but
not for roles. A step that commits nothing is covered by one lemma (`MoveRequest`);
a commit is taken apart into requests, names, columns, rows and candidates. From
`IInv` follow all properties of the run `administration`, `PassedUnrevoked`
included, for any sets of objects, handlers and requests.

**MigrationsProofs.** `BranchInv`: a branch that is applied has created the table
`role`, and only a downgrade of that branch drops it; `GoalInv`: what the running
command has done and has yet to do make up its goal. `OneBranch` and
`CommandIsAtomic` follow. The tree is a constant of the module, so the proofs
evaluate the records of the revisions they need.

**MigrationsDataProofs.** The inductive invariant is `SInv`; `DataInv` says the same
of the committed database and of what the running command made of it. `Closed`:
a revision is applied over all that is below it, because both orders in which
`heads` and the downgrades go through the tree respect `Below`, which is
transitive. `SchemaIsMade`: the schema is the union of what the applied revisions
create, and the role tables are forced besides if and only if roles that only 0012
seeds are there (`SeededBy12`): its downgrade leaves both. The proof keeps that
apart from the rest (`MadeBy`, `RoleLock`): a revision locks both role tables or
none (`RoleTablesLocked`), 0012 locks them where it seeds (`BuildLock`), and what
drops them takes the roles along (`StripLock`). An upgrade adds its part; that a downgrade takes away just its own part
needs that every table, column, constraint and policy has one home among the
revisions that can be applied together, and this is where `OneBranch` is used: the
two branches create the same role tables. `RoleInv`: a tenant with any role has
the administrator, the key 0012 tests before it would seed a second default; and
the role tables are locked again once a tenant has roles. `RunInv`: rows filled
under an owner that sees them agree with their labels, and a run without a label
is no run. `LineInv`: the goal of a command is closed, and an upgrade repeats
nothing. From `SInv` follow type correctness, `SchemaMatchesRevisions`,
`TenantTablesIsolated`, `OneDefaultRole` and `StatusMatchesLabel`, for any set of
tenants. `NeverServed` strengthens what the run `schema_head` refutes on one
behaviour: *no* committed database ever has all tables and columns the models map,
because no closed set of revisions with one branch creates them.

**Only model-checked.** The liveness properties `RunningEnds` and `Recovers`,
because TLAPS has no rules for liveness under fairness or ENABLED (of `Recovers` the
safety half is proved), and the refuted properties. Every invariant and action
property of the passing runs is proved. Recursive definitions are avoided.

## 5. What is left out

* Of content runs: the date in a run's code (numbers are compared, so two runs
  created on two days get two codes as here), titles and display columns, an
  empty answer of the gateway (a body is a body), the limit and text matching of
  collect (`Matches` is any set of materials), failures after the task's commit.
* Of sessions: who the user is and whether the account or workspace is still there
  (a refusal is `Abandon`); a second clock (the API hosts, Redis and the issuer read
  one clock; the browser's own is not trusted: it may drop a cookie at any time);
  the delay between computing a lifetime and Redis storing it, which only makes
  the entry end later; a restart of the process, which empties its store (its
  docstring says so); signatures and the other claims.
* One tenant: isolation between tenants is enforced by database policies.
* The 404 answers: nothing is ever deleted.
* Of logins: what the pair is made of (`TokenRotation`), the mapping of e-mails to
  keys (one key here), the generic wording of refusals, and the store failing open
  or closed (a failed call is `Abandon`: the request ends).
* Of the administration: masking, fingerprints and encryption of credentials, the
  text of audit events (which change an event reports is kept, not its `before` and
  `after`), names of roles beyond their uniqueness, pagination. Data scopes and
  workflow-state rules of the authorization service: the repository supplies only
  grants over the whole tenant and no rule.
* Of the migrations: comments, indexes, column types and defaults, rows that
  nothing later depends on (templates, quotas, plans).
* **Not modelled at all.** *Materials, uploads and URL import*: single inserts
  without a later change of state, a number by `max(seq)` guarded by a unique code
  as in `CommitCreate`; parsing and fetching are text processing and I/O. *Workflow
  templates*: `publish` promotes a DRAFT version, and nothing writes one. *Downloads*
  only read. *LLM gateway*: one outside call, a body or an error in `ContentRun`.
  *Seeds and scripts*: `seed_dev` ends at its first command; what it would insert is
  `Init` of `ContentRun` and `HumanTask`; the smoke scripts are clients. *Health and
  configuration* keep no state. *Web console*: a client of the API.

## 6. Plan

1. *Done:* `ContentRun` with `RunBoard`, `HumanTask`, `TokenRotation`, and proofs.
2. *Done:* `LoginLockout`, `Authorization` with `Administration`, `Migrations`, and
   proofs.
3. *Done:* proofs of `RunningHasExecutor`, of the schema and what the migrations
   fill in (`MigrationsDataProofs`), of the safety half of `Recovers`; `TaskBoard` and
   the proof that `HumanTask` implements it.
4. Abstract specifications of the token store (a token is exchanged once, a session
   ends once) and of the audit trail, with proofs that `TokenRotation` and
   `Administration` implement them; the order of the denials in `Authorization` as
   theorems about its operators.
