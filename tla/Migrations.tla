----------------------------- MODULE Migrations -----------------------------
(***************************************************************************)
(* The Alembic revisions of migrations/versions and the commands that run  *)
(* them: one transaction per command, over a trunk of five revisions from  *)
(* which two branches leave.  One branch (A) adds roles with a default,    *)
(* templates, audit, models and quotas; the other (B) adds roles with a    *)
(* status, run and task statuses, exports and files.                       *)
(*                                                                         *)
(* `alembic upgrade head' is refused, because the tree has two heads, and  *)
(* changes nothing; `heads' and single revisions are what can be asked     *)
(* for.                                                                    *)
(*                                                                         *)
(* Of a table the model keeps the columns that only some revisions give    *)
(* it, the constraints added after its creation, and its row security.     *)
(***************************************************************************)
EXTENDS Naturals, Sequences, SequencesExt

CONSTANTS
  Tenant,   \* tenants that may be provisioned
  Owner     \* kinds of the migrating role: bypass, or ordinary, to which row security applies

ASSUME OwnerAssumption == Owner \subseteq {"bypass", "ordinary"}

(***************************************************************************)
(* The revisions, each as what its upgrade creates and its downgrade       *)
(* drops.                                                                  *)
(***************************************************************************)
Trunk == <<"0001", "0002", "0003", "0004", "0005">>
BranchA == <<"A06", "A07", "A08", "A09", "A10", "A11", "A12">>
BranchB == <<"B06", "B07", "B08", "B09">>
\* The orders in which a command takes revisions: alembic is free to take
\* either branch first.
AThenB == Trunk \o BranchA \o BranchB
BThenA == Trunk \o BranchB \o BranchA
Newest == Reverse(AThenB)
Line == [none |-> <<>>, AB |-> AThenB, BA |-> BThenA, down |-> Newest]
Revision == ToSet(Trunk) \cup ToSet(BranchA) \cup ToSet(BranchB)

\* down_revision, all the way down.
Below ==
  [r \in Revision |->
     {x \in Revision : \E line \in {Trunk \o BranchA, Trunk \o BranchB} :
        \E i, j \in DOMAIN line : i < j /\ line[i] = x /\ line[j] = r}]

\* locked: row security enabled and forced.
Nothing == [table |-> {}, column |-> {}, key |-> {}, policy |-> {}, locked |-> {}]
Isolation(tables) == tables \X {"isolation"}
\* _enable_rls
Isolated(change, tables) ==
  [change EXCEPT !.policy = @ \cup Isolation(tables), !.locked = @ \cup tables]
Columns(t, names) == {t} \X names

TenancyTables ==
  {"plan", "tenant", "tenant_subscription", "app_user", "tenant_membership"}
OrganizationTables == {"team", "team_member", "workspace", "brand"}
R0001 == Isolated([Nothing EXCEPT !.table = TenancyTables \cup OrganizationTables],
                  (TenancyTables \cup OrganizationTables) \ {"plan", "app_user"})
R0002 == LET tables == {"content_run", "human_task", "material"}
         IN Isolated([Nothing EXCEPT !.table = tables], tables)
R0003 == [Nothing EXCEPT !.policy = {<<"tenant_membership", "self_lookup">>}]
R0004 == [Nothing EXCEPT !.key = {"content_run", "human_task", "material"} \X {"tenant_fk"}]
R0005 == Nothing   \* comments

RA06 == [Nothing EXCEPT
          !.table = {"role", "role_permission"},
          !.column = Columns("role", {"is_builtin", "is_default"})
                       \cup Columns("role_permission", {"data_scope"})
                       \cup Columns("tenant_membership", {"role_id"}),
          !.key = {<<"tenant_membership", "role_fk">>}]
RA07 == LET tables == {"workflow_template", "workflow_template_version"}
        IN Isolated([Nothing EXCEPT !.table = tables], tables)
RA08 == Isolated([Nothing EXCEPT !.table = {"audit_event"},
                                 !.key = {<<"audit_event", "append_only">>}],
                 {"audit_event"})
RA09 == Isolated([Nothing EXCEPT !.table = {"model_provider", "model_definition",
                                            "tenant_model_credential"}],
                 {"tenant_model_credential"})
RA10 == LET tables == {"model_route_policy", "model_route_candidate"}
        IN Isolated([Nothing EXCEPT !.table = tables], tables)
RA11 == LET tables == {"quota_policy", "quota_usage_bucket"}
        IN Isolated([Nothing EXCEPT !.table = tables], tables)
RA12 == [Nothing EXCEPT !.policy = Isolation({"role", "role_permission"})]

\* Mutant: the role tables are left to the other branch.
NoRoleTables == Isolated([Nothing EXCEPT !.table = {"membership_role"}], {"membership_role"})
RB06 == LET tables == {"role", "role_permission", "membership_role"}
        IN Isolated([Nothing EXCEPT
                       !.table = tables,
                       !.column = Columns("role", {"is_system", "status"})
                                    \cup Columns("role_permission", {"tenant_id"})],
                    tables)
StatusColumns ==
  Columns("content_run", {"status"})
    \cup Columns("human_task", {"status", "decision", "assignee_id", "lease_expires_at"})
RB07 == [Nothing EXCEPT !.column = StatusColumns,
                        !.key = {<<"content_run", "status_allowed">>,
                                 <<"human_task", "status_allowed">>,
                                 <<"human_task", "decision_allowed">>}]
RB08 == LET tables == {"content_export", "content_run_material"}
        IN Isolated([Nothing EXCEPT
                       !.table = tables,
                       !.column = Columns("content_run", {"content", "exported_at"}),
                       !.key = {"content_run", "material"} \X {"tenant_id_id"}],
                    tables)
RB09 == Isolated([Nothing EXCEPT !.table = {"material_file"}], {"material_file"})

\* What a downgrade drops by name; dropping a table drops all that belongs to it.
D0001 == [Nothing EXCEPT !.table = TenancyTables \cup OrganizationTables]
D0002 == [Nothing EXCEPT !.table = {"material", "human_task", "content_run"}]
D0003 == [Nothing EXCEPT !.policy = {<<"tenant_membership", "self_lookup">>}]
D0004 == [Nothing EXCEPT !.key = {"content_run", "human_task", "material"} \X {"tenant_fk"}]
D0005 == Nothing
DA06 == [Nothing EXCEPT !.table = {"role_permission", "role"},
                        !.column = Columns("tenant_membership", {"role_id"}),
                        !.key = {<<"tenant_membership", "role_fk">>}]
DA07 == [Nothing EXCEPT !.table = {"workflow_template_version", "workflow_template"}]
DA08 == [Nothing EXCEPT !.table = {"audit_event"}]
DA09 == [Nothing EXCEPT !.table = {"tenant_model_credential", "model_definition",
                                   "model_provider"}]
DA10 == [Nothing EXCEPT !.table = {"model_route_candidate", "model_route_policy"}]
DA11 == [Nothing EXCEPT !.table = {"quota_usage_bucket", "quota_policy"}]
DA12 == [Nothing EXCEPT !.policy = Isolation({"role_permission", "role"})]
DB06 == [Nothing EXCEPT !.table = {"membership_role", "role_permission", "role"}]
\* Mutant: a column is forgotten.
DB07KeepsLease ==
  [Nothing EXCEPT !.column = StatusColumns \ Columns("human_task", {"lease_expires_at"}),
                  !.key = {<<"human_task", "decision_allowed">>,
                           <<"human_task", "status_allowed">>,
                           <<"content_run", "status_allowed">>}]
DB07 == [Nothing EXCEPT !.column = StatusColumns,
                        !.key = {<<"human_task", "decision_allowed">>,
                                 <<"human_task", "status_allowed">>,
                                 <<"content_run", "status_allowed">>}]
DB08 == [Nothing EXCEPT !.table = {"content_run_material", "content_export"},
                        !.column = Columns("content_run", {"exported_at", "content"}),
                        !.key = {"content_run", "material"} \X {"tenant_id_id"}]
DB09 == [Nothing EXCEPT !.table = {"material_file"}]

Upgrade ==
  [r \in Revision |->
   CASE r = "0001" -> R0001 [] r = "0002" -> R0002 [] r = "0003" -> R0003
     [] r = "0004" -> R0004 [] r = "0005" -> R0005 [] r = "A06" -> RA06
     [] r = "A07" -> RA07 [] r = "A08" -> RA08 [] r = "A09" -> RA09
     [] r = "A10" -> RA10 [] r = "A11" -> RA11 [] r = "A12" -> RA12
     [] r = "B06" -> RB06 [] r = "B07" -> RB07 [] r = "B08" -> RB08
     [] r = "B09" -> RB09]
Downgrade ==
  [r \in Revision |->
   CASE r = "0001" -> D0001 [] r = "0002" -> D0002 [] r = "0003" -> D0003
     [] r = "0004" -> D0004 [] r = "0005" -> D0005 [] r = "A06" -> DA06
     [] r = "A07" -> DA07 [] r = "A08" -> DA08 [] r = "A09" -> DA09
     [] r = "A10" -> DA10 [] r = "A11" -> DA11 [] r = "A12" -> DA12
     [] r = "B06" -> DB06 [] r = "B07" -> DB07 [] r = "B08" -> DB08
     [] r = "B09" -> DB09]

(***************************************************************************)
(* The database.  Of the data the model keeps what the revisions fill in:  *)
(* each tenant has one member and perhaps one run.  A label is named by    *)
(* the status it displays.                                                 *)
(***************************************************************************)
Label == {"RUNNING", "WAITING_HUMAN", "COMPLETED", "FAILED", "PAUSED", "CANCELLED"}
NoRun == [label |-> "none", status |-> "none"]
Roles == {"admin", "editor", "reviewer", "viewer"}
RoleTables == {"role", "role_permission"}

VARIABLES
  db,       \* the committed database
  work,     \* what the running command has made of it, in its transaction
  way,      \* the order of the running command, or none
  plan,     \* the revisions it has yet to upgrade or downgrade
  goal,     \* the revisions applied when it has succeeded
  owner     \* the role it connects as
command == <<way, plan, goal>>
vars == <<db, work, command, owner>>

Init ==
  /\ db = [schema |-> Nothing, applied |-> {}, tenants |-> {}, active |-> {},
           bound |-> {}, role |-> {}, run |-> [t \in Tenant |-> NoRun]]
  /\ work = db /\ way = "none" /\ plan = {} /\ goal = {}
  /\ owner \in Owner

\* A forced table without a tenant in the session shows no row to an ordinary role.
Visible(d, table) == owner = "bypass" \/ table \notin d.schema.locked
Relaxed(d, tables) == [d EXCEPT !.schema.locked = @ \ tables]
\* Mutant: row security is left off after the seed.
LeftOff(d, tables) == d
Restored(d, tables) == [d EXCEPT !.schema.locked = @ \cup tables]

(***************************************************************************)
(* What upgrades do to the rows.                                           *)
(***************************************************************************)
\* INSERT ... ON CONFLICT (tenant_id, code) DO NOTHING
\* Mutant: a role that is there becomes a default if the seed says so.
MergeSeed(rows, seed) ==
  {<<r[1], r[2], r[3] \/ \E s \in seed : s[1] = r[1] /\ s[2] = r[2] /\ s[3]>> : r \in rows}
    \cup {s \in seed : ~\E r \in rows : r[1] = s[1] /\ r[2] = s[2]}
Seeded(rows, seed) ==
  rows \cup {s \in seed : ~\E r \in rows : r[1] = s[1] /\ r[2] = s[2]}
WithAdmin(d) == {r[1] : r \in {x \in d.role : x[2] = "admin"}}

FillA06(d) ==
  LET seen == IF Visible(d, "tenant") THEN d.tenants ELSE {}
      seeded == [d EXCEPT !.role = Seeded(@, (seen \X {"admin"} \X {FALSE})
                                               \cup (seen \X {"editor"} \X {TRUE}))]
  IN IF Visible(d, "tenant_membership")
     THEN [seeded EXCEPT !.bound = @ \cup (d.active \cap WithAdmin(seeded))]
     ELSE seeded
\* The templates seeded while row security is off are not kept.
FillA07(d) ==
  LET tables == {"tenant", "workflow_template", "workflow_template_version"}
  IN Restored(Relaxed(d, tables), tables)
FillA11(d) ==
  Restored(Relaxed(d, {"tenant", "quota_policy"}), {"tenant", "quota_policy"})
\* _ROLES
RoleSeed(tenants) == {<<t, c, c = "admin">> : t \in tenants, c \in Roles}
FillA12(d) ==
  LET open == Relaxed(d, {"tenant"})
      listed == Restored(open, {"tenant"})
      seeded == IF open.tenants = {} THEN listed
                ELSE [Restored(Relaxed(listed, RoleTables), RoleTables)
                        EXCEPT !.role = Seeded(@, RoleSeed(open.tenants))]
      relaxed == Relaxed(seeded, {"tenant_membership"})
      rebound == IF Visible(relaxed, "role") THEN WithAdmin(relaxed) \cap d.tenants ELSE {}
  IN Restored([relaxed EXCEPT !.bound = @ \cup rebound], {"tenant_membership"})

\* Mutant: a case of the backfill is missing.
BackfillWithoutCancelled(label) ==
  IF label \in {"WAITING_HUMAN", "COMPLETED", "FAILED", "PAUSED"} THEN label ELSE "RUNNING"
\* Mutant: a default that is no displayed status.
BackfillToDraft(label) ==
  IF label \in {"WAITING_HUMAN", "COMPLETED", "FAILED", "PAUSED", "CANCELLED"}
  THEN label ELSE "DRAFT"
Backfill(label) ==
  IF label \in {"WAITING_HUMAN", "COMPLETED", "FAILED", "PAUSED", "CANCELLED"}
  THEN label ELSE "RUNNING"
FillB07(d) ==
  LET filled(row) == IF Visible(d, "content_run") THEN Backfill(row.label) ELSE "RUNNING"
  IN [d EXCEPT !.run = [t \in Tenant |->
        IF @[t] = NoRun THEN NoRun
        ELSE [label |-> @[t].label, status |-> filled(@[t])]]]

Fill(d, r) ==
  CASE r = "A06" -> FillA06(d) [] r = "A07" -> FillA07(d) [] r = "A11" -> FillA11(d)
    [] r = "A12" -> FillA12(d) [] r = "B07" -> FillB07(d) [] OTHER -> d

\* What a downgrade takes away with the tables and columns.
Forget(d, r) ==
  CASE r = "A06" -> [d EXCEPT !.role = {}, !.bound = {}]
    [] r = "B07" -> [d EXCEPT !.run = [t \in Tenant |->
                       [label |-> @[t].label, status |-> "none"]]]
    [] r = "0002" -> [d EXCEPT !.run = [t \in Tenant |-> NoRun]]
    [] r = "0001" -> [d EXCEPT !.tenants = {}, !.active = {}]
    [] OTHER -> d

(***************************************************************************)
(* One revision.                                                           *)
(***************************************************************************)
\* PostgreSQL refuses a table that is there.
Clash(d, r) == Upgrade[r].table \cap d.schema.table # {}

Build(d, r) ==
  LET c == Upgrade[r]
  IN Fill([d EXCEPT !.applied = @ \cup {r},
                    !.schema = [table |-> @.table \cup c.table,
                                column |-> @.column \cup c.column,
                                key |-> @.key \cup c.key,
                                policy |-> @.policy \cup c.policy,
                                locked |-> @.locked \cup c.locked]], r)
Strip(d, r) ==
  LET c == Downgrade[r]
      Kept(s) == {x \in s : x[1] \notin c.table}
  IN Forget([d EXCEPT !.applied = @ \ {r},
                      !.schema = [table |-> @.table \ c.table,
                                  column |-> Kept(@.column) \ c.column,
                                  key |-> Kept(@.key) \ c.key,
                                  policy |-> Kept(@.policy) \ c.policy,
                                  locked |-> @.locked \ c.table]], r)

(***************************************************************************)
(* The commands.                                                           *)
(***************************************************************************)
Begin(order, steps, target) ==
  /\ way = "none" /\ way' = order
  /\ steps # {} /\ plan' = steps /\ goal' = target
  /\ work' = db
  /\ UNCHANGED <<db, owner>>

\* alembic upgrade <revision> | heads
UpgradeTo(targets, order) ==
  LET wanted == (targets \cup UNION {Below[r] : r \in targets}) \ db.applied
  IN Begin(order, wanted, db.applied \cup wanted)
\* alembic downgrade <revision> | base
DowngradeTo(kept) == Begin("down", db.applied \ kept, db.applied \cap kept)
\* Below one revision there is one branch, and one order.
Command ==
  \/ \E r \in Revision : UpgradeTo({r}, "AB")
  \/ \E order \in {"AB", "BA"} : UpgradeTo({"A12", "B09"}, order)
  \/ \E r \in db.applied : DowngradeTo({x \in Revision : r \notin Below[x]})
  \/ DowngradeTo({})

Finish == way' = "none" /\ plan' = {} /\ goal' = {}

\* The next revision in line.
Advance ==
  \E i \in DOMAIN Line[way] :
    LET r == Line[way][i]
    IN /\ r \in plan /\ \A j \in 1 .. i - 1 : Line[way][j] \notin plan
       /\ way # "down" => ~Clash(work, r)
       /\ work' = IF way = "down" THEN Strip(work, r) ELSE Build(work, r)
       /\ plan' = plan \ {r}

\* Mutant: every revision is committed by itself.
StepCommits == Advance /\ db' = work' /\ UNCHANGED <<way, goal, owner>>
Step == Advance /\ UNCHANGED <<db, way, goal, owner>>

Commit ==
  /\ way # "none" /\ plan = {}
  /\ db' = work /\ UNCHANGED <<work, owner>> /\ Finish

\* A statement fails, or the command is killed: the transaction is rolled back.
Rollback ==
  /\ way # "none"
  /\ work' = db /\ UNCHANGED <<db, owner>> /\ Finish

(***************************************************************************)
(* The rest of the program, while no command holds its table locks.        *)
(***************************************************************************)
Change(d) == db' = d /\ work' = d /\ UNCHANGED <<command, owner>>

AddTenant(t, active) ==
  /\ way = "none" /\ "tenant_membership" \in db.schema.table /\ t \notin db.tenants
  /\ Change([db EXCEPT !.tenants = @ \cup {t},
                       !.active = IF active THEN @ \cup {t} ELSE @])

\* A run of the release that had only labels.
AddRun(t, label) ==
  /\ way = "none" /\ t \in db.tenants /\ "content_run" \in db.schema.table
  /\ "B07" \notin db.applied /\ db.run[t] = NoRun
  /\ Change([db EXCEPT !.run[t] = [label |-> label, status |-> "none"]])

\* _apply_status, once the columns it maps are there.
Work(t, status) ==
  /\ way = "none" /\ db.run[t] # NoRun
  /\ {<<"content_run", "status">>, <<"content_run", "content">>} \subseteq db.schema.column
  /\ Change([db EXCEPT !.run[t] = [label |-> status, status |-> status]])

Data ==
  \/ \E t \in Tenant, active \in BOOLEAN : AddTenant(t, active)
  \/ \E t \in Tenant, label \in Label : AddRun(t, label) \/ Work(t, label)

Next == Command \/ Step \/ Commit \/ Rollback \/ Data

Spec == Init /\ [][Next]_vars

(***************************************************************************)
(* The models: what the ORM reads and writes.  A column is listed where    *)
(* only some revisions create it.                                          *)
(***************************************************************************)
MappedTenancy == {"plan", "tenant", "tenant_subscription"}
MappedOrganization ==
  {"app_user", "tenant_membership", "team", "membership_role", "team_member"}
MembershipColumns == Columns("tenant_membership", {"role_id"})
MappedBrand == {"workspace", "brand"}
MappedAuthorization == {"role", "role_permission"}
RoleColumns ==
  Columns("role", {"is_builtin", "is_default"})
    \cup Columns("role_permission", {"data_scope"})
MappedContent ==
  {"content_run", "human_task", "material", "content_export", "content_run_material",
   "material_file"}
RunColumns == Columns("content_run", {"status", "content", "exported_at"})
TaskColumns ==
  Columns("human_task", {"status", "decision", "assignee_id", "lease_expires_at"})
MappedGateway ==
  {"model_provider", "model_definition", "tenant_model_credential", "model_route_policy",
   "model_route_candidate"}
MappedGovernance == {"audit_event"}
MappedQuota == {"quota_policy", "quota_usage_bucket"}
MappedWorkflow == {"workflow_template", "workflow_template_version"}
Mapped ==
  MappedTenancy \cup MappedOrganization \cup MappedBrand \cup MappedAuthorization
    \cup MappedContent \cup MappedGateway \cup MappedGovernance \cup MappedQuota
    \cup MappedWorkflow
MappedColumns == MembershipColumns \cup RoleColumns \cup RunColumns \cup TaskColumns
\* TenantEntityMixin
Isolates == Mapped \ {"plan", "app_user", "model_provider", "model_definition",
                      "role", "role_permission"}

(***************************************************************************)
(* Properties.                                                             *)
(***************************************************************************)
Rows == [label : Label \cup {"none"}, status : Label \cup {"none"}]
IsDatabase(d) ==
  /\ d.applied \subseteq Revision
  /\ d.tenants \subseteq Tenant /\ d.active \subseteq d.tenants /\ d.bound \subseteq d.tenants
  /\ d.role \subseteq d.tenants \X Roles \X BOOLEAN
  /\ d.run \in [Tenant -> Rows]

\* The type invariant of migrations/versions: what upgrades fill in names
\* tenants that exist, in the committed database and in the transaction.
TypeOK ==
  /\ IsDatabase(db) /\ IsDatabase(work)
  /\ way \in DOMAIN Line
  /\ plan \subseteq Revision /\ goal \subseteq Revision /\ owner \in Owner

Made(applied, f) == UNION {Upgrade[r][f] : r \in applied}
\* 0012 forces row security on the role tables when it seeds roles, and only it
\* seeds these two; its downgrade drops the policies and neither unlocks the
\* tables nor deletes the roles.
SeededBy12(d) == \E r \in d.role : r[2] \in {"reviewer", "viewer"}
SchemaIsMade(d) ==
  /\ \A f \in {"table", "column", "key", "policy"} : d.schema[f] = Made(d.applied, f)
  /\ d.schema.locked =
       Made(d.applied, "locked") \cup (IF SeededBy12(d) THEN RoleTables ELSE {})
\* Whatever was upgraded, downgraded, interrupted and repeated before, the
\* schema is the one the applied revisions define: a downgrade takes nothing that
\* it did not create and leaves nothing behind, with one exception.  Once 0012
\* has seeded roles their tables stay forced until 0006 drops them; below 0012
\* that is row security without a policy, which denies every row to an ordinary
\* role.
SchemaMatchesRevisions == SchemaIsMade(db)

\* A tenant's table is isolated in every committed schema: the seeds of 0007,
\* 0011 and 0012 turn row security off and on again.  The roles of branch A are
\* isolated from 0012 on, once there are any.
TenantTablesIsolated ==
  /\ \A t \in db.schema.table \cap Isolates :
       t \in db.schema.locked /\ <<t, "isolation">> \in db.schema.policy
  /\ "A12" \in db.applied /\ db.role # {} => RoleTables \subseteq db.schema.locked

\* The branches create the same role tables, so no order of upgrades applies
\* both: the second fails.
OneBranch == ~({"A06", "B06"} \subseteq db.applied)

\* At most one default role for each tenant.
OneDefault(rows) == \A r, s \in rows : r[1] = s[1] /\ r[3] /\ s[3] => r[2] = s[2]

\* 0006 makes the editor the default role and 0012 the administrator; in
\* whichever order and however often they run, under either kind of owner, a
\* tenant has at most one default, and a bound member a role.
OneDefaultRole ==
  /\ OneDefault(db.role)
  /\ db.bound \subseteq WithAdmin(db)

\* Status is the one source of truth and the label only its display: after the
\* backfill of 0007, downgrades and upgrades again included, they agree, if the
\* migrating role sees the rows.
StatusMatchesLabel ==
  owner = "bypass" /\ "B07" \in db.applied => \A t \in Tenant : db.run[t].status = db.run[t].label

\* A command that fails half way, `heads' always, leaves the applied revisions
\* as they were: they change only to all that the command was asked for.
CommandIsAtomic == [][db'.applied # db.applied => db'.applied = goal]_vars

\* .github/workflows/ci.yml:73-76 upgrades to the head and lets `alembic check'
\* compare it with the models, and deploy/compose.yaml:112 starts the program
\* after the same upgrade: a database that has reached a head of the tree has
\* every table and every column the models map.
ServesModels ==
  Mapped \subseteq db.schema.table /\ MappedColumns \subseteq db.schema.column
HeadServesModels == {"A12", "B09"} \cap db.applied # {} => ServesModels

(***************************************************************************)
(* The inductive invariant of OneBranch and CommandIsAtomic.               *)
(***************************************************************************)
\* A branch that is applied has created the role table, which keeps the other
\* from creating it.
BranchInv(d) ==
  /\ {"A06", "B06"} \cap d.applied # {} => "role" \in d.schema.table
  /\ ~({"A06", "B06"} \subseteq d.applied)

\* What the running command has done and what it has yet to do make up its goal.
GoalInv ==
  /\ plan \subseteq Revision
  /\ way = "down" => plan \subseteq work.applied /\ goal = work.applied \ plan
  /\ way \in {"AB", "BA"} => goal = work.applied \cup plan

IsSchema(s) ==
  s = [table |-> s.table, column |-> s.column, key |-> s.key, policy |-> s.policy,
       locked |-> s.locked]
HasShape(d) ==
  /\ d = [schema |-> d.schema, applied |-> d.applied, tenants |-> d.tenants,
          active |-> d.active, bound |-> d.bound, role |-> d.role, run |-> d.run]
  /\ IsSchema(d.schema)
  /\ d.applied \subseteq Revision

IInv ==
  /\ way \in {"none", "AB", "BA", "down"}
  /\ HasShape(db) /\ HasShape(work) /\ BranchInv(db) /\ BranchInv(work) /\ GoalInv

(***************************************************************************)
(* The inductive invariant of the schema and of what the revisions fill in.*)
(***************************************************************************)
\* A revision is applied over all that is below it.
Closed(applied) == \A r \in applied : Below[r] \subseteq applied

\* A tenant with any role has the administrator, which 0012 would otherwise seed
\* as a second default; roles come and go with A06.
RoleInv(d) ==
  /\ "A06" \notin d.applied => d.role = {} /\ d.bound = {}
  /\ OneDefault(d.role)
  /\ {r[1] : r \in d.role} \subseteq WithAdmin(d)
  /\ d.bound \subseteq WithAdmin(d)
  /\ "A12" \in d.applied /\ d.role # {} => RoleTables \subseteq d.schema.locked

RunInv(d, as) ==
  /\ \A t \in Tenant : d.run[t].label = "none" => d.run[t].status = "none"
  /\ as = "bypass" /\ "B07" \in d.applied =>
       \A t \in Tenant : d.run[t].status = d.run[t].label

DataInv(d, as) ==
  /\ Closed(d.applied) /\ SchemaIsMade(d) /\ IsDatabase(d) /\ RoleInv(d) /\ RunInv(d, as)

\* The goal of a command is closed, and an upgrade repeats no revision.
LineInv ==
  /\ way # "none" => Closed(goal)
  /\ way \in {"AB", "BA"} => plan \cap work.applied = {}

SInv == IInv /\ TypeOK /\ DataInv(db, owner) /\ DataInv(work, owner) /\ LineInv
=============================================================================
