-------------------------- MODULE MigrationsProofs --------------------------
(***************************************************************************)
(* Theorems about Migrations for every set of tenants and whichever role   *)
(* migrates: no sequence of commands, failures and work in between applies *)
(* both branches, or half of what a command was asked for.                 *)
(***************************************************************************)
EXTENDS Migrations, TLAPS

LEMMA RevisionSet ==
  Revision = {"0001", "0002", "0003", "0004", "0005",
              "A06", "A07", "A08", "A09", "A10", "A11", "A12",
              "B06", "B07", "B08", "B09"}
<1>1. ToSet(Trunk) = {"0001", "0002", "0003", "0004", "0005"}
  BY DEF ToSet, Trunk
<1>2. ToSet(BranchA) = {"A06", "A07", "A08", "A09", "A10", "A11", "A12"}
  BY DEF ToSet, BranchA
<1>3. ToSet(BranchB) = {"B06", "B07", "B08", "B09"}
  BY DEF ToSet, BranchB
<1>. QED  BY <1>1, <1>2, <1>3 DEF Revision

\* The branches create the role table, and nothing else drops it.
LEMMA BranchTables ==
  /\ "role" \in Upgrade["A06"].table /\ "role" \in Upgrade["B06"].table
  /\ \A r \in Revision : r \notin {"A06", "B06"} => "role" \notin Downgrade[r].table
<1>1. Upgrade["A06"] = RA06 /\ Upgrade["B06"] = RB06
  BY RevisionSet DEF Upgrade
<1>2. "role" \in RA06.table
  BY DEF RA06, Nothing
<1>3. "role" \in RB06.table
  BY DEF RB06, Isolated, Nothing
<1>4. ASSUME NEW r \in Revision, r \notin {"A06", "B06"}
      PROVE  "role" \notin Downgrade[r].table
  BY <1>4, RevisionSet
     DEF Downgrade, D0001, D0002, D0003, D0004, D0005, DA07, DA08, DA09, DA10, DA11, DA12,
         DB07, DB08, DB09, Nothing, TenancyTables, OrganizationTables
<1>. QED  BY <1>1, <1>2, <1>3, <1>4

\* What is written to the rows changes neither the tables nor the revisions.
SameSchema(d, e) ==
  HasShape(e) /\ e.applied = d.applied /\ e.schema.table = d.schema.table

LEMMA SetLocked ==
  ASSUME NEW d, HasShape(d), NEW x
  PROVE  SameSchema(d, [d EXCEPT !.schema.locked = x])
<1>. DEFINE e == [d EXCEPT !.schema.locked = x]
            s == [d.schema EXCEPT !.locked = x]
<1>1. IsSchema(s) /\ s.table = d.schema.table
  BY DEF HasShape, IsSchema
<1>2. e = [d EXCEPT !.schema = s]
  BY DEF HasShape
<1>. HIDE DEF s, e
<1>3. /\ e = [schema |-> s, applied |-> d.applied, tenants |-> d.tenants, active |-> d.active,
              bound |-> d.bound, role |-> d.role, run |-> d.run]
      /\ d.applied \subseteq Revision
  BY <1>2 DEF HasShape
<1>4. HasShape(e) /\ e.applied = d.applied /\ e.schema = s
  BY <1>1, <1>3 DEF HasShape
<1>. QED  BY <1>1, <1>4 DEF SameSchema, e

LEMMA Relaxing ==
  ASSUME NEW d, HasShape(d), NEW tables
  PROVE  SameSchema(d, Relaxed(d, tables)) /\ SameSchema(d, Restored(d, tables))
BY SetLocked DEF Relaxed, Restored

LEMMA SameTrans ==
  ASSUME NEW d, NEW e, NEW f, SameSchema(d, e), SameSchema(e, f)
  PROVE  SameSchema(d, f)
BY DEF SameSchema

LEMMA SetRows ==
  ASSUME NEW d, HasShape(d), NEW x
  PROVE  /\ SameSchema(d, [d EXCEPT !.role = x])
         /\ SameSchema(d, [d EXCEPT !.bound = x])
         /\ SameSchema(d, [d EXCEPT !.run = x])
         /\ SameSchema(d, [d EXCEPT !.tenants = x])
         /\ SameSchema(d, [d EXCEPT !.active = x])
BY DEF HasShape, SameSchema

Updated(d, a, s) == [d EXCEPT !.applied = a, !.schema = s]

LEMMA SetSchema ==
  ASSUME NEW d, HasShape(d), NEW a \in SUBSET Revision, NEW s, IsSchema(s)
  PROVE  LET e == Updated(d, a, s) IN HasShape(e) /\ e.applied = a /\ e.schema = s
<1>. DEFINE f == [d EXCEPT !.applied = a]
            e == [f EXCEPT !.schema = s]
<1>1. f = [schema |-> d.schema, applied |-> a, tenants |-> d.tenants,
           active |-> d.active, bound |-> d.bound, role |-> d.role, run |-> d.run]
  BY DEF HasShape
<1>. HIDE DEF f
<1>2. e = [schema |-> s, applied |-> a, tenants |-> d.tenants,
           active |-> d.active, bound |-> d.bound, role |-> d.role, run |-> d.run]
  BY <1>1
<1>. HIDE DEF e
<1>3. HasShape(e) /\ e.applied = a /\ e.schema = s
  BY <1>2 DEF HasShape
<1>. QED  BY <1>3 DEF e, f, Updated

LEMMA Filling ==
  ASSUME NEW d, HasShape(d), NEW r
  PROVE  SameSchema(d, Fill(d, r))
<1>0. SameSchema(d, d)
  BY DEF SameSchema
<1>1. SameSchema(d, FillA06(d))
  <2>. DEFINE seen == IF Visible(d, "tenant") THEN d.tenants ELSE {}
              seeds == (seen \X {"admin"} \X {FALSE}) \cup (seen \X {"editor"} \X {TRUE})
              seeded == [d EXCEPT !.role = Seeded(@, seeds)]
              bound == seeded.bound \cup (d.active \cap WithAdmin(seeded))
  <2>1. SameSchema(d, seeded)
    BY SetRows
  <2>2. SameSchema(seeded, [seeded EXCEPT !.bound = bound])
    <3>. HIDE DEF seeded, bound
    <3>. QED  BY <2>1, SetRows DEF SameSchema
  <2>3. FillA06(d) = seeded \/ FillA06(d) = [seeded EXCEPT !.bound = bound]
    BY DEF FillA06
  <2>. HIDE DEF seeded, bound
  <2>. QED  BY <2>1, <2>2, <2>3, SameTrans
<1>2. SameSchema(d, FillA07(d))
  BY Relaxing, SameTrans DEF FillA07, SameSchema
<1>3. SameSchema(d, FillA11(d))
  BY Relaxing, SameTrans DEF FillA11, SameSchema
<1>4. SameSchema(d, FillA12(d))
  <2>. DEFINE open == Relaxed(d, {"tenant"})
              listed == Restored(open, {"tenant"})
              unlocked == Restored(Relaxed(listed, RoleTables), RoleTables)
              roles == [unlocked EXCEPT !.role = Seeded(@, RoleSeed(open.tenants))]
              seeded == IF open.tenants = {} THEN listed ELSE roles
              relaxed == Relaxed(seeded, {"tenant_membership"})
              rebound == IF Visible(relaxed, "role") THEN WithAdmin(relaxed) \cap d.tenants
                                                     ELSE {}
              bound == [relaxed EXCEPT !.bound = @ \cup rebound]
  <2>1. SameSchema(d, open) /\ SameSchema(d, listed)
    BY Relaxing, SameTrans DEF SameSchema
  <2>2. SameSchema(d, unlocked)
    <3>. HIDE DEF listed
    <3>. QED  BY <2>1, Relaxing, SameTrans DEF SameSchema
  <2>3. SameSchema(d, seeded)
    <3>1. SameSchema(d, roles)
      <4>. DEFINE x == Seeded(unlocked.role, RoleSeed(open.tenants))
      <4>1. roles = [unlocked EXCEPT !.role = x]
        OBVIOUS
      <4>. HIDE DEF unlocked, roles, x
      <4>2. SameSchema(unlocked, [unlocked EXCEPT !.role = x])
        BY <2>2, SetRows DEF SameSchema
      <4>. QED  BY <2>2, <4>1, <4>2, SameTrans
    <3>. HIDE DEF roles, listed
    <3>. QED  BY <2>1, <3>1
  <2>4. SameSchema(d, relaxed)
    <3>. HIDE DEF seeded
    <3>. QED  BY <2>3, Relaxing, SameTrans DEF SameSchema
  <2>5. SameSchema(d, bound)
    <3>. DEFINE x == relaxed.bound \cup rebound
    <3>1. bound = [relaxed EXCEPT !.bound = x]
      OBVIOUS
    <3>. HIDE DEF relaxed, bound, x
    <3>2. SameSchema(relaxed, [relaxed EXCEPT !.bound = x])
      BY <2>4, SetRows DEF SameSchema
    <3>. QED  BY <2>4, <3>1, <3>2, SameTrans
  <2>6. FillA12(d) = Restored(bound, {"tenant_membership"})
    BY Zenon DEF FillA12
  <2>. HIDE DEF bound
  <2>. QED  BY <2>5, <2>6, Relaxing, SameTrans DEF SameSchema
<1>5. SameSchema(d, FillB07(d))
  BY SetRows DEF FillB07
<1>. QED  BY <1>0, <1>1, <1>2, <1>3, <1>4, <1>5 DEF Fill

LEMMA Forgetting ==
  ASSUME NEW d, HasShape(d), NEW r
  PROVE  SameSchema(d, Forget(d, r))
<1>0. SameSchema(d, d)
  BY DEF SameSchema
<1>1. SameSchema(d, [d EXCEPT !.role = {}, !.bound = {}])
  <2>. DEFINE e == [d EXCEPT !.role = {}]
  <2>1. SameSchema(d, e)
    BY SetRows
  <2>. HIDE DEF e
  <2>2. SameSchema(e, [e EXCEPT !.bound = {}])
    BY <2>1, SetRows DEF SameSchema
  <2>3. SameSchema(d, [e EXCEPT !.bound = {}])
    BY <2>1, <2>2, SameTrans
  <2>. QED  BY <2>3 DEF e
<1>2. SameSchema(d, [d EXCEPT !.tenants = {}, !.active = {}])
  <2>. DEFINE e == [d EXCEPT !.tenants = {}]
  <2>1. SameSchema(d, e)
    BY SetRows
  <2>. HIDE DEF e
  <2>2. SameSchema(e, [e EXCEPT !.active = {}])
    BY <2>1, SetRows DEF SameSchema
  <2>3. SameSchema(d, [e EXCEPT !.active = {}])
    BY <2>1, <2>2, SameTrans
  <2>. QED  BY <2>3 DEF e
<1>. QED  BY <1>0, <1>1, <1>2, SetRows DEF Forget

\* One revision up: what it creates is added, and nothing is taken.
LEMMA Building ==
  ASSUME NEW d, HasShape(d), NEW r \in Revision
  PROVE  /\ HasShape(Build(d, r))
         /\ Build(d, r).applied = d.applied \cup {r}
         /\ Build(d, r).schema.table = d.schema.table \cup Upgrade[r].table
<1>. DEFINE c == Upgrade[r]
            s == [table |-> d.schema.table \cup c.table,
                  column |-> d.schema.column \cup c.column,
                  key |-> d.schema.key \cup c.key,
                  policy |-> d.schema.policy \cup c.policy,
                  locked |-> d.schema.locked \cup c.locked]
            a == d.applied \cup {r}
            e == [d EXCEPT !.applied = a, !.schema = s]
<1>1. IsSchema(s) /\ s.table = d.schema.table \cup c.table
  BY DEF IsSchema
<1>2. Build(d, r) = Fill(e, r)
  BY DEF Build, HasShape
<1>. HIDE DEF s
<1>3. HasShape(e) /\ e.applied = a /\ e.schema = s
  <2>1. a \in SUBSET Revision
    BY DEF HasShape
  <2>2. e = Updated(d, a, s)
    BY DEF Updated
  <2>. HIDE DEF a, e
  <2>. QED  BY <1>1, <2>1, <2>2, SetSchema
<1>. HIDE DEF e
<1>. QED  BY <1>1, <1>2, <1>3, Filling DEF SameSchema

\* One revision down.
LEMMA Stripping ==
  ASSUME NEW d, HasShape(d), NEW r \in Revision
  PROVE  /\ HasShape(Strip(d, r))
         /\ Strip(d, r).applied = d.applied \ {r}
         /\ Strip(d, r).schema.table = d.schema.table \ Downgrade[r].table
<1>. DEFINE c == Downgrade[r]
            Kept(x) == {y \in x : y[1] \notin c.table}
            s == [table |-> d.schema.table \ c.table,
                  column |-> Kept(d.schema.column) \ c.column,
                  key |-> Kept(d.schema.key) \ c.key,
                  policy |-> Kept(d.schema.policy) \ c.policy,
                  locked |-> d.schema.locked \ c.table]
            a == d.applied \ {r}
            e == [d EXCEPT !.applied = a, !.schema = s]
<1>1. IsSchema(s) /\ s.table = d.schema.table \ c.table
  BY DEF IsSchema
<1>2. Strip(d, r) = Forget(e, r)
  BY DEF Strip, HasShape
<1>. HIDE DEF s
<1>3. HasShape(e) /\ e.applied = a /\ e.schema = s
  <2>1. a \in SUBSET Revision
    BY DEF HasShape
  <2>2. e = Updated(d, a, s)
    BY DEF Updated
  <2>. HIDE DEF a, e
  <2>. QED  BY <1>1, <2>1, <2>2, SetSchema
<1>. HIDE DEF e
<1>. QED  BY <1>1, <1>2, <1>3, Forgetting DEF SameSchema

(***************************************************************************)
(* The branches.                                                           *)
(***************************************************************************)
LEMMA BranchUp ==
  ASSUME NEW d, HasShape(d), BranchInv(d), NEW r \in Revision, ~Clash(d, r)
  PROVE  BranchInv(Build(d, r))
<1>1. r \in {"A06", "B06"} => "role" \in Upgrade[r].table
  BY BranchTables
<1>2. r \in {"A06", "B06"} => {"A06", "B06"} \cap d.applied = {}
  BY <1>1 DEF BranchInv, Clash
<1>. QED  BY <1>1, <1>2, Building DEF BranchInv

LEMMA BranchDown ==
  ASSUME NEW d, HasShape(d), BranchInv(d), NEW r \in d.applied
  PROVE  BranchInv(Strip(d, r))
<1>0. r \in Revision
  BY DEF HasShape
<1>1. CASE r \in {"A06", "B06"}
  BY <1>0, <1>1, Stripping DEF BranchInv
<1>2. CASE r \notin {"A06", "B06"}
  BY <1>0, <1>2, BranchTables, Stripping DEF BranchInv
<1>. QED  BY <1>1, <1>2

LEMMA InitIInv == Init => IInv
<1>. SUFFICES ASSUME Init PROVE IInv
  OBVIOUS
<1>1. HasShape(db) /\ db.applied = {}
  BY DEF Init, HasShape, IsSchema, Nothing
<1>. QED  BY <1>1 DEF Init, IInv, BranchInv, GoalInv

\* A command begins with the revisions it has to do.
LEMMA BeginStep ==
  ASSUME IInv, Command
  PROVE  IInv'
<1>0. HasShape(db) /\ BranchInv(db)
  BY DEF IInv
<1>1. ASSUME NEW targets \in SUBSET Revision, NEW order \in {"AB", "BA"},
             UpgradeTo(targets, order)
      PROVE  IInv'
  <2>. DEFINE wanted == (targets \cup UNION {Below[r] : r \in targets}) \ db.applied
  <2>1. wanted \subseteq Revision
    BY DEF Below
  <2>2. /\ way' = order /\ plan' = wanted /\ goal' = db.applied \cup wanted
        /\ work' = db /\ db' = db
    BY <1>1 DEF UpgradeTo, Begin
  <2>. QED  BY <1>0, <2>1, <2>2 DEF IInv, GoalInv
<1>2. ASSUME NEW kept, DowngradeTo(kept) PROVE IInv'
  <2>1. /\ way' = "down" /\ plan' = db.applied \ kept /\ goal' = db.applied \cap kept
        /\ work' = db /\ db' = db
    BY <1>2 DEF DowngradeTo, Begin
  <2>. QED  BY <1>0, <2>1 DEF IInv, GoalInv, HasShape
<1>3. {"A12", "B09"} \subseteq Revision
  BY RevisionSet
<1>. QED  BY <1>1, <1>2, <1>3 DEF Command

LEMMA AdvanceStep ==
  ASSUME IInv, Step
  PROVE  IInv'
<1>0. /\ HasShape(db) /\ HasShape(work) /\ BranchInv(db) /\ BranchInv(work) /\ GoalInv
      /\ way \in {"none", "AB", "BA", "down"}
  BY DEF IInv
<1>1. PICK r \in plan :
        /\ way # "down" => ~Clash(work, r)
        /\ work' = IF way = "down" THEN Strip(work, r) ELSE Build(work, r)
        /\ plan' = plan \ {r}
  BY DEF Step, Advance
<1>2. way # "none"
  BY DEF Step, Advance, Line
<1>3. UNCHANGED <<db, way, goal, owner>> /\ r \in Revision
  BY <1>0 DEF Step, GoalInv
<1>4. CASE way = "down"
  <2>1. r \in work.applied
    BY <1>0, <1>4 DEF GoalInv
  <2>2. HasShape(work') /\ BranchInv(work') /\ work'.applied = work.applied \ {r}
    BY <1>0, <1>1, <1>3, <1>4, <2>1, Stripping, BranchDown
  <2>3. GoalInv'
    BY <1>0, <1>1, <1>3, <1>4, <2>2 DEF GoalInv
  <2>. QED  BY <1>0, <1>3, <2>2, <2>3 DEF IInv
<1>5. CASE way # "down"
  <2>2. HasShape(work') /\ BranchInv(work') /\ work'.applied = work.applied \cup {r}
    BY <1>0, <1>1, <1>3, <1>5, Building, BranchUp
  <2>3. GoalInv'
    BY <1>0, <1>1, <1>2, <1>3, <1>5, <2>2 DEF GoalInv
  <2>. QED  BY <1>0, <1>3, <2>2, <2>3 DEF IInv
<1>. QED  BY <1>4, <1>5

LEMMA EndStep ==
  ASSUME IInv, Commit \/ Rollback
  PROVE  IInv'
<1>1. HasShape(db') /\ HasShape(work') /\ BranchInv(db') /\ BranchInv(work')
  BY DEF IInv, Commit, Rollback
<1>2. way' = "none" /\ plan' = {}
  BY DEF Commit, Rollback, Finish
<1>. QED  BY <1>1, <1>2 DEF IInv, GoalInv

LEMMA DataStep ==
  ASSUME IInv, Data
  PROVE  IInv'
<1>0. HasShape(db) /\ BranchInv(db)
  BY DEF IInv
<1>1. ASSUME NEW d, SameSchema(db, d), Change(d), way = "none" PROVE IInv'
  <2>1. HasShape(d) /\ BranchInv(d)
    BY <1>0, <1>1 DEF SameSchema, BranchInv
  <2>. QED  BY <1>1, <2>1 DEF IInv, Change, command, GoalInv
<1>2. ASSUME NEW t \in Tenant, NEW active \in BOOLEAN, AddTenant(t, active) PROVE IInv'
  <2>. DEFINE e == [db EXCEPT !.tenants = db.tenants \cup {t}]
              now == IF active THEN db.active \cup {t} ELSE db.active
              d == [db EXCEPT !.tenants = db.tenants \cup {t}, !.active = now]
  <2>1. SameSchema(db, e)
    BY <1>0, SetRows
  <2>2. way = "none" /\ Change(d)
    BY <1>2 DEF AddTenant, HasShape
  <2>3. d = [e EXCEPT !.active = now]
    OBVIOUS
  <2>. HIDE DEF e, now, d
  <2>4. SameSchema(e, [e EXCEPT !.active = now])
    BY <2>1, SetRows DEF SameSchema
  <2>. QED  BY <1>1, <2>1, <2>2, <2>3, <2>4, SameTrans
<1>3. ASSUME NEW t \in Tenant, NEW label \in Label, AddRun(t, label) \/ Work(t, label)
      PROVE  IInv'
  <2>1. PICK x : way = "none" /\ Change([db EXCEPT !.run[t] = x])
    BY <1>3 DEF AddRun, Work
  <2>2. SameSchema(db, [db EXCEPT !.run = [db.run EXCEPT ![t] = x]])
    BY <1>0, SetRows
  <2>3. Change([db EXCEPT !.run = [db.run EXCEPT ![t] = x]])
    BY <2>1
  <2>. QED  BY <1>1, <2>1, <2>2, <2>3
<1>. QED  BY <1>2, <1>3 DEF Data

LEMMA NextIInv == IInv /\ [Next]_vars => IInv'
<1>1. IInv /\ UNCHANGED vars => IInv'
  BY DEF vars, command, IInv, GoalInv
<1>. QED  BY <1>1, BeginStep, AdvanceStep, EndStep, DataStep DEF Next

(***************************************************************************)
(* The theorems.                                                           *)
(***************************************************************************)
\* What a command has made of the database, and what it has yet to do, are in
\* the invariant at every step.
THEOREM Invariant == Spec => []IInv
<1>. QED  BY InitIInv, NextIInv, PTL DEF Spec

\* No order of upgrades, downgrades and failures applies both revisions that
\* create the role tables.
THEOREM OneBranchCorrect == Spec => []OneBranch
<1>1. IInv => OneBranch
  BY DEF IInv, BranchInv, OneBranch
<1>. QED  BY <1>1, Invariant, PTL

\* env.py runs a command in one transaction: what is applied changes only to
\* all that it was asked for.
THEOREM AtomicCorrect == Spec => CommandIsAtomic
<1>1. ASSUME IInv, Next, db'.applied # db.applied PROVE db'.applied = goal
  <2>1. CASE Commit
    BY <1>1, <2>1 DEF Commit, IInv, GoalInv
  <2>2. CASE Command
    BY <1>1, <2>2 DEF Command, UpgradeTo, DowngradeTo, Begin
  <2>3. CASE Step \/ Rollback
    BY <1>1, <2>3 DEF Step, Rollback
  <2>4. CASE Data
    BY <1>1, <2>4 DEF Data, AddTenant, AddRun, Work, Change, IInv, HasShape
  <2>. QED  BY <1>1, <2>1, <2>2, <2>3, <2>4 DEF Next
<1>2. IInv /\ [Next]_vars => [db'.applied # db.applied => db'.applied = goal]_vars
  BY <1>1
<1>. QED  BY <1>2, Invariant, PTL DEF Spec, CommandIsAtomic
=============================================================================
