--------------------------- MODULE Administration ---------------------------
(***************************************************************************)
(* The administration endpoints: members and roles, model credentials and  *)
(* routing policies, quotas, and the audit event each writes after its     *)
(* change.                                                                 *)
(*                                                                         *)
(* They all work alike: a transaction loads a versioned row, may delete    *)
(* the rows that belong to it, writes the columns that changed and inserts *)
(* the new rows; a second transaction writes the audit event.  An object   *)
(* is a versioned row with its columns and the rows that belong to it.     *)
(***************************************************************************)
EXTENDS Authorization

CONSTANTS
  Handler,      \* requests in flight at once
  Role,         \* role rows: the built-in roles, named as in the catalogue
  RoleName,     \* names a role is given
  Manage,       \* the permission role:manage
  Credential,   \* names of credentials of one provider
  Route, Model, \* task types of routing policies; the models of the catalogue
  Quota,        \* metrics
  Limit,        \* limits asked for, in order
  TitleOf,      \* TitleOf[m]: job title of a member
  None,         \* SQL NULL
  Area,         \* parts of the administration in use
  MaxRequest,   \* bound: no more requests are sent, by area
  MaxCandidate  \* bound: a routing policy has no more candidates

ASSUME TitleAssumption == TitleOf \in [Member -> Title]
ASSUME LimitAssumption == Limit \subseteq Nat
ASSUME RoleAssumption == Role \subseteq Title /\ Manage \in Permission
ASSUME AreaAssumption == Area \subseteq {"people", "credentials", "routes", "quotas"}
\* Rows of different tables are different.
ASSUME KindAssumption ==
  /\ Quota \cap (Member \cup Role \cup Credential \cup Route) = {}
  /\ Credential \cap (Member \cup Role \cup Route) = {}
  /\ Route \cap (Member \cup Role) = {}
ASSUME BoundAssumption == MaxRequest \in [Area -> Nat] /\ MaxCandidate \in Nat

Object == Member \cup Role \cup Credential \cup Route \cup Quota
Absent == [absent |-> TRUE]   \* the row does not exist
Keep == None                  \* the request says nothing about the rows

VARIABLES
  area,    \* what this behaviour is about; areas share nothing but the audit
  fields,  \* fields[o]: the columns of an object
  rows,    \* rows[o]: role_permission and model_route_candidate rows
  req,     \* req[h]: the request of handler h
  sent,    \* the requests sent so far, which names them
  done,    \* history: the changes committed
  trail,   \* audit_event: the requests it reports
  dead     \* history: requests whose handler died after the commit

vars == <<area, fields, rows, req, sent, done, trail, dead>>

\* by: the request that inserted the row, 0 for the seed.
RowOf(pairs, id) == {[key |-> p[1], val |-> p[2], by |-> id] : p \in pairs}

\* current: the object is still as the handler loaded it; doomed: the rows its DELETE saw; prior: the
\* changes committed when the request arrived.
IdleRequest ==
  [pc |-> "idle", id |-> 0, op |-> "none", obj |-> None, cols |-> Absent,
   pairs |-> Keep, loaded |-> Absent, current |-> FALSE, doomed |-> {},
   prior |-> {}]

\* The role rows of a seeded tenant, and its members; the models have no rows yet.
SeedPairs(r) == {<<p, p>> : p \in Catalogue[r]}

Codes(m) == IF fields[m].role = None THEN {}
            ELSE {row.val : row \in rows[fields[m].role]}
PolicyOf(m) ==
  IF fields[m] = Absent THEN Policy(FALSE, FALSE, {}, TitleOf[m])
  ELSE Policy(TRUE, fields[m].status = "ACTIVE", Codes(m), TitleOf[m])
\* A member who may do p to what others made.
Can(m, p) == Allowed(PolicyOf(m), m, p, None)

Init ==
  /\ area \in Area
  /\ \E members \in [Member -> {Absent} \cup [status : {"ACTIVE"}, role : Role \cup {None}]] :
       fields = [o \in Object |-> IF o \in Member THEN members[o]
                                 ELSE IF o \in Role THEN [name |-> o] ELSE Absent]
  /\ rows = [o \in Object |-> IF o \in Role THEN RowOf(SeedPairs(o), 0) ELSE {}]
  /\ \E m \in Member : Can(m, Manage)
  /\ req = [h \in Handler |-> IdleRequest]
  /\ sent = 0 /\ done = {} /\ trail = {} /\ dead = {}

(***************************************************************************)
(* What the endpoints ask for.                                             *)
(***************************************************************************)
Asks(op, objects, cols, pairs) ==
  [op : {op}, obj : objects, cols : cols, pairs : pairs]

\* UpdateMemberRequest, UpdateRoleRequest: what is absent stays.
MemberColumns == [status : {"ACTIVE", "SUSPENDED"}] \cup [role : Role]
                   \cup [status : {"ACTIVE", "SUSPENDED"}, role : Role]
PermissionLists == {{<<p, p>> : p \in codes} : codes \in SUBSET Permission}
\* The candidates are numbered from 1 in the order of the list.
CandidateLists ==
  UNION {{{<<i, list[i]>> : i \in 1 .. n} : list \in [1 .. n -> Model]}
           : n \in 0 .. MaxCandidate}
\* upsert_quota_policy refuses two absent limits and a soft limit above the hard one.
Limits ==
  {l \in [soft : Limit \cup {None}, hard : Limit \cup {None}] :
     /\ l.soft # None \/ l.hard # None
     /\ l.soft # None /\ l.hard # None => l.soft <= l.hard}

Requests ==
  CASE area = "people" ->
         Asks("update_member", Member, MemberColumns, {Keep})
         \cup Asks("create_member", Member, [status : {"ACTIVE"}, role : Role], {Keep})
         \cup Asks("update_role", Role, {<<>>} \cup [name : RoleName],
                   {Keep} \cup PermissionLists)
    [] area = "credentials" ->
         Asks("create_credential", Credential,
              [status : {"ACTIVE"}, message : {"none"}], {Keep})
         \cup Asks("test", Credential, {<<>>}, {Keep})
         \cup Asks("revoke", Credential, [status : {"REVOKED"}], {Keep})
    [] area = "routes" ->
         Asks("upsert_route", Route, [status : {"ACTIVE", "DISABLED"}],
              CandidateLists)
    [] area = "quotas" -> Asks("upsert_quota", Quota, Limits, {Keep})

Creates(op) == op \in {"create_member", "create_credential"}
Upserts(op) == op \in {"upsert_route", "upsert_quota"}

(***************************************************************************)
(* The request handlers.                                                   *)
(***************************************************************************)
Committed == {d.id : d \in done}

Arriving(ask, id) ==
  [pc |-> "load", id |-> id, op |-> ask.op, obj |-> ask.obj, cols |-> ask.cols,
   pairs |-> ask.pairs, loaded |-> Absent, current |-> FALSE, doomed |-> {},
   prior |-> Committed]
Send(h) ==
  /\ req[h].pc = "idle" /\ sent < MaxRequest[area]
  /\ sent' = sent + 1
  /\ \E ask \in Requests : req' = [req EXCEPT ![h] = Arriving(ask, sent + 1)]
  /\ UNCHANGED <<area, fields, rows, done, trail, dead>>

Stop(h) == req' = [req EXCEPT ![h] = IdleRequest]

\* verify_model_credential: what it writes beside the time.
TestResult(row) ==
  IF row.status = "REVOKED" THEN [message |-> "failed", status |-> "INVALID"]
                            ELSE [message |-> "passed"]

\* The row is found, or not where it is to be created.
Loads(op, row) == Upserts(op) \/ (Creates(op) <=> row = Absent)

Loaded(q, row) ==
  [q EXCEPT !.pc = IF q.pairs = Keep THEN "flush" ELSE "delete",
            !.loaded = row, !.current = TRUE,
            !.cols = IF q.op = "test" THEN TestResult(row) ELSE @]
Load(h) ==
  LET q == req[h]
      row == fields[q.obj]
  IN /\ q.pc = "load"
     /\ IF Loads(q.op, row)
        THEN req' = [req EXCEPT ![h] = Loaded(q, row)]
        ELSE Stop(h)
     /\ UNCHANGED <<area, fields, rows, sent, done, trail, dead>>

\* Mutant: only the rows to be written again are deleted.
DoomReplaced(q) == {row \in rows[q.obj] : \E p \in q.pairs : p[1] = row.key}
\* DELETE works on what is committed when it starts; it waits for a handler that is deleting the same
\* rows, but never sees the rows that one inserts.
Doomed(q) == rows[q.obj]

Deleting(q) == [q EXCEPT !.pc = "flush", !.doomed = Doomed(q)]
Delete(h) ==
  /\ req[h].pc = "delete"
  /\ req' = [req EXCEPT ![h] = Deleting(req[h])]
  /\ UNCHANGED <<area, fields, rows, sent, done, trail, dead>>

\* The columns an UPDATE writes: those that differ from what was loaded.  A test always writes its time.
Changed(q) == IF q.loaded = Absent THEN DOMAIN q.cols
              ELSE {c \in DOMAIN q.cols : q.cols[c] # q.loaded[c]}
\* Mutant: the version of the row is not compared.
Unversioned(q) == q.loaded = Absent /\ fields[q.obj] # Absent
\* The UPDATE of a changed row finds another version, or the INSERT finds the row there.
StaleRow(q) == (Changed(q) # {} \/ q.op = "test") /\ ~ q.current

NameTaken(q) ==
  "name" \in Changed(q) /\ \E r \in Role \ {q.obj} : fields[r].name = q.cols.name

KeptRows(q) == rows[q.obj] \ q.doomed
\* Mutant: nothing makes the keys of the rows unique.
NoClash(q) == FALSE
\* (role_id, permission_code) and (policy_id, priority) are unique.
Clash(q) == q.pairs # Keep /\ \E row \in KeptRows(q), p \in q.pairs : row.key = p[1]

Written(q) ==
  LET old == IF q.loaded = Absent THEN q.cols ELSE fields[q.obj]
  IN [c \in DOMAIN old |-> IF c \in Changed(q) THEN q.cols[c] ELSE old[c]]

\* What a commit means to the request of another handler.
Overtaken(other, q) ==
  IF other.obj = q.obj /\ (Changed(q) # {} \/ q.op = "test")
  THEN [other EXCEPT !.current = FALSE] ELSE other
\* The handler that committed has its audit event to write.
Reporting(id) ==
  [pc |-> "audit", id |-> id, op |-> "none", obj |-> None, cols |-> Absent, pairs |-> Keep,
   loaded |-> Absent, current |-> FALSE, doomed |-> {}, prior |-> {}]
Change(q) == [id |-> q.id, op |-> q.op, obj |-> q.obj, cols |-> q.cols, pairs |-> q.pairs,
              prior |-> q.prior]

\* UPDATE, INSERT and COMMIT.  What fails is rolled back and answered with an error.
Flush(h) ==
  LET q == req[h]
  IN /\ q.pc = "flush"
     /\ IF StaleRow(q) \/ NameTaken(q) \/ Clash(q)
        THEN Stop(h) /\ UNCHANGED <<fields, rows, done>>
        ELSE /\ fields' = [fields EXCEPT ![q.obj] = Written(q)]
             /\ rows' = [rows EXCEPT ![q.obj] =
                           IF q.pairs = Keep THEN @
                           ELSE KeptRows(q) \cup RowOf(q.pairs, q.id)]
             /\ done' = done \cup {Change(q)}
             /\ req' = [g \in Handler |->
                  IF g = h THEN Reporting(q.id) ELSE Overtaken(req[g], q)]
     /\ UNCHANGED <<area, sent, trail, dead>>

\* Mutant: the event names the request after it.
AuditNext(h) ==
  /\ req[h].pc = "audit"
  /\ trail' = trail \cup {req[h].id + 1}
  /\ Stop(h)
  /\ UNCHANGED <<area, fields, rows, sent, done, dead>>
\* Mutant: a change without an answer to show is not reported.
AuditAnswers(h) ==
  /\ req[h].pc = "audit"
  /\ trail' = trail \cup {d.id : d \in {e \in done : e.id = req[h].id /\ e.op # "revoke"}}
  /\ Stop(h)
  /\ UNCHANGED <<area, fields, rows, sent, done, dead>>
\* record_audit, in a transaction of its own.
Audit(h) ==
  /\ req[h].pc = "audit"
  /\ trail' = trail \cup {req[h].id}
  /\ Stop(h)
  /\ UNCHANGED <<area, fields, rows, sent, done, dead>>

\* The handler dies or a call fails: an open transaction is rolled back.
Die(h) ==
  /\ req[h].pc # "idle"
  /\ dead' = IF req[h].pc = "audit" THEN dead \cup {req[h].id} ELSE dead
  /\ Stop(h)
  /\ UNCHANGED <<area, fields, rows, sent, done, trail>>

Next == \E h \in Handler : Send(h) \/ Load(h) \/ Delete(h) \/ Flush(h) \/ Audit(h) \/ Die(h)

Spec == Init /\ [][Next]_vars

(***************************************************************************)
(* Properties.                                                             *)
(***************************************************************************)
\* Every variable stays in its domain.
TypeOK ==
  /\ area \in Area /\ sent \in 0 .. MaxRequest[area]
  /\ \A o \in Object :
       /\ fields[o] = Absent \/ DOMAIN fields[o] \subseteq
            {"status", "role", "name", "message", "soft", "hard"}
       /\ \A row \in rows[o] : row.by \in 0 .. sent
  /\ \A h \in Handler :
       /\ req[h].pc \in {"idle", "load", "delete", "flush", "audit"}
       /\ req[h].id \in 0 .. sent /\ req[h].prior \subseteq Committed
  /\ Committed \subseteq 1 .. sent /\ trail \subseteq 1 .. sent /\ dead \subseteq 1 .. sent

\* repositories.py:2215: the candidates of a policy are replaced as a whole.
\* Two requests may delete the same rows and insert their own, but what is left
\* is the list of one of them.
CandidatesOfOneRequest ==
  \A t \in Route : \A r1, r2 \in rows[t] : r1.by = r2.by

\* The permissions of a role, or the candidates of a policy, that were there when
\* a replacement was asked for are gone once it is committed.
ReplacementIsTotal ==
  \A d \in done : d.pairs # Keep =>
    \A row \in rows[d.obj] : row.by # 0 /\ row.by \notin d.prior

\* Only the columns that changed are written, and yet the limits of a metric are
\* those of one request, never the soft limit of one with the hard one of another.
LimitsOfOneRequest ==
  \A q \in Quota : fields[q] # Absent =>
    \E d \in done : d.obj = q /\ d.cols = fields[q]

\* A test that passes is committed on a credential that is not revoked then,
\* however long ago the test loaded it.
Tests(k) == \E d \in done' \ done : d.op = "test" /\ d.obj = k
PassedUnrevoked ==
  [][\A k \in Credential :
       Tests(k) /\ fields'[k].message = "passed" => fields[k].status # "REVOKED"]_vars

\* Every change that was committed is reported, or about to be, unless its
\* handler died in between; nothing else is reported.
AuditComplete ==
  Committed = trail \cup dead \cup {req[h].id : h \in {g \in Handler : req[g].pc = "audit"}}

\* policy_repository.py: the job title counts only while no role is assigned.
FallbackOnlyUnassigned ==
  \A m \in Member : fields[m] # Absent /\ fields[m].role # None =>
    PolicyOf(m).grants \subseteq Codes(m)

(***************************************************************************)
(* The inductive invariant.                                                *)
(***************************************************************************)
Pending == {"load", "delete", "flush"}

HasShape(q) ==
  q = [pc |-> q.pc, id |-> q.id, op |-> q.op, obj |-> q.obj, cols |-> q.cols,
       pairs |-> q.pairs, loaded |-> q.loaded, current |-> q.current, doomed |-> q.doomed,
       prior |-> q.prior]
IsRow(f) == f = [c \in DOMAIN f |-> f[c]]
ColumnName == {"status", "role", "name", "message", "soft", "hard"}

\* A request is what the endpoints ask for; a test knows its result once it has loaded the row.
AskInv(q) ==
  /\ \E ask \in Requests :
       /\ q.op = ask.op /\ q.obj = ask.obj /\ q.pairs = ask.pairs
       /\ q.op # "test" \/ q.pc = "load" => q.cols = ask.cols
  /\ q.op = "test" /\ q.pc # "load" => q.cols = TestResult(q.loaded)

\* Requests are named once, and before what they change.
IdInv ==
  /\ sent \in Nat /\ Committed \subseteq 1 .. sent
  /\ \A d \in done : d.obj \in Object /\ d.prior \subseteq Committed
  /\ \A h \in Handler :
       /\ req[h].id \in 0 .. sent /\ req[h].prior \subseteq Committed
       /\ req[h].pc = "audit" => req[h].id \in Committed
       /\ req[h].pc \in Pending =>
            /\ req[h].id # 0 /\ req[h].id \notin Committed
            /\ \A g \in Handler \ {h} :
                 req[g].pc \in Pending => req[g].id # req[h].id

\* A request whose row is current has loaded what is there.
CurrentInv(q) ==
  /\ q.pc = "load" => q.doomed = {}
  /\ q.pc \in {"delete", "flush"} =>
       /\ q.current => q.loaded = fields[q.obj]
       /\ q.loaded # Absent => fields[q.obj] # Absent
       /\ q.loaded = Absent => Creates(q.op) \/ Upserts(q.op)

\* The columns of an object that is there, and objects of other areas.
FieldsInv ==
  \A o \in Object :
    /\ IsRow(fields[o])
    /\ fields[o] # Absent => DOMAIN fields[o] \subseteq ColumnName
    /\ o \in Quota /\ fields[o] # Absent => area = "quotas" /\ fields[o] \in Limits
    /\ o \in Credential /\ fields[o] # Absent =>
         area = "credentials" /\ {"status", "message"} \subseteq DOMAIN fields[o]

\* Rows that a pending DELETE has not seen came after the request.
RowsInv ==
  /\ \A o \in Object : \A row \in rows[o] : row.by \in {0} \cup Committed
  /\ \A h \in Handler : req[h].pc = "flush" /\ req[h].pairs # Keep =>
       \A row \in KeptRows(req[h]) : row.by # 0 /\ row.by \notin req[h].prior

\* The candidates of a policy are numbered from 1; a pending DELETE has seen all of them or none.
RouteInv ==
  /\ \A t \in Route : rows[t] # {} => \E row \in rows[t] : row.key = 1
  /\ \A h \in Handler : req[h].pc = "flush" /\ req[h].obj \in Route =>
       /\ req[h].doomed = rows[req[h].obj] \/ req[h].doomed \cap rows[req[h].obj] = {}
       /\ \A row \in req[h].doomed : row.by \in {0} \cup Committed

RequestInv ==
  \A h \in Handler :
    /\ HasShape(req[h])
    /\ req[h].pc \in {"idle", "audit"} \cup Pending
    /\ req[h].pc \in Pending => AskInv(req[h]) /\ CurrentInv(req[h])

IInv ==
  /\ req = [h \in Handler |-> req[h]] /\ fields = [o \in Object |-> fields[o]]
  /\ rows = [o \in Object |-> rows[o]]
  /\ area \in Area /\ sent \in 0 .. MaxRequest[area] /\ dead \subseteq Committed
  /\ AuditComplete /\ RequestInv /\ IdInv /\ FieldsInv /\ RowsInv /\ RouteInv
  /\ ReplacementIsTotal /\ CandidatesOfOneRequest /\ LimitsOfOneRequest
=============================================================================
