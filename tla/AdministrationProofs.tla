------------------------ MODULE AdministrationProofs ------------------------
(***************************************************************************)
(* Theorems about Administration for every set of handlers, objects and    *)
(* requests.                                                               *)
(***************************************************************************)
EXTENDS Administration, TLAPS

LEMMA RequestsStay == ASSUME area' = area PROVE Requests' = Requests
BY DEF Requests

LEMMA CommittedStays == ASSUME done' = done PROVE Committed' = Committed
BY DEF Committed

(***************************************************************************)
(* What a step makes of a request.                                         *)
(***************************************************************************)
LEMMA Idle ==
  /\ HasShape(IdleRequest) /\ IdleRequest.pc = "idle" /\ IdleRequest.id = 0
  /\ IdleRequest.prior = {} /\ IdleRequest.current = FALSE
BY DEF HasShape, IdleRequest

LEMMA Arrives ==
  ASSUME NEW ask, NEW n
  PROVE  LET q == Arriving(ask, n)
         IN /\ HasShape(q) /\ q.pc = "load" /\ q.id = n /\ q.prior = Committed
            /\ q.op = ask.op /\ q.obj = ask.obj /\ q.cols = ask.cols /\ q.pairs = ask.pairs
            /\ q.doomed = {}
BY DEF HasShape, Arriving

LEMMA SetPc ==
  ASSUME NEW q, HasShape(q), NEW pc
  PROVE  HasShape([q EXCEPT !.pc = pc])
BY DEF HasShape
LEMMA SetLoaded ==
  ASSUME NEW q, HasShape(q), NEW x
  PROVE  HasShape([q EXCEPT !.loaded = x])
BY DEF HasShape
LEMMA SetCurrent ==
  ASSUME NEW q, HasShape(q), NEW x
  PROVE  HasShape([q EXCEPT !.current = x])
BY DEF HasShape
LEMMA SetCols ==
  ASSUME NEW q, HasShape(q), NEW x
  PROVE  HasShape([q EXCEPT !.cols = x])
BY DEF HasShape
LEMMA SetDoomed ==
  ASSUME NEW q, HasShape(q), NEW x
  PROVE  HasShape([q EXCEPT !.doomed = x])
BY DEF HasShape

LEMMA LoadsRow ==
  ASSUME NEW q, HasShape(q), NEW row
  PROVE  LET r == Loaded(q, row)
         IN /\ HasShape(r)
            /\ q.pairs = Keep => r.pc = "flush"
            /\ q.pairs # Keep => r.pc = "delete"
            /\ r.loaded = row /\ r.current = TRUE
            /\ q.op = "test" => r.cols = TestResult(row)
            /\ q.op # "test" => r.cols = q.cols
            /\ r.id = q.id /\ r.op = q.op /\ r.obj = q.obj /\ r.pairs = q.pairs
            /\ r.doomed = q.doomed /\ r.prior = q.prior
<1>. DEFINE pc == IF q.pairs = Keep THEN "flush" ELSE "delete"
            cols == IF q.op = "test" THEN TestResult(row) ELSE q.cols
            q1 == [q EXCEPT !.pc = pc]
            q2 == [q1 EXCEPT !.loaded = row]
            q3 == [q2 EXCEPT !.current = TRUE]
            q4 == [q3 EXCEPT !.cols = cols]
<1>1. HasShape(q1)
  BY SetPc
<1>2. HasShape(q2)
  <2>. HIDE DEF q1
  <2>. QED  BY <1>1, SetLoaded
<1>3. HasShape(q3)
  <2>. HIDE DEF q2
  <2>. QED  BY <1>2, SetCurrent
<1>4. HasShape(q4)
  <2>. HIDE DEF q3
  <2>. QED  BY <1>3, SetCols
<1>5. Loaded(q, row) = q4
  BY DEF Loaded, HasShape
<1>. HIDE DEF pc, cols
<1>6. /\ q4.pc = pc /\ q4.loaded = row /\ q4.current = TRUE /\ q4.cols = cols
      /\ q4.id = q.id /\ q4.op = q.op /\ q4.obj = q.obj /\ q4.pairs = q.pairs
      /\ q4.doomed = q.doomed /\ q4.prior = q.prior
  BY DEF HasShape
<1>. HIDE DEF q4
<1>. QED  BY <1>4, <1>5, <1>6 DEF pc, cols

LEMMA Deletes ==
  ASSUME NEW q, HasShape(q)
  PROVE  LET r == Deleting(q)
         IN /\ HasShape(r) /\ r.pc = "flush" /\ r.doomed = rows[q.obj]
            /\ r.id = q.id /\ r.op = q.op /\ r.obj = q.obj /\ r.pairs = q.pairs
            /\ r.cols = q.cols /\ r.loaded = q.loaded /\ r.current = q.current
            /\ r.prior = q.prior
<1>. DEFINE q1 == [q EXCEPT !.pc = "flush"]
            q2 == [q1 EXCEPT !.doomed = rows[q.obj]]
<1>1. HasShape(q1)
  BY SetPc
<1>2. HasShape(q2)
  <2>. HIDE DEF q1
  <2>. QED  BY <1>1, SetDoomed
<1>3. Deleting(q) = q2
  BY DEF Deleting, Doomed, HasShape
<1>4. /\ q2.pc = "flush" /\ q2.doomed = rows[q.obj]
      /\ q2.id = q.id /\ q2.op = q.op /\ q2.obj = q.obj /\ q2.pairs = q.pairs
      /\ q2.cols = q.cols /\ q2.loaded = q.loaded /\ q2.current = q.current
      /\ q2.prior = q.prior
  BY DEF HasShape
<1>. HIDE DEF q2
<1>. QED  BY <1>2, <1>3, <1>4

LEMMA Overtakes ==
  ASSUME NEW other, HasShape(other), NEW q
  PROVE  LET r == Overtaken(other, q)
         IN /\ HasShape(r) /\ r.pc = other.pc /\ r.id = other.id /\ r.op = other.op
            /\ r.obj = other.obj /\ r.cols = other.cols /\ r.pairs = other.pairs
            /\ r.loaded = other.loaded /\ r.doomed = other.doomed /\ r.prior = other.prior
            /\ r.current => /\ other.current
                            /\ other.obj = q.obj => Changed(q) = {} /\ q.op # "test"
<1>1. CASE other.obj = q.obj /\ (Changed(q) # {} \/ q.op = "test")
  <2>1. Overtaken(other, q) = [other EXCEPT !.current = FALSE]
    BY <1>1 DEF Overtaken
  <2>. QED  BY <2>1, SetCurrent DEF HasShape
<1>2. CASE ~(other.obj = q.obj /\ (Changed(q) # {} \/ q.op = "test"))
  <2>1. Overtaken(other, q) = other
    BY <1>2 DEF Overtaken
  <2>. QED  BY <1>2, <2>1
<1>. QED  BY <1>1, <1>2

(***************************************************************************)
(* A step that moves one request and changes neither objects nor history.  *)
(***************************************************************************)
\* What is said of objects and history alone stays with them.
LEMMA KeepsObjects ==
  ASSUME UNCHANGED <<fields, rows, done>>,
         ReplacementIsTotal, CandidatesOfOneRequest, LimitsOfOneRequest
  PROVE  ReplacementIsTotal' /\ CandidatesOfOneRequest' /\ LimitsOfOneRequest'
<1>1. ReplacementIsTotal'
  BY DEF ReplacementIsTotal
<1>2. CandidatesOfOneRequest'
  BY DEF CandidatesOfOneRequest
<1>3. LimitsOfOneRequest'
  BY DEF LimitsOfOneRequest
<1>. QED  BY <1>1, <1>2, <1>3

LEMMA MoveRequest ==
  ASSUME IInv, NEW h \in Handler, NEW q,
         req' = [req EXCEPT ![h] = q], UNCHANGED <<area, fields, rows, done>>,
         sent' \in sent .. MaxRequest[area], dead' \subseteq Committed,
         HasShape(q), q.pc \in {"idle", "audit"} \cup Pending,
         q.pc \in Pending => AskInv(q) /\ CurrentInv(q),
         q.id \in 0 .. sent', q.prior \subseteq Committed, q.pc # "audit",
         q.pc \in Pending =>
           /\ q.id # 0 /\ q.id \notin Committed
           /\ \A g \in Handler \ {h} : req[g].pc \in Pending => req[g].id # q.id,
         q.pc = "flush" /\ q.pairs # Keep =>
           \A row \in KeptRows(q) : row.by # 0 /\ row.by \notin q.prior,
         q.pc = "flush" /\ q.obj \in Route =>
           /\ q.doomed = rows[q.obj] \/ q.doomed \cap rows[q.obj] = {}
           /\ \A row \in q.doomed : row.by \in {0} \cup Committed,
         AuditComplete'
  PROVE  IInv'
<1>0. /\ req'[h] = q /\ \A g \in Handler \ {h} : req'[g] = req[g]
      /\ req' = [g \in Handler |-> req'[g]] /\ Committed' = Committed
      /\ Requests' = Requests
  BY CommittedStays, RequestsStay DEF IInv
<1>n. sent \in Nat /\ sent' \in Nat /\ sent <= sent'
  BY DEF IInv, IdInv
<1>1. RequestInv'
  <2>. SUFFICES ASSUME NEW g \in Handler
                PROVE  /\ HasShape(req'[g])
                       /\ req'[g].pc \in {"idle", "audit"} \cup Pending
                       /\ req'[g].pc \in Pending => AskInv(req[g])' /\ CurrentInv(req[g])'
    BY DEF RequestInv, HasShape
  <2>1. CASE g = h
    BY <1>0, <2>1 DEF AskInv, CurrentInv
  <2>2. CASE g # h
    <3>1. HasShape(req[g]) /\ req[g].pc \in {"idle", "audit"} \cup Pending
      BY DEF IInv, RequestInv
    <3>2. req[g].pc \in Pending => AskInv(req[g]) /\ CurrentInv(req[g])
      BY DEF IInv, RequestInv
    <3>. QED  BY <1>0, <2>2, <3>1, <3>2 DEF AskInv, CurrentInv
  <2>. QED  BY <2>1, <2>2
<1>2. IdInv'
  <2>1. Committed \subseteq 1 .. sent'
    BY <1>n DEF IInv, IdInv
  <2>2. ASSUME NEW g \in Handler
        PROVE  /\ req'[g].id \in 0 .. sent' /\ req'[g].prior \subseteq Committed
               /\ req'[g].pc = "audit" => req'[g].id \in Committed
               /\ req'[g].pc \in Pending => req'[g].id # 0 /\ req'[g].id \notin Committed
    <3>1. CASE g = h
      BY <1>0, <3>1
    <3>2. CASE g # h
      BY <1>0, <1>n, <3>2 DEF IInv, IdInv
    <3>. QED  BY <3>1, <3>2
  <2>3. ASSUME NEW g \in Handler, NEW f \in Handler \ {g},
               req'[g].pc \in Pending, req'[f].pc \in Pending
        PROVE  req'[f].id # req'[g].id
    <3>1. CASE g = h
      BY <1>0, <2>3, <3>1
    <3>2. CASE f = h
      BY <1>0, <2>3, <3>2
    <3>3. CASE g # h /\ f # h
      BY <1>0, <2>3, <3>3 DEF IInv, IdInv
    <3>. QED  BY <3>1, <3>2, <3>3
  <2>4. \A d \in done' : d.obj \in Object /\ d.prior \subseteq Committed
    BY DEF IInv, IdInv
  <2>. QED  BY <1>0, <1>n, <2>1, <2>2, <2>3, <2>4 DEF IdInv
<1>3. FieldsInv'
  BY DEF IInv, FieldsInv
<1>4. RowsInv'
  <2>1. ASSUME NEW g \in Handler, req'[g].pc = "flush", req'[g].pairs # Keep,
               NEW row \in rows[req'[g].obj] \ req'[g].doomed
        PROVE  row.by # 0 /\ row.by \notin req'[g].prior
    <3>1. CASE g = h
      BY <1>0, <2>1, <3>1 DEF KeptRows
    <3>2. CASE g # h
      BY <1>0, <2>1, <3>2 DEF IInv, RowsInv, KeptRows
    <3>. QED  BY <3>1, <3>2
  <2>2. \A o \in Object : \A row \in rows'[o] : row.by \in {0} \cup Committed'
    BY <1>0 DEF IInv, RowsInv
  <2>. QED  BY <2>1, <2>2 DEF RowsInv, KeptRows
<1>5. RouteInv'
  <2>1. ASSUME NEW g \in Handler, req'[g].pc = "flush", req'[g].obj \in Route
        PROVE  /\ \/ req'[g].doomed = rows[req'[g].obj]
                  \/ req'[g].doomed \cap rows[req'[g].obj] = {}
               /\ \A row \in req'[g].doomed : row.by \in {0} \cup Committed
    <3>1. CASE g = h
      BY <1>0, <2>1, <3>1
    <3>2. CASE g # h
      BY <1>0, <2>1, <3>2 DEF IInv, RouteInv
    <3>. QED  BY <3>1, <3>2
  <2>. QED  BY <1>0, <2>1 DEF IInv, RouteInv
<1>6. ReplacementIsTotal' /\ CandidatesOfOneRequest' /\ LimitsOfOneRequest'
  BY KeepsObjects DEF IInv
<1>7. sent' \in 0 .. MaxRequest[area] /\ MaxRequest[area'] = MaxRequest[area]
  BY <1>n
<1>. QED  BY <1>0, <1>1, <1>2, <1>3, <1>4, <1>5, <1>6, <1>7 DEF IInv

(***************************************************************************)
(* What the endpoints ask for.                                             *)
(***************************************************************************)
\* A list of candidates that is not empty has a first one.
LEMMA FirstCandidate ==
  ASSUME NEW list \in CandidateLists, list # {}
  PROVE  \E p \in list : p[1] = 1
<1>. DEFINE Lists(n) == {{<<i, f[i]>> : i \in 1 .. n} : f \in [1 .. n -> Model]}
<1>0. PICK n \in 0 .. MaxCandidate : list \in Lists(n)
  BY Zenon DEF CandidateLists
<1>1. PICK f \in [1 .. n -> Model] : list = {<<i, f[i]>> : i \in 1 .. n}
  BY <1>0
<1>2. n \in Nat /\ 1 \in 1 .. n
  BY <1>0, <1>1, BoundAssumption
<1>3. <<1, f[1]>> \in list
  BY <1>1, <1>2
<1>. QED  BY <1>3

LEMMA Asked ==
  ASSUME NEW ask \in Requests, area \in Area
  PROVE  /\ ask.obj \in Object /\ DOMAIN ask.cols \subseteq ColumnName
         /\ ask.obj \in Quota =>
              area = "quotas" /\ ask.op = "upsert_quota" /\ ask.cols \in Limits
         /\ ask.obj \in Credential =>
              /\ area = "credentials"
              /\ ask.op \in {"create_credential", "test", "revoke"}
              /\ ask.op = "create_credential" => DOMAIN ask.cols = {"status", "message"}
         /\ ask.obj \in Route => ask.op = "upsert_route" /\ ask.pairs \in CandidateLists
         /\ Creates(ask.op) \/ Upserts(ask.op) => DOMAIN ask.cols # {}
         /\ ask.op = "test" => area = "credentials" /\ ask.obj \in Credential
<1>1. area \in {"people", "credentials", "routes", "quotas"}
  BY AreaAssumption
<1>2. CASE area = "people"
  <2>1. Requests = Asks("update_member", Member, MemberColumns, {Keep})
         \cup Asks("create_member", Member, [status : {"ACTIVE"}, role : Role], {Keep})
         \cup Asks("update_role", Role, {<<>>} \cup [name : RoleName],
                   {Keep} \cup PermissionLists)
    BY <1>2 DEF Requests
  <2>2. ask.obj \in Member \cup Role /\ ask.op \in {"update_member", "create_member", "update_role"}
    BY <2>1 DEF Asks
  <2>3. /\ ask.op = "update_member" => ask.cols \in MemberColumns
        /\ ask.op = "create_member" => ask.cols \in [status : {"ACTIVE"}, role : Role]
        /\ ask.op = "update_role" => ask.cols \in {<<>>} \cup [name : RoleName]
    BY <2>1 DEF Asks
  <2>4. DOMAIN ask.cols \subseteq ColumnName
    BY <2>2, <2>3 DEF MemberColumns, ColumnName
  <2>5. ask.op = "create_member" => DOMAIN ask.cols = {"status", "role"}
    BY <2>3
  <2>. QED  BY <2>2, <2>4, <2>5, KindAssumption DEF Object, Creates, Upserts
<1>3. CASE area = "credentials"
  <2>1. Requests = Asks("create_credential", Credential,
                        [status : {"ACTIVE"}, message : {"none"}], {Keep})
         \cup Asks("test", Credential, {<<>>}, {Keep})
         \cup Asks("revoke", Credential, [status : {"REVOKED"}], {Keep})
    BY <1>3 DEF Requests
  <2>2. ask.obj \in Credential /\ ask.op \in {"create_credential", "test", "revoke"}
    BY <2>1 DEF Asks
  <2>3. /\ ask.op = "create_credential" => ask.cols \in [status : {"ACTIVE"}, message : {"none"}]
        /\ ask.op = "test" => ask.cols = <<>>
        /\ ask.op = "revoke" => ask.cols \in [status : {"REVOKED"}]
    BY <2>1 DEF Asks
  <2>4. /\ DOMAIN ask.cols \subseteq ColumnName
        /\ ask.op = "create_credential" => DOMAIN ask.cols = {"status", "message"}
    BY <2>2, <2>3 DEF ColumnName
  <2>. QED  BY <1>3, <2>2, <2>4, KindAssumption DEF Object, Creates, Upserts
<1>4. CASE area = "routes"
  <2>1. Requests = Asks("upsert_route", Route, [status : {"ACTIVE", "DISABLED"}],
                        CandidateLists)
    BY <1>4 DEF Requests
  <2>2. /\ ask.obj \in Route /\ ask.op = "upsert_route" /\ ask.pairs \in CandidateLists
        /\ ask.cols \in [status : {"ACTIVE", "DISABLED"}]
    BY <2>1 DEF Asks
  <2>3. DOMAIN ask.cols = {"status"}
    BY <2>2
  <2>. QED  BY <2>2, <2>3, KindAssumption DEF Object, Creates, Upserts, ColumnName
<1>5. CASE area = "quotas"
  <2>1. Requests = Asks("upsert_quota", Quota, Limits, {Keep})
    BY <1>5 DEF Requests
  <2>2. ask.obj \in Quota /\ ask.op = "upsert_quota" /\ ask.cols \in Limits
    BY <2>1 DEF Asks
  <2>3. DOMAIN ask.cols = {"soft", "hard"}
    BY <2>2 DEF Limits
  <2>. QED  BY <1>5, <2>2, <2>3, KindAssumption DEF Object, Creates, Upserts, ColumnName
<1>. QED  BY <1>1, <1>2, <1>3, <1>4, <1>5

(***************************************************************************)
(* The steps that commit nothing.                                          *)
(***************************************************************************)
\* What the invariant says of a request that has been sent.
LEMMA Known ==
  ASSUME IInv, NEW h \in Handler, req[h].pc \in Pending
  PROVE  /\ HasShape(req[h]) /\ AskInv(req[h]) /\ CurrentInv(req[h])
         /\ req[h].obj \in Object
         /\ req[h].id \in 0 .. sent /\ req[h].id # 0 /\ req[h].id \notin Committed
         /\ req[h].prior \subseteq Committed
         /\ \A g \in Handler \ {h} : req[g].pc \in Pending => req[g].id # req[h].id
<1>1. PICK ask \in Requests : req[h].obj = ask.obj
  BY DEF IInv, RequestInv, AskInv
<1>2. req[h].obj \in Object
  BY <1>1, Asked DEF IInv
<1>. QED  BY <1>2 DEF IInv, RequestInv, IdInv

\* Nobody waits to audit anew, and nobody stops waiting.
LEMMA AuditStays ==
  ASSUME IInv, NEW h \in Handler, NEW q, req' = [req EXCEPT ![h] = q],
         UNCHANGED <<done, trail, dead>>, req[h].pc # "audit", q.pc # "audit"
  PROVE  AuditComplete'
<1>1. req'[h] = q /\ \A g \in Handler \ {h} : req'[g] = req[g]
  BY DEF IInv
<1>2. {g \in Handler : req'[g].pc = "audit"} = {g \in Handler : req[g].pc = "audit"}
  BY <1>1
<1>3. {req'[g].id : g \in {f \in Handler : req'[f].pc = "audit"}}
        = {req[g].id : g \in {f \in Handler : req[f].pc = "audit"}}
  BY <1>1, <1>2
<1>4. AuditComplete /\ Committed' = Committed
  BY CommittedStays DEF IInv
<1>. QED  BY <1>3, <1>4 DEF AuditComplete

LEMMA Bounds == IInv => /\ sent \in Nat /\ sent \in sent .. MaxRequest[area]
                        /\ MaxRequest[area] \in Nat /\ dead \subseteq Committed
<1>1. ASSUME IInv PROVE sent \in Nat /\ MaxRequest[area] \in Nat /\ sent \in 0 .. MaxRequest[area]
  BY <1>1, BoundAssumption DEF IInv, IdInv
<1>2. ASSUME NEW n \in Nat, NEW m \in Nat, n \in 0 .. m PROVE n \in n .. m
  BY <1>2
<1>. QED  BY <1>1, <1>2 DEF IInv

LEMMA SendStep ==
  ASSUME IInv, NEW h \in Handler, Send(h)
  PROVE  IInv'
<1>1. PICK ask \in Requests : req' = [req EXCEPT ![h] = Arriving(ask, sent + 1)]
  BY DEF Send
<1>. DEFINE q == Arriving(ask, sent + 1)
<1>2. /\ HasShape(q) /\ q.pc = "load" /\ q.id = sent + 1 /\ q.prior = Committed
      /\ q.op = ask.op /\ q.obj = ask.obj /\ q.cols = ask.cols /\ q.pairs = ask.pairs
      /\ q.doomed = {}
  BY Arrives
<1>. HIDE DEF q
<1>3. AskInv(q) /\ CurrentInv(q)
  BY <1>2 DEF AskInv, CurrentInv
<1>4. /\ sent \in Nat /\ MaxRequest[area] \in Nat /\ sent' = sent + 1
      /\ sent < MaxRequest[area] /\ dead \subseteq Committed
  BY Bounds DEF Send
<1>5. sent' \in sent .. MaxRequest[area] /\ sent + 1 \in 0 .. sent' /\ sent + 1 # 0
  BY <1>4
<1>6. sent + 1 \notin Committed
  BY <1>4 DEF IInv, IdInv
<1>7. \A g \in Handler \ {h} : req[g].pc \in Pending => req[g].id # sent + 1
  BY <1>4 DEF IInv, IdInv
<1>8. UNCHANGED <<area, fields, rows, done, trail, dead>> /\ req[h].pc = "idle"
  BY DEF Send
<1>9. AuditComplete'
  BY <1>1, <1>2, <1>8, AuditStays DEF q
<1>. QED
  BY <1>1, <1>2, <1>3, <1>4, <1>5, <1>6, <1>7, <1>8, <1>9, MoveRequest DEF q, Pending

\* A handler that gives up before its commit.
LEMMA StopStep ==
  ASSUME IInv, NEW h \in Handler, Stop(h), req[h].pc # "audit",
         UNCHANGED <<area, fields, rows, sent, done, trail, dead>>
  PROVE  IInv'
<1>1. req' = [req EXCEPT ![h] = IdleRequest]
  BY DEF Stop
<1>2. AuditComplete'
  BY <1>1, Idle, AuditStays
<1>3. 0 \in 0 .. sent /\ sent' \in sent .. MaxRequest[area]
  BY Bounds
<1>. QED  BY <1>1, <1>2, <1>3, Idle, Bounds, MoveRequest DEF Pending

LEMMA LoadStep ==
  ASSUME IInv, NEW h \in Handler, Load(h)
  PROVE  IInv'
<1>. DEFINE q == req[h]
            row == fields[q.obj]
            r == Loaded(q, row)
<1>1. q.pc = "load" /\ UNCHANGED <<area, fields, rows, sent, done, trail, dead>>
  BY DEF Load
<1>2. /\ HasShape(q) /\ AskInv(q) /\ q.obj \in Object
      /\ q.id \in 0 .. sent /\ q.id # 0 /\ q.id \notin Committed /\ q.prior \subseteq Committed
      /\ \A g \in Handler \ {h} : req[g].pc \in Pending => req[g].id # q.id
  BY <1>1, Known DEF Pending
<1>3. CASE ~Loads(q.op, row)
  BY <1>1, <1>3, StopStep DEF Load
<1>4. CASE Loads(q.op, row)
  <2>1. req' = [req EXCEPT ![h] = r]
    BY <1>4 DEF Load
  <2>2. /\ HasShape(r)
        /\ q.pairs = Keep => r.pc = "flush"
        /\ q.pairs # Keep => r.pc = "delete"
        /\ r.loaded = row /\ r.current = TRUE
        /\ q.op = "test" => r.cols = TestResult(row)
        /\ q.op # "test" => r.cols = q.cols
        /\ r.id = q.id /\ r.op = q.op /\ r.obj = q.obj /\ r.pairs = q.pairs
        /\ r.doomed = q.doomed /\ r.prior = q.prior
    <3>1. HasShape(q)
      BY <1>2
    <3>. HIDE DEF q, row
    <3>. QED  BY <3>1, LoadsRow
  <2>. HIDE DEF r
  <2>3. r.pc \in {"flush", "delete"} /\ (r.pc = "flush" => r.pairs = Keep)
    BY <2>2
  <2>4. AskInv(r)
    BY <1>1, <1>2, <2>2, <2>3 DEF AskInv
  <2>5. CurrentInv(r)
    BY <1>4, <2>2 DEF CurrentInv, Loads
  <2>6. AuditComplete'
    BY <1>1, <2>1, <2>3, AuditStays
  <2>7. r.pc = "flush" /\ r.obj \in Route =>
          /\ r.doomed = rows[r.obj] \/ r.doomed \cap rows[r.obj] = {}
          /\ \A x \in r.doomed : x.by \in {0} \cup Committed
    BY <1>1, <2>2, Known DEF CurrentInv, Pending
  <2>. HIDE DEF q, row
  <2>. QED
    BY <1>1, <1>2, <2>1, <2>2, <2>3, <2>4, <2>5, <2>6, <2>7, Bounds, MoveRequest DEF Pending
<1>. QED  BY <1>3, <1>4

LEMMA DeleteStep ==
  ASSUME IInv, NEW h \in Handler, Delete(h)
  PROVE  IInv'
<1>. DEFINE q == req[h]
            r == Deleting(q)
<1>1. /\ q.pc = "delete" /\ UNCHANGED <<area, fields, rows, sent, done, trail, dead>>
      /\ req' = [req EXCEPT ![h] = r]
  BY DEF Delete
<1>2. /\ HasShape(q) /\ AskInv(q) /\ CurrentInv(q) /\ q.obj \in Object
      /\ q.id \in 0 .. sent /\ q.id # 0 /\ q.id \notin Committed /\ q.prior \subseteq Committed
      /\ \A g \in Handler \ {h} : req[g].pc \in Pending => req[g].id # q.id
  BY <1>1, Known DEF Pending
<1>3. /\ HasShape(r) /\ r.pc = "flush" /\ r.doomed = rows[q.obj]
      /\ r.id = q.id /\ r.op = q.op /\ r.obj = q.obj /\ r.pairs = q.pairs
      /\ r.cols = q.cols /\ r.loaded = q.loaded /\ r.current = q.current
      /\ r.prior = q.prior
  BY <1>2, Deletes
<1>. HIDE DEF r
<1>4. AskInv(r) /\ CurrentInv(r)
  BY <1>1, <1>2, <1>3 DEF AskInv, CurrentInv
<1>5. KeptRows(r) = {}
  BY <1>3 DEF KeptRows
<1>6. \A x \in r.doomed : x.by \in {0} \cup Committed
  BY <1>2, <1>3 DEF IInv, RowsInv
<1>7. AuditComplete'
  BY <1>1, <1>3, AuditStays
<1>. HIDE DEF q
<1>. QED
  BY <1>1, <1>2, <1>3, <1>4, <1>5, <1>6, <1>7, Bounds, MoveRequest DEF Pending

\* The audit event is written, or its handler dies instead.
LEMMA LeaveAudit ==
  ASSUME IInv, NEW h \in Handler, Stop(h), req[h].pc = "audit",
         UNCHANGED <<area, fields, rows, sent, done>>,
         trail' \cup dead' = trail \cup dead \cup {req[h].id}, dead' \subseteq Committed
  PROVE  IInv'
<1>1. req' = [req EXCEPT ![h] = IdleRequest]
  BY DEF Stop
<1>2. req'[h].pc = "idle" /\ \A g \in Handler \ {h} : req'[g] = req[g]
  BY <1>1, Idle DEF IInv
<1>. DEFINE A == {req[g].id : g \in {f \in Handler : req[f].pc = "audit"}}
            B == {req'[g].id : g \in {f \in Handler : req'[f].pc = "audit"}}
<1>3. A = B \cup {req[h].id}
  BY <1>2
<1>4. Committed = trail \cup dead \cup A
  BY DEF IInv, AuditComplete
<1>5. Committed' = Committed /\ req[h].id \in Committed
  BY CommittedStays DEF IInv, IdInv
<1>6. AuditComplete'
  <2>. HIDE DEF A
  <2>1. Committed = trail' \cup dead' \cup B
    BY <1>3, <1>4
  <2>. QED  BY <1>5, <2>1 DEF AuditComplete
<1>7. 0 \in 0 .. sent /\ sent' \in sent .. MaxRequest[area]
  BY Bounds
<1>. QED  BY <1>1, <1>6, <1>7, Idle, MoveRequest DEF Pending

LEMMA AuditStep ==
  ASSUME IInv, NEW h \in Handler, Audit(h)
  PROVE  IInv'
BY LeaveAudit, Bounds DEF Audit

LEMMA DieStep ==
  ASSUME IInv, NEW h \in Handler, Die(h)
  PROVE  IInv'
<1>1. CASE req[h].pc = "audit"
  <2>1. req[h].id \in Committed /\ dead' = dead \cup {req[h].id}
    BY <1>1 DEF Die, IInv, IdInv
  <2>. QED  BY <1>1, <2>1, LeaveAudit, Bounds DEF Die
<1>2. CASE req[h].pc # "audit"
  BY <1>2, StopStep DEF Die
<1>. QED  BY <1>1, <1>2

(***************************************************************************)
(* A commit.                                                               *)
(***************************************************************************)
Commits(h) ==
  /\ Flush(h) /\ ~StaleRow(req[h]) /\ ~NameTaken(req[h]) /\ ~Clash(req[h])

\* What a commit does to the object.
LEMMA WrittenRow ==
  ASSUME IInv, NEW h \in Handler, req[h].pc = "flush", ~StaleRow(req[h])
  PROVE  LET q == req[h]
         IN /\ IsRow(Written(q)) /\ Written(q) # Absent
            /\ DOMAIN Written(q) \subseteq ColumnName
            /\ q.obj \in Credential => {"status", "message"} \subseteq DOMAIN Written(q)
            /\ Changed(q) = {} /\ q.op # "test" => Written(q) = fields[q.obj]
<1>. DEFINE q == req[h]
<1>1. AskInv(q) /\ CurrentInv(q) /\ q.obj \in Object
  BY Known DEF Pending
<1>2. PICK ask \in Requests :
        /\ q.op = ask.op /\ q.obj = ask.obj /\ q.pairs = ask.pairs
        /\ q.op # "test" => q.cols = ask.cols
  BY <1>1 DEF AskInv
<1>3. /\ DOMAIN ask.cols \subseteq ColumnName
      /\ Creates(ask.op) \/ Upserts(ask.op) => DOMAIN ask.cols # {}
      /\ ask.obj \in Credential =>
           /\ ask.op \in {"create_credential", "test", "revoke"}
           /\ ask.op = "create_credential" => DOMAIN ask.cols = {"status", "message"}
  BY <1>2, Asked DEF IInv
<1>4. /\ q.loaded # Absent => fields[q.obj] # Absent
      /\ q.loaded = Absent => Creates(q.op) \/ Upserts(q.op)
  BY <1>1 DEF CurrentInv
<1>. DEFINE old == IF q.loaded = Absent THEN q.cols ELSE fields[q.obj]
<1>5. Written(q) = [c \in DOMAIN old |-> IF c \in Changed(q) THEN q.cols[c] ELSE old[c]]
  BY DEF Written
<1>6. IsRow(Written(q)) /\ DOMAIN Written(q) = DOMAIN old
  <2>. HIDE DEF old, q
  <2>. QED  BY <1>5 DEF IsRow
<1>7. "absent" \notin ColumnName /\ DOMAIN Absent = {"absent"}
  BY DEF ColumnName, Absent
<1>8. CASE q.loaded = Absent
  <2>1. q.op # "test" /\ q.cols = ask.cols /\ old = ask.cols /\ Changed(q) = DOMAIN ask.cols
    BY <1>2, <1>4, <1>8 DEF Creates, Upserts, Changed
  <2>2. q.obj \in Credential => DOMAIN old = {"status", "message"}
    BY <1>2, <1>3, <1>4, <1>8, <2>1 DEF Creates, Upserts
  <2>3. Changed(q) # {}
    BY <1>2, <1>3, <1>4, <1>8, <2>1
  <2>4. Written(q) # Absent
    BY <1>3, <1>6, <1>7, <2>1
  <2>. QED  BY <1>3, <1>6, <2>1, <2>2, <2>3, <2>4
<1>9. CASE q.loaded # Absent
  <2>1. old = fields[q.obj] /\ old # Absent
    BY <1>4, <1>9
  <2>2. /\ IsRow(old) /\ DOMAIN old \subseteq ColumnName
        /\ q.obj \in Credential => {"status", "message"} \subseteq DOMAIN old
    BY <1>1, <2>1 DEF IInv, FieldsInv
  <2>3. ASSUME Changed(q) = {} PROVE Written(q) = old
    <3>. HIDE DEF old, q
    <3>. QED  BY <1>5, <2>2, <2>3 DEF IsRow
  <2>4. Written(q) # Absent
    BY <1>6, <1>7, <2>2
  <2>. QED  BY <1>6, <2>1, <2>2, <2>3, <2>4
<1>. QED  BY <1>8, <1>9

LEMMA CommitEffect ==
  ASSUME IInv, NEW h \in Handler, Commits(h)
  PROVE  LET q == req[h]
         IN /\ q.pc = "flush" /\ UNCHANGED <<area, sent, trail, dead>>
            /\ fields' = [fields EXCEPT ![q.obj] = Written(q)]
            /\ rows' = [rows EXCEPT ![q.obj] =
                          IF q.pairs = Keep THEN @ ELSE KeptRows(q) \cup RowOf(q.pairs, q.id)]
            /\ done' = done \cup {Change(q)} /\ Committed' = Committed \cup {q.id}
            /\ req' = [g \in Handler |-> req'[g]]
            /\ HasShape(req'[h]) /\ req'[h].pc = "audit" /\ req'[h].id = q.id
            /\ req'[h].prior = {}
            /\ \A g \in Handler \ {h} : req'[g] = Overtaken(req[g], q)
<1>. DEFINE q == req[h]
            a == Reporting(q.id)
<1>1. /\ q.pc = "flush" /\ UNCHANGED <<area, sent, trail, dead>>
      /\ fields' = [fields EXCEPT ![q.obj] = Written(q)]
      /\ rows' = [rows EXCEPT ![q.obj] =
                    IF q.pairs = Keep THEN @ ELSE KeptRows(q) \cup RowOf(q.pairs, q.id)]
      /\ done' = done \cup {Change(q)}
      /\ req' = [g \in Handler |-> IF g = h THEN a ELSE Overtaken(req[g], q)]
  BY DEF Commits, Flush
<1>2. Change(q).id = q.id
  BY DEF Change
<1>3. Committed' = Committed \cup {q.id}
  BY <1>1, <1>2 DEF Committed
<1>4. HasShape(a) /\ a.pc = "audit" /\ a.id = q.id /\ a.prior = {}
  BY DEF Reporting, HasShape
<1>5. /\ req'[h] = a /\ \A g \in Handler \ {h} : req'[g] = Overtaken(req[g], q)
      /\ req' = [g \in Handler |-> req'[g]]
  <2>. HIDE DEF a
  <2>. QED  BY <1>1
<1>. HIDE DEF a
<1>. QED  BY <1>1, <1>3, <1>4, <1>5

LEMMA CommitWrites ==
  ASSUME IInv, NEW h \in Handler, Commits(h)
  PROVE  LET q == req[h]
         IN /\ fields' = [o \in Object |-> fields'[o]] /\ rows' = [o \in Object |-> rows'[o]]
            /\ fields'[q.obj] = Written(q)
            /\ q.pairs = Keep => rows'[q.obj] = rows[q.obj]
            /\ q.pairs # Keep => rows'[q.obj] = KeptRows(q) \cup RowOf(q.pairs, q.id)
            /\ \A o \in Object \ {q.obj} : fields'[o] = fields[o] /\ rows'[o] = rows[o]
<1>. DEFINE q == req[h]
            new == IF q.pairs = Keep THEN rows[q.obj] ELSE KeptRows(q) \cup RowOf(q.pairs, q.id)
<1>1. /\ fields' = [fields EXCEPT ![q.obj] = Written(q)] /\ rows' = [rows EXCEPT ![q.obj] = new]
      /\ q.pc = "flush"
  BY CommitEffect
<1>2. q.obj \in Object
  BY <1>1, Known DEF Pending
<1>. HIDE DEF new
<1>3. /\ fields' = [o \in Object |-> fields'[o]] /\ rows' = [o \in Object |-> rows'[o]]
      /\ fields'[q.obj] = Written(q) /\ rows'[q.obj] = new
      /\ \A o \in Object \ {q.obj} : fields'[o] = fields[o] /\ rows'[o] = rows[o]
  <2>1. fields = [o \in Object |-> fields[o]] /\ rows = [o \in Object |-> rows[o]]
    BY DEF IInv
  <2>. HIDE DEF q
  <2>. QED  BY <1>1, <1>2, <2>1
<1>. QED  BY <1>3 DEF new

\* The rows a request inserts are its own.
LEMMA NewRows ==
  ASSUME NEW pairs, NEW id
  PROVE  /\ \A row \in RowOf(pairs, id) : row.by = id
         /\ \A p \in pairs : \E row \in RowOf(pairs, id) : row.key = p[1]
         /\ pairs = {} => RowOf(pairs, id) = {}
<1>1. \A row \in RowOf(pairs, id) : row.by = id
  BY DEF RowOf
<1>2. ASSUME NEW p \in pairs PROVE \E row \in RowOf(pairs, id) : row.key = p[1]
  <2>. DEFINE row == [key |-> p[1], val |-> p[2], by |-> id]
  <2>1. row \in RowOf(pairs, id) /\ row.key = p[1]
    BY DEF RowOf
  <2>. QED  BY <2>1
<1>3. pairs = {} => RowOf(pairs, id) = {}
  BY DEF RowOf
<1>. QED  BY <1>1, <1>2, <1>3

\* A commit replaces the candidates of a policy, or leaves them as they are.
LEMMA RouteRows ==
  ASSUME IInv, NEW h \in Handler, Commits(h), req[h].obj \in Route
  PROVE  LET q == req[h]
         IN \/ rows'[q.obj] = rows[q.obj]
            \/ /\ rows'[q.obj] = RowOf(q.pairs, q.id)
               /\ q.pairs # {} => \E p \in q.pairs : p[1] = 1
<1>. DEFINE q == req[h]
<1>1. q.pc = "flush" /\ ~Clash(q)
  BY DEF Commits, Flush
<1>2. PICK ask \in Requests : q.obj = ask.obj /\ q.pairs = ask.pairs
  BY <1>1, Known DEF AskInv, Pending
<1>3. q.pairs # {} => \E p \in q.pairs : p[1] = 1
  BY <1>2, Asked, FirstCandidate DEF IInv
<1>4. CASE q.pairs = Keep
  BY <1>4, CommitWrites
<1>5. CASE q.pairs # Keep
  <2>1. rows'[q.obj] = KeptRows(q) \cup RowOf(q.pairs, q.id)
    BY <1>5, CommitWrites
  <2>2. CASE q.doomed = rows[q.obj]
    <3>1. KeptRows(q) = {}
      BY <2>2 DEF KeptRows
    <3>. QED  BY <1>3, <2>1, <3>1
  <2>3. CASE q.doomed \cap rows[q.obj] = {}
    <3>1. KeptRows(q) = rows[q.obj]
      BY <2>3 DEF KeptRows
    <3>2. CASE q.pairs = {}
      BY <2>1, <3>1, <3>2, NewRows
    <3>3. CASE q.pairs # {}
      <4>1. PICK p \in q.pairs : p[1] = 1
        BY <1>3, <3>3
      <4>2. ~ \E row \in rows[q.obj] : row.key = 1
        BY <1>1, <1>5, <3>1, <4>1 DEF Clash
      <4>3. rows[q.obj] = {}
        BY <4>2 DEF IInv, RouteInv
      <4>. QED  BY <1>3, <2>1, <3>1, <4>3
    <3>. QED  BY <3>2, <3>3
  <2>. QED  BY <1>1, <2>2, <2>3 DEF IInv, RouteInv
<1>. QED  BY <1>4, <1>5

\* A request in flight when another commits.
LEMMA OthersStay ==
  ASSUME IInv, NEW h \in Handler, Commits(h), NEW g \in Handler \ {h}
  PROVE  LET r == req'[g]
             q == req[h]
         IN /\ HasShape(r) /\ r.pc = req[g].pc /\ r.id = req[g].id /\ r.op = req[g].op
            /\ r.obj = req[g].obj /\ r.cols = req[g].cols /\ r.pairs = req[g].pairs
            /\ r.loaded = req[g].loaded /\ r.doomed = req[g].doomed /\ r.prior = req[g].prior
            /\ r.current => /\ req[g].current
                            /\ req[g].obj = q.obj => Changed(q) = {} /\ q.op # "test"
<1>1. HasShape(req[g]) /\ req'[g] = Overtaken(req[g], req[h])
  BY CommitEffect DEF IInv, RequestInv
<1>. QED  BY <1>1, Overtakes

\* What LEMMA Known says of the request that commits, with what it asks for.
LEMMA Committing ==
  ASSUME IInv, NEW h \in Handler, Commits(h)
  PROVE  LET q == req[h]
         IN /\ q.pc = "flush" /\ q.pc \in Pending /\ ~StaleRow(q)
            /\ sent \in Nat /\ q.id \in 1 .. sent /\ q.id \notin Committed
            /\ q.prior \subseteq Committed /\ q.obj \in Object
            /\ Committed' = Committed \cup {q.id}
<1>1. req[h].pc = "flush" /\ req[h].pc \in Pending /\ ~StaleRow(req[h])
  BY DEF Commits, Flush, Pending
<1>2. sent \in Nat /\ req[h].id \in 0 .. sent /\ req[h].id # 0
  BY <1>1, Known DEF IInv, IdInv
<1>3. \A n \in Nat : \A i \in 0 .. n : i # 0 => i \in 1 .. n
  OBVIOUS
<1>4. req[h].id \in 1 .. sent
  BY <1>2, <1>3
<1>5. /\ req[h].id \notin Committed /\ req[h].prior \subseteq Committed /\ req[h].obj \in Object
  BY <1>1, Known
<1>6. Committed' = Committed \cup {req[h].id}
  BY CommitEffect
<1>. QED  BY <1>1, <1>2, <1>4, <1>5, <1>6

LEMMA CommitRequests ==
  ASSUME IInv, NEW h \in Handler, Commits(h)
  PROVE  RequestInv'
<1>. DEFINE q == req[h]
<1>1. Requests' = Requests /\ q.obj \in Object
  BY Committing, CommitEffect, RequestsStay
<1>2. ASSUME NEW g \in Handler \ {h}, req[g].pc \in Pending
      PROVE  AskInv(req[g])' /\ CurrentInv(req[g])'
  <2>1. AskInv(req[g]) /\ CurrentInv(req[g]) /\ req[g].obj \in Object
    BY <1>2, Known
  <2>2. AskInv(req[g])'
    BY <1>1, <2>1, OthersStay DEF AskInv
  <2>3. ASSUME req'[g].current, req[g].pc \in {"delete", "flush"}
        PROVE  req[g].loaded = fields'[req[g].obj]
    <3>1. req[g].loaded = fields[req[g].obj]
      BY <2>1, <2>3, OthersStay DEF CurrentInv
    <3>2. CASE req[g].obj = q.obj
      BY <2>3, <3>1, <3>2, OthersStay, Committing, WrittenRow, CommitWrites
    <3>3. CASE req[g].obj # q.obj
      BY <2>1, <3>1, <3>3, CommitWrites
    <3>. QED  BY <3>2, <3>3
  <2>4. fields[req[g].obj] # Absent => fields'[req[g].obj] # Absent
    BY <2>1, Committing, WrittenRow, CommitWrites
  <2>. QED  BY <2>1, <2>2, <2>3, <2>4, OthersStay DEF CurrentInv
<1>3. ASSUME NEW g \in Handler
      PROVE  /\ HasShape(req'[g])
             /\ req'[g].pc \in {"idle", "audit"} \cup Pending
             /\ req'[g].pc \in Pending => AskInv(req[g])' /\ CurrentInv(req[g])'
  <2>1. CASE g = h
    BY <2>1, CommitEffect DEF Pending
  <2>2. CASE g # h
    BY <1>2, <2>2, OthersStay DEF IInv, RequestInv
  <2>. QED  BY <2>1, <2>2
<1>. QED  BY <1>3 DEF RequestInv, HasShape

LEMMA CommitIds ==
  ASSUME IInv, NEW h \in Handler, Commits(h)
  PROVE  IdInv'
<1>. DEFINE q == req[h]
<1>1. /\ sent' = sent /\ sent \in Nat /\ q.id \in 1 .. sent /\ q.id \notin Committed
      /\ q.prior \subseteq Committed /\ q.obj \in Object /\ Committed' = Committed \cup {q.id}
      /\ Committed \subseteq 1 .. sent /\ q.pc \in Pending
  BY Committing, CommitEffect DEF IInv, IdInv
<1>2. \A d \in done' : d.obj \in Object /\ d.prior \subseteq Committed'
  <2>1. done' = done \cup {Change(q)} /\ Change(q).obj = q.obj /\ Change(q).prior = q.prior
    BY CommitEffect DEF Change
  <2>. QED  BY <1>1, <2>1 DEF IInv, IdInv
<1>3. ASSUME NEW g \in Handler
      PROVE  /\ req'[g].id \in 0 .. sent /\ req'[g].prior \subseteq Committed'
             /\ req'[g].pc = "audit" => req'[g].id \in Committed'
             /\ req'[g].pc \in Pending =>
                  /\ req'[g].id # 0 /\ req'[g].id \notin Committed'
                  /\ \A f \in Handler \ {g} :
                       req'[f].pc \in Pending => req'[f].id # req'[g].id
  <2>1. CASE g = h
    <3>1. req'[g].pc = "audit" /\ req'[g].id = q.id /\ req'[g].prior = {}
      BY <2>1, CommitEffect
    <3>. QED  BY <1>1, <3>1 DEF Pending
  <2>2. CASE g # h
    <3>1. req'[g].pc = req[g].pc /\ req'[g].id = req[g].id /\ req'[g].prior = req[g].prior
      BY <2>2, OthersStay
    <3>2. /\ req[g].id \in 0 .. sent /\ req[g].prior \subseteq Committed
          /\ req[g].pc = "audit" => req[g].id \in Committed
      BY DEF IInv, IdInv
    <3>3. ASSUME req[g].pc \in Pending
          PROVE  req[g].id # 0 /\ req[g].id \notin Committed /\ req[g].id # q.id
      BY <1>1, <2>2, <3>3 DEF IInv, IdInv
    <3>4. ASSUME req[g].pc \in Pending, NEW f \in Handler \ {g}, req'[f].pc \in Pending
          PROVE  req'[f].id # req[g].id
      <4>1. f # h
        BY <3>4, CommitEffect DEF Pending
      <4>2. req'[f].pc = req[f].pc /\ req'[f].id = req[f].id
        BY <3>4, <4>1, OthersStay
      <4>. QED  BY <3>4, <4>2 DEF IInv, IdInv
    <3>. QED  BY <1>1, <3>1, <3>2, <3>3, <3>4
  <2>. QED  BY <2>1, <2>2
<1>. QED  BY <1>1, <1>2, <1>3 DEF IdInv

LEMMA CommitFields ==
  ASSUME IInv, NEW h \in Handler, Commits(h)
  PROVE  FieldsInv' /\ LimitsOfOneRequest'
<1>. DEFINE q == req[h]
<1>1. /\ q.pc = "flush" /\ ~StaleRow(q) /\ area' = area /\ done' = done \cup {Change(q)}
      /\ AskInv(q) /\ CurrentInv(q)
  BY Committing, CommitEffect, Known
<1>2. /\ IsRow(Written(q)) /\ Written(q) # Absent /\ DOMAIN Written(q) \subseteq ColumnName
      /\ q.obj \in Credential => {"status", "message"} \subseteq DOMAIN Written(q)
      /\ Changed(q) = {} /\ q.op # "test" => Written(q) = fields[q.obj]
  BY <1>1, WrittenRow
<1>3. PICK ask \in Requests :
        q.op = ask.op /\ q.obj = ask.obj /\ (q.op # "test" => q.cols = ask.cols)
  BY <1>1 DEF AskInv
<1>4. /\ q.obj \in Quota => area = "quotas" /\ q.op = "upsert_quota" /\ q.cols \in Limits
      /\ q.obj \in Credential => area = "credentials"
  BY <1>3, Asked DEF IInv
<1>5. ASSUME q.obj \in Quota
      PROVE  Written(q) = q.cols \/ (Written(q) = fields[q.obj] /\ fields[q.obj] # Absent)
  <2>. DEFINE old == IF q.loaded = Absent THEN q.cols ELSE fields[q.obj]
  <2>1. Written(q) = [c \in DOMAIN old |-> IF c \in Changed(q) THEN q.cols[c] ELSE old[c]]
    BY DEF Written
  <2>2. /\ q.cols = [c \in {"soft", "hard"} |-> q.cols[c]]
        /\ DOMAIN q.cols = {"soft", "hard"}
    BY <1>4, <1>5 DEF Limits
  <2>3. CASE q.loaded = Absent
    <3>1. old = q.cols /\ Changed(q) = DOMAIN q.cols
      BY <2>3 DEF Changed
    <3>. HIDE DEF q, old
    <3>. QED  BY <2>1, <2>2, <3>1
  <2>4. CASE q.loaded # Absent /\ q.current
    <3>1. q.loaded = fields[q.obj] /\ old = q.loaded /\ old \in Limits
      BY <1>1, <1>5, <2>4 DEF CurrentInv, IInv, FieldsInv, Object
    <3>2. DOMAIN old = {"soft", "hard"}
      BY <3>1 DEF Limits
    <3>3. Changed(q) = {c \in {"soft", "hard"} : q.cols[c] # old[c]}
      BY <2>2, <2>4, <3>1 DEF Changed
    <3>. HIDE DEF q, old
    <3>. QED  BY <2>1, <2>2, <3>2, <3>3
  <2>5. CASE q.loaded # Absent /\ ~q.current
    BY <1>1, <1>2, <1>4, <1>5, <2>5 DEF StaleRow
  <2>. QED  BY <2>3, <2>4, <2>5
<1>6. q.obj \in Quota => Written(q) \in Limits
  BY <1>4, <1>5 DEF IInv, FieldsInv, Object
<1>7. FieldsInv'
  <2>. SUFFICES ASSUME NEW o \in Object
                PROVE  /\ IsRow(fields'[o])
                       /\ fields'[o] # Absent => DOMAIN fields'[o] \subseteq ColumnName
                       /\ o \in Quota /\ fields'[o] # Absent =>
                            area = "quotas" /\ fields'[o] \in Limits
                       /\ o \in Credential /\ fields'[o] # Absent =>
                            area = "credentials"
                              /\ {"status", "message"} \subseteq DOMAIN fields'[o]
    BY <1>1 DEF FieldsInv, IsRow
  <2>1. CASE o = q.obj
    BY <1>2, <1>4, <1>6, <2>1, CommitWrites
  <2>2. CASE o # q.obj
    BY <2>2, CommitWrites DEF IInv, FieldsInv
  <2>. QED  BY <2>1, <2>2
<1>8. LimitsOfOneRequest'
  <2>. SUFFICES ASSUME NEW o \in Quota, fields'[o] # Absent
                PROVE  \E d \in done' : d.obj = o /\ d.cols = fields'[o]
    BY DEF LimitsOfOneRequest
  <2>1. CASE o = q.obj /\ Written(q) = q.cols
    <3>1. Change(q) \in done' /\ Change(q).obj = q.obj /\ Change(q).cols = q.cols
      BY <1>1 DEF Change
    <3>. QED  BY <2>1, <3>1, CommitWrites
  <2>2. CASE fields'[o] = fields[o] /\ fields[o] # Absent
    BY <1>1, <2>2 DEF IInv, LimitsOfOneRequest
  <2>3. CASE o # q.obj
    BY <2>2, <2>3, CommitWrites DEF Object
  <2>. QED  BY <1>5, <2>1, <2>2, <2>3, CommitWrites
<1>. QED  BY <1>7, <1>8

LEMMA CommitRows ==
  ASSUME IInv, NEW h \in Handler, Commits(h)
  PROVE  RowsInv' /\ ReplacementIsTotal'
<1>. DEFINE q == req[h]
<1>1. /\ q.pc = "flush" /\ sent \in Nat /\ q.id \in 1 .. sent /\ q.id \notin Committed
      /\ q.prior \subseteq Committed /\ q.obj \in Object /\ Committed' = Committed \cup {q.id}
      /\ done' = done \cup {Change(q)}
  BY Committing, CommitEffect
<1>2. ASSUME NEW o \in Object, NEW row \in rows'[o]
      PROVE  \/ row \in rows[o] /\ row.by \in {0} \cup Committed
             \/ row.by = q.id /\ row.by # 0 /\ row.by \notin Committed
  <2>1. row \in rows[o] \/ row \in RowOf(q.pairs, q.id)
    BY <1>2, CommitWrites DEF KeptRows
  <2>2. row \in rows[o] => row.by \in {0} \cup Committed
    BY DEF IInv, RowsInv
  <2>. QED  BY <1>1, <2>1, <2>2, NewRows
<1>3. ASSUME NEW g \in Handler, req'[g].pc = "flush", req'[g].pairs # Keep,
             NEW row \in rows'[req'[g].obj] \ req'[g].doomed
      PROVE  row.by # 0 /\ row.by \notin req'[g].prior
  <2>1. g # h
    BY <1>3, CommitEffect
  <2>2. /\ req[g].pc = "flush" /\ req[g].pairs # Keep /\ req'[g].obj = req[g].obj
        /\ req'[g].doomed = req[g].doomed /\ req'[g].prior = req[g].prior
    BY <1>3, <2>1, OthersStay
  <2>3. req[g].obj \in Object /\ req[g].prior \subseteq Committed
    BY <2>2, Known DEF Pending
  <2>. QED  BY <1>2, <1>3, <2>2, <2>3 DEF IInv, RowsInv, KeptRows
<1>4. RowsInv'
  BY <1>1, <1>2, <1>3 DEF RowsInv, KeptRows
<1>5. ASSUME NEW d \in done', d.pairs # Keep, NEW row \in rows'[d.obj]
      PROVE  row.by # 0 /\ row.by \notin d.prior
  <2>1. CASE d \in done
    BY <1>2, <1>5, <2>1 DEF IInv, IdInv, ReplacementIsTotal
  <2>2. CASE d = Change(q)
    <3>1. d.pairs = q.pairs /\ d.obj = q.obj /\ d.prior = q.prior
      BY <2>2 DEF Change
    <3>2. row \in KeptRows(q) \/ row.by = q.id
      BY <1>5, <3>1, CommitWrites, NewRows
    <3>. QED  BY <1>1, <1>5, <3>1, <3>2 DEF IInv, RowsInv
  <2>. QED  BY <1>1, <2>1, <2>2
<1>. QED  BY <1>4, <1>5 DEF ReplacementIsTotal

LEMMA CommitRoutes ==
  ASSUME IInv, NEW h \in Handler, Commits(h)
  PROVE  RouteInv' /\ CandidatesOfOneRequest'
<1>. DEFINE q == req[h]
<1>1. /\ q.id \notin Committed /\ q.id # 0 /\ Committed' = Committed \cup {q.id}
      /\ q.obj \in Object
  BY Committing
<1>2. q.obj \in Route => \/ rows'[q.obj] = rows[q.obj]
                        \/ /\ rows'[q.obj] = RowOf(q.pairs, q.id)
                           /\ q.pairs # {} => \E p \in q.pairs : p[1] = 1
  BY RouteRows
<1>3. \A t \in Route \ {q.obj} : rows'[t] = rows[t]
  BY CommitWrites DEF Object
<1>4. ASSUME NEW t \in Route PROVE rows'[t] # {} => \E row \in rows'[t] : row.key = 1
  <2>1. CASE rows'[t] = rows[t]
    BY <2>1 DEF IInv, RouteInv
  <2>2. CASE t = q.obj /\ rows'[t] = RowOf(q.pairs, q.id)
    BY <1>2, <2>1, <2>2, NewRows
  <2>. QED  BY <1>2, <1>3, <2>1, <2>2
<1>5. ASSUME NEW t \in Route, NEW r1 \in rows'[t], NEW r2 \in rows'[t] PROVE r1.by = r2.by
  <2>1. CASE rows'[t] = rows[t]
    BY <1>5, <2>1 DEF IInv, CandidatesOfOneRequest
  <2>2. CASE t = q.obj /\ rows'[t] = RowOf(q.pairs, q.id)
    BY <1>5, <2>2, NewRows
  <2>. QED  BY <1>2, <1>3, <2>1, <2>2
<1>6. ASSUME NEW g \in Handler, req'[g].pc = "flush", req'[g].obj \in Route
      PROVE  /\ \/ req'[g].doomed = rows'[req'[g].obj]
                \/ req'[g].doomed \cap rows'[req'[g].obj] = {}
             /\ \A row \in req'[g].doomed : row.by \in {0} \cup Committed'
  <2>1. g # h
    BY <1>6, CommitEffect
  <2>2. /\ req[g].pc = "flush" /\ req'[g].obj = req[g].obj /\ req'[g].doomed = req[g].doomed
    BY <1>6, <2>1, OthersStay
  <2>3. /\ req[g].doomed = rows[req[g].obj] \/ req[g].doomed \cap rows[req[g].obj] = {}
        /\ \A row \in req[g].doomed : row.by \in {0} \cup Committed
    BY <1>6, <2>2 DEF IInv, RouteInv
  <2>4. CASE rows'[req[g].obj] = rows[req[g].obj]
    BY <1>1, <2>2, <2>3, <2>4
  <2>5. CASE rows'[req[g].obj] = RowOf(q.pairs, q.id)
    <3>1. \A row \in RowOf(q.pairs, q.id) : row.by = q.id
      BY NewRows
    <3>. QED  BY <1>1, <2>2, <2>3, <2>5, <3>1
  <2>. QED  BY <1>2, <1>3, <1>6, <2>2, <2>4, <2>5
<1>. QED  BY <1>4, <1>5, <1>6 DEF RouteInv, CandidatesOfOneRequest

LEMMA CommitStep ==
  ASSUME IInv, NEW h \in Handler, Commits(h)
  PROVE  IInv'
<1>. DEFINE q == req[h]
            A == {req[g].id : g \in {f \in Handler : req[f].pc = "audit"}}
            B == {req'[g].id : g \in {f \in Handler : req'[f].pc = "audit"}}
<1>1. /\ q.pc = "flush" /\ Committed' = Committed \cup {q.id}
      /\ UNCHANGED <<area, sent, trail, dead>>
      /\ req'[h].pc = "audit" /\ req'[h].id = q.id /\ req' = [g \in Handler |-> req'[g]]
  BY CommitEffect
<1>2. B = A \cup {q.id}
  <2>1. \A g \in Handler \ {h} : req'[g].pc = req[g].pc /\ req'[g].id = req[g].id
    BY OthersStay
  <2>. QED  BY <1>1, <2>1
<1>3. AuditComplete'
  <2>. HIDE DEF A
  <2>1. Committed = trail \cup dead \cup A
    BY DEF IInv, AuditComplete, A
  <2>2. Committed' = trail' \cup dead' \cup B
    BY <1>1, <1>2, <2>1
  <2>. QED  BY <2>2 DEF AuditComplete
<1>4. /\ area' \in Area /\ sent' \in 0 .. MaxRequest[area'] /\ dead' \subseteq Committed'
  BY <1>1 DEF IInv
<1>5. fields' = [o \in Object |-> fields'[o]] /\ rows' = [o \in Object |-> rows'[o]]
  BY CommitWrites
<1>. QED
  BY <1>1, <1>3, <1>4, <1>5, CommitRequests, CommitIds, CommitFields, CommitRows, CommitRoutes
  DEF IInv

LEMMA FlushStep ==
  ASSUME IInv, NEW h \in Handler, Flush(h)
  PROVE  IInv'
<1>1. CASE StaleRow(req[h]) \/ NameTaken(req[h]) \/ Clash(req[h])
  BY <1>1, StopStep DEF Flush
<1>2. CASE ~(StaleRow(req[h]) \/ NameTaken(req[h]) \/ Clash(req[h]))
  BY <1>2, CommitStep DEF Commits
<1>. QED  BY <1>1, <1>2

(***************************************************************************)
(* The invariant.                                                          *)
(***************************************************************************)
LEMMA InitIInv == Init => IInv
<1>. SUFFICES ASSUME Init PROVE IInv
  OBVIOUS
<1>1. /\ area \in Area /\ sent = 0 /\ done = {} /\ trail = {} /\ dead = {}
      /\ req = [h \in Handler |-> IdleRequest]
      /\ rows = [o \in Object |-> IF o \in Role THEN RowOf(SeedPairs(o), 0) ELSE {}]
  BY DEF Init
<1>2. Committed = {}
  BY <1>1 DEF Committed
<1>3. \A h \in Handler : req[h] = IdleRequest
  BY <1>1
<1>4. PICK members \in [Member -> {Absent} \cup [status : {"ACTIVE"}, role : Role \cup {None}]] :
        fields = [o \in Object |-> IF o \in Member THEN members[o]
                                  ELSE IF o \in Role THEN [name |-> o] ELSE Absent]
  BY DEF Init
<1>5. MaxRequest[area] \in Nat
  BY <1>1, BoundAssumption
<1>6. AuditComplete
  BY <1>1, <1>2, <1>3, Idle DEF AuditComplete
<1>7. RequestInv
  BY <1>3, Idle DEF RequestInv, Pending
<1>8. IdInv
  BY <1>1, <1>2, <1>3, Idle DEF IdInv, Pending
<1>9. FieldsInv
  <2>. SUFFICES ASSUME NEW o \in Object
                PROVE  /\ IsRow(fields[o])
                       /\ fields[o] # Absent => DOMAIN fields[o] \subseteq ColumnName
                       /\ o \in Quota \cup Credential => fields[o] = Absent
    BY DEF FieldsInv
  <2>1. CASE o \in Member
    <3>1. fields[o] \in {Absent} \cup [status : {"ACTIVE"}, role : Role \cup {None}]
      BY <1>4, <2>1
    <3>. QED  BY <2>1, <3>1, KindAssumption DEF IsRow, Absent, ColumnName
  <2>2. CASE o \notin Member /\ o \in Role
    <3>1. fields[o] = [name |-> o]
      BY <1>4, <2>2
    <3>. QED  BY <2>2, <3>1, KindAssumption DEF IsRow, ColumnName
  <2>3. CASE o \notin Member /\ o \notin Role
    <3>1. fields[o] = Absent
      BY <1>4, <2>3
    <3>. QED  BY <3>1 DEF IsRow, Absent
  <2>. QED  BY <2>1, <2>2, <2>3
<1>10. RowsInv
  <2>1. \A o \in Object : \A row \in rows[o] : row.by = 0
    BY <1>1, NewRows
  <2>. QED  BY <1>3, <2>1, Idle DEF RowsInv
<1>11. \A t \in Route : rows[t] = {}
  BY <1>1, KindAssumption DEF Object
<1>12. RouteInv /\ CandidatesOfOneRequest
  BY <1>3, <1>11, Idle DEF RouteInv, CandidatesOfOneRequest
<1>13. ReplacementIsTotal
  BY <1>1 DEF ReplacementIsTotal
<1>14. LimitsOfOneRequest
  <2>1. \A q \in Quota : fields[q] = Absent
    BY <1>4, KindAssumption DEF Object
  <2>. QED  BY <2>1 DEF LimitsOfOneRequest
<1>15. /\ req = [h \in Handler |-> req[h]] /\ fields = [o \in Object |-> fields[o]]
       /\ rows = [o \in Object |-> rows[o]]
  BY <1>1, <1>4
<1>16. sent \in 0 .. MaxRequest[area] /\ dead \subseteq Committed
  BY <1>1, <1>5
<1>. QED
  BY <1>1, <1>6, <1>7, <1>8, <1>9, <1>10, <1>12, <1>13, <1>14, <1>15, <1>16 DEF IInv

LEMMA NextIInv == ASSUME IInv, Next PROVE IInv'
<1>1. PICK h \in Handler :
        Send(h) \/ Load(h) \/ Delete(h) \/ Flush(h) \/ Audit(h) \/ Die(h)
  BY DEF Next
<1>2. CASE Send(h)
  BY <1>2, SendStep
<1>3. CASE Load(h)
  BY <1>3, LoadStep
<1>4. CASE Delete(h)
  BY <1>4, DeleteStep
<1>5. CASE Flush(h)
  BY <1>5, FlushStep
<1>6. CASE Audit(h)
  BY <1>6, AuditStep
<1>7. CASE Die(h)
  BY <1>7, DieStep
<1>. QED  BY <1>1, <1>2, <1>3, <1>4, <1>5, <1>6, <1>7

LEMMA StutterIInv == ASSUME IInv, UNCHANGED vars PROVE IInv'
<1>1. /\ UNCHANGED <<area, fields, rows, req, sent, done, trail, dead>>
      /\ Committed' = Committed /\ Requests' = Requests
  BY CommittedStays, RequestsStay DEF vars
<1>2. RequestInv' /\ IdInv' /\ AuditComplete'
  BY <1>1 DEF IInv, RequestInv, IdInv, AuditComplete, AskInv, CurrentInv, HasShape
<1>3. FieldsInv' /\ RowsInv' /\ RouteInv'
  BY <1>1 DEF IInv, FieldsInv, RowsInv, RouteInv, KeptRows
<1>4. ReplacementIsTotal' /\ CandidatesOfOneRequest' /\ LimitsOfOneRequest'
  BY <1>1, KeepsObjects DEF IInv
<1>. QED  BY <1>1, <1>2, <1>3, <1>4 DEF IInv

\* The inductive invariant of the administration endpoints.
THEOREM Invariant == Spec => []IInv
<1>1. IInv /\ [Next]_vars => IInv'
  BY NextIInv, StutterIInv
<1>. QED  BY <1>1, InitIInv, PTL DEF Spec

\* record_audit reports every change that was committed, and nothing else, unless
\* the handler dies between its two transactions.
THEOREM AuditCorrect == Spec => []AuditComplete
<1>1. IInv => AuditComplete
  BY DEF IInv
<1>. QED  BY <1>1, Invariant, PTL

\* repositories.py:2215: what is left of the candidates of a policy is the list of
\* one request, however the deletes and inserts of several mix.
THEOREM CandidatesCorrect == Spec => []CandidatesOfOneRequest
<1>1. IInv => CandidatesOfOneRequest
  BY DEF IInv
<1>. QED  BY <1>1, Invariant, PTL

\* The rows that were there when a replacement was asked for are gone once it is
\* committed, and never return.
THEOREM ReplacementCorrect == Spec => []ReplacementIsTotal
<1>1. IInv => ReplacementIsTotal
  BY DEF IInv
<1>. QED  BY <1>1, Invariant, PTL

\* The version of the quota row keeps the limits of two requests apart although
\* each writes only the columns that it changes.
THEOREM LimitsCorrect == Spec => []LimitsOfOneRequest
<1>1. IInv => LimitsOfOneRequest
  BY DEF IInv
<1>. QED  BY <1>1, Invariant, PTL

\* Every variable stays in its domain.
THEOREM TypeCorrect == Spec => []TypeOK
<1>1. ASSUME IInv PROVE TypeOK
  <2>1. /\ area \in Area /\ sent \in 0 .. MaxRequest[area] /\ sent \in Nat
        /\ Committed \subseteq 1 .. sent /\ dead \subseteq Committed
    BY <1>1 DEF IInv, IdInv
  <2>2. trail \subseteq Committed
    BY <1>1 DEF IInv, AuditComplete
  <2>3. ASSUME NEW o \in Object, NEW row \in rows[o] PROVE row.by \in 0 .. sent
    <3>1. row.by = 0 \/ row.by \in 1 .. sent
      BY <1>1, <2>1 DEF IInv, RowsInv
    <3>. QED  BY <2>1, <3>1
  <2>4. \A o \in Object : fields[o] = Absent \/ DOMAIN fields[o] \subseteq
            {"status", "role", "name", "message", "soft", "hard"}
    BY <1>1 DEF IInv, FieldsInv, ColumnName
  <2>5. \A h \in Handler :
          /\ req[h].pc \in {"idle", "load", "delete", "flush", "audit"}
          /\ req[h].id \in 0 .. sent /\ req[h].prior \subseteq Committed
    BY <1>1 DEF IInv, RequestInv, IdInv, Pending
  <2>. QED  BY <2>1, <2>2, <2>3, <2>4, <2>5 DEF TypeOK
<1>. QED  BY <1>1, Invariant, PTL

\* A test passes only on what it loaded, and commits only if that is still there,
\* so that a credential revoked in between is never reported as passed.
THEOREM PassedCorrect == Spec => PassedUnrevoked
<1>1. ASSUME IInv, Next, NEW k \in Credential, Tests(k), fields'[k].message = "passed"
      PROVE  fields[k].status # "REVOKED"
  <2>1. PICK h \in Handler : Commits(h)
    <3>1. done' # done
      BY <1>1 DEF Tests
    <3>2. PICK h \in Handler :
            Send(h) \/ Load(h) \/ Delete(h) \/ Flush(h) \/ Audit(h) \/ Die(h)
      BY <1>1 DEF Next
    <3>3. Flush(h) /\ ~(StaleRow(req[h]) \/ NameTaken(req[h]) \/ Clash(req[h]))
      BY <3>1, <3>2 DEF Send, Load, Delete, Flush, Audit, Die
    <3>. QED  BY <3>3 DEF Commits
  <2>. DEFINE q == req[h]
  <2>2. q.op = "test" /\ q.obj = k
    <3>1. done' = done \cup {Change(q)} /\ Change(q).op = q.op /\ Change(q).obj = q.obj
      BY <1>1, <2>1, CommitEffect DEF Change
    <3>. QED  BY <1>1, <3>1 DEF Tests
  <2>3. /\ q.pc = "flush" /\ q.current /\ AskInv(q) /\ CurrentInv(q)
        /\ q.obj \in Object
    BY <1>1, <2>1, <2>2, Committing, Known DEF StaleRow
  <2>4. /\ q.loaded = fields[k] /\ q.loaded # Absent /\ q.cols = TestResult(fields[k])
        /\ {"status", "message"} \subseteq DOMAIN fields[k]
    BY <1>1, <2>2, <2>3 DEF AskInv, CurrentInv, Creates, Upserts, IInv, FieldsInv
  <2>5. fields'[k] = [c \in DOMAIN fields[k] |->
                        IF c \in Changed(q) THEN q.cols[c] ELSE fields[k][c]]
    BY <1>1, <2>1, <2>2, <2>4, CommitWrites DEF Written
  <2>6. ASSUME fields[k].status = "REVOKED" PROVE FALSE
    <3>1. q.cols = [message |-> "failed", status |-> "INVALID"]
      BY <2>4, <2>6 DEF TestResult
    <3>2. q.cols["message"] = "failed" /\ "message" \in DOMAIN q.cols
      BY <3>1
    <3>3. "message" \in Changed(q) \/ fields[k]["message"] = "failed"
      BY <2>4, <3>2 DEF Changed
    <3>4. fields'[k]["message"] = "failed"
      <4>. HIDE DEF q
      <4>. QED  BY <2>4, <2>5, <3>2, <3>3
    <3>. QED  BY <1>1, <3>4
  <2>. QED  BY <2>6
<1>2. IInv /\ [Next]_vars =>
        [\A k \in Credential :
           Tests(k) /\ fields'[k].message = "passed" => fields[k].status # "REVOKED"]_vars
  BY <1>1
<1>. QED  BY <1>2, Invariant, PTL DEF Spec, PassedUnrevoked
=============================================================================
