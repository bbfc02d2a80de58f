SPECIFICATION Spec
CONSTANTS
  ann = ann
  bob = bob
  admin = admin
  member = member
  manage = manage
  approve = approve
  None = None
  Member = {ann, bob}
  Permission = {manage, approve}
  Approval = {approve}
  Title = {admin, member}
  Catalogue <- MCCatalogue
  TitleOf <- MCTitleOf
  Role = {admin, member}
  RoleName = {admin}
  Manage = manage
  Handler = {h1, h2}
  Credential = {k1}
  Route = {t1}
  Model = {a}
  Quota = {q1}
  Limit = {1, 2}
  Area = {"people", "credentials", "routes", "quotas"}
  MaxRequest <- MCMaxRequest
  MaxCandidate = 2
SYMMETRY HandlerSymmetry
INVARIANTS TypeOK CandidatesOfOneRequest ReplacementIsTotal LimitsOfOneRequest AuditComplete
PROPERTIES PassedUnrevoked
CHECK_DEADLOCK FALSE
