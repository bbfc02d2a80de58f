SPECIFICATION Spec
CONSTANTS
  Tenant = {t1, t2}
  Owner = {"bypass", "ordinary"}
SYMMETRY TenantSymmetry
INVARIANTS TypeOK SchemaMatchesRevisions TenantTablesIsolated OneBranch OneDefaultRole StatusMatchesLabel
PROPERTY CommandIsAtomic
