SPECIFICATION Spec
CONSTANTS
  Tenant = {t1}
  Owner = {"bypass", "ordinary"}
INVARIANT HeadServesModels
