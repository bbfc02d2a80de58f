SPECIFICATION Spec
CONSTANTS
  Tab = {a, b}
  Shared = FALSE
  Second = 2
  AccessTTL = 3
  RefreshTTL = 4
  Skew = 2
  MinTTL = 2
  Op = {"me", "refresh", "logout"}
  MaxLogin = 1
  MaxPair = 2
  MaxTime = 5
INVARIANT RecordOutlivesToken
PROPERTY LogoutIsLasting
SYMMETRY TabSymmetry
