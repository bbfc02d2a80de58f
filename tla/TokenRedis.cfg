SPECIFICATION Spec
CONSTANTS
  Tab = {a, b}
  Shared = TRUE
  Second = 1
  AccessTTL = 2
  RefreshTTL = 3
  Skew = 1
  MinTTL = 1
  Op = {"me", "refresh", "logout"}
  MaxLogin = 1
  MaxPair = 3
  MaxTime = 5
INVARIANT TypeOK ForkOnlyPastExpiry
PROPERTY LogoutHolds
SYMMETRY TabSymmetry
