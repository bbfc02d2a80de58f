SPECIFICATION FairSpec
CONSTANTS
  Client = {c1, c2, c3}
  Store = {"redis", "process"}
  MaxAttempts = 2
  Window = 2
  MaxDied = 1
INVARIANTS TypeOK GuessesBounded LockFollowsBudget CounterExpires
PROPERTIES CurrentPassword LockRunsOut Recovers

