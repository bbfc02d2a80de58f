SPECIFICATION Spec
CONSTANTS
  bob = bob
  Client = {ann, bob}
  Worker = {w1}
  Material = {}
  Text = {t1}
  MaxRun = 1
  MaxVersion = 3
  SeedStatus = {}
  Permitted <- SideEffectUsers
  Matches <- AllMatch
  Faults = FALSE
  Absent = Absent
  Nobody = Nobody
  NoText = NoText
INVARIANT NoOrphanWithoutFaults
