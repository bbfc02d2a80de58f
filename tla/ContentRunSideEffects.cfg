SPECIFICATION FairSpec
CONSTANTS
  bob = bob
  Client = {ann, bob}
  Worker = {w1}
  Material = {m1}
  Text = {t1, t2}
  MaxRun = 1
  MaxVersion = 3
  SeedStatus = {"FAILED", "PAUSED"}
  Permitted <- SideEffectUsers
  Matches <- AllMatch
  Faults = TRUE
  Absent = Absent
  Nobody = Nobody
  NoText = NoText
PROPERTY ExportIsSnapshot RunningEnds
