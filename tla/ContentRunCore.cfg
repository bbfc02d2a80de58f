SPECIFICATION Spec
CONSTANTS
  bob = bob
  Client = {ann, bob}
  Worker = {w1, w2}
  Material = {}
  Text = {t1}
  MaxRun = 1
  MaxVersion = 3
  SeedStatus = {"DRAFT", "RUNNING", "WAITING_HUMAN", "PAUSED", "FAILED", "COMPLETED", "CANCELLED"}
  Permitted <- Editors
  Matches <- AllMatch
  Faults = TRUE
  Absent = Absent
  Nobody = Nobody
  NoText = NoText
INVARIANT TypeOK VersionIdentifiesRow TasksNameCommittedRuns RunningHasExecutor
PROPERTY WritesApplyToWhatWasSeen CompletionHasBody ImplementsBoard
SYMMETRY Symmetric
