SPECIFICATION Spec
CONSTANTS
  Member = {ann, bob}
  Outsider = {eve}
  HTask = {t1}
  MaxVersion = 3
  Permitted <- Admins
  Nobody = Nobody
  NoDecision = NoDecision
  NoTask = NoTask
INVARIANT TypeOK ColumnsAgree
PROPERTY DecidedOnce HolderKeepsTask ActionsApplyToWhatWasSeen ImplementsTaskBoard
SYMMETRY MemberSymmetry
