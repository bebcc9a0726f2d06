SPECIFICATION LegacySpec
CHECK_DEADLOCK FALSE
CONSTANTS
  None = None
  Nothing = None
  Page <- PageKinds
  InScope <- PageKinds
  Authority = {TRUE}
  Retries = 1
  Quiet = {TRUE}
  Member = {"m1"}
  Number = {"m1", "unknown"}
  Unrecognized = "other"
  Capability <- Both
  Polls = 1
  MaxEpoch = 4
  MaxDispatch = 1
INVARIANTS
  ScenarioVerdicts
  VerdictMatchesCore
  ReadsAreFresh
PROPERTY
  AcknowledgedRecovers
