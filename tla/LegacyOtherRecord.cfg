SPECIFICATION LegacySpec
CHECK_DEADLOCK FALSE
CONSTANTS
  None = None
  Nothing = None
  Page <- PageKinds
  InScope <- PageKinds
  Authority = {TRUE}
  Retries = 1
  Quiet = {TRUE}
  Member = {"m1", "m2"}
  Number = {"m1", "m2"}
  Unrecognized = "other"
  Capability <- LookupOnly
  Polls = 1
  MaxEpoch = 4
  MaxDispatch = 1
PROPERTY ResumesOnTheRecord
