SPECIFICATION Spec
CHECK_DEADLOCK FALSE
CONSTANTS
  None = None
  Page <- Pages
  InScope <- Allowed
  Capability <- BriefOnly
  Authority = {TRUE}
  Retries = 2
  Polls = 2
  MaxEpoch = 0
  Quiet = {TRUE}
INVARIANT DispatchedNeverRaises
