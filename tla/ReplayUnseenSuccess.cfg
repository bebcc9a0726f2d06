SPECIFICATION Spec
CHECK_DEADLOCK FALSE
CONSTANTS
  None = None
  Page <- Pages
  InScope <- Allowed
  Capability <- PlainOnly
  Authority = {FALSE}
  Retries = 2
  Polls = 2
  MaxEpoch = 2
  Quiet = {TRUE}
PROPERTY SuccessObserved
