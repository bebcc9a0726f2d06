SPECIFICATION Spec
CHECK_DEADLOCK FALSE
CONSTANTS
  None = None
  Page <- Pages
  InScope <- Allowed
  Capability <- All
  Authority = {TRUE, FALSE}
  Retries = 2
  Polls = 2
  MaxEpoch = 4
  Quiet = {TRUE, FALSE}
INVARIANTS
  TypeOK
  EffectTruth
  DispatchOnce
  OneDriver
  EscalationRoutable
  TerminalClean
PROPERTIES
  CommitObserved
  ImplementsWriteCertainty
  ReconciledResume
  SessionReturns
