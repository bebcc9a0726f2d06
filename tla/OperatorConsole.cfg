SPECIFICATION Spec
CHECK_DEADLOCK FALSE
CONSTANTS
  FrameOrder <- TwoFrames
  Document <- Documents
  Page <- Pages
  FirstDoc <- First
  Goes <- GoesTo
  Control <- Controls_
  Cell <- Cells
  Nameless = ""
  Scoped <- Scopes
  None = None
  EvalRetries = 2
  MaxPolls = 2
  Fold <- Folded
  Allowed <- InScope
  Call <- Calls
  MaxEpoch = 3
PROPERTIES AnswersAssembled ClickUnique ActsOnDisplayed CallsReturn CommandsEnd
