SPECIFICATION Spec
CHECK_DEADLOCK FALSE
CONSTANTS
  None = None
  Page <- Pages
  Entry = "member"
  InScope = {"member", "form"}
  HeadingOf <- Headings
  Control <- Controls
  On <- Shown
  Goes <- Leads
  Slow = {"open", "leave"}
  Location <- Described
  Consequential = {"create"}
  Proposal <- Proposals
  Named = {"status", "owner", "balance", "rate", None}
  Output = {"status", "owner", "balance"}
  Success = "status"
  HasHuman = TRUE
  HasApprover = TRUE
  MaxSteps = 5
  StuckLimit = 3
  RepeatLimit = 2
  MaxHuman = 1
INVARIANTS
  TypeOK
  GoalTrace
  StuckIsStuck
  FreshObservation
  OneDriver
  
PROPERTY LoopEnds
