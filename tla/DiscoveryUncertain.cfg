SPECIFICATION Spec
CHECK_DEADLOCK FALSE
CONSTANTS
  None = None
  Page <- Pages
  Entry = "member"
  InScope = {"member", "form"}
  HeadingOf <- Headings
  Control <- Controls
  On <- Shown
  Goes <- Leads
  Slow = {}
  Location <- Described
  Consequential = {"create"}
  Proposal <- ClickProposals
  Named = {"status", "owner", "balance", "rate", None}
  Output = {"status", "owner", "balance"}
  Success = "status"
  HasHuman = FALSE
  HasApprover = TRUE
  MaxSteps = 4
  StuckLimit = 3
  RepeatLimit = 3
  MaxHuman = 1
INVARIANT WritesAccounted
