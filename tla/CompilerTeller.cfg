SPECIFICATION Spec
CHECK_DEADLOCK FALSE
CONSTANTS
  None = None
  Input = {"member_number", "amount"}
  Output = {"status", "balance"}
  Cell = {"status_cell", "balance_cell"}
  Page <- Pages
  Entry = "inquiry"
  HeadingOf <- Headings
  RouteOf <- Routes
  Moves <- TellerMoves
  SlowPages = {"receipt"}
  Effect <- Effects
  Bindings = {}
  Success = "status"
  MaxTrace = 10
INVARIANTS
  BaselineIsRead
  BaselineOnEffectView
  ConfirmedAfterWrite
  ProvenanceExact
