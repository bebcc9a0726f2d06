SPECIFICATION Spec
CONSTANTS
  Call = {c1}
  Op = {"search", "fill", "fillMissing", "lookup", "create", "createStep", "transfer", "scroll"}
  Descriptor <- Descriptors
  Page <- Pages
  Nonce = {n1, n2}
  ForgedNonce = forged
  None = None
  MaxEpoch = 2
  ActionOf <- MCAction
  Locators <- MCLocators
  Unready = {"scroll"}
  Incomplete = {"fill"}
  Unresolvable = {"fillMissing"}
  Approved = {"createStep"}
  AllowedActions = {"click", "type"}
  SafeClick = {"search"}
  Identity <- TextOnly
  Landmark <- OneHeading
  Matches <- MCMatches
  Interactive = TRUE
INVARIANTS
  VerdictTruth
PROPERTIES
  FencedDispatch
  GrantDiesWithTransfer
  CallsEnd
