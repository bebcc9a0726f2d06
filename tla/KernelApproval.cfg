SPECIFICATION Spec
CONSTANTS
  Call = {c1, c2}
  Op = {"create", "transfer"}
  Descriptor <- Descriptors
  Page <- Pages
  Nonce = {n1, n2}
  ForgedNonce = forged
  None = None
  MaxEpoch = 1
  ActionOf <- MCAction
  Locators <- MCLocators
  Unready = {}
  Incomplete = {}
  Unresolvable = {}
  Approved = {}
  AllowedActions = {"click", "type", "extract"}
  SafeClick = {"search"}
  Identity <- TextOnly
  Landmark <- OwnHeadings
  Matches <- MCMatches
  Interactive = TRUE
SYMMETRY Symmetry
INVARIANTS
  TypeOK
  GrantSingleUse
  HumanAuthorized
