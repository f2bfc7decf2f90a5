SPECIFICATION Spec
CONSTANTS
  owner = owner
  moderator = moderator
  ann = ann
  bob = bob
  l1 = l1
  Users = {owner, ann, bob}
  Moderators = {owner}
  Invitees = {}
  Leavers = {}
  Listings = {l1}
  Found = {l1}
  OwnerOf <- MCOwnerOf
  Photos = {p1}
  Requests = {r1}
  None = None
  Claimants = {ann, bob}
  Talkers = {}
  Calls = {k1}
  MaxTokens = 1
  MaxCases = 0
SYMMETRY SymmetryClaimants
INVARIANTS OneReturnPerOpening
PROPERTIES ReturnsAreLedger
CHECK_DEADLOCK FALSE
