SPECIFICATION Spec
CONSTANTS
  owner = owner
  moderator = moderator
  ann = ann
  bob = bob
  l1 = l1
  Users = {owner, moderator, ann}
  Moderators = {moderator}
  Invitees = {ann}
  Leavers = {}
  Listings = {l1}
  Found = {l1}
  OwnerOf <- MCOwnerOf
  Photos = {p1}
  Requests = {}
  None = None
  Claimants = {ann}
  Talkers = {owner, moderator, ann}
  Calls = {k1, k2}
  MaxTokens = 2
  MaxCases = 1
SYMMETRY Symmetry
INVARIANTS TypeOK ContactsNeedBothLastWords TwoPersonReturn BothConfirmedIsDone
PROPERTIES OldQrRecordsNothing
CHECK_DEADLOCK FALSE
