SPECIFICATION ListingsSpec
CONSTANTS
  owner = owner
  moderator = moderator
  l1 = l1
  Users = {owner, moderator}
  Moderators = {moderator}
  Invitees = {owner}
  Leavers = {owner, moderator}
  Listings = {l1}
  Found = {l1}
  OwnerOf <- MCOwnerOf
  Photos = {p1}
  Requests = {r1, r2}
  None = None
SYMMETRY Symmetry
INVARIANT EveryChangeModerated
CHECK_DEADLOCK FALSE
