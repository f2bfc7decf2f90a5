SPECIFICATION BackgroundSpec
CONSTANTS
  None = None
  photo1 = photo1
  find = find
  loss = loss
  edited = edited
  h1 = h1
  u1 = u1
  u2 = u2
  n1 = n1
  n2 = n2
  e1 = e1
  Photos = {photo1}
  ListingOf <- MCListingOf
  Hooks = {h1}
  Events <- MCEvents
  MaxAttempts = 2
  Listings <- MCListings
  Found = {find}
  Owned = {find}
  Scores <- MCScores
  MaxApprovals = 1
  MaxFaults = 2
  Jobs <- MCJobs
  Workloads <- MCWorkloads
  Users = {u1, u2}
  Notes = {n1, n2}
  Endpoints = {e1}
  Addressee <- MCAddressee
  MaxDevices = 1
  PushAttempts = 2
  MaxClock = 3
  MaxCrashes = 1
INVARIANTS PhotoIsServable PostsBounded MatchTellsOnce PushesExplained
PROPERTIES PhotosSettle DeliveriesSettle PushesSettle
CHECK_DEADLOCK FALSE
