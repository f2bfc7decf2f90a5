SPECIFICATION ServicesSpec
CONSTANTS
  None = None
  Workloads <- MCWorkloads
  gateway = gateway
  client = client
  phone1 = phone1
  r1 = r1
  r2 = r2
  Phones = {phone1}
  Requests = {r1, r2}
  Addresses = {client}
  Trusted = {gateway}
  Origins <- MCOrigins
  OtpAttempts = 2
  CodesPerWindow = 1
  RequestsPerWindow = 2
  HourLimit = 1
  DayLimit = 2
  MaxCodes = 3
  SlowSends = FALSE
  u1 = u1
  u2 = u2
  c1 = c1
  c2 = c2
  Changes = {c1, c2}
  MaxSecrets = 3
  ChangeLimit = 2
  b1 = b1
  b2 = b2
  Calls = {c1, c2}
  Bodies = {b1, b2}
  MaxTokens = 2
  MaxCalls = 4
  MaxSlips = 1
  t1 = t1
  w1 = w1
  w2 = w2
  Tickets = {t1}
  Writers = {w1, w2}
  PatchStatuses = {"waiting_user", "resolved", "closed"}
  MaxMessages = 3
  Parties = {u1, u2}
  Helpers = {w1}
  s1 = s1
  s2 = s2
  Sockets = {s1, s2}
  Posts = {c1, c2}
  MaxPosts = 2
  MaxChatMoves = 1
  p1 = p1
  p2 = p2
  People = {u1, u2, phone1}
  Boot = phone1
  Reviews = {r1, r2}
  Roles = {"user", "admin"}
  k1 = k1
  Members = {u1, u2}
  Keys = {k1}
  Desks = {r1, r2}
  InviteRoles = {"manager", "viewer"}
  Entries <- MCEntries
  Reached <- MCReached
  Dated <- MCDated
  PageLimit = 1
  MaxNews = 3
  Words = {"key", "blue"}
  Days = {0, 15, 45}
  Kilometres <- MCKilometres
  Steps = 4
INVARIANTS
  GuessesBounded CodesMatchSms EnabledSecretProved RepeatsExplained TicketsInOrder
  SocketsInformed AdministratorRemains OrganizationManaged ImportsBacked
  ScanExplained OverviewExplained MissingPictureIsNeutral
CHECK_DEADLOCK FALSE
