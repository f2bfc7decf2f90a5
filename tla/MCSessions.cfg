SPECIFICATION ClientsSpec
CONSTANTS
  web = web
  phone = phone
  Clients = {web, phone}
  Browsers = {web}
  MaxTokens = 3
  MaxLate = 1
  Decrees <- BlockOrPromote
CONSTRAINT OneAtATime
INVARIANTS ClientsTypeOK OneLiveTokenPerLogin ClientCanResume
PROPERTIES EndedStaysEnded RefreshEndsNoLogin ForgetRevokesSession
CHECK_DEADLOCK FALSE
