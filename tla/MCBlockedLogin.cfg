SPECIFICATION ClientsSpec
CONSTANTS
  web = web
  phone = phone
  Clients = {phone}
  Browsers = {}
  MaxTokens = 1
  MaxLate = 0
  Decrees <- BlockOrPromote
PROPERTY BlockedGetsNoSession
CHECK_DEADLOCK FALSE
