SPECIFICATION ClientsSpec
CONSTANTS
  web = web
  phone = phone
  Clients = {phone}
  Browsers = {}
  MaxTokens = 3
  MaxLate = 1
  Decrees <- BlockOrPromote
PROPERTY LogoutEndsLogin
CHECK_DEADLOCK FALSE
