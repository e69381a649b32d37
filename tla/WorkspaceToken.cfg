SPECIFICATION SceneSpec
CONSTANTS
  web = web
  Server <- Servers
  First <- Nothing
  None = None
  MaxLogin = 2
PROPERTIES
  TokenKept
