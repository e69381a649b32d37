SPECIFICATION SceneSpec
CONSTANTS
  web = web
  Server <- Servers
  First <- Nothing
  None = None
  MaxLogin = 2
INVARIANTS
  TableIsOfQuestion
  SettingsForSuper
PROPERTIES
  WorkspaceConverges
