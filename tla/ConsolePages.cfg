SPECIFICATION ConsoleSpec
CONSTANTS
  web = web
  db = db
  a = a
  ann = ann
  k1 = k1
  k2 = k2
  k3 = k3
  s1 = s1
  s2 = s2
  Server <- Servers
  IP <- IPs
  Port <- Ports
  DefaultPort = 22
  None = None
  SuperAdmin = TRUE
  Capable <- Newest
  PageSize = 2
  Start <- First
  MaxRev <- Revisions
  MaxPage = 1
  Unsteady <- Changing
  User <- Users
  PassKey <- PassKeys
  Session <- LogSessions
  LastPage = 1
  MaxAsked = 2
INVARIANTS
  AckedIsShown
  DialogIsSent
  DraftIsKept
  OwnChangesShown
  AnnouncedLogout
  DetailIsOfSelected
PROPERTIES
  AccessPageConverges
