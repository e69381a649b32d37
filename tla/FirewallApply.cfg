SPECIFICATION SceneSpec
CONSTANTS
  a = a
  IP <- OneIP
  Mode = {"allowlist", "off"}
  Version = {"current", "legacy"}
  MaxRev = 3
  MaxLate = 1
  MaxReboot = 1
INVARIANTS
  ReportedIsEnforced
PROPERTIES
  AllowlistNotOpened
  RevertIsSafe
  OldHistoryIsFinal
  ImplementsAccessPolicy
