SPECIFICATION RepairSpec
CONSTANTS
  a = a
  IP <- OneIP
  Mode = {"allowlist"}
  Version = {"current", "legacy"}
  MaxRev = 2
  MaxLate = 0
  MaxReboot = 1
PROPERTIES
  PolicyConverges
