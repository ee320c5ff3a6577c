SPECIFICATION Spec
CONSTANTS
  Handles = {h1}
  NoCtrl = noctrl
  Failing = {"scan", "identify", "port", "health", "smart", "sanlog", "sanitize"}
  Mishaps = {}
  Functional = {TRUE}
  Readings = {{}}
  Warnings = {}
  FaultFlags = {}
  Chassis = {}
  DriveLocation = "baseboard"
  EraseMethods = {"CryptoErase"}
  SanitizeCapability = {"CryptoErase"}
  MaxPending = 2
INVARIANT AbsentIsRetried
