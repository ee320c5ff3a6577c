SPECIFICATION Spec
CONSTANTS
  Handles = {h1}
  NoCtrl = noctrl
  Failing = {}
  Mishaps = {"overlapping erase"}
  Functional = {TRUE}
  Readings = {{}}
  Warnings = {}
  FaultFlags = {}
  Chassis = {}
  DriveLocation = "baseboard"
  EraseMethods = {"CryptoErase"}
  SanitizeCapability = {"CryptoErase"}
  MaxPending = 2
PROPERTY QuietWhileSanitizing
