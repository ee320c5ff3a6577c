SPECIFICATION FairSpec
CONSTANTS
  Handles = {h1}
  NoCtrl = noctrl
  Failing = {"identify", "port", "health", "sanitize"}
  Mishaps = {}
  Functional = {TRUE}
  Readings = {{}, {"media"}}
  Warnings = {"media"}
  FaultFlags = {"media"}
  Chassis = {}
  DriveLocation = "baseboard"
  EraseMethods = {"CryptoErase"}
  SanitizeCapability = {"CryptoErase"}
  MaxPending = 2
PROPERTIES
  ImplementsErase
  EraseSettles
  FaultIsShown
  QuietWhileSanitizing
