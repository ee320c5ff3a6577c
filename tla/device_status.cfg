SPECIFICATION Spec
CONSTANTS
  Handles = {h1}
  NoCtrl = noctrl
  Failing = {"scan", "smart"}
  Mishaps = {"restart"}
  Functional = {TRUE, FALSE}
  Readings = {{}, {"spare"}}
  Warnings = {"spare", "media"}
  FaultFlags = {"spare", "media"}
  Chassis = {"backplane"}
  DriveLocation = "baseboard"
  EraseMethods = {"CryptoErase"}
  SanitizeCapability = {}
  MaxPending = 2
INVARIANTS
  StatusInv
  AssociationsAgree
  HealthJustified
  FaultsCurrent
PROPERTIES
  CriticalKept
