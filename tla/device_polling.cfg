SPECIFICATION Spec
CONSTANTS
  Handles = {h1, h2}
  NoCtrl = noctrl
  Failing = {"scan", "identify", "port", "health", "smart", "sanlog", "sanitize"}
  Mishaps = {"overlapping erase", "lost sanitize reply", "restart"}
  Functional = {TRUE}
  Readings = {{}}
  Warnings = {}
  FaultFlags = {}
  Chassis = {}
  DriveLocation = "baseboard"
  EraseMethods = {"CryptoErase"}
  SanitizeCapability = {"CryptoErase"}
  MaxPending = 3
SYMMETRY HandleSymmetry
INVARIANTS
  IInv
  PollAlive
  InitialisedBeforeUse
  PresentBacked
  CtrlCurrent
  CompletedTruthful
  CompletedIsFull
PROPERTIES
  CyclesBegun
