SPECIFICATION Spec
CONSTANTS
  UintMax = 4095
  pollInterval = 5
  driveSanitizeTime = 30
  Methods = {"CryptoErase", "Overwrite"}
  Drives <- MCDrives
  Links <- MCLinks
  MaxPolls = 11
  Unset = Unset
INVARIANT NodmmasKept
