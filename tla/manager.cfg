SPECIFICATION FairSpec
CONSTANTS
  Endpoints = {9}
  NvmeEndpoints = {9}
  Buses = {1, 2}
  BusOf <- MCBusOf
  Forms = {"U2", "M2_2280"}
  Chassis = {"backplane"}
  Inventory <- MCInventory
  Getters = {g1, g2}
  Failing = {"mapper", "endpoints", "daemon"}
  MaxRetries = 1
  MaxSignals = 1
  UnknownBus = UnknownBus
  None = None
INVARIANTS
  IInv
  FormOwn
PROPERTIES
  ImplementsRegistry
  CollectedIsUsed
  DrivesStart
  Settles
