SPECIFICATION Spec
CONSTANTS
  Endpoints = {9}
  NvmeEndpoints = {9}
  Buses = {1, 2}
  BusOf <- MCBusOf
  Forms = {"U2", "M2_2280"}
  Chassis = {"backplane"}
  Inventory <- MCBaseboard
  Getters = {g1}
  Failing = {}
  MaxRetries = 1
  MaxSignals = 1
  UnknownBus = UnknownBus
  None = None
INVARIANT ChassisOwn
