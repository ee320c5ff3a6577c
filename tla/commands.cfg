SPECIFICATION FairSpec
CONSTANTS
  Requests <- MCRequests
  Errnos = {"EIO"}
  MaxCalls = 3
INVARIANTS
  IInv
  AnsweredOnce
  SuccessIsReal
  ErrnoIsOwn
  InOrder
PROPERTIES
  EveryCallAnswered
