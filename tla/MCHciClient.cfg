CONSTANTS
  Requests <- MCRequests
  OtherRequests <- MCOthers
  Unsolicited <- MCUnsolicited
  Devices = {1, 2}
  Timeouts = {0, 2}
  TRIES = 2
  STEP = 1
  UserFilters <- MCFilters
  MaxCalls = 2
  MaxOthers = 1
  Adapters = {0, 1, 2}
  AddressOf <- MCAddressOf
  Target = 0
  MaxChanges = 1
  UsedWith <- MCUsedWith
SPECIFICATION Spec
INVARIANTS
  OneSocketPerDevice
  RouteIsFirstOfList
  FilterRestored
  OwnAnswer
  AnswerOfAskedKind
  RefusalIsReported
PROPERTIES
  PolledCallsReturn
CHECK_DEADLOCK FALSE
