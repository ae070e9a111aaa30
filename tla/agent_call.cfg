SPECIFICATION Spec
CONSTANTS
  Files = {f1}
  Evidence = {f1}
  MaxEvents = 2
  MaxRotations = 1
  ResetTimes = {0, 3, 9}
  MaxRetries = 1
  Buffer = 1
  DefaultWait = 2
  MaxWait = 5
  NoResult = NoResult
  NoOp = NoOp
INVARIANTS
  LimitNoticed
PROPERTIES
  NothingUnseen
  RetriesReady
  CallEnds
CHECK_DEADLOCK FALSE
