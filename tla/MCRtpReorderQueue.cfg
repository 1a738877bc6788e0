SPECIFICATION Spec
CONSTANTS
  Cycle = 12
  MaxGap = 4
  MaxCache = 2
  Timeout = 2
  ResyncRun = 2
  Stalled = 2
  Probation = 2
  MinIndex = 8
  MaxIndex = 17
  MaxTime = 5
INVARIANTS TypeOK OutputAccount TrueIndex NoStall
PROPERTY InOrder
