SPECIFICATION Spec
CONSTANTS
  Tasks <- Production
  Creation <- ProductionCreation
  Priority <- ProductionPriority
  Calls <- ProductionCalls
  Critical = {"modbus", "ui"}
  Polite = {"modbus", "ui"}
  MaxTick = 5
  MaxPended = 2
  MaxLate = 4
  None = None
INVARIANTS ListsSound TimeKept
PROPERTIES ImplementsScheduler NobodyStarves
