SPECIFICATION Spec
CONSTANTS
  BTN_SCAN_MS = 2
  DebTicks = 3
  LongTicks = 3
  Draw = 1
  Save = 6
  WDT_TIMEOUT_MS = 9
  BootTime = 4
  Worlds = {{"keys"}, {"stall", "hang"}}
  MaxDebt = 12
INVARIANTS Inv
PROPERTIES PressMeasured UiRecovers
