SPECIFICATION FairSpec
CONSTANTS
  BTN_COUNT = 2
  LongButtons <- FirstKey
  BTN_SCAN_MS = 10
  DEB_DEFAULT = 30
  DEB_MAX = 50
  LONG_DEFAULT = 30
  LONG_MIN = 20
  LONG_MAX = 50
  HOLD_MAX = 5
  Timings <- TwoTimings
  Scenes <- BothScenes
INVARIANTS
  TypeOK
  RequestsServedOnce
PROPERTIES
  PressIsDebounced
  OnePressOneEvent
  RequestsDrain
