SPECIFICATION FairSpec
CONSTANTS
  POWERON_TICKS = 1
  WORK_GRACE_TICKS = 4
  BOOST_TICKS = 3
  LAMP_AUTO_OFF_TICKS = 3
  SOCKET_DELAY_TICKS = 4
  INACT_TIMEOUT_TICKS = 2
  BUZZER_PERIOD_TICKS = 4
  BUZZER_ON_TICKS = 2
  Base = 6
  Top = 2
  Steps <- OneStep
  NaN = NaN
  Written <- OutOfLimits
  Levels <- ThreeLevels
  EditedFields <- Nothing
  EditedParams <- Nothing
  Scenes <- OnlyStartStop
INVARIANTS
  OutputAlwaysReturned
