CONSTANTS
  ByteDelays = {1041666, 8333333}
  WorkTimes = {0, 600000, 1041666}
  WakeDelays = {0, 500000, 4000000}
  Lag = 5041666
  StartTimes = {998000000}
  Horizon = 1012000000
SPECIFICATION Spec
INVARIANTS TimesOK OnSchedule PacingInv
CHECK_DEADLOCK FALSE
