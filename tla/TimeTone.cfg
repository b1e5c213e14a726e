CONSTANTS
  Second = 3
  Window = 1
  MaxLocal = 14
  StartFly = 2
  LatchFly = 2
  MaxDelay = 2
  MaxNow = 24
SPECIFICATION ToneSpec
INVARIANTS MetTrue FlywheelSoon
CHECK_DEADLOCK FALSE
