CONSTANTS
  r1 = r1
  r2 = r2
  Readers = {r1}
  Depth = 2
  Retries = 2
  MaxVersion = 6
  MaxClock = 1
SPECIFICATION Spec
INVARIANTS LatchAfterTone
PROPERTY ActsAsRegister
CHECK_DEADLOCK FALSE
