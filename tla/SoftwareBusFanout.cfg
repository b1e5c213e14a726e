\* Two pipes subscribed to the same message.
SPECIFICATION Spec
CONSTANTS
  t1 = t1
  t2 = t2
  t3 = t3
  a1 = a1
  a2 = a2
  b1 = b1
  b2 = b2
  m1 = m1
  NoApp = NoApp
  NoBuf = NoBuf
  MaxUseCount = 32767
  Tasks = {t1, t2}
  Apps = {a1, a2}
  AppOf <- OneAppEach
  MsgIds = {m1}
  Bufs = {b1, b2}
  MaxPipes = 2
  MaxSerial = 2
  MaxMsgIds = 1
  MaxDestPerPkt = 2
  Depths = {2}
  MsgLims = {1}
SYMMETRY PairSymmetry
INVARIANTS BuffCountSound
PROPERTIES CleanUpComplete
