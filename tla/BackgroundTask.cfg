\* Two tasks that add to a log of four entries, three objects for files in a ring
\* of two (room for one request), counts that come round at four.
CONSTANTS
  Tasks = {t1, t2}
  BufferSize = 4
  MaxRecords = 5
  NoTask = NoTask
  Metas = {m1, m2, m3}
  NoMeta = NoMeta
  Slots = 2
  CountMod = 4
SPECIFICATION Spec
INVARIANTS DumpIsWindow PendingExact
PROPERTY JobsEnd
