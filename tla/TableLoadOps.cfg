\* Two single buffered tables, one with a validation function, compete for one shared buffer.
SPECIFICATION Spec
CONSTANTS
  owner = owner
  sharer = sharer
  t1 = t1
  t2 = t2
  t3 = t3
  good = good
  fine = fine
  bad = bad
  Junk = Junk
  NoId = NoId
  NoSlot = NoSlot
  NoVal = NoVal
  NoTable = NoTable
  NoDump = NoDump
  Shared = Shared
  TblTask = TblTask
  Apps = {owner, sharer}
  Tables = {t1, t3}
  Owner <- OneOwner
  Accessors <- FirstShared
  DoubleBuffered = {}
  DumpOnly = {t3}
  Validated = {t1}
  Loaded = {t1}
  Reloaded = {t1}
  NumShared = 1
  Vals = {1}
  Images = {good, fine, bad}
  Good = {good, fine}
  Wrap = 2
  Commands = {"Load", "Validate", "Activate", "Dump"}
  Patient = TRUE
  Api = {}
SYMMETRY Symmetry
INVARIANTS OnlyValidActive SharedBuffersOwned NoMissedUpdate
PROPERTIES DumpTrue ReaderStable PendingImageStable
