\* Requests end, whatever the ground, the owner and the readers do.
SPECIFICATION FairSpec
CONSTANTS
  owner = owner
  sharer = sharer
  t1 = t1
  t2 = t2
  t3 = t3
  good = good
  fine = fine
  bad = bad
  Junk = Junk
  NoId = NoId
  NoSlot = NoSlot
  NoVal = NoVal
  NoTable = NoTable
  NoDump = NoDump
  Shared = Shared
  TblTask = TblTask
  Apps = {owner, sharer}
  Tables = {t1}
  Owner <- OneOwner
  Accessors <- FirstShared
  DoubleBuffered = {t1}
  DumpOnly = {}
  Validated = {t1}
  Loaded = {t1}
  Reloaded = {t1}
  NumShared = 1
  Vals = {1}
  Images = {good}
  Good = {good}
  Wrap = 2
  Commands = {"Load", "Validate", "Activate", "Abort"}
  Patient = FALSE
  Api = {"Load", "Update"}
PROPERTIES ValidationPerformed ActivationPerformed
