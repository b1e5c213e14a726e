SPECIFICATION WholeSpec
SYMMETRY Perms
CONSTANTS
  Names = {n1, n2, n3}
  MaxEntries = 2
  Buckets = {2, 3}
  PoolSize = 8
  Sizes = {1, 3, 4}
  Vals = {v1, v2}
  NoVal = NoVal
  Torn = Torn
  NoName = NoName
  Resets = {"Validate", "ClearHeader", "ClearPool", "ClearTrailer", "MarkBegin", "MarkEnd", "MarkSize", "InitRegistry", "Rebuild", "Get", "Create", "Save", "Drop", "CopyData"}
  Fails = {"ClearHeader", "ClearPool", "ClearTrailer", "MarkBegin", "MarkEnd", "MarkSize", "InitRegistry", "Rebuild", "Get", "Create", "CopyData"}
  Deletes = TRUE
INVARIANTS PoolSound RegistrySaved WholeBlocksOwned WholeCopyRecovered
