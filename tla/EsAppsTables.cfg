SPECIFICATION Spec
SYMMETRY Perms
CONSTANTS
  Names = {n1, l1}
  LibNames = {l1}
  Loaders = {c1, c2}
  Background = Background
  MaxApps = 2
  MaxTasks = 2
  MaxLibs = 1
  KillTimeout = 1
  MaxAppId = 3
  MaxTaskId = 3
  NoName = NoName
  Failures = TRUE
  Children = TRUE
  Returns = FALSE
  Prompt = TRUE
INVARIANTS CountersExact NoOrphan NoSpuriousStop
