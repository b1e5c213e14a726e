SPECIFICATION FairSpec
CONSTANTS
  Names = {n1}
  LibNames = {}
  Loaders = {c1}
  Background = Background
  MaxApps = 2
  MaxTasks = 3
  MaxLibs = 0
  KillTimeout = 1
  MaxAppId = 3
  MaxTaskId = 4
  NoName = NoName
  Failures = FALSE
  Children = TRUE
  Returns = TRUE
  Prompt = FALSE
INVARIANTS Served
PROPERTIES MainSafe RequestServed Restarted
