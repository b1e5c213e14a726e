\* Two tasks send events for one application, between commands and resets.
SPECIFICATION Spec
CONSTANTS
  t1 = t1
  t2 = t2
  a1 = a1
  Evs = Evs
  Torn = Torn
  Tasks = {t1, t2}
  Apps = {a1}
  AppOf <- BothOne
  Senders = {a1}
  Masks = {1}
  MaxFilterCount = 1
  Burst = 1
  Cost = 2
  Rate = 1
  LogMax = 2
  DefaultMode = "DISCARD"
  MaxCommands = 1
INVARIANTS RateBounded ReportedWhole
PROPERTIES LogIsQueue SquelchAnnounced
SYMMETRY Symmetry
