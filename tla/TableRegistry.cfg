\* Two apps own a critical table each and share the other's, with one entry in
\* the critical registry and one store between them.
SPECIFICATION Spec
SYMMETRY Perms
CONSTANTS
  a1 = a1
  a2 = a2
  n1 = n1
  n2 = n2
  Apps = {a1, a2}
  Names = {n1, n2}
  Owner <- MCOwner
  Records = {r1, r2}
  Descriptors = {d1, d2, d3}
  Images = {v1, v2}
  Kinds <- MCKinds
  MaxCritical = 1
  MaxStores = 1
  PoolBlocks = 3
  None = None
INVARIANTS ListsSound NothingLost
PROPERTIES LastImageRecovered
