SPECIFICATION Spec
CONSTANTS
  Null = Null
  Upload = {u1, u2, u3}
  Size = {1, 2}
  Quota = {0, 2, 3}
  Worker = {w1, w2}
  Batch = 1
  Ttl = 2
  MaxTime = 3
SYMMETRY Symmetry
INVARIANTS
  TypeOK
  RowsMatchObjects
PROPERTIES
  QuotaRespected
