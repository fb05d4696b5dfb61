SPECIFICATION Spec
CONSTANTS
  Null = Null
  Product = {p}
  Body = {b}
  Worker = {w1, w2}
  Slots = 2
  Limit = 1
  Ttl = 1
  MaxTime = 4
  MaxVersion = 1
  MaxGen = 1
SYMMETRY Symmetry
INVARIANTS
  CompletedMatchesItsApproval
