SPECIFICATION Spec
CONSTANTS
  Null = Null
  Product = {p}
  Body = {b}
  Worker = {w1, w2}
  Slots = 2
  Limit = 1
  Ttl = 1
  MaxTime = 3
  MaxVersion = 2
  MaxGen = 2
SYMMETRY Symmetry
INVARIANTS
  TypeOK
  OneAuditedApproval
  SignedByRequestedKey
PROPERTIES
  ImplementsContract
  ApprovalBoundToExpiry
