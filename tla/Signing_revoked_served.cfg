SPECIFICATION Spec
CONSTANTS
  Null = Null
  Software = {s1}
  Version = {v1}
  Artifact = {a1}
  Key = {k1, k2}
  Worker = {w1, w2}
  Name = {n1}
  Number = {1}
  Changelog = {x, y}
  Channel = {c}
  Checkbox = {TRUE}
  Ops = {"createVersion", "upload", "sign", "updateVersion", "addKey", "revokeKey", "policy"}
SYMMETRY Symmetry
INVARIANTS
  NoRevokedSignatureServed
