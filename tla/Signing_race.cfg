SPECIFICATION Spec
CONSTANTS
  Null = Null
  Software = {s1}
  Version = {v1}
  Artifact = {a1}
  Key = {k1}
  Worker = {w1, w2}
  Name = {n1}
  Number = {1}
  Changelog = {x, y}
  Channel = {c}
  Checkbox = {FALSE, TRUE}
  Ops = {"createVersion", "upload", "edit", "sign", "updateVersion", "addKey", "check", "policy", "revokeKey", "rebuild"}
SYMMETRY Symmetry
INVARIANTS
  TypeOK
  ServedMetadataVerified
  OneKeyResponsesVerify
PROPERTIES
  ColumnsSplitOnlyByStaleSave
