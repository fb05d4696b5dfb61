SPECIFICATION Spec
CONSTANTS
  Null = Null
  Software = {s1}
  Version = {v1}
  Artifact = {a1}
  Key = {k1, k2}
  Worker = {w1, w2}
  Name = {n1}
  Number = {1}
  Changelog = {x}
  Channel = {c}
  Checkbox = {FALSE}
  Ops = {"upload", "publish", "sign", "rename", "createVersion", "toggleVersion", "toggleSoftware", "addKey", "revokeKey", "policy", "delete", "deleteVersion"}
SYMMETRY Symmetry
PROPERTIES
  LastKeyLostOnlyByOverlap
