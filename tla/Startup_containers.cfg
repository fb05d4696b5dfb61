SPECIFICATION Spec
CONSTANTS
    Instance = {i1, i2}
    Provider = {local, s3}
    Local = local
    Identity = {reeva}
    Value = {v1, v2, v3, v4, v5, v6, v7, v8}
    Password = {p1}
    AppKey = k
    Timeout = 1
    MaxFaults = 1
    MaxRuns = 1
    Null = Null
CHECK_DEADLOCK FALSE
INVARIANTS
    TypeOK
    PasswordsAgree
    ConfigsReadable
    ServesEncrypted
    ImportsIntoEmpty
PROPERTIES
    EveryInstanceServes
