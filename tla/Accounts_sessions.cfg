SPECIFICATION Spec
CONSTANTS
    User = {admin, member}
    Root = {admin}
    Browser = {b1, b2}
    Token = {t1, t2}
    MaxVersion <- MCMaxVersion
    Null = Null
INVARIANTS
    TypeOK
    StaleSessionsRejected
    RememberTokensRevoked
PROPERTIES
    ResetConsumesToken
    RequestsEnd
