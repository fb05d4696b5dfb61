SPECIFICATION Spec
CONSTANTS
    Release = {1, 2}
    Version = {v1, v2}
    Core <- MCCore
    MaxPart = 1
    Channel = {stable, beta}
    Limit = 1
    MaxChanges = 3
    Null = Null
INVARIANTS
    TypeOK
    OffersNewest
    ListingComplete
    FiltersByPrecedence
    OffersNewerUnlessRenumbered
PROPERTIES
    ReachesNewest
