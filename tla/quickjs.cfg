\* Three addresses, a nested drain, values fetched twice.
SPECIFICATION Spec
CONSTANTS
    Values = {v1, v2, v3}
    Items = {i1, i2, i3}
    Hollow = {i2}
    None = None
    MaxDepth = 6
    MaxGets = 3
SYMMETRY Symmetry
INVARIANTS
    TypeOK
    ReferencesOwned
    HandlesAlive
    DeliveredOnce
