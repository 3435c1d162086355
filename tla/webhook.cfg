SPECIFICATION Spec
SYMMETRY
    Symmetry
CONSTANTS
    Requests = {r1}
    NoHolder = NoHolder
    Keys = {k1, k2}
    NoKey = NoKey
    RefreshInterval = 1
    MinRefetchInterval = 1
    OldKeys = 2
    Syncs = {s1, s2}
    Documents <- MCDocuments
    NoDocument = NoDocument
INVARIANTS
    TypeOK
    BadDocumentHarmless
    SyncSeesItsRefresh
    ClaimsMirrorGrants
    SecondLookupAgrees
PROPERTIES
    RotatedKeyAccepted
    WithdrawnKeyRefused
