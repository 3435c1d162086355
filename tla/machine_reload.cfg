SPECIFICATION Spec
CONSTANTS
    Requests = {r1}
    NoHolder = NoHolder
    Keys = {k1}
    NoKey = NoKey
    RefreshInterval = 1
    MinRefetchInterval = 1
    OldKeys = 2
    Syncs = {s1}
    Documents <- MCReloads
    NoDocument = NoDocument
INVARIANT
    NeverFailsLogin
