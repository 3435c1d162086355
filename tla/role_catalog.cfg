SPECIFICATION Spec
CONSTANTS
    Callers = {w1, w2}
    Projects = {p1}
    Plans = {{p1}}
    None = None
    TTLs = {4, 5}
    RefreshTimeout = 1
    FailureBackoff = 4
    HookTimeout = 3
    Old = 7
INVARIANTS
    TypeOK
    AnsweredInTime
PROPERTIES
    OldOnlyAfterFailure
    StaleRatherThanError
