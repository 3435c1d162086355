SPECIFICATION Spec
CONSTANTS
    Callers = {w1}
    Projects = {p1, p2}
    Plans = {{p1, p2}}
    None = None
    TTLs = {1}
    RefreshTimeout = 1
    FailureBackoff = 5
    HookTimeout = 3
    Old = 5
INVARIANT
    AnsweredInTime
