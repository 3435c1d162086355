SPECIFICATION FairSpec
CONSTANTS
    acme = acme
    zed = zed
    Orgs = {acme, zed}
    Logins = {w1}
    Batches = {w2}
    Blocks <- MCBlocks
    Resolvers = {r1, r2, r3, r4}
    None = None
    Initially <- WideAndNarrow
    MaxUsers = 2
    MaxFailures <- FewFailures
    MaxReloads = 1
INVARIANTS
    TypeOK
    SlotsAccounted
    ProbesAccounted
    OpenedByOwnFailures
    GaugeShowsCircuit
PROPERTIES
    CircuitRecovers
    GatesAsPromised
