SPECIFICATION FairSpec
CONSTANTS
    ann = ann  bob = bob  zoe = zoe  eve = eve  ci = ci
    acme = acme  zed = zed  out = out
    eng = eng  sre = sre  none = none  app = app  shared = shared
    admin = admin  dev = dev
    Users = {ann}
    Machines = {}
    Orgs = {acme, zed}
    OrgOf <- OrgOfUser
    Configured = {acme, zed}
    Directories = {acme, zed}
    Rules <- NameAndGroupRules
    Groups = {eng, sre}
    Projects = {app, shared}
    Roles = {admin, dev}
    Protected = {admin}
    Catalog <- Projects2
    Logins = {l1}
    Syncs = {}
    Crons = {c1}
    Pods = {pod1}
    PodOf <- OnePod
    NoUser = NoUser
    Free = Free
    EmptyNum = 1
    EmptyDen = 1
    InitDirectory <- AllEngineers
    InitGrants <- ByHand
    Faults = {"resolver", "list", "catalog", "write", "crash"}
    MaxFaults = 1
    MaxChanges = 1
INVARIANTS NoUnwarrantedRole
PROPERTIES EveryRequestEnds Convergence
