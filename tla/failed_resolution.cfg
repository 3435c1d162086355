SPECIFICATION Spec
CONSTANTS
    ann = ann  bob = bob  zoe = zoe  eve = eve  ci = ci
    acme = acme  zed = zed  out = out
    eng = eng  sre = sre  none = none  app = app  shared = shared
    admin = admin  dev = dev
    Users = {ann}
    Machines = {}
    Orgs = {acme, zed}
    OrgOf <- OrgOfUser
    Configured = {acme, zed}
    Directories = {acme, zed}
    Rules <- NamedRules
    Groups = {eng, sre}
    Projects = {app, shared}
    Roles = {admin, dev}
    Protected = {admin}
    Catalog <- Projects2
    Logins = {l1}
    Syncs = {}
    Crons = {}
    Pods = {pod1}
    PodOf <- OnePod
    NoUser = NoUser
    Free = Free
    EmptyNum = 1
    EmptyDen = 2
    InitDirectory <- AllEngineers
    InitGrants <- NothingYet
    Faults = {"resolver"}
    MaxFaults = 1
    MaxChanges = 0
PROPERTIES PruneNeedsAuthority
