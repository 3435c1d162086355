SPECIFICATION Spec
CONSTANTS
    ann = ann  bob = bob  zoe = zoe  eve = eve  ci = ci
    acme = acme  zed = zed  out = out
    eng = eng  sre = sre  none = none  app = app  shared = shared
    admin = admin  dev = dev
    Users = {ann, bob, zoe, eve, ci}
    Machines = {ci}
    Orgs = {acme, zed, out}
    OrgOf <- OrgOfUser
    Configured = {acme, zed}
    Directories = {acme, zed}
    Rules <- GroupRules
    Groups = {eng, sre}
    Projects = {app, shared}
    Roles = {admin, dev}
    Protected = {admin}
    Catalog <- Projects2
    Logins = {l1}
    Syncs = {s1}
    Crons = {}
    Pods = {pod1}
    PodOf <- OnePod
    NoUser = NoUser
    Free = Free
    EmptyNum = 1
    EmptyDen = 2
    InitDirectory <- AllEngineers
    InitGrants <- HandMade
    Faults = {"resolver", "list", "write", "crash"}
    MaxFaults = 1
    MaxChanges = 1
INVARIANTS SnapshotIsCurrent NoUnwarrantedRole LocksHaveOwners SyncSettles
PROPERTIES PruneNeedsAuthority UnmanagedUntouched EveryWriteRepairs
