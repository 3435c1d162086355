--------------------------- MODULE GrantReconciler ---------------------------
(***************************************************************************)
(* The reconciliation of Zitadel UserGrants with the directory, as the     *)
(* login webhook (pkg/server), the batch sync (pkg/reconcile, POST /sync   *)
(* and the CronJob's `sync` subcommand) and the syncer (pkg/grantsync)     *)
(* perform it, all of them at once.                                        *)
(*                                                                         *)
(* A worker is one goroutine: a login is one webhook request at a time, a  *)
(* sync one POST /sync request, a cron one run of the CronJob.  Every call *)
(* of a worker to another process (the resolver, the role catalog, the     *)
(* Management API) is a step of its own: whatever the worker read before   *)
(* it may be stale after it.  Logins and syncs of one pod share that       *)
(* pod's UserLocks; a cron runs with noopLocker.                           *)
(*                                                                         *)
(* External, modelled from how the code uses them: the directory behind    *)
(* the resolver (a user's groups and the suspended flag) and the Management*)
(* API (one grant per user and project, adds refused as the integration    *)
(* harness refuses them).                                                  *)
(***************************************************************************)
EXTENDS Integers, FiniteSets

CONSTANTS
    Users,          \* the humans and machines of the instance
    Machines,       \* the users whose identifier has no "@"
    Orgs, OrgOf,    \* organisations, and the resource owner of every user
    Configured,     \* the organisations of the config document
    Directories,    \* the configured organisations with a resolver
    Rules,          \* the set of rules of every organisation
    Groups,         \* directory groups
    Projects, Roles,
    Protected,      \* settings.ProtectedRoles
    Catalog,        \* per organisation and project: [roles, granted], where
                    \* granted says the project is held through a ProjectGrant
    Logins, Syncs, Crons,   \* the workers
    Pods, PodOf,            \* server replicas, and the one a login or sync runs in
    NoUser, Free,           \* no user at hand; a mutex nobody holds
    EmptyNum, EmptyDen,     \* settings.MaxEmptyRatio = EmptyNum / EmptyDen
    InitDirectory,          \* the directory a behaviour may start with
    InitGrants,             \* the grants a behaviour may start with
    Faults,                 \* the kinds of fault that may happen
    MaxFaults,              \* bound: faults in a behaviour
    MaxChanges              \* bound: directory changes in a behaviour

INSTANCE RulesEngine

Batches == Syncs \cup Crons
Workers == Logins \cup Batches
Locked  == Logins \cup Syncs        \* the workers that use the pod's UserLocks

(* What the directory says of a user, and what a worker was told: ok is    *)
(* false for the answer a failed resolution is replaced by.                *)
Standing == [groups : SUBSET Groups, suspended : BOOLEAN]
Answers  == [groups : SUBSET Groups, suspended : BOOLEAN, ok : BOOLEAN]
NoAnswer == [groups |-> {}, suspended |-> FALSE, ok |-> FALSE]

(* A user's grants: the role keys on every project, none where the user    *)
(* has no grant.                                                           *)
GrantSets == [Projects -> SUBSET Roles]
NoGrants  == [p \in Projects |-> {}]

(* The desired grants of a sync: role keys per project, and the projects   *)
(* the grant carries a projectGrantId for.                                 *)
Plans  == [roles : GrantSets, linked : SUBSET Projects]
NoPlan == [roles |-> NoGrants, linked |-> {}]

ASSUME WorkersDisjoint ==
    /\ Logins \cap Syncs = {}
    /\ Logins \cap Crons = {}
    /\ Syncs \cap Crons = {}

ASSUME SentinelsDistinct == NoUser \notin Users /\ Free \notin Workers

ASSUME ConfigWellFormed ==
    /\ Machines \subseteq Users
    /\ OrgOf \in [Users -> Orgs]
    /\ Configured \subseteq Orgs
    /\ Directories \subseteq Configured
    /\ \A o \in Orgs : \A rule \in Rules[o] : \A g \in rule.grants :
          /\ g.project \in Projects
          /\ g.roles \subseteq Roles
    /\ \A o \in Orgs : \A p \in Projects : Catalog[o][p].roles \subseteq Roles
    /\ PodOf \in [Locked -> Pods]
    /\ \A o \in Configured : Rules[o] # {} => o \in Directories    \* validate

ASSUME InitsWellFormed ==
    /\ InitDirectory \subseteq [Users -> Standing]
    /\ InitGrants \subseteq [Users -> GrantSets]

ASSUME BoundsAreNatural ==
    MaxFaults \in Nat /\ MaxChanges \in Nat /\ EmptyNum \in Nat /\ EmptyDen \in Nat \ {0}

VARIABLES
    directory,  \* the directory's word on every user
    grants,     \* the UserGrants in Zitadel
    lock,       \* UserLocks: per pod and user, the worker that holds the mutex
    pc,         \* where a worker is
    user,       \* the user a worker is at
    answer,     \* what its resolution returned
    plan,       \* the desired grants it computed
    listed,     \* the grants it listed
    todo,       \* the projects it still has to write
    run,        \* per batch: the state of reconcile.All
    faults,     \* faults so far
    changes,    \* directory changes so far
    everIn,     \* history: the groups a user has ever been in
    pruned      \* history: the users pruned on the directory's word that they
                \* are suspended, and whose standing has not changed since

job  == <<user, answer, plan, listed, todo>>
env  == <<directory, changes, everIn>>
vars == <<directory, grants, lock, pc, user, answer, plan, listed, todo, run,
          faults, changes, everIn, pruned>>

(* The state of reconcile.All: the organisations still to list, the users  *)
(* of the current one still to resolve, the answers (phase 1), the users   *)
(* still to reconcile (phase 2), and Options.Force.                        *)
NoRun == [force |-> FALSE, orgs |-> {}, unresolved |-> {},
          answers |-> [u \in Users |-> NoAnswer], resolved |-> {}, left |-> {}]

Runs == [force : BOOLEAN, orgs : SUBSET Orgs, unresolved : SUBSET Users,
         answers : [Users -> Answers], resolved : SUBSET Users, left : SUBSET Users]

PCs == {"idle",                             \* no request; a batch: not running
        "collect",                          \* a batch in phase 1
        "next",                             \* a batch in phase 2, between two users
        "resolve", "lock", "plan", "list",  \* on the way to the writes
        "write", "failed"}                  \* in Sync; Sync returned an error

-----------------------------------------------------------------------------
(* Helpers.                                                                *)

RulesFor(u) == Rules[OrgOf[u]]

(* A fault of kind k: the budget bounds it.                                *)
Fault(k) == k \in Faults /\ faults < MaxFaults /\ faults' = faults + 1

(* The directory's word on u, as a resolver that works passes it on.       *)
Told(u) == [groups |-> directory[u].groups, suspended |-> directory[u].suspended,
            ok |-> TRUE]

(* The webhook goes to the resolver: the organisation is configured, the   *)
(* identifier is an email, and there is a directory.  Every other request  *)
(* is answered at once and changes nothing.                                *)
Enriched(u) == OrgOf[u] \in Configured /\ u \notin Machines /\ OrgOf[u] \in Directories

(* Mutant: a suspended login is pruned whatever rules its organisation has.*)
LoginSyncs_AnyOrg(u, a) == a.suspended \/ RulesApply(RulesFor(u), u, a.groups)

(* The login writes grants after this answer: respondSuspended when the    *)
(* organisation has rules, otherwise under rulesApply.                     *)
LoginSyncs(u, a) ==
    IF a.suspended THEN RulesFor(u) # {}
                   ELSE RulesApply(RulesFor(u), u, a.groups)

(* Mutant: phase 2 writes every resolved user, zero groups or not.         *)
BatchSyncs_NoSkip(u, a, force) == TRUE

(* Mutant: a user with zero groups is skipped although a rule names it.    *)
BatchSyncs_NoNamed(u, a, force) == a.suspended \/ a.groups # {} \/ force

(* Phase 2 writes a user's grants: suspended, or reachable by a rule, or   *)
(* forced.                                                                 *)
BatchSyncs(u, a, force) ==
    a.suspended \/ a.groups # {} \/ force \/ RulesNameUser(RulesFor(u), u)

(* The roles and groups of Desired, where the catalog failed for the       *)
(* projects of failed: explicit roles only, and no projectGrantId.         *)
Desired(u, groups, failed) ==
    LET mapped == MapIdentity(RulesFor(u), u, groups)
        info   == Catalog[OrgOf[u]]
    IN  [roles  |-> [p \in Projects |->
                        IF p \notin DOMAIN mapped THEN {}
                        ELSE IF p \in failed THEN mapped[p].roles
                        ELSE ExpandRoles(mapped[p], info[p].roles)],
         linked |-> {p \in DOMAIN mapped \ failed : info[p].granted}]

(* The share of zero-group answers is over settings.MaxEmptyRatio.         *)
Empties(r) == {u \in r.resolved : r.answers[u].groups = {} /\ ~r.answers[u].suspended}
RatioExceeded(r) ==
    /\ r.resolved # {}
    /\ Cardinality(Empties(r)) * EmptyDen > EmptyNum * Cardinality(r.resolved)

(* External: the Management API takes an add for a project the user has no *)
(* grant on, with roles of that project, and with the projectGrantId       *)
(* exactly when the project is a granted one.                              *)
AddAccepted(u, p, pl) ==
    /\ grants[u][p] = {}
    /\ pl.roles[p] \subseteq Catalog[OrgOf[u]][p].roles
    /\ Catalog[OrgOf[u]][p].granted <=> p \in pl.linked

(* Mutant: a login goes on like a batch.                                  *)
Done_ToNext(w) ==
    /\ pc' = [pc EXCEPT ![w] = "next"]
    /\ user' = [user EXCEPT ![w] = NoUser]
    /\ answer' = [answer EXCEPT ![w] = NoAnswer]
    /\ plan' = [plan EXCEPT ![w] = NoPlan]
    /\ listed' = [listed EXCEPT ![w] = NoGrants]
    /\ todo' = [todo EXCEPT ![w] = {}]

(* Mutant: the plan of one user is still there for the next.               *)
Done_KeepsPlan(w) ==
    /\ pc' = [pc EXCEPT ![w] = IF w \in Logins THEN "idle" ELSE "next"]
    /\ user' = [user EXCEPT ![w] = NoUser]
    /\ answer' = [answer EXCEPT ![w] = NoAnswer]
    /\ listed' = [listed EXCEPT ![w] = NoGrants]
    /\ todo' = [todo EXCEPT ![w] = {}]
    /\ UNCHANGED plan

(* The worker is done with its user: a login has answered, a batch goes on *)
(* to the next user.                                                       *)
Done(w) ==
    /\ pc' = [pc EXCEPT ![w] = IF w \in Logins THEN "idle" ELSE "next"]
    /\ user' = [user EXCEPT ![w] = NoUser]
    /\ answer' = [answer EXCEPT ![w] = NoAnswer]
    /\ plan' = [plan EXCEPT ![w] = NoPlan]
    /\ listed' = [listed EXCEPT ![w] = NoGrants]
    /\ todo' = [todo EXCEPT ![w] = {}]

Goto(w, at) == pc' = [pc EXCEPT ![w] = at]

-----------------------------------------------------------------------------
(* The login webhook up to the sync.                                       *)

(* A request that will be enriched arrives.                                *)
ReceiveLogin(l, u) ==
    /\ pc[l] = "idle" /\ Enriched(u)
    /\ Goto(l, "resolve")
    /\ user' = [user EXCEPT ![l] = u]
    /\ UNCHANGED <<env, grants, lock, answer, plan, listed, todo, run, faults, pruned>>

(* The resolver answers, or fails and the login goes on with no groups.    *)
(* The sync follows under LoginSyncs; otherwise the claims are returned.   *)
ResolveLogin(l) ==
    /\ pc[l] = "resolve"
    /\ \E a \in {Told(user[l]), NoAnswer} :
          /\ IF a.ok THEN UNCHANGED faults ELSE Fault("resolver")
          /\ \/ /\ LoginSyncs(user[l], a)
                /\ Goto(l, "lock")
                /\ answer' = [answer EXCEPT ![l] = a]
                /\ UNCHANGED <<user, plan, listed, todo>>
             \/ ~LoginSyncs(user[l], a) /\ Done(l)
    /\ UNCHANGED <<env, grants, lock, run, pruned>>

-----------------------------------------------------------------------------
(* The batch run, reconcile.All.                                           *)

(* Mutant: organisations without rules are visited too.                    *)
StartBatch_AllOrgs(b) ==
    /\ pc[b] = "idle"
    /\ Goto(b, "collect")
    /\ \E force \in IF b \in Syncs THEN BOOLEAN ELSE {FALSE} :
          run' = [run EXCEPT ![b] = [NoRun EXCEPT !.force = force, !.orgs = Configured]]
    /\ UNCHANGED <<env, grants, lock, job, faults, pruned>>

(* POST /sync or the CronJob.  Only an operator's request forces.  Only    *)
(* organisations with rules are visited.                                   *)
StartBatch(b) ==
    /\ pc[b] = "idle"
    /\ Goto(b, "collect")
    /\ \E force \in IF b \in Syncs THEN BOOLEAN ELSE {FALSE} :
          run' = [run EXCEPT ![b] =
                    [NoRun EXCEPT !.force = force,
                                  !.orgs = {o \in Configured : Rules[o] # {}}]]
    /\ UNCHANGED <<env, grants, lock, job, faults, pruned>>

(* List the humans of the next organisation; on failure it is skipped.     *)
ListUsersInOrg(b) ==
    /\ pc[b] = "collect" /\ run[b].unresolved = {}
    /\ \E o \in run[b].orgs :
          \/ /\ run' = [run EXCEPT ![b] =
                   [run[b] EXCEPT !.orgs = run[b].orgs \ {o},
                             !.unresolved = {u \in Users \ Machines : OrgOf[u] = o}]]
             /\ UNCHANGED faults
          \/ /\ Fault("list")
             /\ run' = [run EXCEPT ![b] = [run[b] EXCEPT !.orgs = run[b].orgs \ {o}]]
    /\ UNCHANGED <<env, grants, lock, pc, job, pruned>>

(* Resolve one user of it; on failure the user is skipped.                 *)
ResolveInBatch(b, u) ==
    /\ pc[b] = "collect" /\ u \in run[b].unresolved
    /\ \/ /\ run' = [run EXCEPT ![b] =
                [run[b] EXCEPT !.unresolved = run[b].unresolved \ {u},
                          !.resolved   = run[b].resolved \cup {u},
                          !.left       = run[b].left \cup {u},
                          !.answers    = [run[b].answers EXCEPT ![u] = Told(u)]]]
          /\ UNCHANGED faults
       \/ /\ Fault("resolver")
          /\ run' = [run EXCEPT ![b] = [run[b] EXCEPT !.unresolved = run[b].unresolved \ {u}]]
    /\ UNCHANGED <<env, grants, lock, pc, job, pruned>>

(* Phase 1 is over: abort before any write when too many answers were      *)
(* empty, unless forced.                                                   *)
DecideBatch(b) ==
    /\ pc[b] = "collect" /\ run[b].unresolved = {} /\ run[b].orgs = {}
    /\ \/ /\ ~run[b].force /\ RatioExceeded(run[b])
          /\ Goto(b, "idle")
          /\ run' = [run EXCEPT ![b] = NoRun]
       \/ /\ run[b].force \/ ~RatioExceeded(run[b])
          /\ Goto(b, "next")
          /\ UNCHANGED run
    /\ UNCHANGED <<env, grants, lock, job, faults, pruned>>

(* Mutant: the loop variable is shared, so a user is synced with the       *)
(* answer of another.                                                      *)
PickUser_SharedAnswer(b, u) ==
    /\ pc[b] = "next" /\ u \in run[b].left
    /\ run' = [run EXCEPT ![b] = [run[b] EXCEPT !.left = run[b].left \ {u}]]
    /\ \E v \in run[b].resolved :
          \/ /\ BatchSyncs(u, run[b].answers[v], run[b].force)
             /\ Goto(b, "lock")
             /\ user' = [user EXCEPT ![b] = u]
             /\ answer' = [answer EXCEPT ![b] = run[b].answers[v]]
          \/ /\ ~BatchSyncs(u, run[b].answers[v], run[b].force)
             /\ UNCHANGED <<pc, user, answer>>
    /\ UNCHANGED <<env, grants, lock, plan, listed, todo, faults, pruned>>

(* Phase 2, one user: go for the lock, or skip the user.                   *)
PickUser(b, u) ==
    /\ pc[b] = "next" /\ u \in run[b].left
    /\ run' = [run EXCEPT ![b] = [run[b] EXCEPT !.left = run[b].left \ {u}]]
    /\ \/ /\ BatchSyncs(u, run[b].answers[u], run[b].force)
          /\ Goto(b, "lock")
          /\ user' = [user EXCEPT ![b] = u]
          /\ answer' = [answer EXCEPT ![b] = run[b].answers[u]]
       \/ /\ ~BatchSyncs(u, run[b].answers[u], run[b].force)
          /\ UNCHANGED <<pc, user, answer>>
    /\ UNCHANGED <<env, grants, lock, plan, listed, todo, faults, pruned>>

EndBatch(b) ==
    /\ pc[b] = "next" /\ run[b].left = {}
    /\ Goto(b, "idle")
    /\ run' = [run EXCEPT ![b] = NoRun]
    /\ UNCHANGED <<env, grants, lock, job, faults, pruned>>

-----------------------------------------------------------------------------
(* One user under the lock: Desired and Syncer.Sync.                       *)

(* Mutants: a UserLocks per request; batch runs without the server's locks.*)
Lock_PerRequest(w) ==
    /\ pc[w] = "lock"
    /\ lock' = [lock EXCEPT ![PodOf[w]][user[w]] = w]
    /\ Goto(w, IF answer[w].suspended THEN "list" ELSE "plan")
    /\ UNCHANGED <<env, grants, job, run, faults, pruned>>

Lock_LoginsOnly(w) ==
    /\ pc[w] = "lock"
    /\ \/ /\ w \in Logins
          /\ lock[PodOf[w]][user[w]] = Free
          /\ lock' = [lock EXCEPT ![PodOf[w]][user[w]] = w]
       \/ w \in Batches /\ UNCHANGED lock
    /\ Goto(w, IF answer[w].suspended THEN "list" ELSE "plan")
    /\ UNCHANGED <<env, grants, job, run, faults, pruned>>

(* UserLocks.Lock, or noopLocker for a cron.  A suspended user is synced   *)
(* to no grants at all; for the others the desired grants come first.      *)
Lock(w) ==
    /\ pc[w] = "lock"
    /\ \/ /\ w \in Locked
          /\ lock[PodOf[w]][user[w]] = Free
          /\ lock' = [lock EXCEPT ![PodOf[w]][user[w]] = w]
       \/ w \in Crons /\ UNCHANGED lock
    /\ Goto(w, IF answer[w].suspended THEN "list" ELSE "plan")
    /\ UNCHANGED <<env, grants, job, run, faults, pruned>>

(* Desired: rules, then a catalog lookup per mapped project, any of which  *)
(* may fail.                                                               *)
PlanGrants(w) ==
    /\ pc[w] = "plan"
    /\ \E failed \in SUBSET DOMAIN MapIdentity(RulesFor(user[w]), user[w], answer[w].groups) :
          /\ IF failed = {} THEN UNCHANGED faults ELSE Fault("catalog")
          /\ plan' = [plan EXCEPT ![w] = Desired(user[w], answer[w].groups, failed)]
    /\ Goto(w, "list")
    /\ UNCHANGED <<env, grants, lock, user, answer, listed, todo, run, pruned>>

(* Mutant: a grant that holds every desired role is left as it is.         *)
ListGrants_OnlyMissing(w) ==
    /\ pc[w] = "list"
    /\ \/ /\ Goto(w, "write")
          /\ listed' = [listed EXCEPT ![w] = grants[user[w]]]
          /\ todo' = [todo EXCEPT ![w] =
                {p \in Projects : ~(plan[w].roles[p] \subseteq grants[user[w]][p])}]
          /\ UNCHANGED faults
       \/ /\ Fault("write")
          /\ Goto(w, "failed")
          /\ UNCHANGED <<listed, todo>>
    /\ UNCHANGED <<env, grants, lock, user, answer, plan, run, pruned>>

(* Sync lists the user's grants and compares: todo is the difference.      *)
ListGrants(w) ==
    /\ pc[w] = "list"
    /\ \/ /\ Goto(w, "write")
          /\ listed' = [listed EXCEPT ![w] = grants[user[w]]]
          /\ todo' = [todo EXCEPT ![w] =
                {p \in Projects : grants[user[w]][p] # plan[w].roles[p]}]
          /\ UNCHANGED faults
       \/ /\ Fault("write")
          /\ Goto(w, "failed")
          /\ UNCHANGED <<listed, todo>>
    /\ UNCHANGED <<env, grants, lock, user, answer, plan, run, pruned>>

Upserts(w) == {p \in todo[w] : plan[w].roles[p] # {}}

(* The API applied the write and Sync goes on with the next project.       *)
Applied(w, p) ==
    /\ grants' = [grants EXCEPT ![user[w]][p] = plan[w].roles[p]]
    /\ todo' = [todo EXCEPT ![w] = @ \ {p}]
    /\ UNCHANGED <<pc, faults>>

(* The API refused the write: Sync returns the error, the rest is left.    *)
Refused(w) ==
    /\ Goto(w, "failed")
    /\ UNCHANGED <<grants, todo, faults>>

(* The call failed on the way there, or on the way back.                   *)
Lost(w, p, accepted) ==
    /\ Fault("write")
    /\ Goto(w, "failed")
    /\ \/ UNCHANGED grants
       \/ accepted /\ grants' = [grants EXCEPT ![user[w]][p] = plan[w].roles[p]]
    /\ UNCHANGED todo

(* Any order over the projects (a Go map), adds and updates before removes.*)
AddGrant(w, p) ==
    /\ pc[w] = "write" /\ p \in Upserts(w) /\ listed[w][p] = {}
    /\ LET accepted == AddAccepted(user[w], p, plan[w])
       IN  \/ accepted /\ Applied(w, p)
           \/ ~accepted /\ Refused(w)
           \/ Lost(w, p, accepted)
    /\ UNCHANGED <<env, lock, user, answer, plan, listed, run, pruned>>

(* Updates and removes name the listed grant by its id: they are refused   *)
(* when it is gone, and they may be when it is not as it was listed, for   *)
(* then it may have been removed and added anew.                           *)
Replaced(w, p) == grants[user[w]][p] # listed[w][p]

(* The harness's API does not compare the roles of an update with those of *)
(* the project; the real one may.                                          *)
UpdateGrant(w, p) ==
    /\ pc[w] = "write" /\ p \in Upserts(w) /\ listed[w][p] # {}
    /\ LET accepted == grants[user[w]][p] # {}
           foreign  == ~(plan[w].roles[p] \subseteq Catalog[OrgOf[user[w]]][p].roles)
       IN  \/ accepted /\ Applied(w, p)
           \/ (~accepted \/ foreign \/ Replaced(w, p)) /\ Refused(w)
           \/ Lost(w, p, accepted)
    /\ UNCHANGED <<env, lock, user, answer, plan, listed, run, pruned>>

(* Mutant: removes go first or in between.                                 *)
RemoveGrant_First(w, p) ==
    /\ pc[w] = "write" /\ p \in todo[w] \ Upserts(w)
    /\ LET accepted == grants[user[w]][p] # {}
       IN  \/ accepted /\ Applied(w, p)
           \/ (~accepted \/ Replaced(w, p)) /\ Refused(w)
           \/ Lost(w, p, accepted)
    /\ UNCHANGED <<env, lock, user, answer, plan, listed, run, pruned>>

(* Only when every add and update has succeeded.                           *)
RemoveGrant(w, p) ==
    /\ pc[w] = "write" /\ Upserts(w) = {} /\ p \in todo[w]
    /\ LET accepted == grants[user[w]][p] # {}
       IN  \/ accepted /\ Applied(w, p)
           \/ (~accepted \/ Replaced(w, p)) /\ Refused(w)
           \/ Lost(w, p, accepted)
    /\ UNCHANGED <<env, lock, user, answer, plan, listed, run, pruned>>

(* Mutant: the error path returns without unlocking.                       *)
Unlock_OnSuccess(w) ==
    /\ pc[w] = "failed" \/ (pc[w] = "write" /\ todo[w] = {})
    /\ lock' = IF w \in Locked /\ pc[w] = "write"
               THEN [lock EXCEPT ![PodOf[w]][user[w]] = Free] ELSE lock
    /\ UNCHANGED pruned
    /\ Done(w)
    /\ UNCHANGED <<env, grants, run, faults>>

(* Sync returned: unlock, whatever it returned.                            *)
Unlock(w) ==
    /\ pc[w] = "failed" \/ (pc[w] = "write" /\ todo[w] = {})
    /\ lock' = IF w \in Locked THEN [lock EXCEPT ![PodOf[w]][user[w]] = Free] ELSE lock
    /\ pruned' = IF pc[w] = "write" /\ answer[w].suspended /\ directory[user[w]].suspended
                 THEN pruned \cup {user[w]} ELSE pruned
    /\ Done(w)
    /\ UNCHANGED <<env, grants, run, faults>>

-----------------------------------------------------------------------------
(* The environment.                                                        *)

(* The directory changes: groups won or lost, suspension, reinstatement.   *)
ChangeDirectory(u) ==
    /\ changes < MaxChanges
    /\ changes' = changes + 1
    /\ \E s \in Standing \ {directory[u]} :
          /\ directory' = [directory EXCEPT ![u] = s]
          /\ everIn' = [everIn EXCEPT ![u] = @ \cup s.groups]
    /\ pruned' = pruned \ {u}
    /\ UNCHANGED <<grants, lock, pc, job, run, faults>>

(* A process dies with its goroutines and its mutexes: a server pod, or    *)
(* the pod of one cron run.                                                *)
Crash(dead) ==
    /\ Fault("crash")
    /\ pc' = [w \in Workers |-> IF w \in dead THEN "idle" ELSE pc[w]]
    /\ user' = [w \in Workers |-> IF w \in dead THEN NoUser ELSE user[w]]
    /\ answer' = [w \in Workers |-> IF w \in dead THEN NoAnswer ELSE answer[w]]
    /\ plan' = [w \in Workers |-> IF w \in dead THEN NoPlan ELSE plan[w]]
    /\ listed' = [w \in Workers |-> IF w \in dead THEN NoGrants ELSE listed[w]]
    /\ todo' = [w \in Workers |-> IF w \in dead THEN {} ELSE todo[w]]
    /\ run' = [b \in Batches |-> IF b \in dead THEN NoRun ELSE run[b]]
    /\ UNCHANGED <<env, grants, pruned>>

CrashServer(pod) ==
    /\ lock' = [lock EXCEPT ![pod] = [u \in Users |-> Free]]
    /\ Crash({w \in Locked : PodOf[w] = pod})

CrashCron(c) == Crash({c}) /\ UNCHANGED lock

-----------------------------------------------------------------------------
Init ==
    /\ directory \in InitDirectory
    /\ grants \in InitGrants
    /\ lock = [pod \in Pods |-> [u \in Users |-> Free]]
    /\ pc = [w \in Workers |-> "idle"]
    /\ user = [w \in Workers |-> NoUser]
    /\ answer = [w \in Workers |-> NoAnswer]
    /\ plan = [w \in Workers |-> NoPlan]
    /\ listed = [w \in Workers |-> NoGrants]
    /\ todo = [w \in Workers |-> {}]
    /\ run = [b \in Batches |-> NoRun]
    /\ faults = 0
    /\ changes = 0
    /\ everIn = [u \in Users |-> directory[u].groups]
    /\ pruned = {}

(* The steps of a worker that wait for nobody.                             *)
Work(w) ==
    \/ PlanGrants(w) \/ ListGrants(w) \/ Unlock(w)
    \/ \E p \in Projects : AddGrant(w, p) \/ UpdateGrant(w, p) \/ RemoveGrant(w, p)

LoginStep(l) == ResolveLogin(l) \/ Lock(l) \/ Work(l)

BatchStep(b) ==
    \/ ListUsersInOrg(b) \/ DecideBatch(b) \/ EndBatch(b) \/ Lock(b) \/ Work(b)
    \/ \E u \in Users : ResolveInBatch(b, u) \/ PickUser(b, u)

Environment ==
    \/ \E u \in Users : ChangeDirectory(u)
    \/ \E pod \in Pods : CrashServer(pod)
    \/ \E c \in Crons : CrashCron(c)

Next ==
    \/ \E l \in Logins : LoginStep(l) \/ \E u \in Users : ReceiveLogin(l, u)
    \/ \E b \in Batches : BatchStep(b) \/ StartBatch(b)
    \/ Environment

Spec == Init /\ [][Next]_vars

(* Every started request goes on while it can; sync.Mutex hands over to    *)
(* its oldest waiter once it starves, so a worker cannot be passed over    *)
(* for ever (strong fairness of Lock); Kubernetes runs the CronJob again   *)
(* and again.  Nobody promises another login, another POST /sync, or a     *)
(* directory change.                                                       *)
Fairness ==
    /\ \A l \in Logins : WF_vars(LoginStep(l)) /\ SF_vars(Lock(l))
    /\ \A b \in Batches : WF_vars(BatchStep(b)) /\ SF_vars(Lock(b))
    /\ \A c \in Crons : WF_vars(StartBatch(c))

FairSpec == Spec /\ Fairness

-----------------------------------------------------------------------------
(* Properties.                                                             *)

(* A worker is at a user exactly while it works on one; only a batch loops;*)
(* an idle batch keeps nothing.                                            *)
Shape ==
    /\ \A w \in Workers : user[w] = NoUser <=> pc[w] \in {"idle", "collect", "next"}
    /\ \A l \in Logins : pc[l] \notin {"collect", "next"}
    /\ \A b \in Batches : pc[b] # "resolve" /\ (pc[b] = "idle" => run[b] = NoRun)

(* Every variable has its type.                                            *)
Types ==
    /\ directory \in [Users -> Standing]
    /\ grants \in [Users -> GrantSets]
    /\ lock \in [Pods -> [Users -> Locked \cup {Free}]]
    /\ pc \in [Workers -> PCs]
    /\ user \in [Workers -> Users \cup {NoUser}]
    /\ answer \in [Workers -> Answers]
    /\ plan \in [Workers -> Plans]
    /\ listed \in [Workers -> GrantSets]
    /\ todo \in [Workers -> SUBSET Projects]
    /\ run \in [Batches -> Runs]
    /\ faults \in 0..MaxFaults
    /\ changes \in 0..MaxChanges
    /\ everIn \in [Users -> SUBSET Groups]
    /\ pruned \subseteq Users

(* The type invariant: types and shape.                                    *)
TypeOK == Types /\ Shape

(* A worker is in its critical section, between Lock and Unlock.           *)
Critical == {"plan", "list", "write", "failed"}

(* The mutex of its pod and user is held by the worker that is in the      *)
(* critical section.                                                       *)
LockHeld == \A w \in Locked : pc[w] \in Critical => lock[PodOf[w]][user[w]] = w

(* Every mutex that is held is held by a worker of its pod that works on   *)
(* its user and is on its way to Unlock: no early return, refused write,   *)
(* lost call or crash leaves one behind, so that whoever waits for a user  *)
(* waits for somebody who will be done (zitadel_handler.go:543-544,        *)
(* reconcile.go:395-396).                                                  *)
LocksHaveOwners ==
    \A pod \in Pods, u \in Users : lock[pod][u] # Free =>
        LET w == lock[pod][u]
        IN  w \in Locked /\ PodOf[w] = pod /\ user[w] = u /\ pc[w] \in Critical

(* Every worker uses the locks of one process: one replica, no CronJob.    *)
OneLockTable == Crons = {} /\ \A v, w \in Locked : PodOf[v] = PodOf[w]

(* The decisions of Sync are never stale: from its list call to its last   *)
(* write, what it still has to write is as it listed it, and what it wrote *)
(* is as it wrote it, whatever logins and batches do meanwhile.  This is   *)
(* what UserLocks is for ("prevent race conditions when scheduled sync-all *)
(* and login webhook fire for the same user", server.go:58-59).            *)
SnapshotIsCurrent ==
    \A w \in Workers : pc[w] = "write" =>
        \A p \in Projects :
            grants[user[w]][p] = IF p \in todo[w] THEN listed[w][p] ELSE plan[w].roles[p]

(* What the rules give u on p when it is in these groups, written from the *)
(* rules themselves and not from the syncer's path to them; and the part of*)
(* it that is explicit, and so owed even when the catalog is down.         *)
Entitled(u, groups, p) ==
    {r \in Roles : \E rule \in RulesFor(u) :
        /\ rule.group \in groups \/ u \in rule.users
        /\ \E g \in rule.grants :
              /\ g.project = p
              /\ \/ r \in g.roles
                 \/ /\ r \in Catalog[OrgOf[u]][p].roles \ Protected
                    /\ \E pattern \in g.patterns : r \in pattern}

Owed(u, groups, p) ==
    {r \in Roles : \E rule \in RulesFor(u) :
        /\ rule.group \in groups \/ u \in rule.users
        /\ \E g \in rule.grants : g.project = p /\ r \in g.roles}

(* When a sync has nothing left to write, the user holds what the answer   *)
(* it acted on entitles the user to: nothing for a suspended one; for the  *)
(* others every explicit role and no role the rules, the project's roles   *)
(* and protectedRoles do not allow (reconcile.Desired and Syncer.Sync,     *)
(* under every interleaving with the other workers of the pod).            *)
SyncedAsAnswered ==
    \A w \in Workers : (pc[w] = "write" /\ todo[w] = {}) =>
        \A p \in Projects :
            IF answer[w].suspended THEN grants[user[w]][p] = {}
            ELSE /\ Owed(user[w], answer[w].groups, p) \subseteq grants[user[w]][p]
                 /\ grants[user[w]][p] \subseteq Entitled(user[w], answer[w].groups, p)

(* Nobody ever holds a role that neither was there before the mapper nor   *)
(* follows from groups the user has been in: no mixing of users, of        *)
(* organisations or of old and new answers produces one.                   *)
NoUnwarrantedRole ==
    \A u \in Users, p \in Projects :
        grants[u][p] \subseteq
            Entitled(u, everIn[u], p) \cup UNION {g[u][p] : g \in InitGrants}

(* The mapper claims no authority over a user whose organisation is not    *)
(* configured or has no rules, nor over a machine: no step touches the     *)
(* grants ("zero-rules orgs claim no grant authority",                     *)
(* zitadel_handler.go:212-216; the suspended path included, :522-523).     *)
Managed(u) == Enriched(u) /\ RulesFor(u) # {}
UnmanagedUntouched ==
    [][\A u \in Users : ~Managed(u) => grants'[u] = grants[u]]_vars

(* The worker's answer is one it may take roles away on: the directory     *)
(* spoke, and it said suspended, or named groups, or the run is forced; and*)
(* an unforced batch did not meet a directory that answers empty           *)
(* (runbook.md:107-123, reconcile.go:247-254).  That a user a rule names   *)
(* directly is synced on zero groups too is the code's own exception       *)
(* (reconcile.go:379-381): runbook.md:109-117 has none, and skips everyone *)
(* who resolves to zero groups.                                            *)
HasAuthority(w) ==
    /\ answer[w].ok
    /\ \/ answer[w].suspended
       \/ answer[w].groups # {}
       \/ RulesNameUser(RulesFor(user[w]), user[w])
       \/ w \in Batches /\ run[w].force
    /\ w \in Batches => run[w].force \/ ~RatioExceeded(run[w])

(* A role is only ever taken from a user by a sync that has the authority, *)
(* and, unless the user is suspended, only when the rules no longer give   *)
(* it for the groups of the answer.                                        *)
PruneNeedsAuthority ==
    [][\A u \in Users, p \in Projects : \A r \in grants[u][p] \ grants'[u][p] :
          \E w \in Workers :
              /\ pc[w] = "write" /\ user[w] = u
              /\ HasAuthority(w)
              /\ answer[w].suspended \/ r \notin Entitled(u, answer[w].groups, p)]_vars

(* A user pruned on the directory's word stays without grants for as long  *)
(* as that word stands ("A suspended account gets nothing and keeps        *)
(* nothing", zitadel_handler.go:203).                                      *)
RevocationSticks == \A u \in pruned : grants[u] = NoGrants

(* What the directory's word on u calls for on p: nothing for a suspended  *)
(* user, for the others what the rules give them.                          *)
Due(u, p) ==
    IF directory[u].suspended THEN {} ELSE Entitled(u, directory[u].groups, p)

(* u holds what is due; users no rule can reach are left alone.            *)
Settled(u) ==
    (directory[u].suspended \/ RulesApply(RulesFor(u), u, directory[u].groups)) =>
        \A p \in Projects : grants[u][p] = Due(u, p)

(* A sync repairs whatever it finds: when one that was told the directory's*)
(* present word has nothing left to write, the user is settled, whatever   *)
(* the grants were, partly written, made by hand, or left by a sync that   *)
(* failed.                                                                 *)
SyncSettles ==
    \A w \in Workers : (pc[w] = "write" /\ todo[w] = {} /\ answer[w] = Told(user[w])) =>
        Settled(user[w])

(* And no step undoes it: where every sync at work on u was told the       *)
(* directory's present word, each write gives its project exactly what is  *)
(* due, though it comes from an old listing, though its answer is lost, and*)
(* though other syncs write the same grants.                               *)
ToldOfNow(u) == \A w \in Workers : (pc[w] = "write" /\ user[w] = u) => answer[w] = Told(u)

EveryWriteRepairs ==
    [][\A u \in Users, p \in Projects :
          (grants'[u][p] # grants[u][p] /\ ToldOfNow(u)) => grants'[u][p] = Due(u, p)]_vars

(* The workers that are in a user's session, and with it the abstract      *)
(* specification: while every worker uses one pod's locks, the logins and  *)
(* batches together do what GrantSessions promises, one session at a time  *)
(* per user, whatever fails and whoever dies.                              *)
InSession(w) == pc[w] \in {"write", "failed"}
SessionOf(u) ==
    {[owner |-> w, target |-> plan[w].roles] : w \in {v \in Workers : InSession(v) /\ user[v] = u}}

Promise == INSTANCE GrantSessions
              WITH Owners <- Workers, session <- [u \in Users |-> SessionOf(u)]
OneSessionAtATime == Promise!Spec

(* Every request and every batch run ends: no lock is left behind by an    *)
(* error path, and no two workers wait for each other.                     *)
EveryRequestEnds == \A w \in Workers : pc[w] # "idle" ~> pc[w] = "idle"

AllResolved ==
    [NoRun EXCEPT !.resolved = {u \in Users : Managed(u)},
                  !.answers = [u \in Users |-> Told(u)]]

(* With a CronJob running, the grants come to what the directory says and  *)
(* stay so, once it stops changing, faults stop, and not too many users    *)
(* are without groups; users no rule can reach are left alone              *)
(* (request-flow.md:115-117, "the next batch sync repairs the grants").    *)
Convergence ==
    <>[](RatioExceeded(AllResolved) \/ \A u \in Users : Managed(u) => Settled(u))

=============================================================================
