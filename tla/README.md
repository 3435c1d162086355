# A TLA+ model of zitadel-rbac-mapper

zitadel-rbac-mapper keeps the role grants of Zitadel users in step with the
groups a company directory puts them in. A webhook does it for one user at
every login; a batch run does it for everybody every quarter of an hour. The
two write the same grants through the same remote API, without transactions,
from answers that may be old by the time they are used. This directory models
that, checks it with TLC on small instances, and proves the central facts with
TLAPS for every instance.

Paths below are relative to the repository; line numbers are those of the
commit that was modelled.

## 1. The system

### Components

| Component | Code | State it keeps | Operations |
| --- | --- | --- | --- |
| Login webhook | `pkg/server/zitadel_handler.go` | none of its own | verify, route to the organisation, resolve groups, sync grants, answer with claims |
| Batch reconciliation | `pkg/reconcile/reconcile.go`, started by `pkg/server/handler.go` (`POST /sync`) or `cmd/mapper/main.go` (`sync`, the CronJob) | the run's pending list | phase 1 lists and resolves, the empty-ratio decision, phase 2 writes |
| Grant syncer | `pkg/grantsync` | a user-to-organisation cache | list, compare, add, update, remove |
| User locks | `pkg/server/server.go:58-76` | one mutex per user id, per process | `Lock`, `Unlock`; `noopLocker` for the CronJob |
| Rules engine | `pkg/mapper/rules.go`, `match.go` | none (pure) | `MapIdentity`, `ExpandRoles`, `RulesNameUser` |
| Resolver registry and client | `pkg/resolver` | per organisation: an entry with its config, a semaphore, a circuit breaker | `For`, `ResolveUser` |
| Role catalog | `pkg/catalog` | per organisation: granted projects, owned projects' roles and names, ages and last failures | `Project` |
| Config document and sources | `pkg/mapper/source.go`, `filesource.go`, `ssmsource.go` | current config and its content hash | `ForceRefresh`, `Org`, `Orgs`, `Settings` |
| JWT verifier | `pkg/zitadeljwt` | cached key set and when it was fetched | `VerifyAndExtract` |
| Metrics, environment config, wiring, Lambda and Helm | `pkg/metrics`, `pkg/config`, `pkg/app`, `cmd`, `charts` | counters | start-up and deployment |

### How they interact

Each webhook request is a goroutine. It calls the resolver over HTTP, takes
the user's mutex, asks the catalog about every project its rules mention, lists
the user's grants and writes the differences one call at a time; every one of
these calls can fail, time out, or be applied without its answer arriving. A
batch run does the same for one user after another, but resolved all of them
before it writes for the first. Server-side batch runs share the process's
mutexes with the logins. The CronJob is another process: its mutexes, its
catalog and its circuit breakers are its own, and start empty. The only state
that outlives a process is in Zitadel.

### What is hard

* **Interleaving**: two workers at one user, call by call; per-process locks.
* **Staleness**: a resolution is read before the lock is waited for; a batch
  run's resolutions are minutes old; caches serve old entries when refreshes fail.
* **Partial failure**: a sync stops in the middle, in map order; a failed
  resolution or lookup is replaced by a weaker answer and the work goes on.
* **Crashes**: locks and answers are lost, half of the writes are done.
* **Authority**: an empty answer must not be taken for a revocation, a
  revocation must not be taken for an empty answer, and an organisation
  without rules must be left alone, on five different paths.
* **Convergence**: a failed sync is to be repaired by a later batch run.

### What makes each component correct

* *Locks and syncer*: from the listing to the last write nobody else changes
  the user's grants; adds and updates precede removes; every lock is given back.
* *Webhook and batch*: a role is taken away only by the directory's word (or an
  operator's force), and only if the rules no longer give it; nobody gets a
  role the rules do not give; grants the mapper has no authority over stay.
* *Batch*: no write before the empty-ratio decision; what failed is repaired.
* *Registry*: slots and probes are accounted for on every path; a circuit opens
  by its own directory's failures only and does not stay open for ever; the
  gauge shows it.
* *Catalog*: old contents are served only in the back-off after a failure; with
  something cached a failure is no error; a stall costs a warm request less
  than Zitadel waits.
* *Verifier*: a rotated key needs no restart, a withdrawn key is not accepted
  for longer than the refresh interval unless fetches fail.
* *Config*: a bad document changes nothing; a batch run works with the document
  its own request read.
* *Webhook as a whole*: every request gets one answer, role claims mirror the
  grants, a reload in the middle of a request does no harm.

`PROJECT.json` lists the hazards, each at the line where it bites, with the
properties that cover it or the reason why none does.

## 2. The modules

| Module | What it is |
| --- | --- |
| `RulesEngine` | the pure rules engine: operators over sets of rules, groups and role keys |
| `GrantReconciler` | the core: logins, server-side batch runs and CronJob runs over one Zitadel, with locks, faults, crashes and directory changes |
| `GrantSessions` | the abstract specification: what the reconciliation promises about a user's grants |
| `ResolverRegistry` | entries, bulkheads and circuit breakers of the organisations' resolvers, with reloads and late answers |
| `Isolation` | the abstract specification: what the registry promises every organisation, as the code keeps it |
| `RoleCatalog` | the catalog's cache in time: TTL, time-outs, back-offs, one mutex |
| `KeyCache` | the verifier's key set under rotation and failing fetches |
| `ConfigSource` | the config document, its overlapping refreshes and bad versions |
| `WebhookRequest` | a webhook request from its arrival to its one answer; composes `KeyCache` and `ConfigSource` |
| `GrantReconcilerProofs` | type correctness, mutual exclusion, no lock left behind, currency of the sync's decisions |
| `GrantAuthorityProofs` | which users are touched at all, and which roles can ever be held |
| `GrantAnswerProofs` | what the rules engine computes, what a finished sync leaves and repairs, and on whose word roles are taken away |
| `GrantSessionsProofs` | `GrantReconciler` implements `GrantSessions` |
| `IsolationProofs` | `ResolverRegistry` implements `Isolation` |
| `ResolverRegistryProofs`, `RoleCatalogProofs`, `WebhookProofs` | the theorems about the modules of those names; `WebhookProofs` covers `KeyCache` and `ConfigSource` as well |
| `MCGrantReconciler`, `MCResolverRegistry`, `MCWebhookRequest` | the instances TLC checks |

The reconciler, the registry, the catalog and the request meet at narrow seams,
and each module takes from its neighbours any answer they can give: in
`GrantReconciler` a resolution answers, or fails for whatever reason
`ResolverRegistry` has, and a lookup answers or fails as in `RoleCatalog`; in
`WebhookRequest` a resolution gives groups or none, and planning may find the
catalog down. The document, the keys and the requests, which share state step
by step, are composed in one specification.

### GrantReconciler and the code

A *worker* is a goroutine: `Logins` (one webhook request at a time), `Syncs`
(a `POST /sync` request at a time) and `Crons` (a CronJob run at a time). `pc`
says where it is:

| `pc` | The worker is ... | Actions that leave it |
| --- | --- | --- |
| `idle` | without a request | `ReceiveLogin`, `StartBatch` |
| `resolve` | calling the resolver for a login | `ResolveLogin` |
| `collect` | in phase 1 of `reconcile.All` | `ListUsersInOrg`, `ResolveInBatch`, `DecideBatch` |
| `next` | in phase 2, between two users | `PickUser`, `EndBatch` |
| `lock` | waiting for the user's mutex | `Lock` |
| `plan` | in `Desired`, with the lock | `PlanGrants` |
| `list` | in `Sync`, before its list call | `ListGrants` |
| `write` | in `Sync`, after it | `AddGrant`, `UpdateGrant`, `RemoveGrant`, `Unlock` |
| `failed` | with an error from `Sync` | `Unlock` |

Each action is one call to another process with everything the code does up to
the next such call, so every interleaving two goroutines or two processes can
show is a behaviour of the model. `answer` is what the resolver said, `plan`
the desired grants, `listed` and `todo` the listing and the differences still
to write, `run` the state of `reconcile.All`. `lock` is `UserLocks`: one table
per pod, so that it dies with the pod (`CrashServer`). `everIn` and `pruned`
are history variables that only properties read.

Faults come from a budget (`MaxFaults`) and a set of kinds (`Faults`):
`resolver` (a resolution fails: error, timeout, saturated bulkhead or open
circuit), `list` (the user listing fails), `catalog` (any subset of the lookups
of one plan fails with nothing cached), `write` (a listing or a write of
`Sync` fails, before or after it was applied) and `crash`.

Abstractions, and why they lose nothing the properties tell apart:

* A user has at most one grant per project, as the syncer itself assumes when it
  indexes by project (`syncer.go:165-174`). Grant ids are left out: an update
  or remove of a grant that was changed since it was listed may be refused,
  because it may have been removed and added anew. (Removed and added anew
  *with the same roles* is taken for the same grant.)
* A role pattern is the set of role keys it matches; `path.Match` cannot fail on a
  pattern that `validate` accepted. Emails are compared up to case and stand
  for the user.
* The order of a batch's organisations and users is arbitrary; so is the order of
  projects in a sync, which is a map's order in the code.
* The configuration and the contents of the catalog do not change during a
  behaviour; catalog *failures* are modelled per lookup.
* A payload has an organisation and a user id. Requests that end before the
  resolver (unknown organisation, machine user, no directory) change nothing
  and are left out, by the guard `Enriched`; so are requests that fail
  verification. `WebhookRequest` has them all.
* `ratio > MaxEmptyRatio` is compared as fractions of naturals.
* A resolver that works passes on the directory's present word. That it may
  answer empty although the directory knows better is covered by directory
  changes to no groups and back.
* Adds are refused as the integration harness's fake instance refuses them: a
  second grant on one project, an unknown role, a wrong `projectGrantId`.

### GrantSessions

A user's grants change only in *sessions*, one per user at a time. A session
has an owner and a target. Each write takes one project from what it was to
what the target says, and no role is taken away outright before everything the
target adds is there. A session may stop anywhere. The refinement mapping reads
the sessions off the workers: a worker whose `pc` is `write` or `failed` is in
a session of its user, and its target is its plan.

### ResolverRegistry

Workers resolve users: a login one, a batch run several with the `OrgResolver`
it took at first (`reconcile.go:286`). `current` is `Registry.entries`;
`entry`, `slots` and `breaker` are the objects, which are referred to by the
registry and by the workers that hold them, so that a replaced one lives on
until its last user lets go (`Collected` is the garbage collector). `seen` is
the configuration a worker has read before it asks for its resolver.

| Code | Action |
| --- | --- |
| reading the organisation's configuration (`zitadel_handler.go:155`, `reconcile.go:270`) | `Start` |
| `Registry.For`, entry found, or replaced | `Reuse`, `Rebuild` |
| `ResolveUser`: `select` on the semaphore | `Acquire`, `Reject` |
| `breaker.Execute`, before and after the call | `Admit`, `ShortCircuit`, `Return` |
| the deferred receive | `Release` |
| `openDuration` passes, a reload | `Expire`, `Reload` |

The breaker is `sony/gobreaker`, an external library, modelled as the registry
configures it: generations, consecutive failures, admitted probes, successes
in a row. Any error is a failure to it, a 404 for an unknown user and a
cancelled caller included. `MaxFailures` bounds the failures of an
organisation's directory, `MaxReloads` the reloads.

### Isolation

What `docs/architecture/isolation.md` says of the registry, as a specification
of its own, in all but one point: the document closes a half-open circuit on the
first success, `Succeed` on the last of `halfOpenProbes` successes, as the code
does (see "Where the code and its docs part"). Every organisation has a *gate*: a room for at most
`maxConcurrency` requests around a circuit of the three states drawn there,
with `count` failures in a row or successes of probes, and `asked` requests
out whose outcome the present state still waits for. A step concerns one gate.
There is no OrgResolver, no generation, no user of an old object and no late
answer in it: an outcome is that of a request asked in the present state, once,
and a gate starts anew only when its limits change. The refinement mapping
(`Gate` in `ResolverRegistry`) reads the gate off the organisation's current
OrgResolver; whatever happens to a replaced one, and every late outcome,
changes no gate, or shows a request that the time of an open circuit is over.

### RoleCatalog

One organisation's cache as `reconcile.Desired` (first pass) and
`reconcile.RoleEntries` (second pass) use it. Time stamps are ages, the
quantity the code compares; `Tick` makes everything older, when everyone waits
for time only, and no call outlives `RefreshTimeout`. `Check` is `Project` up
to its first call, then `GrantedAnswer`/`GrantedFailure`,
`RolesAnswer`/`RolesFailure` and `NameAnswer` are the ends of its calls, up to
the next. `ttlRead` is the TTL, which a lookup reads once and a `Reload` may
change meanwhile. `data` is the true age of what an entry holds: the code
stamps granted projects when the answer is there and owned roles when the name
call *begins*, so contents can be older than their entry by one call.

### KeyCache, ConfigSource, WebhookRequest

`KeyCache` is `keySetFor` and what it calls: `LockKeys` takes the mutex and
decides, `PeriodicAnswer`, `PeriodicFailure`, `UnknownAnswer` and
`UnknownFailure` end its fetches, and the mutex is held until the set is
returned. The age of the set counts in `Tick`s up to `OldKeys`. A token is the
identity of the key that signed it.

`ConfigSource` is both sources, file and SSM: `ReadDocument`, `Compare`,
`Swap`, with nothing held in between, then `RunBatch`. A document is a record
of what one organisation's requests depend on; `Valid` is what `ParseConfig`
refuses and `Normalized` what `Settings` and `Org` make of the rest.

`WebhookRequest` has one step per access to shared state: verification
(`KeyCache`), `CheckPayload` (`requireExp` of now, and a payload that the
handler can read or not, whatever its `exp`), `LookupOrg` with the
fallback through `UserOrg`, `EnrichMachine` with its second lookup, `Resolve`,
`RespondSuspended`, `SyncGrants`, `RoleClaims`, `AddEmployee`. Between any two
of them the document may be edited and swapped, keys rotated, or the process
restarted. The guarded role is a protected role, so that a sync and claims that
disagree can be told apart. `Forget` lets any number of requests follow.

## 3. What is checked

| Run | Instance | Checks |
| --- | --- | --- |
| `server_logins` | 2 logins, 1 pod, `ann`, `zoe`, `eve`, `ci`; 2 faults of any kind but `list`, which no login meets, 1 directory change | `TypeOK`, `SnapshotIsCurrent`, `SyncedAsAnswered`, `NoUnwarrantedRole`, `UnmanagedUntouched`, `OneSessionAtATime` |
| `batch_and_login` | 1 login and 1 `POST /sync` of one pod; `ann`, `bob`, `zoe`, `eve`, `ci`; ratio 1/2; 1 fault (not `catalog`), 1 change | `SnapshotIsCurrent`, `NoUnwarrantedRole`, `LocksHaveOwners`, `SyncSettles`, `PruneNeedsAuthority`, `UnmanagedUntouched`, `EveryWriteRepairs` |
| `convergence` | 1 login, 1 CronJob, `ann`, `NameAndGroupRules`; ratio 1; 1 fault of any kind, 1 change; with fairness | `NoUnwarrantedRole`, `EveryRequestEnds`, `Convergence` |
| `org_resolvers` | 1 login, 1 batch of up to 2 users, 2 organisations with different blocks; 2 failures of `acme`, none of `zed`, 1 reload; with fairness | `TypeOK`, `SlotsAccounted`, `ProbesAccounted`, `OpenedByOwnFailures`, `GaugeShowsCircuit`, `CircuitRecovers`, `GatesAsPromised` |
| `role_catalog` | 2 callers, 1 project; TTL 4 or 5, time-out 1, back-off 4, hook time-out 3, ages up to 7 | `TypeOK`, `AnsweredInTime`, `OldOnlyAfterFailure`, `StaleRatherThanError` |
| `webhook` | 1 request at a time, 2 keys, 2 refreshes, 3 documents (one bad); edits, rotations, failures and restarts without bound | `TypeOK`, `BadDocumentHarmless`, `SyncSeesItsRefresh`, `ClaimsMirrorGrants`, `SecondLookupAgrees`, `RotatedKeyAccepted`, `WithdrawnKeyRefused` |
| `failed_resolution` | 1 login, `NamedRules`, 1 resolver fault | `PruneNeedsAuthority` is violated |
| `cold_catalog` | 1 CronJob, 1 catalog fault | `PruneNeedsAuthority` is violated |
| `cron_race` | 1 login, 1 CronJob, no faults | `SnapshotIsCurrent` is violated |
| `stale_answer` | 2 logins of one pod, 1 change, no faults | `RevocationSticks` is violated |
| `catalog_stall` | 1 caller, 2 projects; time-out 1, hook time-out 3 | `AnsweredInTime` is violated |
| `machine_reload` | 1 request, 1 refresh, a document that loses `machineUsers` | `NeverFailsLogin` is violated |

### The reconciler's runs

They use `MCGrantReconciler`: user `ann` and, where there are more, `bob` of
organisation `acme`, `zoe` of `zed`, which is configured without rules, `eve` of
`out`, which is not configured, and `ci`, a machine of `acme`; two groups, two projects (one owned, one held through a ProjectGrant), two roles
(one protected). `GroupRules` gives one group every unprotected role of a
project by pattern, the other an explicit protected role and a role on the
granted project. `NamedRules` names `ann` in a rule of her own, and
`NameAndGroupRules` adds such a rule to `GroupRules`. Two projects and
two roles let a sync add, update and remove at once and stop in between; two
groups let an answer change what is desired without emptying it.

* `SnapshotIsCurrent`: what a sync still has to write is as it listed it, what it
  wrote is as it wrote it. Two workers of one pod suffice to break it when
  the lock is wrong, two logins or a login and a batch run.
* `SyncedAsAnswered`: when a sync has nothing left to write, the user holds all
  explicit roles of the answer it acted on and nothing that answer does not
  entitle to; a suspended user holds nothing. `Entitled` says it from the
  rules, not along the code's path through mapper, catalog and syncer.
* `NoUnwarrantedRole`: no role is ever held that was not there before and does
  not follow from groups its user has been in, whichever answers are mixed.
* `PruneNeedsAuthority`: a role is taken away only on an answer that came from
  the directory and was suspended, or had groups, or is about a user a rule
  names, or by force; not when too many answers were empty; and only if the
  rules no longer give it. With `ann` and `bob` resolved, one of them empty is
  just not above the threshold of 1/2; with one resolution failed and the other
  empty it is. `GroupRules` names nobody, so that the exception for named users
  does not occur here. Catalog faults are left out of this run because with them
  the property fails; `cold_catalog` shows that.
* `UnmanagedUntouched`: the grants of users of unconfigured organisations
  (`eve`), of organisations without rules (`zoe`), and of machines (`ci`) never
  change, although each of them is in a directory group.
* `LocksHaveOwners`: a mutex that is held is held by a worker of its pod that is
  inside the sync of that user. An early return that forgets to unlock breaks
  it only after a fault in the middle of a sync.
* `SyncSettles` and `EveryWriteRepairs`: the first says that a sync that was told
  the directory's present word leaves its user with exactly what is due, from
  any grants, those of a sync that stopped half-way included; the second that
  every single write of such a sync takes its project to what is due, though
  its listing is old or its answer is lost. Together they are the safety half
  of convergence: what is repaired stays repaired.
* `OneSessionAtATime`: `GrantReconciler` implements `GrantSessions`.
* `EveryRequestEnds`: no lock is left behind, nobody waits for ever.
* `Convergence`: with a CronJob running, faults and changes over, the grants
  come to what the directory and the rules say and stay so, unless too many
  answers are empty; users no rule reaches are left as they are. It holds even
  though the CronJob takes no locks, and that is the point of the run. `ann` is
  named by a rule, so that she is mended on zero groups as well, and the ratio
  is 1, which no run exceeds: the exception for empty answers is not used.

Bounds: one or two faults and one directory change are enough to put a failure,
a crash or a changed answer before, between and after any two steps of any two
workers; a second change would only repeat the first for workers that already
hold two different answers. Requests, runs and their number are not bounded.

### The other runs

* `org_resolvers`: `acme` has a bulkhead of 2, a threshold of 2 and 2 probes,
  `zed` 1 of each (its probes by default); a reload may give one the other's
  block. Two workers fill a bulkhead of 1, and one of them can hold a call of
  an old generation, or a replaced resolver, while the other goes through
  opening, probing and closing. Two failures open `acme`'s circuit, or `zed`'s
  block under `acme`; `zed` has none, so that only a circuit shared or mixed up
  could open. `Resolvers` has four identities: two registered and two held.
  `SlotsAccounted` ties `slots` to the workers inside, on every path;
  `ProbesAccounted` does so for probes, late answers included; `CircuitRecovers`
  says that a directory that works again is used again. `GatesAsPromised` is
  the refinement of `Isolation`, step by step. `GaugeShowsCircuit` ends with the first reload, for a reason given below.
* `role_catalog`: two callers queue behind one mutex with a full time-out each.
  The TTLs are longer than the time-out, as in every real configuration, and
  the unit of time is a time-out (3 s). TTLs and back-off are longer than the
  three calls one request can wait for (`Ample`, below), so that what holds
  here is what the theorem says. Old (7) is past TTL plus time-out, so that
  nothing the code compares is lost.
* `webhook`: two refreshes overlap in any order; two keys allow a rotation with
  both published, and without the old one. Ages past both intervals are alike.
  One request at a time suffices for its interleaving with everything else:
  requests share nothing but the key mutex and the sources, and
  `WebhookProofs` covers any number of them. The symmetry is that of keys and of
  refreshes, which no definition and no property tells apart.

### Fairness

What is assumed is what the platform gives. In `GrantReconciler` a started
request goes on while it can (weak fairness of its steps: every call has a
deadline or its process is killed, both of which are steps here). A waiter of a
`sync.Mutex` gets it in the end, because a starving mutex is handed to its
oldest waiter (strong fairness of `Lock`). Kubernetes starts the CronJob again
and again (`charts/zitadel-rbac-mapper/templates/cronjob.yaml`, weak fairness
of `StartBatch` for crons). Logins, `POST /sync` requests, directory changes and
faults need never happen. In `ResolverRegistry` goroutines go on, since the
HTTP client has a timeout, and time passes (`Expire`); nobody need come, so
`CircuitRecovers` is about an organisation that is asked again and again.

Deadlock is checked in every run.

### Where the code and its docs part

1. `failed_resolution`: a failed resolution becomes zero groups, and a user whom
   some rule names is synced on zero groups, so a login during a resolver outage
   takes away every grant the user has by groups. `docs/architecture/isolation.md:88-89`
   and `request-flow.md:119-121` say that never happens.
2. `cold_catalog`: a lookup that fails with nothing cached removes the projects
   that rules give by pattern only, although groups and rules are the same.
   `docs/operations/runbook.md:109-111` says a grant goes only when the rule
   matches no longer cover it. Every CronJob run starts with nothing cached.
3. `cron_race`: the CronJob takes no locks, and `reconcile.go:27` says none are
   needed. A login and the run act on listings the other has made stale. The
   damage is bounded: `NoUnwarrantedRole` and `Convergence` still hold.
4. `stale_answer`: a login that resolved just before a suspension and then waited
   for the mutex restores the grants after another login has pruned them;
   `zitadel_handler.go:203` says a suspended account keeps nothing. The next
   batch run prunes again.
5. `catalog_stall`: `catalog.go:51-53` says a time-out of 3 s keeps a stall below
   the 10 s Zitadel waits. The time-out is per call and the back-off per entry:
   the list of granted projects, one project's roles, the other's roles and its
   name can each take 3 s of one request that began with everything cached.
6. `machine_reload`: the machine path looks its organisation up twice
   (`zitadel_handler.go:351`) and follows a pointer that a reload in between has
   made nil. `docs/operations/runbook.md:3-4` says the mapper never fails a login. The
   application installs no recover handler of its own; the model ends the
   request without an answer and leaves the end of the process to `Restart`.

Met while modelling, without a run of their own. The first two contradict the
docs outright, but one needs more probes than the default and the other is a
choice the code states; for the rest no sentence of the docs is as sharp, or the
model shows them as a limit of a property:

* A half-open circuit closes after `halfOpenProbes` successes in a row, because
  the breaker takes its `MaxRequests` for both (`registry.go:89`).
  `docs/architecture/isolation.md:57-73` ("probe succeeds", "Success closes the
  circuit") and `docs/operations/runbook.md:67-68` ("closes on the first
  success") say that the first one does, which is so for the default of one
  probe only. With more, an organisation stays half-open after a success, and
  turns requests beyond its probes away. `Isolation` and `GatesAsPromised`
  follow the code here, and `acme` has two probes in `org_resolvers`, so that
  this run passing must not be taken for a check of those sentences.
  `CircuitRecovers` holds in spite of it.
* A user who resolves to zero groups is synced all the same if a rule names the
  user, and loses what the groups gave, with no force and no suspension
  (`reconcile.go:379-391`; a login does so too, by `rulesApply`).
  `docs/operations/runbook.md:109-117` says that pruning requires a non-empty
  group list and that users with zero groups are skipped; the exception stands
  in a comment of the code only. `HasAuthority` grants it.
* A start on a bad document leaves an empty configuration, under which every
  organisation is unknown, although `source.go:333-335` says such a component
  must stop (`filesource.go:36-45`). `BadDocumentHarmless` spells the case out.
* After a rebuild a replaced resolver goes on: the organisation's calls in
  flight may exceed `maxConcurrency` for a while (`isolation.md:33-36` bounds
  them per organisation), an open circuit is forgotten, and the replaced one
  writes the same gauge. `SlotsAccounted` is per resolver and
  `GaugeShowsCircuit` until the first reload for that reason. A request that
  read the old configuration puts the old one back (`registry.go:54`).
* Unknown users and cancelled callers count as failures of the directory.
* An add that the API refuses for good aborts every sync of the user before its
  removes (`syncer.go:216-219`), so `request-flow.md:115-117` ("the next batch
  sync repairs the grants") does not hold for that user.
* The catalog's back-off does not apply when nothing is cached
  (`catalog.go:163`, `:192`); a failed name lookup overwrites a known name for a
  whole TTL (`catalog.go:210`).
* The refetch limit of the verifier counts from the last *successful* fetch, and
  one mutex is held across up to two fetches of 10 s (`jwt.go:183`, `:198`).
* The older of two overlapping refreshes may win (`filesource.go:112`);
  `SyncSeesItsRefresh` makes an exception for it.

## 4. What is proved

TLC checks the instances above; the following holds for every instance that
meets the named ASSUMEs. Nothing is assumed about the number of users,
organisations, rules, pods, workers, requests, keys, documents, callers, faults
or changes.

### GrantReconciler

The ASSUMEs: workers of different kinds are different; the sentinels are not
users or workers; the configuration is one `validate` accepts and the catalog's
role keys are roles; initial values are typed; bounds are naturals.

* `TypeCorrect`: `Spec => []TypeOK`. Types alone are not inductive: that a
  worker with a lock is at a user, which indexes `grants`, needs `Shape`, so
  both are proved together.
* `SnapshotAlwaysCurrent`: `OneLockTable => (Spec => []SnapshotIsCurrent)`.
  `OneLockTable` says that all workers use one process's locks (one replica, no
  CronJob); `cron_race` shows that the hypothesis is needed. The argument:
  `LockHeld` (whoever is in the critical section holds the mutex of its pod and
  user) is inductive by itself, crashes included; with `OneLockTable` it gives
  `Exclusion`; with that, a write of another worker is a write for another
  user, and a write of the worker itself moves one project from listed to
  planned. `SnapshotIsCurrent` is inductive together with `TodoDiffers`.
* `NoLockLeftBehind`: `Spec => []LocksHaveOwners`, with no hypothesis. With
  `TypeOK` and `Shape` it is inductive: only `Lock` takes a mutex, on the way
  into the critical section, and every way out of that section is `Unlock` or
  the end of the process.
* `RulesAsWritten`, `RulesAddUp`, `ProtectedByNameOnly`: facts about the operators.
  The path through `MapIdentity`, `ExpandRoles` and `Desired` gives what the rules
  say when read as a sentence (`Entitled`): exactly, if the catalog answers, and
  between the explicit roles and that if lookups fail; being in more groups
  never costs a role; a protected role comes from a rule that names it.
* `SyncsAsAnswered`: `OneLockTable => (Spec => []SyncedAsAnswered)`. A plan is
  made from one answer and stays with it (`PlanFollows`); `DesiredOwed` and
  `DesiredEntitled` say that the path through `MapIdentity` and `ExpandRoles`
  loses no explicit role and adds none, whatever lookups fail; and by
  `Snapshot` the grants are the plan once nothing is left to write.
* `SyncsSettle`: `OneLockTable /\ CatalogAnswers => (Spec => []SyncSettles)`, and
  `WritesRepair`: `CatalogAnswers => (Spec => EveryWriteRepairs)`, the latter with
  no hypothesis about locks. `CatalogAnswers` says that no lookup fails with
  nothing cached; without it a plan leaves roles out that are due, which is
  `cold_catalog`. The invariant `PlanIsDue` says that the plan of a worker that
  was told the directory's present word is what is due; it survives changes of
  the directory because then the word is no longer the present one. A write
  gives a project what the plan says; with one lock table, what is not left to
  write is as planned (`Snapshot`).
* `PrunesOnAuthority`: `Dependable => (Spec => PruneNeedsAuthority)`, with no
  hypothesis about locks. `Dependable` excludes exactly what
  `failed_resolution` and `cold_catalog` show: catalog failures with nothing
  cached, and failing resolutions where rules name users. `Authority` carries
  the word a worker acts on from the answer to the write, and with it a
  batch's empty-ratio decision through phase 2; `PlanComplete` says that a
  plan made with the catalog up leaves nothing out (`DesiredComplete`).
* `UnmanagedNeverTouched`: `Spec => UnmanagedUntouched`, with no hypothesis about
  locks. The inductive invariant `ManagedWork` says that whoever is on its way to
  a write is at a managed user, which for a batch rests on what its pending
  list and its organisations may contain.
* `RolesWarranted`: `Spec => []NoUnwarrantedRole`, again for any number of
  replicas and CronJobs: no race can mix answers into a role nobody gave. The
  invariant `Warranted` carries "groups the user has been in" from the directory
  through answers and pending lists to plans and grants.
* `ImplementsSessions`: `OneLockTable => (Spec => OneSessionAtATime)`. Every
  step maps to `Open`, `Write`, `Close` or a stutter. The order of removes after
  adds follows from `SnapshotIsCurrent`: projects no longer to be written are as
  planned.

### ResolverRegistry

The ASSUMEs: blocks are resolver blocks, the initial configurations are
normalised valid ones, workers are finitely many, the sentinel is distinct.

* `TypeCorrect`, with control states and the registry's shape: a counter that is
  decremented must be positive, which is only so because of
* `SlotsAlwaysAccounted`: the number of workers inside a resolver is its
  `slots`. The proof follows the set of workers inside through each action
  (one joins, one leaves, none) and needs that a fresh resolver is held by
  nobody, that is, the meaning of `Referenced`.
* `ProbesAlwaysAccounted`: the same for probes, by generations: a late call's
  generation is strictly smaller than the breaker's once the state has changed,
  so that it is not among those counted.
* `OnlyOwnFailuresOpen`: a breaker's failures are failures of the organisation it
  was built for, and whoever holds a resolver is at that organisation.
* `GaugeTrue`: until the first reload no registered resolver is ever replaced,
  so one resolver writes an organisation's gauge, at every change of its state.
* `GatesKeepPromise`: `Spec => GatesAsPromised`, with no hypothesis: the registry
  implements `Isolation` for any organisations, configurations, workers and
  reloads. A worker's step concerns the gate of its own organisation at most,
  and only while its OrgResolver is the current one (`WorkersGate`). The rest
  is the invariant of the other theorems: a breaker admits a probe exactly when
  those out and those that succeeded are fewer than `halfOpenProbes`
  (`ProbesAlwaysAccounted`), whoever asks is inside and holds a slot
  (`SlotsAlwaysAccounted`), an outcome counts exactly if its caller is among
  those the gate waits for, and a new generation waits for nobody
  (`CountersOfNewGeneration`).

### RoleCatalog

The ASSUMEs: times are naturals, and ages that are compared lie below `Old`.

* `TypeCorrect`. With it goes control: only the mutex's holder is inside a
  lookup, it looks up a project of its list, and a TTL was read exactly
  while it waits.
* `OldServedOnlyAfterFailure`: `Reasonable => (Spec => OldOnlyAfterFailure)`.
  `Reasonable` says that the back-off is not zero and no TTL is shorter than a
  call's time-out; with a shorter TTL an entry is old the moment it is stored. The
  invariant: contents are at most one call older than their entry, so that an
  entry the code takes for fresh is fresh.
* `ErrorsOnlyWhenCold`: `Spec => StaleRatherThanError`.
* `WarmAnsweredInTime`: `Ample => (Spec => []AnsweredInTime)`. `Ample` says that the
  hook's time-out has room for one call for the list of granted projects and
  two for each project, that the back-off is longer than that, and every TTL
  longer by another call. The code's values are 3 s a call, 30 s of back-off, a
  TTL of 5 min by default and 10 s of Zitadel's patience: an organisation whose
  rules mention one project needs 9 s and meets it, two projects need 15 s and
  do not, which is `catalog_stall`. The invariant (`WaitInv`): a refresh pays
  for the time it took until the request is over, because its success makes
  the entry fresh and its failure starts the back-off, and both last longer
  than the request. What a request waits for the mutex is, by the same
  invariant, paid for by the refresh that held it. The model is of one
  organisation: calls for another one, which share the mutex, are not in it.

### WebhookRequest, KeyCache, ConfigSource

The ASSUMEs: intervals are naturals below `OldKeys`, documents are documents, the
sentinels are distinct.

* `TypeCorrect`, for the composition.
* `ConfigOfHash` (`BadDocumentHarmless`) and `BatchOnItsDocument`
  (`SyncSeesItsRefresh`): a refresh that is about to swap has validated what it
  carries, and one that has swapped or found its document in use is overtaken
  by any other swap.
* `ClaimsAsGrants` (`ClaimsMirrorGrants`) and `PanicOnlyByReload`
  (`SecondLookupAgrees`): while a request is not marked as reloaded, the
  configuration in use is the one it started from.
* `NeverFailedByOtherEdits`: `MachineUsersKept => (Spec => []NeverFailsLogin)`.
  `machine_reload` shows one reload that makes the handler follow a nil
  pointer; the theorem says that it is the only kind: if all valid documents
  have `machineUsers`, or none, no reload, restart or overlap of refreshes does.
* `RotationNeedsNoRestart` (`RotatedKeyAccepted`) and `WithdrawnKeyAges`
  (`WithdrawnKeyRefused`): action properties; the invariant says that of the
  verifications only the mutex's holder is at a fetch, and what it knows about
  the set's age at each stage.

### Only model-checked

The liveness properties `EveryRequestEnds`, `Convergence` and
`CircuitRecovers`, since liveness under fairness is out of the prover's reach.
Their safety halves are theorems: `NoLockLeftBehind`, `SyncsSettle` and
`WritesRepair`, `ProbesAlwaysAccounted` and `GatesKeepPromise`. Every other
property of a passing run is stated by a theorem.

## 5. Not modelled, and what is left

Not modelled: decoding of YAML and payloads, the syntax of role patterns,
cryptography, counters and histograms, logging, start-up from the environment,
listeners and shutdown, the Lambda entry point and the Helm chart. None of it
decides anything the modules do not take as a choice.

Modelled as one step although the code takes several: the page-wise listings of
grants, users, projects and roles, which need more than a page of items to
matter (`syncer.go:326`); and the organisation cache of `UserOrg`, whose answer
is any it may give.

Left for an extension, in this order: a configuration that changes during a
batch run, which reads settings, organisations and rules one after the other
(`reconcile.go:261-273`); users that move between organisations, with the cache
of `UserOrg`; an explicit role the project does not have, in the instances of
`GrantReconciler`; the waiting times of verifications behind the key mutex.
