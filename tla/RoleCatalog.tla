----------------------------- MODULE RoleCatalog -----------------------------
(***************************************************************************)
(* pkg/catalog: the cache of what one organisation can grant, as the       *)
(* webhook and the batch runs use it through reconcile.Desired and         *)
(* reconcile.RoleEntries.  Entries of different organisations have nothing *)
(* in common but the mutex.                                                *)
(*                                                                         *)
(* A caller looks up every project its user's rules mention, in any order, *)
(* once for the grants and once more for the role claims.  Every lookup    *)
(* takes the one mutex and keeps it while it waits for Zitadel.            *)
(*                                                                         *)
(* Time stamps are modelled as ages, which is what the code compares: Tick *)
(* makes everything one unit older, up to Old, after which nothing         *)
(* changes.  Computing takes no time, calls take up to refreshTimeout.     *)
(* What Zitadel answers is arbitrary; contents are the set of projects     *)
(* granted by other organisations; of names and roles only their age is    *)
(* kept, since no branch of the catalog depends on what they are.          *)
(***************************************************************************)
EXTENDS Integers, FiniteSets

CONSTANTS
    Callers,        \* goroutines that plan grants
    Projects,       \* projects that rules mention
    Plans,          \* the sets of projects the rules mention for one user
    None,           \* nobody holds the mutex
    TTLs,           \* values of roleCacheTTL
    RefreshTimeout, \* refreshTimeout
    FailureBackoff, \* refreshFailureBackoff
    HookTimeout,    \* when Zitadel gives up on the webhook
    Old             \* bound: the age after which all ages are alike

ASSUME TimeAssumption ==
    /\ TTLs \subseteq Nat
    /\ RefreshTimeout \in Nat /\ FailureBackoff \in Nat /\ HookTimeout \in Nat /\ Old \in Nat
    /\ \A ttl \in TTLs : Old > ttl + RefreshTimeout
    /\ Old >= FailureBackoff /\ Old > HookTimeout

ASSUME NoneAssumption == None \notin Callers /\ None \notin Projects

ASSUME PlanAssumption == Plans \subseteq (SUBSET Projects) \ {{}}

Ages == 0 .. Old

Never == -1 \* the zero time, and the age of what is not there

Older(age) == IF age = Never \/ age = Old THEN age ELSE age + 1

VARIABLES
    ttl,     \* Source.RoleCacheTTL
    ttlRead, \* what the lookup that waits for Zitadel read of it, once
    mu,      \* Catalog.mu: its holder
    granted, \* orgEntry: projects, age (Never before the first answer), failed,
             \* and data: the true age of the contents (history)
    owned,   \* orgEntry.owned: age (Never if absent), failed, data
    pc,      \* where a caller is
    pass,    \* "desired" or "claims"
    plan,    \* the projects of a caller
    todo,    \* those still to look up in this pass
    at,      \* the one it looks up
    spent,   \* the age of the call it waits for
    rolesAt, \* the age of owned roles read, while their project's name is read
    answer,  \* what its last lookup returned
    elapsed, \* the time since it began (history)
    warm     \* everything was cached when it began (history)

cache == <<granted, owned>>
caller == <<pc, pass, plan, todo, at, spent, rolesAt, answer, elapsed, warm>>
vars == <<ttl, ttlRead, mu, cache, caller>>

GrantedEntry == [projects: SUBSET Projects, age: Ages \cup {Never},
                 failed: Ages \cup {Never}, data: Ages \cup {Never}]

OwnedEntry == [age: Ages \cup {Never}, failed: Ages \cup {Never}, data: Ages \cup {Never}]

TypeOK ==
    /\ ttl \in TTLs
    /\ ttlRead \in TTLs \cup {Never}
    /\ mu \in Callers \cup {None}
    /\ granted \in GrantedEntry
    /\ owned \in [Projects -> OwnedEntry]
    /\ pc \in [Callers -> {"idle", "lock", "check", "granted", "roles", "name"}]
    /\ pass \in [Callers -> {"desired", "claims"}]
    /\ plan \in [Callers -> SUBSET Projects]
    /\ todo \in [Callers -> SUBSET Projects]
    /\ at \in [Callers -> Projects \cup {None}]
    /\ spent \in [Callers -> 0 .. RefreshTimeout]
    /\ rolesAt \in [Callers -> Ages]
    /\ answer \in [Callers -> {"none", "info", "error"}]
    /\ elapsed \in [Callers -> Ages]
    /\ warm \in [Callers -> BOOLEAN]

-----------------------------------------------------------------------------
Cached(entry) == entry.age # Never

\* inFailureBackoff: the last refresh failed a short while ago.
InFailureBackoff(entry) == entry.failed # Never /\ entry.failed < FailureBackoff

\* Mutant: the back-off never ends.
Stale_Mutant(entry, limit) == ~Cached(entry) \/ (entry.age > limit /\ entry.failed = Never)

\* When Project refreshes an entry, limit being the TTL it read.
Stale(entry, limit) == ~Cached(entry) \/ (entry.age > limit /\ ~InFailureBackoff(entry))

Init ==
    /\ ttl \in TTLs
    /\ ttlRead = Never
    /\ mu = None
    /\ granted = [projects |-> {}, age |-> Never, failed |-> Never, data |-> Never]
    /\ owned = [p \in Projects |-> [age |-> Never, failed |-> Never, data |-> Never]]
    /\ pc = [w \in Callers |-> "idle"]
    /\ pass = [w \in Callers |-> "desired"]
    /\ plan = [w \in Callers |-> {}]
    /\ todo = [w \in Callers |-> {}]
    /\ at = [w \in Callers |-> None]
    /\ spent = [w \in Callers |-> 0]
    /\ rolesAt = [w \in Callers |-> 0]
    /\ answer = [w \in Callers |-> "none"]
    /\ elapsed = [w \in Callers |-> 0]
    /\ warm = [w \in Callers |-> FALSE]

\* Desired begins for a user whose rules mention these projects.
Begin(w) ==
    /\ pc[w] = "idle"
    /\ \E ps \in Plans :
          /\ plan' = [plan EXCEPT ![w] = ps]
          /\ todo' = [todo EXCEPT ![w] = ps]
          /\ warm' = [warm EXCEPT ![w] = Cached(granted) /\ \A p \in Projects : Cached(owned[p])]
    /\ pass' = [pass EXCEPT ![w] = "desired"]
    /\ pc' = [pc EXCEPT ![w] = "lock"]
    /\ UNCHANGED <<ttl, ttlRead, mu, cache, at, spent, rolesAt, answer, elapsed>>

\* Project: Lock.
Lock(w) ==
    /\ pc[w] = "lock"
    /\ mu = None
    /\ mu' = w
    /\ \E p \in todo[w] : at' = [at EXCEPT ![w] = p]
    /\ pc' = [pc EXCEPT ![w] = "check"]
    /\ UNCHANGED <<ttl, ttlRead, cache, pass, plan, todo, spent, rolesAt, answer, elapsed, warm>>

\* Project returns, the deferred Unlock runs, and the caller goes on to its
\* next project, to the second pass, or ends.
Return(w, result) ==
    LET rest == todo[w] \ {at[w]} IN
    /\ mu' = None
    /\ ttlRead' = Never
    /\ at' = [at EXCEPT ![w] = None]
    /\ answer' = [answer EXCEPT ![w] = result]
    /\ spent' = [spent EXCEPT ![w] = 0]
    /\ rolesAt' = [rolesAt EXCEPT ![w] = 0]
    /\ CASE rest # {} ->
              /\ todo' = [todo EXCEPT ![w] = rest]
              /\ pc' = [pc EXCEPT ![w] = "lock"]
              /\ UNCHANGED <<pass, plan, elapsed, warm>>
         [] rest = {} /\ pass[w] = "desired" ->
              /\ pass' = [pass EXCEPT ![w] = "claims"]
              /\ todo' = [todo EXCEPT ![w] = plan[w]]
              /\ pc' = [pc EXCEPT ![w] = "lock"]
              /\ UNCHANGED <<plan, elapsed, warm>>
         [] OTHER ->
              /\ todo' = [todo EXCEPT ![w] = {}]
              /\ plan' = [plan EXCEPT ![w] = {}]
              /\ pass' = [pass EXCEPT ![w] = "desired"]
              /\ elapsed' = [elapsed EXCEPT ![w] = 0]
              /\ warm' = [warm EXCEPT ![w] = FALSE]
              /\ pc' = [pc EXCEPT ![w] = "idle"]

\* A lookup waits for Zitadel, with the TTL it read.
Call(w, what, limit) ==
    /\ ttlRead' = limit
    /\ pc' = [pc EXCEPT ![w] = what]
    /\ spent' = [spent EXCEPT ![w] = 0]
    /\ UNCHANGED <<mu, pass, plan, todo, at, rolesAt, answer, elapsed, warm>>

\* The second half of Project, from what is granted: a granted project is
\* answered from the map, any other is taken for an owned one.
LookUp(w, projects, limit) ==
    IF at[w] \notin projects /\ Stale(owned[at[w]], limit)
    THEN Call(w, "roles", limit)
    ELSE Return(w, "info")

\* Project up to its first call, or to its end.
Check(w) ==
    /\ pc[w] = "check"
    /\ IF Stale(granted, ttl)
       THEN Call(w, "granted", ttl)
       ELSE LookUp(w, granted.projects, ttl)
    /\ UNCHANGED <<ttl, cache>>

\* fetchGranted answers: the map is replaced ...
GrantedAnswer(w) ==
    /\ pc[w] = "granted"
    /\ \E ps \in SUBSET Projects :
          /\ granted' = [projects |-> ps, age |-> 0, failed |-> Never, data |-> spent[w]]
          /\ LookUp(w, ps, ttlRead)
    /\ UNCHANGED <<ttl, owned>>

\* Mutant: the failure is not remembered.
GrantedFailure_Mutant(w) ==
    /\ pc[w] = "granted"
    /\ IF Cached(granted) THEN LookUp(w, granted.projects, ttlRead) ELSE Return(w, "error")
    /\ UNCHANGED <<ttl, cache>>

\* ... or fails, in time or by its timeout: the old map is used if there is
\* one, else the lookup fails.
GrantedFailure(w) ==
    /\ pc[w] = "granted"
    /\ granted' = [granted EXCEPT !.failed = 0]
    /\ IF Cached(granted) THEN LookUp(w, granted.projects, ttlRead) ELSE Return(w, "error")
    /\ UNCHANGED <<ttl, owned>>

\* fetchOwnedRoles answers; fetchedAt is taken before the name is fetched.
RolesAnswer(w) ==
    /\ pc[w] = "roles"
    /\ rolesAt' = [rolesAt EXCEPT ![w] = spent[w]]
    /\ spent' = [spent EXCEPT ![w] = 0]
    /\ pc' = [pc EXCEPT ![w] = "name"]
    /\ UNCHANGED <<ttl, ttlRead, mu, cache, pass, plan, todo, at, answer, elapsed, warm>>

\* Mutant: what is cached is not used when its refresh fails.
RolesFailure_Mutant(w) ==
    /\ pc[w] = "roles"
    /\ owned' = [owned EXCEPT ![at[w]].failed = 0]
    /\ Return(w, "error")
    /\ UNCHANGED <<ttl, granted>>

\* fetchOwnedRoles fails: without an entry nothing is remembered.
RolesFailure(w) ==
    LET p == at[w] IN
    /\ pc[w] = "roles"
    /\ IF Cached(owned[p])
       THEN /\ owned' = [owned EXCEPT ![p].failed = 0]
            /\ Return(w, "info")
       ELSE /\ UNCHANGED owned
            /\ Return(w, "error")
    /\ UNCHANGED <<ttl, granted>>

\* fetchOwnedName answers, or fails, which is all the same: a new entry
\* replaces the old one, with the name or an empty one.
NameAnswer(w) ==
    /\ pc[w] = "name"
    /\ owned' = [owned EXCEPT ![at[w]] =
                    [age |-> spent[w], failed |-> Never, data |-> rolesAt[w]]]
    /\ Return(w, "info")
    /\ UNCHANGED <<ttl, granted>>

\* An entry one unit later.
Aged(entry) == [entry EXCEPT !.age = Older(@), !.failed = Older(@), !.data = Older(@)]

Calling(w) == pc[w] \in {"granted", "roles", "name"}

\* Mutant: a call has no timeout of its own.
Tick_Mutant ==
    /\ \A w \in Callers : pc[w] = "idle" \/ Calling(w) \/ (pc[w] = "lock" /\ mu # None)
    /\ granted' = Aged(granted)
    /\ owned' = [p \in Projects |-> Aged(owned[p])]
    /\ spent' = [w \in Callers |-> IF Calling(w) THEN spent[w] + 1 ELSE spent[w]]
    /\ rolesAt' = [w \in Callers |-> IF pc[w] = "name" THEN Older(rolesAt[w]) ELSE rolesAt[w]]
    /\ elapsed' = [w \in Callers |-> IF pc[w] = "idle" THEN 0 ELSE Older(elapsed[w])]
    /\ UNCHANGED <<ttl, ttlRead, mu, pc, pass, plan, todo, at, answer, warm>>

\* Time passes only while nobody can compute, and no call outlives its timeout.
Tick ==
    /\ \A w \in Callers : \/ pc[w] = "idle"
                          \/ Calling(w) /\ spent[w] < RefreshTimeout
                          \/ pc[w] = "lock" /\ mu # None
    /\ granted' = Aged(granted)
    /\ owned' = [p \in Projects |-> Aged(owned[p])]
    /\ spent' = [w \in Callers |-> IF Calling(w) THEN spent[w] + 1 ELSE spent[w]]
    /\ rolesAt' = [w \in Callers |-> IF pc[w] = "name" THEN Older(rolesAt[w]) ELSE rolesAt[w]]
    /\ elapsed' = [w \in Callers |-> IF pc[w] = "idle" THEN 0 ELSE Older(elapsed[w])]
    /\ UNCHANGED <<ttl, ttlRead, mu, pc, pass, plan, todo, at, answer, warm>>

\* A reload changes roleCacheTTL.
Reload ==
    /\ ttl' \in TTLs \ {ttl}
    /\ UNCHANGED <<ttlRead, mu, cache, caller>>

Step(w) ==
    \/ Begin(w)
    \/ Lock(w)
    \/ Check(w)
    \/ GrantedAnswer(w)
    \/ GrantedFailure(w)
    \/ RolesAnswer(w)
    \/ RolesFailure(w)
    \/ NameAnswer(w)

Next == (\E w \in Callers : Step(w)) \/ Tick \/ Reload

Spec == Init /\ [][Next]_vars

(***************************************************************************)
(* Properties.                                                             *)
(***************************************************************************)

\* The step in which a lookup of w returns this.
Returns(w, result) == mu = w /\ mu' # w /\ answer'[w] = result

\* Contents older than the TTL and one call are served only in the back-off
\* after a failed refresh, by the granted half and the owned half alike,
\* however long calls take and whoever made them.
Excused(entry) ==
    LET limit == IF ttlRead = Never THEN ttl ELSE ttlRead IN
    entry.data > limit + RefreshTimeout => InFailureBackoff(entry)

OldOnlyAfterFailure ==
    [][\A w \in Callers : Returns(w, "info") =>
          LET p == at[w] IN
          IF p \in granted'.projects THEN Excused(granted') ELSE Excused(owned'[p])]_vars

\* A lookup fails only if there is nothing to serve: no list of granted
\* projects at all, or a project neither granted nor ever seen as owned.
StaleRatherThanError ==
    [][\A w \in Callers : Returns(w, "error") =>
          \/ ~Cached(granted')
          \/ at[w] \notin granted'.projects /\ ~Cached(owned'[at[w]])]_vars

\* A dead connection costs a request that finds everything cached no more than
\* one timeout for the list and one per project: it waits neither for other
\* requests' timeouts again, nor in its second pass for those of its first.
AnsweredInTime == \A w \in Callers : warm[w] => elapsed[w] <= HookTimeout
=============================================================================
