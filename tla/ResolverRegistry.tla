-------------------------- MODULE ResolverRegistry --------------------------
(***************************************************************************)
(* pkg/resolver: one OrgResolver per organisation, built from the          *)
(* organisation's configuration and rebuilt when that changes.  An         *)
(* OrgResolver is a semaphore that turns requests away when it is full,    *)
(* around a circuit breaker, around an HTTP call with a timeout.           *)
(*                                                                         *)
(* Workers are the goroutines that resolve: a login resolves one user, a   *)
(* batch run takes an OrgResolver once and resolves one user after the     *)
(* other with it (reconcile.go:286).  A worker may carry a configuration   *)
(* it read before a reload, and an OrgResolver that was replaced since.    *)
(*                                                                         *)
(* The breaker is sony/gobreaker, an external library, as registry.go      *)
(* configures it: no rolling interval, every error is a failure.  Its      *)
(* counters are kept where they are read: failures in a row while closed,  *)
(* requests admitted and successes in a row while half-open.               *)
(***************************************************************************)
EXTENDS Integers, FiniteSets

CONSTANTS
    Orgs,        \* organisations with a resolver
    Logins,      \* goroutines of webhook requests
    Batches,     \* goroutines of batch runs
    Blocks,      \* resolver blocks that documents may hold
    Resolvers,   \* identities of OrgResolver objects; unreferenced ones are reused
    None,        \* no organisation, no configuration, no object
    Initially,   \* the configuration of every organisation at the start
    MaxUsers,    \* bound: users one batch run resolves
    MaxFailures, \* bound: calls that fail, of each organisation
    MaxReloads   \* bound: configuration changes

Workers == Logins \cup Batches

States == {"closed", "open", "halfOpen"}

\* mapper.ResolverConfig, as far as it matters here.
ResolverConfig == [url: STRING, maxConcurrency: Int, failureThreshold: Nat, halfOpenProbes: Nat]

\* validate refuses a block with a negative maxConcurrency.
Valid(block) == block.maxConcurrency >= 0

Default(value, default) == IF value = 0 THEN default ELSE value

\* normalize gives what a block leaves out its default.
Normalize(block) ==
    [block EXCEPT !.maxConcurrency = Default(block.maxConcurrency, 8),
                  !.failureThreshold = Default(block.failureThreshold, 5),
                  !.halfOpenProbes = Default(block.halfOpenProbes, 1)]

Configs == {Normalize(block) : block \in {b \in Blocks : Valid(b)}}

ASSUME ConfigAssumption ==
    /\ Blocks \subseteq ResolverConfig
    /\ Initially \in [Orgs -> Configs]
    /\ None \notin Configs /\ None \notin Orgs /\ None \notin Resolvers

ASSUME WorkerAssumption == IsFiniteSet(Workers)

ASSUME BoundAssumption == MaxUsers \in Nat \ {0} /\ MaxFailures \in [Orgs -> Nat] /\ MaxReloads \in Nat

VARIABLES
    config,    \* the document's resolver block of each organisation
    current,   \* Registry.entries: the OrgResolver of each organisation
    entry,     \* the organisation and configuration an OrgResolver was built for
    slots,     \* len(OrgResolver.sem)
    breaker,   \* OrgResolver.breaker
    gauge,     \* the metric CircuitState of each organisation
    pc, org, seen, held, generation, left, \* of each worker
    failed, reloads                        \* what was used of the bounds

registry == <<config, current, entry, gauge, reloads>>
workers == <<pc, org, seen, held, generation, left>>
vars == <<registry, slots, breaker, workers, failed>>

Breaker == [state: States, expired: BOOLEAN, generation: Nat,
            failures: Nat, admitted: Nat, succeeded: Nat]

PCs == {"idle", "for", "acquire", "admit", "call", "release"}

TypeOK ==
    /\ config \in [Orgs -> Configs]
    /\ current \in [Orgs -> Resolvers \cup {None}]
    /\ entry \in [Resolvers -> [org: Orgs, cfg: Configs] \cup {None}]
    /\ slots \in [Resolvers -> Nat]
    /\ breaker \in [Resolvers -> Breaker]
    /\ gauge \in [Orgs -> States]
    /\ pc \in [Workers -> PCs]
    /\ org \in [Workers -> Orgs \cup {None}]
    /\ seen \in [Workers -> Configs \cup {None}]
    /\ held \in [Workers -> Resolvers \cup {None}]
    /\ generation \in [Workers -> Nat]
    /\ left \in [Workers -> 0 .. MaxUsers]
    /\ failed \in [Orgs -> Nat]
    /\ \A o \in Orgs : failed[o] \in 0 .. MaxFailures[o]
    /\ reloads \in 0 .. MaxReloads

-----------------------------------------------------------------------------
(***************************************************************************)
(* gobreaker.                                                              *)
(***************************************************************************)

\* setState and toNewGeneration: the counters start anew.
Enter(state, b) == [state |-> state, expired |-> FALSE, generation |-> b.generation + 1,
                    failures |-> 0, admitted |-> 0, succeeded |-> 0]

NewBreaker == [state |-> "closed", expired |-> FALSE, generation |-> 0,
               failures |-> 0, admitted |-> 0, succeeded |-> 0]

\* currentState: an open circuit is found half-open once its time is over.
CurrentState(b) == IF b.state = "open" /\ b.expired THEN Enter("halfOpen", b) ELSE b

\* beforeRequest: ErrOpenState, ErrTooManyRequests, or the request is counted.
Admits(b, cfg) ==
    \/ b.state = "closed"
    \/ b.state = "halfOpen" /\ b.admitted < cfg.halfOpenProbes

Counted(b) == IF b.state = "halfOpen" THEN [b EXCEPT !.admitted = @ + 1] ELSE b

\* ReadyToTrip of newOrgResolver.
ReadyToTrip(failures, cfg) == failures >= cfg.failureThreshold

\* Mutant: more successes are waited for than probes are admitted.
OnSuccess_Mutant(b, cfg) ==
    CASE b.state = "closed" -> [b EXCEPT !.failures = 0]
      [] b.state = "halfOpen" ->
            IF b.succeeded >= cfg.halfOpenProbes
            THEN Enter("closed", b)
            ELSE [b EXCEPT !.succeeded = @ + 1]
      [] OTHER -> b

OnSuccess(b, cfg) ==
    CASE b.state = "closed" -> [b EXCEPT !.failures = 0]
      [] b.state = "halfOpen" ->
            IF b.succeeded + 1 >= cfg.halfOpenProbes
            THEN Enter("closed", b)
            ELSE [b EXCEPT !.succeeded = @ + 1]
      [] OTHER -> b

OnFailure(b, cfg) ==
    CASE b.state = "closed" ->
            IF ReadyToTrip(b.failures + 1, cfg)
            THEN Enter("open", b)
            ELSE [b EXCEPT !.failures = @ + 1]
      [] b.state = "halfOpen" -> Enter("open", b)
      [] OTHER -> b

\* Mutant: a late outcome counts in whatever state the circuit is by now.
AfterRequest_Mutant(b, gen, ok, cfg) == IF ok THEN OnSuccess(b, cfg) ELSE OnFailure(b, cfg)

\* afterRequest: the outcome of a call of an earlier generation is dropped.
AfterRequest(b, gen, ok, cfg) ==
    IF b.generation # gen THEN b
    ELSE IF ok THEN OnSuccess(b, cfg) ELSE OnFailure(b, cfg)

\* Mutant: only openings are mirrored.
Mirror_Mutant(r, after) ==
    gauge' = IF after.state = "open" THEN [gauge EXCEPT ![entry[r].org] = "open"] ELSE gauge

\* OnStateChange sets the gauge whenever setState changes the state.
Mirror(r, after) ==
    gauge' = IF after.state # breaker[r].state
             THEN [gauge EXCEPT ![entry[r].org] = after.state]
             ELSE gauge

-----------------------------------------------------------------------------
Init ==
    /\ config = Initially
    /\ current = [o \in Orgs |-> None]
    /\ entry = [r \in Resolvers |-> None]
    /\ slots = [r \in Resolvers |-> 0]
    /\ breaker = [r \in Resolvers |-> NewBreaker]
    /\ gauge = [o \in Orgs |-> "closed"]
    /\ pc = [w \in Workers |-> "idle"]
    /\ org = [w \in Workers |-> None]
    /\ seen = [w \in Workers |-> None]
    /\ held = [w \in Workers |-> None]
    /\ generation = [w \in Workers |-> 0]
    /\ left = [w \in Workers |-> 0]
    /\ failed = [o \in Orgs |-> 0]
    /\ reloads = 0

\* A login (one user) or one organisation's part of a batch run begins: it
\* reads the organisation's configuration.
Start(w) ==
    /\ pc[w] = "idle"
    /\ \E o \in Orgs, n \in 1 .. (IF w \in Batches THEN MaxUsers ELSE 1) :
          /\ org' = [org EXCEPT ![w] = o]
          /\ seen' = [seen EXCEPT ![w] = config[o]]
          /\ left' = [left EXCEPT ![w] = n]
    /\ pc' = [pc EXCEPT ![w] = "for"]
    /\ UNCHANGED <<registry, slots, breaker, held, generation, failed>>

Referenced == {current[o] : o \in Orgs} \cup {held[w] : w \in Workers}

\* An OrgResolver nobody refers to after a step is garbage, its state is gone.
Collected(f, gone) == [r \in Resolvers |-> IF r \in Referenced' THEN f[r] ELSE gone]

\* Mutant: entries are shared by organisations with equal configurations.
Reuse_Mutant(w) ==
    /\ pc[w] = "for"
    /\ \E o \in Orgs : /\ current[o] # None
                      /\ entry[current[o]].cfg = seen[w]
                      /\ held' = [held EXCEPT ![w] = current[o]]
    /\ seen' = [seen EXCEPT ![w] = None]
    /\ pc' = [pc EXCEPT ![w] = "acquire"]
    /\ UNCHANGED <<registry, slots, breaker, org, generation, left, failed>>

\* For, first return: the entry was built from an equal configuration.
Reuse(w) ==
    LET r == current[org[w]] IN
    /\ pc[w] = "for"
    /\ r # None
    /\ entry[r].cfg = seen[w]
    /\ held' = [held EXCEPT ![w] = r]
    /\ seen' = [seen EXCEPT ![w] = None]
    /\ pc' = [pc EXCEPT ![w] = "acquire"]
    /\ UNCHANGED <<registry, slots, breaker, org, generation, left, failed>>

\* For, otherwise: newOrgResolver, with an empty semaphore, a closed breaker
\* and the gauge set to closed, takes the entry's place.
Rebuild(w) ==
    LET o == org[w]
        r == CHOOSE x \in Resolvers : x \notin Referenced IN
    /\ pc[w] = "for"
    /\ current[o] # None => entry[current[o]].cfg # seen[w]
    /\ Resolvers \ Referenced # {}
    /\ current' = [current EXCEPT ![o] = r]
    /\ held' = [held EXCEPT ![w] = r]
    /\ entry' = Collected([entry EXCEPT ![r] = [org |-> o, cfg |-> seen[w]]], None)
    /\ slots' = Collected([slots EXCEPT ![r] = 0], 0)
    /\ breaker' = Collected([breaker EXCEPT ![r] = NewBreaker], NewBreaker)
    /\ gauge' = [gauge EXCEPT ![o] = "closed"]
    /\ seen' = [seen EXCEPT ![w] = None]
    /\ pc' = [pc EXCEPT ![w] = "acquire"]
    /\ UNCHANGED <<config, reloads, org, generation, left, failed>>

\* The rest of a worker once ResolveUser returned: a batch run goes on with
\* its next user and the same OrgResolver, else the worker is done.
NextUser(w) ==
    IF left[w] > 1
    THEN /\ pc' = [pc EXCEPT ![w] = "acquire"]
         /\ left' = [left EXCEPT ![w] = @ - 1]
         /\ UNCHANGED <<org, held>>
    ELSE /\ pc' = [pc EXCEPT ![w] = "idle"]
         /\ left' = [left EXCEPT ![w] = 0]
         /\ org' = [org EXCEPT ![w] = None]
         /\ held' = [held EXCEPT ![w] = None]

\* ResolveUser, select: a slot is taken if there is one ...
Acquire(w) ==
    LET r == held[w] IN
    /\ pc[w] = "acquire"
    /\ slots[r] < entry[r].cfg.maxConcurrency
    /\ slots' = [slots EXCEPT ![r] = @ + 1]
    /\ pc' = [pc EXCEPT ![w] = "admit"]
    /\ UNCHANGED <<registry, breaker, org, seen, held, generation, left, failed>>

\* Mutant: the slot is given back although none was taken.
Reject_Mutant(w) ==
    LET r == held[w] IN
    /\ pc[w] = "acquire"
    /\ slots[r] >= entry[r].cfg.maxConcurrency
    /\ NextUser(w)
    /\ UNCHANGED <<config, current, gauge, reloads, seen, generation, failed>>
    /\ entry' = Collected(entry, None)
    /\ slots' = Collected([slots EXCEPT ![r] = @ - 1], 0)
    /\ breaker' = Collected(breaker, NewBreaker)

\* ... and ErrBulkheadSaturated is returned at once if there is none.
Reject(w) ==
    LET r == held[w] IN
    /\ pc[w] = "acquire"
    /\ slots[r] >= entry[r].cfg.maxConcurrency
    /\ NextUser(w)
    /\ UNCHANGED <<config, current, gauge, reloads, seen, generation, failed>>
    /\ entry' = Collected(entry, None)
    /\ slots' = Collected(slots, 0)
    /\ breaker' = Collected(breaker, NewBreaker)

\* Execute, beforeRequest: the call is let through ...
Admit(w) ==
    LET r == held[w]
        b == CurrentState(breaker[r]) IN
    /\ pc[w] = "admit"
    /\ Admits(b, entry[r].cfg)
    /\ breaker' = [breaker EXCEPT ![r] = Counted(b)]
    /\ Mirror(r, b)
    /\ generation' = [generation EXCEPT ![w] = b.generation]
    /\ pc' = [pc EXCEPT ![w] = "call"]
    /\ UNCHANGED <<config, current, entry, reloads, slots,
                   org, seen, held, left, failed>>

\* Mutant: a short-circuited request returns without giving its slot back.
ShortCircuit_Mutant(w) ==
    LET r == held[w]
        b == CurrentState(breaker[r]) IN
    /\ pc[w] = "admit"
    /\ ~Admits(b, entry[r].cfg)
    /\ NextUser(w)
    /\ UNCHANGED <<registry, slots, breaker, seen, generation, failed>>

\* ... or ErrOpenState or ErrTooManyRequests is returned.
ShortCircuit(w) ==
    LET r == held[w]
        b == CurrentState(breaker[r]) IN
    /\ pc[w] = "admit"
    /\ ~Admits(b, entry[r].cfg)
    /\ breaker' = [breaker EXCEPT ![r] = b]
    /\ Mirror(r, b)
    /\ pc' = [pc EXCEPT ![w] = "release"]
    /\ UNCHANGED <<config, current, entry, reloads, slots,
                   org, seen, held, generation, left, failed>>

\* The HTTP call ends, by an answer or an error (time-outs, statuses other
\* than 200, undecodable bodies and cancelled callers are errors alike), and
\* Execute tells the breaker.
Return(w, ok) ==
    LET r == held[w]
        b == AfterRequest(CurrentState(breaker[r]), generation[w], ok, entry[r].cfg) IN
    /\ pc[w] = "call"
    /\ ok \/ failed[org[w]] < MaxFailures[org[w]]
    /\ failed' = IF ok THEN failed ELSE [failed EXCEPT ![org[w]] = @ + 1]
    /\ breaker' = [breaker EXCEPT ![r] = b]
    /\ Mirror(r, b)
    /\ generation' = [generation EXCEPT ![w] = 0]
    /\ pc' = [pc EXCEPT ![w] = "release"]
    /\ UNCHANGED <<config, current, entry, reloads, slots, org, seen, held, left>>

\* The deferred receive gives the slot back.
Release(w) ==
    LET r == held[w] IN
    /\ pc[w] = "release"
    /\ NextUser(w)
    /\ UNCHANGED <<config, current, gauge, reloads, seen, generation, failed>>
    /\ entry' = Collected(entry, None)
    /\ slots' = Collected([slots EXCEPT ![r] = @ - 1], 0)
    /\ breaker' = Collected(breaker, NewBreaker)

\* Time passes: openDuration is over for an open circuit.
Expire(r) ==
    /\ breaker[r].state = "open"
    /\ ~breaker[r].expired
    /\ breaker' = [breaker EXCEPT ![r].expired = TRUE]
    /\ UNCHANGED <<registry, slots, workers, failed>>

\* A reload changes an organisation's resolver block.
Reload(o) ==
    /\ reloads < MaxReloads
    /\ reloads' = reloads + 1
    /\ \E c \in Configs \ {config[o]} : config' = [config EXCEPT ![o] = c]
    /\ UNCHANGED <<current, entry, gauge, slots, breaker, workers, failed>>

Proceed(w) ==
    \/ Reuse(w)
    \/ Rebuild(w)
    \/ Acquire(w)
    \/ Reject(w)
    \/ Admit(w)
    \/ ShortCircuit(w)
    \/ \E ok \in BOOLEAN : Return(w, ok)
    \/ Release(w)

Next ==
    \/ \E w \in Workers : Start(w) \/ Proceed(w)
    \/ \E r \in Resolvers : Expire(r)
    \/ \E o \in Orgs : Reload(o)

\* Goroutines go on, since the HTTP call has a timeout, and time passes.
\* Nobody need come, nothing need fail or be reloaded.
Fairness ==
    /\ \A w \in Workers : WF_vars(Proceed(w))
    /\ \A r \in Resolvers : WF_vars(Expire(r))

\* How many workers hold a slot of r.
Occupies(w, r) == held[w] = r /\ pc[w] \in {"admit", "call", "release"}

\* The calls in flight that r's breaker still counts.
Counting(w, r) == held[w] = r /\ pc[w] = "call" /\ generation[w] = breaker[r].generation

(***************************************************************************)
(* Properties.                                                             *)
(***************************************************************************)

\* No slot of a bulkhead is leaked or given back twice, on any path out of
\* ResolveUser, so that never more requests than maxConcurrency are inside
\* one OrgResolver and a full one is full of requests that will end.
SlotsAccounted ==
    \A r \in Resolvers : r \in Referenced =>
        /\ slots[r] = Cardinality({w \in Workers : Occupies(w, r)})
        /\ slots[r] <= entry[r].cfg.maxConcurrency

\* Every probe a half-open circuit admitted is in flight or has succeeded,
\* and some are still missing: it neither forgets a probe nor waits for one
\* that will not come, although calls of earlier generations still return.
ProbesAccounted ==
    \A r \in Resolvers : (r \in Referenced /\ breaker[r].state = "halfOpen") =>
        /\ breaker[r].admitted =
               breaker[r].succeeded + Cardinality({w \in Workers : Counting(w, r)})
        /\ breaker[r].admitted <= entry[r].cfg.halfOpenProbes
        /\ breaker[r].succeeded < entry[r].cfg.halfOpenProbes

\* Isolation: a request meets a circuit that is not closed only if calls to its
\* own organisation's directory failed as often as the configuration says,
\* whatever other organisations' directories do.
OpenedByOwnFailures ==
    \A w \in Workers : held[w] # None =>
        LET r == held[w] IN
        breaker[r].state # "closed" => failed[org[w]] >= entry[r].cfg.failureThreshold

\* The gauge an operator watches shows the circuit the next request meets, as
\* long as the organisation's OrgResolver has not been replaced.  (Afterwards
\* the replaced one, still in use, goes on writing the same gauge.)
GaugeShowsCircuit ==
    reloads = 0 => \A o \in Orgs : current[o] # None => gauge[o] = breaker[current[o]].state

\* An organisation whose directory has recovered and is asked again and again
\* gets its circuit closed for good, whatever late answers of earlier
\* generations and replaced OrgResolvers do.
CircuitRecovers ==
    \A o \in Orgs :
        []<>(\E w \in Workers : org[w] = o /\ held[w] = current[o] /\ pc[w] = "admit")
        => <>[](current[o] # None /\ breaker[current[o]].state = "closed")

Spec == Init /\ [][Next]_vars

FairSpec == Spec /\ Fairness

\* The gate of an organisation to its directory: the OrgResolver the next
\* request gets, and the calls whose outcome its breaker still waits for.
Gate(o) ==
    LET r == current[o]
        b == breaker[r] IN
    IF r = None
    THEN [limits |-> None, inside |-> 0, state |-> "closed", cooled |-> FALSE,
          count |-> 0, asked |-> 0]
    ELSE [limits |-> entry[r].cfg, inside |-> slots[r], state |-> b.state, cooled |-> b.expired,
          count |-> IF b.state = "halfOpen" THEN b.succeeded ELSE b.failures,
          asked |-> IF b.state = "open" THEN 0 ELSE Cardinality({w \in Workers : Counting(w, r)})]

Gates == [o \in Orgs |-> Gate(o)]

Promise == INSTANCE Isolation WITH gate <- Gates

\* Every organisation has a bulkhead and a circuit of its own that do what
\* Isolation promises, although late answers of earlier generations and
\* replaced OrgResolvers still in use act on the same objects.  Isolation is
\* docs/architecture/isolation.md but for the number of successes that close a
\* half-open circuit: one there, halfOpenProbes of them in the code and here.
GatesAsPromised == Promise!Spec
=============================================================================
