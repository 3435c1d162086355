----------------------- MODULE ResolverRegistryProofs -----------------------
(***************************************************************************)
(* Proofs about ResolverRegistry, for any organisations, configurations,   *)
(* number of workers and bounds.  The invariant relates every OrgResolver  *)
(* in use to the workers inside it: its semaphore counts them, and its     *)
(* breaker, when half-open, those of the present generation.               *)
(***************************************************************************)
EXTENDS ResolverRegistry, FiniteSetTheorems, TLAPS

-----------------------------------------------------------------------------
(* The inductive invariant.                                                *)

Entry == [org: Orgs, cfg: Configs]

Occupants(r) == {w \in Workers : Occupies(w, r)}

Counters(r) == {w \in Workers : Counting(w, r)}

\* What a worker holds on to, stage by stage.
WorkerInv(w) ==
    /\ pc[w] \in {"idle", "for"} => held[w] = None
    /\ pc[w] = "for" => org[w] \in Orgs /\ seen[w] \in Configs
    /\ pc[w] \notin {"idle", "for"} =>
          /\ held[w] \in Resolvers /\ org[w] \in Orgs
          /\ entry[held[w]] \in Entry /\ entry[held[w]].org = org[w]
    /\ pc[w] = "call" => generation[w] <= breaker[held[w]].generation

\* The state of one OrgResolver e in use, of which s slots are taken, by the
\* workers occ, whose breaker b counts the calls of the workers cnt, and f calls
\* to whose organisation's directory have failed.
Sound(e, s, b, occ, cnt, f) ==
    /\ e \in Entry
    /\ s = Cardinality(occ)
    /\ s <= e.cfg.maxConcurrency
    /\ b.state = "halfOpen" =>
          /\ b.admitted = b.succeeded + Cardinality(cnt)
          /\ b.admitted <= e.cfg.halfOpenProbes
          /\ b.succeeded < e.cfg.halfOpenProbes
    /\ IF b.state = "closed" THEN b.failures <= f ELSE f >= e.cfg.failureThreshold

ResolverInv(r) ==
    Sound(entry[r], slots[r], breaker[r], Occupants(r), Counters(r), failed[entry[r].org])

CurrentInv ==
    \A o \in Orgs : current[o] # None => entry[current[o]] \in Entry /\ entry[current[o]].org = o

IInv ==
    /\ TypeOK
    /\ \A w \in Workers : WorkerInv(w)
    /\ CurrentInv
    /\ \A r \in Resolvers : r \in Referenced => ResolverInv(r)

-----------------------------------------------------------------------------
(* gobreaker.                                                              *)

LEMMA ConfigFields ==
    ASSUME NEW cfg \in Configs
    PROVE  /\ cfg.maxConcurrency \in Nat /\ cfg.maxConcurrency > 0
           /\ cfg.failureThreshold \in Nat /\ cfg.failureThreshold > 0
           /\ cfg.halfOpenProbes \in Nat /\ cfg.halfOpenProbes > 0
<1>1. PICK block \in Blocks : Valid(block) /\ cfg = Normalize(block)
  BY DEF Configs
<1>2. block \in ResolverConfig
  BY ConfigAssumption
<1> QED
  BY <1>1, <1>2 DEF ResolverConfig, Valid, Normalize, Default

LEMMA EnterTyped ==
    ASSUME NEW b \in Breaker, NEW state \in States
    PROVE  Enter(state, b) \in Breaker
  BY DEF Breaker, Enter

LEMMA CurrentStateTyped ==
    ASSUME NEW b \in Breaker
    PROVE  CurrentState(b) \in Breaker /\ Counted(b) \in Breaker
<1>1. CurrentState(b) \in Breaker
  BY EnterTyped DEF CurrentState, States
<1>2. Counted(b) \in Breaker
  BY DEF Counted, Breaker
<1> QED
  BY <1>1, <1>2

LEMMA AfterRequestTyped ==
    ASSUME NEW b \in Breaker, NEW cfg \in Configs, NEW gen, NEW ok \in BOOLEAN
    PROVE  AfterRequest(b, gen, ok, cfg) \in Breaker
<1>1. OnSuccess(b, cfg) \in Breaker
  <2>1. [b EXCEPT !.failures = 0] \in Breaker /\ [b EXCEPT !.succeeded = @ + 1] \in Breaker
    BY DEF Breaker
  <2> QED
    BY <2>1, EnterTyped DEF OnSuccess, States, Breaker
<1>2. OnFailure(b, cfg) \in Breaker
  <2>1. [b EXCEPT !.failures = @ + 1] \in Breaker
    BY DEF Breaker
  <2> QED
    BY <2>1, EnterTyped DEF OnFailure, States, Breaker
<1> QED
  BY <1>1, <1>2 DEF AfterRequest

\* A new generation is of no call that is in flight.
LEMMA CurrentStateSteps ==
    ASSUME NEW b \in Breaker
    PROVE  LET c == CurrentState(b) IN
           \/ c = b
           \/ /\ b.state = "open" /\ c.state = "halfOpen" /\ c.generation = b.generation + 1
              /\ c.admitted = 0 /\ c.succeeded = 0
  BY DEF Breaker, CurrentState, Enter

\* What a call's end does to the breaker.
LEMMA AfterRequestSteps ==
    ASSUME NEW b \in Breaker, NEW cfg \in Configs, NEW gen \in Nat, NEW ok \in BOOLEAN
    PROVE  LET a == AfterRequest(b, gen, ok, cfg) IN
           \/ a = b /\ (b.generation = gen => b.state = "open" \/ (b.state = "closed" /\ ok))
           \/ /\ b.generation = gen /\ a.generation = b.generation + 1
              /\ \/ b.state = "closed" /\ ~ok /\ a.state = "open"
                       /\ b.failures + 1 >= cfg.failureThreshold
                 \/ b.state = "halfOpen" /\ ~ok /\ a.state = "open"
                 \/ b.state = "halfOpen" /\ ok /\ a.state = "closed" /\ a.failures = 0
           \/ /\ b.generation = gen /\ a.generation = b.generation /\ a.state = b.state
              /\ \/ b.state = "closed" /\ a.failures = (IF ok THEN 0 ELSE b.failures + 1)
                 \/ b.state = "halfOpen" /\ ok /\ a.admitted = b.admitted
                       /\ a.succeeded = b.succeeded + 1 /\ a.succeeded < cfg.halfOpenProbes
<1> USE ConfigFields
<1>1. CASE b.generation # gen
  BY <1>1 DEF AfterRequest
<1>2. CASE b.generation = gen /\ ok
  BY <1>2 DEF AfterRequest, OnSuccess, Enter, Breaker, States
<1>3. CASE b.generation = gen /\ ~ok
  BY <1>3 DEF AfterRequest, OnFailure, ReadyToTrip, Enter, Breaker, States
<1> QED
  BY <1>1, <1>2, <1>3

-----------------------------------------------------------------------------
(* Who occupies and who counts, when one worker w moves.                   *)

OthersStay(w) ==
    \A v \in Workers \ {w} :
        /\ pc'[v] = pc[v] /\ org'[v] = org[v] /\ seen'[v] = seen[v]
        /\ held'[v] = held[v] /\ generation'[v] = generation[v]

LEMMA FiniteSubsets ==
    ASSUME NEW S \in SUBSET Workers
    PROVE  IsFiniteSet(S) /\ Cardinality(S) \in Nat
  BY WorkerAssumption, FS_Subset, FS_CardinalityType

LEMMA CardinalityWith ==
    ASSUME NEW S \in SUBSET Workers, NEW w \in Workers, w \notin S
    PROVE  Cardinality(S \cup {w}) = Cardinality(S) + 1
  BY FiniteSubsets, FS_AddElement

LEMMA CardinalityWithout ==
    ASSUME NEW S \in SUBSET Workers, NEW w \in S
    PROVE  Cardinality(S \ {w}) = Cardinality(S) - 1 /\ Cardinality(S) > 0
<1>1. Cardinality(S \ {w}) = Cardinality(S) - 1
  BY FiniteSubsets, FS_RemoveElement
<1>2. S \ {w} \in SUBSET Workers
  OBVIOUS
<1>3. Cardinality(S \ {w}) \in Nat /\ Cardinality(S) \in Nat
  BY <1>2, FiniteSubsets
<1> QED
  BY <1>1, <1>3

LEMMA OccupantsMove ==
    ASSUME NEW w \in Workers, OthersStay(w), NEW r
    PROVE  /\ (Occupies(w, r)' <=> Occupies(w, r)) => Occupants(r)' = Occupants(r)
           /\ Occupies(w, r)' /\ ~Occupies(w, r) => Occupants(r)' = Occupants(r) \cup {w}
           /\ ~Occupies(w, r)' /\ Occupies(w, r) => Occupants(r)' = Occupants(r) \ {w}
<1>1. \A v \in Workers \ {w} : v \in Occupants(r)' <=> v \in Occupants(r)
  BY DEF Occupants, Occupies, OthersStay
<1>2. /\ w \in Occupants(r)' <=> Occupies(w, r)'
      /\ w \in Occupants(r) <=> Occupies(w, r)
  BY DEF Occupants
<1>3. Occupants(r) \subseteq Workers /\ Occupants(r)' \subseteq Workers
  BY DEF Occupants
<1> HIDE DEF Occupants
<1> QED
  BY <1>1, <1>2, <1>3

LEMMA CountersMove ==
    ASSUME NEW w \in Workers, OthersStay(w), NEW r,
           breaker'[r].generation = breaker[r].generation
    PROVE  /\ (Counting(w, r)' <=> Counting(w, r)) => Counters(r)' = Counters(r)
           /\ Counting(w, r)' /\ ~Counting(w, r) => Counters(r)' = Counters(r) \cup {w}
           /\ ~Counting(w, r)' /\ Counting(w, r) => Counters(r)' = Counters(r) \ {w}
<1>1. \A v \in Workers \ {w} : v \in Counters(r)' <=> v \in Counters(r)
  BY DEF Counters, Counting, OthersStay
<1>2. /\ w \in Counters(r)' <=> Counting(w, r)'
      /\ w \in Counters(r) <=> Counting(w, r)
  BY DEF Counters
<1>3. Counters(r) \subseteq Workers /\ Counters(r)' \subseteq Workers
  BY DEF Counters
<1> QED
  BY <1>1, <1>2, <1>3

\* A new generation begins with no call in flight but perhaps w's.
LEMMA CountersOfNewGeneration ==
    ASSUME TypeOK, \A v \in Workers : WorkerInv(v),
           NEW w \in Workers, OthersStay(w), NEW r \in Resolvers,
           breaker'[r].generation = breaker[r].generation + 1
    PROVE  Counters(r)' = IF Counting(w, r)' THEN {w} ELSE {}
<1>1. ASSUME NEW v \in Workers \ {w}
      PROVE  v \notin Counters(r)'
  <2>1. generation[v] \in Nat /\ breaker[r].generation \in Nat
    BY DEF TypeOK, Breaker
  <2>2. held[v] = r /\ pc[v] = "call" => generation[v] <= breaker[r].generation
    BY DEF WorkerInv
  <2> QED
    BY <2>1, <2>2 DEF Counters, Counting, OthersStay
<1>2. w \in Counters(r)' <=> Counting(w, r)'
  BY DEF Counters
<1>3. Counters(r)' \subseteq Workers
  BY DEF Counters
<1> QED
  BY <1>1, <1>2, <1>3

\* What is left to show of a step of one worker w that concerns one
\* OrgResolver q: nothing else has changed.
LEMMA WorkerStep ==
    ASSUME IInv, NEW w \in Workers, NEW q, OthersStay(w),
           TypeOK', WorkerInv(w)', CurrentInv',
           held[w] \in {q, None}, held'[w] \in {q, None},
           Referenced' \subseteq Referenced \cup {q, None},
           \A r \in Resolvers \ {q} : r \in Referenced' =>
               entry'[r] = entry[r] /\ slots'[r] = slots[r] /\ breaker'[r] = breaker[r],
           \A o \in Orgs : failed'[o] >= failed[o],
           \A v \in Workers \ {w} : held[v] = q /\ q \in Resolvers =>
               entry'[q] = entry[q] /\ breaker'[q].generation >= breaker[q].generation,
           q \in Resolvers /\ q \in Referenced' => ResolverInv(q)'
    PROVE  IInv'
<1>1. ASSUME NEW v \in Workers
      PROVE  WorkerInv(v)'
  <2>1. CASE v = w
    BY <2>1
  <2>2. CASE v # w
    <3>1. WorkerInv(v)
      BY DEF IInv
    <3>2. held'[v] \in Referenced'
      BY DEF Referenced
    <3>3. held[v] = held'[v] /\ pc'[v] = pc[v] /\ org'[v] = org[v] /\ seen'[v] = seen[v]
          /\ generation'[v] = generation[v]
      BY <2>2 DEF OthersStay
    <3>4. held[v] \in Resolvers => /\ entry'[held[v]] = entry[held[v]]
                                   /\ breaker'[held[v]].generation >= breaker[held[v]].generation
      <4>1. CASE held[v] = q
        BY <2>2, <4>1
      <4>2. CASE held[v] # q
        <5>1. held[v] \in Resolvers => breaker[held[v]].generation \in Nat
          BY DEF IInv, TypeOK, Breaker
        <5> QED
          BY <3>2, <3>3, <4>2, <5>1
      <4> QED
        BY <4>1, <4>2
    <3>5. generation[v] \in Nat /\ (held[v] \in Resolvers =>
             breaker[held[v]].generation \in Nat /\ breaker'[held[v]].generation \in Nat)
      BY DEF IInv, TypeOK, Breaker
    <3> QED
      BY <3>1, <3>3, <3>4, <3>5 DEF WorkerInv
  <2> QED
    BY <2>1, <2>2
<1>2. ASSUME NEW r \in Resolvers, r \in Referenced'
      PROVE  ResolverInv(r)'
  <2>1. CASE r = q
    BY <1>2, <2>1
  <2>2. CASE r # q
    <3>1. r # None
      BY ConfigAssumption
    <3>2. ResolverInv(r)
      BY <1>2, <2>2, <3>1 DEF IInv
    <3>3. entry'[r] = entry[r] /\ slots'[r] = slots[r] /\ breaker'[r] = breaker[r]
      BY <1>2, <2>2
    <3>4. held[w] # r /\ held'[w] # r
      BY <2>2, <3>1
    <3>5. Occupants(r)' = Occupants(r)
      BY <3>4, OccupantsMove DEF Occupies
    <3>6. Counters(r)' = Counters(r)
      BY <3>3, <3>4, CountersMove DEF Counting
    <3>7. entry[r] \in Entry
      BY <3>2 DEF ResolverInv, Sound
    <3>8. /\ failed[entry[r].org] \in Nat /\ failed'[entry[r].org] \in Nat
          /\ failed'[entry[r].org] >= failed[entry[r].org]
      BY <3>7 DEF Entry, IInv, TypeOK
    <3>9. breaker[r].failures \in Nat /\ entry[r].cfg.failureThreshold \in Nat
      BY <3>7, ConfigFields DEF Entry, IInv, TypeOK, Breaker
    <3> QED
      BY <3>2, <3>3, <3>5, <3>6, <3>8, <3>9 DEF ResolverInv, Sound
  <2> QED
    BY <2>1, <2>2
<1> QED
  BY <1>1, <1>2 DEF IInv

-----------------------------------------------------------------------------
(* The initial state, and each action.                                     *)

LEMMA InitInv == Init => IInv
<1> SUFFICES ASSUME Init PROVE IInv
  OBVIOUS
<1>1. NewBreaker \in Breaker
  BY DEF NewBreaker, Breaker, States
<1>2. TypeOK
  BY <1>1, ConfigAssumption, BoundAssumption DEF Init, TypeOK, States, PCs
<1>3. \A w \in Workers : WorkerInv(w)
  BY DEF Init, WorkerInv
<1>4. CurrentInv
  BY DEF Init, CurrentInv
<1>5. \A r \in Resolvers : r \notin Referenced
  BY ConfigAssumption DEF Init, Referenced
<1> QED
  BY <1>2, <1>3, <1>4, <1>5 DEF IInv

LEMMA StartInv ==
    ASSUME IInv, NEW w \in Workers, Start(w)
    PROVE  IInv'
<1>1. WorkerInv(w) /\ pc[w] = "idle" /\ held[w] = None
  BY DEF IInv, Start, WorkerInv
<1>2. OthersStay(w)
  BY DEF Start, IInv, TypeOK, OthersStay
<1>3. PICK o \in Orgs, n \in 1 .. MaxUsers : /\ org' = [org EXCEPT ![w] = o]
                                           /\ seen' = [seen EXCEPT ![w] = config[o]]
                                           /\ left' = [left EXCEPT ![w] = n]
  <2>1. 1 .. (IF w \in Batches THEN MaxUsers ELSE 1) \subseteq 1 .. MaxUsers
    BY BoundAssumption
  <2> QED
    BY <2>1 DEF Start
<1>4. config[o] \in Configs
  BY DEF IInv, TypeOK
<1>5. TypeOK'
  BY <1>3, <1>4 DEF Start, IInv, TypeOK, PCs, registry
<1>6. WorkerInv(w)'
  BY <1>1, <1>3, <1>4 DEF Start, IInv, TypeOK, WorkerInv
<1>7. UNCHANGED <<current, entry, slots, breaker, held, failed>>
  BY DEF Start, registry
<1>8. CurrentInv' /\ Referenced' = Referenced
  BY <1>7 DEF IInv, CurrentInv, Referenced
<1>9. \A o1 \in Orgs : failed'[o1] >= failed[o1]
  BY <1>7 DEF IInv, TypeOK
<1> QED
  BY <1>1, <1>2, <1>5, <1>6, <1>7, <1>8, <1>9, ConfigAssumption, WorkerStep

LEMMA ReuseInv ==
    ASSUME IInv, NEW w \in Workers, Reuse(w)
    PROVE  IInv'
<1>1. WorkerInv(w) /\ pc[w] = "for" /\ held[w] = None /\ org[w] \in Orgs /\ current[org[w]] # None
  BY DEF IInv, Reuse, WorkerInv
<1>2. PICK q \in Resolvers : /\ q = current[org[w]] /\ q \in Referenced
                            /\ entry[q] \in Entry /\ entry[q].org = org[w]
  BY <1>1 DEF IInv, TypeOK, CurrentInv, Referenced
<1>3. held' = [held EXCEPT ![w] = q] /\ seen' = [seen EXCEPT ![w] = None]
      /\ pc' = [pc EXCEPT ![w] = "acquire"]
  BY <1>2 DEF Reuse
<1>4. UNCHANGED <<config, current, entry, gauge, reloads, slots, breaker, org, generation,
                  left, failed>>
  BY DEF Reuse, registry
<1>5. OthersStay(w)
  BY <1>3, <1>4 DEF IInv, TypeOK, OthersStay
<1>6. TypeOK'
  BY <1>2, <1>3, <1>4 DEF IInv, TypeOK, PCs
<1>7. held'[w] = q /\ pc'[w] = "acquire"
  BY <1>3 DEF IInv, TypeOK
<1>8. WorkerInv(w)'
  BY <1>1, <1>2, <1>4, <1>7 DEF WorkerInv
<1>9. CurrentInv' /\ Referenced' \subseteq Referenced \cup {q, None}
  <2>1. CurrentInv'
    BY <1>4 DEF IInv, CurrentInv
  <2>2. \A v \in Workers : held'[v] \in {held[v], q}
    BY <1>3 DEF IInv, TypeOK
  <2> QED
    BY <1>4, <2>1, <2>2 DEF Referenced
<1>10. ResolverInv(q)'
  <2>1. ResolverInv(q)
    BY <1>2 DEF IInv
  <2>2. Occupants(q)' = Occupants(q) /\ Counters(q)' = Counters(q)
    BY <1>1, <1>4, <1>5, <1>7, OccupantsMove, CountersMove DEF Occupies, Counting
  <2> QED
    BY <1>4, <2>1, <2>2 DEF ResolverInv
<1>11. \A o \in Orgs : failed'[o] >= failed[o]
  BY <1>4 DEF IInv, TypeOK
<1>12. breaker'[q].generation >= breaker[q].generation
  BY <1>2, <1>4 DEF IInv, TypeOK, Breaker
<1> QED
  BY <1>1, <1>4, <1>5, <1>6, <1>7, <1>8, <1>9, <1>10, <1>11, <1>12, WorkerStep

LEMMA RebuildInv ==
    ASSUME IInv, NEW w \in Workers, Rebuild(w)
    PROVE  IInv'
<1>1. pc[w] = "for" /\ held[w] = None /\ org[w] \in Orgs /\ seen[w] \in Configs
  BY DEF IInv, Rebuild, WorkerInv
<1>0. PICK e \in Entry : e = [org |-> org[w], cfg |-> seen[w]] /\ e.org = org[w]
  <2>1. [org |-> org[w], cfg |-> seen[w]] \in Entry
    BY <1>1 DEF Entry
  <2> QED
    BY <2>1
<1>2. PICK q \in Resolvers : /\ q = CHOOSE x \in Resolvers : x \notin Referenced
                            /\ q \notin Referenced
  BY DEF Rebuild
<1>3. /\ current' = [current EXCEPT ![org[w]] = q]
      /\ held' = [held EXCEPT ![w] = q]
      /\ entry' = Collected([entry EXCEPT ![q] = e], None)
      /\ slots' = Collected([slots EXCEPT ![q] = 0], 0)
      /\ breaker' = Collected([breaker EXCEPT ![q] = NewBreaker], NewBreaker)
      /\ gauge' = [gauge EXCEPT ![org[w]] = "closed"]
      /\ seen' = [seen EXCEPT ![w] = None]
      /\ pc' = [pc EXCEPT ![w] = "acquire"]
      /\ UNCHANGED <<config, reloads, org, generation, left, failed>>
  BY <1>0, <1>2 DEF Rebuild
<1>4. OthersStay(w)
  BY <1>3 DEF IInv, TypeOK, OthersStay
<1>5. held'[w] = q /\ pc'[w] = "acquire" /\ q \in Referenced'
  BY <1>3 DEF IInv, TypeOK, Referenced
<1>6. NewBreaker \in Breaker
  BY DEF NewBreaker, Breaker, States
<1>7. TypeOK'
  <2>1. entry' \in [Resolvers -> [org: Orgs, cfg: Configs] \cup {None}]
    <3>1. [entry EXCEPT ![q] = e] \in [Resolvers -> Entry \cup {None}]
      BY <1>2 DEF IInv, TypeOK, Entry
    <3> QED
      BY <1>3, <3>1 DEF Collected, Entry
  <2>2. slots' \in [Resolvers -> Nat]
    <3>1. [slots EXCEPT ![q] = 0] \in [Resolvers -> Nat]
      BY DEF IInv, TypeOK
    <3> QED
      BY <1>3, <3>1 DEF Collected
  <2>3. breaker' \in [Resolvers -> Breaker]
    <3>1. [breaker EXCEPT ![q] = NewBreaker] \in [Resolvers -> Breaker]
      BY <1>6 DEF IInv, TypeOK
    <3> QED
      BY <1>3, <1>6, <3>1 DEF Collected
  <2> QED
    BY <1>1, <1>2, <1>3, <2>1, <2>2, <2>3 DEF IInv, TypeOK, PCs, States
<1>8. entry'[q] = e /\ slots'[q] = 0 /\ breaker'[q] = NewBreaker
  BY <1>2, <1>3, <1>5 DEF Collected, IInv, TypeOK
<1>9. \A r \in Resolvers \ {q} : r \in Referenced' =>
          entry'[r] = entry[r] /\ slots'[r] = slots[r] /\ breaker'[r] = breaker[r]
  BY <1>2, <1>3 DEF Collected, IInv, TypeOK
<1>10. Referenced' \subseteq Referenced \cup {q, None}
  <2>1. \A v \in Workers : held'[v] \in {held[v], q}
    BY <1>3 DEF IInv, TypeOK
  <2>2. \A o \in Orgs : current'[o] \in {current[o], q}
    BY <1>3 DEF IInv, TypeOK
  <2> QED
    BY <2>1, <2>2 DEF Referenced
<1>11. WorkerInv(w)'
  BY <1>0, <1>1, <1>2, <1>3, <1>5, <1>8 DEF WorkerInv
<1>12. CurrentInv'
  <2> SUFFICES ASSUME NEW o \in Orgs, current'[o] # None
               PROVE  entry'[current'[o]] \in Entry /\ entry'[current'[o]].org = o
    BY DEF CurrentInv
  <2>1. CASE o = org[w]
    BY <1>0, <1>3, <1>8, <2>1 DEF IInv, TypeOK
  <2>2. CASE o # org[w]
    <3>1. current'[o] = current[o] /\ current[o] \in Resolvers
      BY <1>3, <2>2 DEF IInv, TypeOK
    <3>2. current[o] \in Referenced /\ current[o] \in Referenced'
      BY <3>1 DEF Referenced
    <3>3. entry'[current[o]] = entry[current[o]]
      BY <1>2, <1>9, <3>1, <3>2
    <3> QED
      BY <3>1, <3>3 DEF IInv, CurrentInv
  <2> QED
    BY <2>1, <2>2
<1>13. ResolverInv(q)'
  <2>1. \A v \in Workers : held[v] # q
    BY <1>2 DEF Referenced
  <2>2. Occupants(q) = {} /\ ~Occupies(w, q) /\ ~Occupies(w, q)'
    BY <1>5, <2>1 DEF Occupants, Occupies
  <2>3. Occupants(q)' = {}
    BY <1>4, <2>2, OccupantsMove
  <2>4. Cardinality({}) = 0
    BY FS_EmptySet
  <2>5. /\ e.cfg.maxConcurrency \in Nat /\ failed'[e.org] \in Nat
        /\ NewBreaker.state = "closed" /\ NewBreaker.failures = 0
    BY <1>7, ConfigFields DEF Entry, TypeOK, NewBreaker
  <2> QED
    BY <1>8, <2>3, <2>4, <2>5 DEF ResolverInv, Sound
<1>14. \A o \in Orgs : failed'[o] >= failed[o]
  BY <1>3 DEF IInv, TypeOK
<1>15. \A v \in Workers : held[v] # q
  BY <1>2 DEF Referenced
<1> QED
  BY <1>1, <1>4, <1>5, <1>7, <1>9, <1>10, <1>11, <1>12, <1>13, <1>14, <1>15, WorkerStep

\* What is known of a worker inside ResolveUser, and its OrgResolver.
LEMMA InsideResolver ==
    ASSUME IInv, NEW w \in Workers, pc[w] \notin {"idle", "for"}
    PROVE  \E q \in Resolvers :
              /\ q = held[w] /\ q \in Referenced /\ org[w] \in Orgs
              /\ entry[q] \in Entry /\ entry[q].org = org[w]
              /\ entry[q].cfg \in Configs /\ slots[q] \in Nat /\ breaker[q] \in Breaker
              /\ generation[w] \in Nat /\ failed[org[w]] \in Nat
              /\ pc[w] = "call" => generation[w] <= breaker[q].generation
              /\ ResolverInv(q)
<1>1. WorkerInv(w)
  BY DEF IInv
<1>2. held[w] \in Resolvers /\ held[w] \in Referenced
  BY <1>1 DEF WorkerInv, Referenced
<1>3. ResolverInv(held[w])
  BY <1>2 DEF IInv
<1>4. entry[held[w]] \in Entry /\ entry[held[w]].cfg \in Configs
  BY <1>1 DEF WorkerInv, Entry
<1>5. slots[held[w]] \in Nat /\ breaker[held[w]] \in Breaker /\ generation[w] \in Nat
  BY <1>2 DEF IInv, TypeOK
<1> QED
  BY <1>1, <1>2, <1>3, <1>4, <1>5 DEF WorkerInv, IInv, TypeOK

LEMMA NextUserSteps ==
    ASSUME IInv, NEW w \in Workers, NextUser(w), UNCHANGED <<current, seen, generation>>
    PROVE  /\ OthersStay(w)
           /\ pc' \in [Workers -> PCs] /\ left' \in [Workers -> 0 .. MaxUsers]
           /\ org' \in [Workers -> Orgs \cup {None}]
           /\ held' \in [Workers -> Resolvers \cup {None}]
           /\ \/ held'[w] = held[w] /\ org'[w] = org[w] /\ pc'[w] = "acquire"
              \/ held'[w] = None /\ pc'[w] = "idle"
           /\ Referenced' \subseteq Referenced \cup {None}
<1>1. OthersStay(w)
  BY DEF IInv, TypeOK, NextUser, OthersStay
<1>2. \/ held'[w] = held[w] /\ org'[w] = org[w] /\ pc'[w] = "acquire"
      \/ held'[w] = None /\ pc'[w] = "idle"
  BY DEF IInv, TypeOK, NextUser
<1>3. left' \in [Workers -> 0 .. MaxUsers]
  BY BoundAssumption DEF IInv, TypeOK, NextUser
<1>4. /\ pc' \in [Workers -> PCs]
      /\ org' \in [Workers -> Orgs \cup {None}]
      /\ held' \in [Workers -> Resolvers \cup {None}]
  BY DEF IInv, TypeOK, NextUser, PCs
<1>5. \A v \in Workers : held'[v] \in {held[v], None}
  BY <1>1, <1>2 DEF OthersStay
<1>6. Referenced' \subseteq Referenced \cup {None}
  BY <1>5 DEF Referenced
<1> QED
  BY <1>1, <1>2, <1>3, <1>4, <1>6

\* A worker leaves ResolveUser; f is the slots that are left.
LEMMA LeaveInv ==
    ASSUME IInv, NEW w \in Workers, pc[w] \in {"acquire", "release"}, NextUser(w),
           UNCHANGED <<config, current, gauge, reloads, seen, generation, failed>>,
           NEW q \in Resolvers, q = held[w], NEW f \in [Resolvers -> Nat],
           entry' = Collected(entry, None),
           slots' = Collected(f, 0),
           breaker' = Collected(breaker, NewBreaker),
           \A r \in Resolvers \ {q} : f[r] = slots[r],
           f[q] = Cardinality(Occupants(q)') /\ f[q] <= slots[q]
    PROVE  IInv'
<1>1. /\ entry[q] \in Entry /\ entry[q].org = org[w] /\ org[w] \in Orgs
      /\ slots[q] \in Nat /\ entry[q].cfg \in Configs /\ breaker[q] \in Breaker /\ ResolverInv(q)
  BY InsideResolver
<1>2. /\ OthersStay(w)
      /\ pc' \in [Workers -> PCs] /\ left' \in [Workers -> 0 .. MaxUsers]
      /\ org' \in [Workers -> Orgs \cup {None}]
      /\ held' \in [Workers -> Resolvers \cup {None}]
      /\ \/ held'[w] = q /\ org'[w] = org[w] /\ pc'[w] = "acquire"
         \/ held'[w] = None /\ pc'[w] = "idle"
      /\ Referenced' \subseteq Referenced \cup {None}
  BY <1>1, NextUserSteps
<1>3. \A r \in Resolvers : r \in Referenced' =>
          entry'[r] = entry[r] /\ slots'[r] = f[r] /\ breaker'[r] = breaker[r]
  BY DEF Collected
<1>4. TypeOK'
  <2>1. NewBreaker \in Breaker
    BY DEF NewBreaker, Breaker, States
  <2>2. entry' \in [Resolvers -> [org: Orgs, cfg: Configs] \cup {None}]
    BY DEF Collected, IInv, TypeOK
  <2>3. slots' \in [Resolvers -> Nat]
    BY DEF Collected
  <2>4. breaker' \in [Resolvers -> Breaker]
    BY <2>1 DEF Collected, IInv, TypeOK
  <2> QED
    BY <1>2, <2>2, <2>3, <2>4 DEF IInv, TypeOK
<1>5. WorkerInv(w)'
  <2>1. held'[w] \in Referenced'
    BY DEF Referenced
  <2> QED
    BY <1>1, <1>2, <1>3, <2>1 DEF WorkerInv
<1>6. CurrentInv'
  <2>1. \A o \in Orgs : current[o] \in Referenced' /\ current[o] \in Resolvers \cup {None}
    BY DEF Referenced, IInv, TypeOK
  <2> QED
    BY <1>3, <2>1 DEF IInv, CurrentInv
<1>7. ASSUME q \in Referenced'
      PROVE  ResolverInv(q)'
  <2>1. entry'[q] = entry[q] /\ slots'[q] = f[q] /\ breaker'[q] = breaker[q]
    BY <1>3, <1>7
  <2>2. ~Counting(w, q) /\ ~Counting(w, q)'
    BY <1>2 DEF Counting
  <2>3. Counters(q)' = Counters(q)
    BY <1>2, <2>1, <2>2, CountersMove
  <2>4. slots'[q] = Cardinality(Occupants(q)') /\ slots'[q] <= slots[q] /\ slots'[q] \in Nat
    BY <1>1, <1>2, <2>1
  <2>5. entry[q].cfg.maxConcurrency \in Nat
    BY <1>1, ConfigFields
  <2> QED
    BY <1>1, <2>1, <2>3, <2>4, <2>5 DEF ResolverInv, Sound
<1>8. \A o \in Orgs : failed'[o] >= failed[o]
  BY DEF IInv, TypeOK
<1>9. /\ held[w] \in {q, None} /\ held'[w] \in {q, None}
      /\ Referenced' \subseteq Referenced \cup {q, None}
  BY <1>1, <1>2
<1>10. \A r \in Resolvers \ {q} : r \in Referenced' =>
           entry'[r] = entry[r] /\ slots'[r] = slots[r] /\ breaker'[r] = breaker[r]
  BY <1>1, <1>3
<1>11. \A v \in Workers \ {w} : held[v] = q =>
           entry'[q] = entry[q] /\ breaker'[q].generation >= breaker[q].generation
  <2>1. \A v \in Workers \ {w} : held[v] = q => q \in Referenced'
    BY <1>2 DEF OthersStay, Referenced
  <2>2. breaker[q].generation \in Nat
    BY <1>1 DEF Breaker
  <2> QED
    BY <1>3, <2>1, <2>2
<1> QED
  BY <1>2, <1>4, <1>5, <1>6, <1>7, <1>8, <1>9, <1>10, <1>11, WorkerStep

LEMMA RejectInv ==
    ASSUME IInv, NEW w \in Workers, Reject(w)
    PROVE  IInv'
<1>1. PICK q \in Resolvers : q = held[w] /\ ResolverInv(q) /\ slots[q] \in Nat
  BY InsideResolver DEF Reject
<1>2. OthersStay(w) /\ (held'[w] = None \/ pc'[w] = "acquire")
  BY NextUserSteps DEF Reject
<1>3. Occupants(q)' = Occupants(q)
  <2>1. ~Occupies(w, q) /\ ~Occupies(w, q)'
    BY <1>2, ConfigAssumption DEF Reject, Occupies
  <2> QED
    BY <1>2, <2>1, OccupantsMove
<1>4. slots \in [Resolvers -> Nat]
  BY DEF IInv, TypeOK
<1>5. slots[q] = Cardinality(Occupants(q)') /\ slots[q] <= slots[q]
  BY <1>1, <1>3 DEF ResolverInv, Sound
<1>6. /\ pc[w] \in {"acquire", "release"} /\ NextUser(w)
      /\ UNCHANGED <<config, current, gauge, reloads, seen, generation, failed>>
      /\ entry' = Collected(entry, None) /\ slots' = Collected(slots, 0)
      /\ breaker' = Collected(breaker, NewBreaker)
  BY DEF Reject
<1> QED
  BY <1>1, <1>4, <1>5, <1>6, LeaveInv

LEMMA ReleaseInv ==
    ASSUME IInv, NEW w \in Workers, Release(w)
    PROVE  IInv'
<1>1. PICK q \in Resolvers : q = held[w] /\ ResolverInv(q) /\ slots[q] \in Nat
  BY InsideResolver DEF Release
<1>2. OthersStay(w) /\ (held'[w] = None \/ pc'[w] = "acquire")
  BY NextUserSteps DEF Release
<1>3. Occupants(q)' = Occupants(q) \ {w} /\ w \in Occupants(q)
  <2>1. Occupies(w, q) /\ ~Occupies(w, q)'
    BY <1>1, <1>2, ConfigAssumption DEF Release, Occupies
  <2> QED
    BY <1>2, <2>1, OccupantsMove DEF Occupants
<1> DEFINE f == [slots EXCEPT ![q] = @ - 1]
<1>4. slots[q] - 1 = Cardinality(Occupants(q)') /\ slots[q] > 0
  <2>1. Occupants(q) \in SUBSET Workers
    BY DEF Occupants
  <2> QED
    BY <1>1, <1>3, <2>1, CardinalityWithout DEF ResolverInv, Sound
<1>5. f \in [Resolvers -> Nat] /\ f[q] = slots[q] - 1 /\ \A r \in Resolvers \ {q} : f[r] = slots[r]
  BY <1>1, <1>4 DEF IInv, TypeOK
<1>6. /\ pc[w] \in {"acquire", "release"} /\ NextUser(w)
      /\ UNCHANGED <<config, current, gauge, reloads, seen, generation, failed>>
      /\ entry' = Collected(entry, None) /\ slots' = Collected(f, 0)
      /\ breaker' = Collected(breaker, NewBreaker)
  BY <1>1 DEF Release
<1>7. f[q] <= slots[q]
  BY <1>1, <1>5
<1> HIDE DEF f
<1> QED
  BY <1>1, <1>4, <1>5, <1>6, <1>7, LeaveInv

\* A worker goes on inside ResolveUser.
LEMMA InsideInv ==
    ASSUME IInv, NEW w \in Workers, NEW q \in Resolvers, q = held[w],
           pc[w] \in {"acquire", "admit", "call"},
           UNCHANGED <<config, current, entry, reloads, org, seen, held, left>>,
           NEW next \in {"admit", "call", "release"}, pc' = [pc EXCEPT ![w] = next],
           generation' \in [Workers -> Nat],
           \A v \in Workers \ {w} : generation'[v] = generation[v],
           slots' \in [Resolvers -> Nat], \A r \in Resolvers \ {q} : slots'[r] = slots[r],
           breaker' \in [Resolvers -> Breaker],
           \A r \in Resolvers \ {q} : breaker'[r] = breaker[r],
           breaker'[q].generation >= breaker[q].generation,
           next = "call" => generation'[w] <= breaker'[q].generation,
           gauge' \in [Orgs -> States],
           failed' \in [Orgs -> Nat],
           \A o \in Orgs : failed'[o] \in 0 .. MaxFailures[o] /\ failed'[o] >= failed[o],
           ResolverInv(q)'
    PROVE  IInv'
<1>1. OthersStay(w)
  BY DEF IInv, TypeOK, OthersStay
<1>2. TypeOK'
  BY DEF IInv, TypeOK, PCs
<1>3. pc'[w] = next
  BY DEF IInv, TypeOK
<1>4. WorkerInv(w)'
  <2>1. WorkerInv(w)
    BY DEF IInv
  <2> QED
    BY <1>3, <2>1 DEF WorkerInv
<1>5. CurrentInv' /\ Referenced' = Referenced
  BY DEF IInv, CurrentInv, Referenced
<1>6. held[w] \in {q, None} /\ held'[w] \in {q, None}
  OBVIOUS
<1>7. \A r \in Resolvers \ {q} : r \in Referenced' =>
          entry'[r] = entry[r] /\ slots'[r] = slots[r] /\ breaker'[r] = breaker[r]
  OBVIOUS
<1>8. \A v \in Workers \ {w} : held[v] = q /\ q \in Resolvers =>
          entry'[q] = entry[q] /\ breaker'[q].generation >= breaker[q].generation
  OBVIOUS
<1>9. \A o \in Orgs : failed'[o] >= failed[o]
  OBVIOUS
<1>10. Referenced' \subseteq Referenced \cup {q, None}
  BY <1>5
<1> QED
  BY <1>1, <1>2, <1>4, <1>5, <1>6, <1>7, <1>8, <1>9, <1>10, WorkerStep

LEMMA AcquireInv ==
    ASSUME IInv, NEW w \in Workers, Acquire(w)
    PROVE  IInv'
<1>1. PICK q \in Resolvers :
         /\ q = held[w] /\ entry[q] \in Entry /\ entry[q].cfg \in Configs
         /\ slots[q] \in Nat /\ breaker[q] \in Breaker /\ ResolverInv(q)
  BY InsideResolver DEF Acquire
<1>2. /\ pc[w] = "acquire" /\ slots[q] < entry[q].cfg.maxConcurrency
      /\ slots' = [slots EXCEPT ![q] = @ + 1] /\ pc' = [pc EXCEPT ![w] = "admit"]
      /\ UNCHANGED <<config, current, entry, gauge, reloads, breaker, org, seen, held,
                    generation, left, failed>>
  BY <1>1 DEF Acquire, registry
<1>3. OthersStay(w) /\ pc'[w] = "admit"
  BY <1>2 DEF IInv, TypeOK, OthersStay
<1>4. slots' \in [Resolvers -> Nat] /\ slots'[q] = slots[q] + 1
      /\ \A r \in Resolvers \ {q} : slots'[r] = slots[r]
  BY <1>1, <1>2 DEF IInv, TypeOK
<1>5. ResolverInv(q)'
  <2>1. Occupants(q)' = Occupants(q) \cup {w} /\ w \notin Occupants(q)
    <3>1. Occupies(w, q)' /\ ~Occupies(w, q)
      BY <1>1, <1>2, <1>3 DEF Occupies
    <3> QED
      BY <1>3, <3>1, OccupantsMove DEF Occupants
  <2>2. Cardinality(Occupants(q)') = Cardinality(Occupants(q)) + 1
    <3>1. Occupants(q) \in SUBSET Workers
      BY DEF Occupants
    <3> QED
      BY <2>1, <3>1, CardinalityWith
  <2>3. Counters(q)' = Counters(q)
    <3>1. ~Counting(w, q)' /\ ~Counting(w, q)
      BY <1>2, <1>3 DEF Counting
    <3> QED
      BY <1>2, <1>3, <3>1, CountersMove
  <2>4. entry[q].cfg.maxConcurrency \in Nat
    BY <1>1, ConfigFields
  <2> QED
    BY <1>1, <1>2, <1>4, <2>2, <2>3, <2>4 DEF ResolverInv, Sound
<1>6. \A o \in Orgs : failed'[o] \in 0 .. MaxFailures[o] /\ failed'[o] >= failed[o]
  BY <1>2 DEF IInv, TypeOK
<1>7. /\ generation' \in [Workers -> Nat] /\ \A v \in Workers : generation'[v] = generation[v]
      /\ breaker' \in [Resolvers -> Breaker] /\ \A r \in Resolvers : breaker'[r] = breaker[r]
      /\ breaker'[q].generation >= breaker[q].generation
      /\ gauge' \in [Orgs -> States] /\ failed' \in [Orgs -> Nat]
  BY <1>1, <1>2 DEF IInv, TypeOK, Breaker
<1> QED
  BY <1>1, <1>2, <1>4, <1>5, <1>6, <1>7, InsideInv

\* The metric shows a state of circuits.
LEMMA MirrorTyped ==
    ASSUME IInv, NEW q \in Resolvers, entry[q] \in Entry, NEW b \in Breaker, Mirror(q, b)
    PROVE  gauge' \in [Orgs -> States]
  BY DEF IInv, TypeOK, Mirror, Entry, Breaker

LEMMA AdmitInv ==
    ASSUME IInv, NEW w \in Workers, Admit(w)
    PROVE  IInv'
<1>1. PICK q \in Resolvers :
         /\ q = held[w] /\ q \in Referenced /\ entry[q] \in Entry /\ entry[q].cfg \in Configs
         /\ slots[q] \in Nat /\ breaker[q] \in Breaker /\ ResolverInv(q)
  BY InsideResolver DEF Admit
<1>2. PICK b \in Breaker : b = CurrentState(breaker[q])
  BY <1>1, CurrentStateTyped
<1>3. /\ pc[w] = "admit" /\ Admits(b, entry[q].cfg)
      /\ breaker' = [breaker EXCEPT ![q] = Counted(b)] /\ Mirror(q, b)
      /\ generation' = [generation EXCEPT ![w] = b.generation]
      /\ pc' = [pc EXCEPT ![w] = "call"]
      /\ UNCHANGED <<config, current, entry, reloads, slots, org, seen, held, left, failed>>
  BY <1>1, <1>2 DEF Admit
<1>4. /\ Counted(b) \in Breaker /\ Counted(b).generation = b.generation
      /\ Counted(b).state = b.state /\ Counted(b).succeeded = b.succeeded
      /\ Counted(b).failures = b.failures
      /\ b.state = "halfOpen" => Counted(b).admitted = b.admitted + 1
  BY CurrentStateTyped DEF Counted, Breaker
<1>5. OthersStay(w) /\ pc'[w] = "call" /\ generation'[w] = b.generation
      /\ breaker'[q] = Counted(b)
  BY <1>3 DEF IInv, TypeOK, OthersStay
<1>6. /\ generation' \in [Workers -> Nat]
      /\ breaker' \in [Resolvers -> Breaker]
      /\ \A r \in Resolvers \ {q} : breaker'[r] = breaker[r]
      /\ \A r \in Resolvers : slots'[r] = slots[r]
      /\ slots' \in [Resolvers -> Nat] /\ failed' \in [Orgs -> Nat]
  BY <1>3, <1>4 DEF IInv, TypeOK, Breaker
<1>7. \A o \in Orgs : failed'[o] \in 0 .. MaxFailures[o] /\ failed'[o] >= failed[o]
  BY <1>3 DEF IInv, TypeOK
<1>8. gauge' \in [Orgs -> States]
  BY <1>1, <1>3, MirrorTyped
<1>9. \/ b = breaker[q]
      \/ /\ breaker[q].state = "open" /\ b.state = "halfOpen"
         /\ b.generation = breaker[q].generation + 1 /\ b.admitted = 0 /\ b.succeeded = 0
  BY <1>1, <1>2, CurrentStateSteps
<1>10. ResolverInv(q)'
  <2>1. Occupants(q)' = Occupants(q)
    <3>1. Occupies(w, q)' /\ Occupies(w, q)
      BY <1>1, <1>3, <1>5 DEF Occupies
    <3> QED
      BY <1>5, <3>1, OccupantsMove
  <2>2. Counting(w, q)' /\ ~Counting(w, q)
    BY <1>1, <1>3, <1>4, <1>5 DEF Counting
  <2>3. /\ entry[q].cfg.failureThreshold \in Nat
        /\ entry[q].cfg.halfOpenProbes \in Nat /\ entry[q].cfg.halfOpenProbes > 0
    BY <1>1, ConfigFields
  <2>4. b.state = "halfOpen" => b.admitted < entry[q].cfg.halfOpenProbes
    BY <1>3 DEF Admits
  <2>5. CASE b = breaker[q]
    <3>1. Cardinality(Counters(q)') = Cardinality(Counters(q)) + 1
      <4>1. Counters(q) \in SUBSET Workers /\ w \notin Counters(q)
        BY <2>2 DEF Counters
      <4>2. Counters(q)' = Counters(q) \cup {w}
        BY <1>4, <1>5, <2>2, <2>5, CountersMove
      <4> QED
        BY <4>1, <4>2, CardinalityWith
    <3>2. Cardinality(Counters(q)) \in Nat
      BY FiniteSubsets DEF Counters
    <3>3. b.admitted \in Nat /\ b.succeeded \in Nat
      BY DEF Breaker
    <3> QED
      BY <1>1, <1>3, <1>4, <1>5, <2>1, <2>3, <2>4, <2>5, <3>1, <3>2, <3>3 DEF ResolverInv, Sound
  <2>6. CASE b # breaker[q]
    <3>1. Counters(q)' = {w}
      BY <1>4, <1>5, <1>9, <2>2, <2>6, CountersOfNewGeneration DEF IInv
    <3>2. Cardinality({w}) = 1
      BY FS_Singleton
    <3> QED
      BY <1>1, <1>3, <1>4, <1>5, <1>9, <2>1, <2>3, <2>6, <3>1, <3>2 DEF ResolverInv, Sound
  <2> QED
    BY <2>5, <2>6
<1>11. /\ breaker'[q].generation >= breaker[q].generation
       /\ generation'[w] <= breaker'[q].generation
       /\ \A v \in Workers \ {w} : generation'[v] = generation[v]
  <2>1. breaker[q].generation \in Nat /\ b.generation \in Nat
    BY <1>1 DEF Breaker
  <2> QED
    BY <1>4, <1>5, <1>9, <2>1 DEF OthersStay
<1> QED
  BY <1>1, <1>3, <1>6, <1>7, <1>8, <1>10, <1>11, InsideInv

LEMMA ShortCircuitInv ==
    ASSUME IInv, NEW w \in Workers, ShortCircuit(w)
    PROVE  IInv'
<1>1. PICK q \in Resolvers :
         /\ q = held[w] /\ q \in Referenced /\ entry[q] \in Entry /\ entry[q].cfg \in Configs
         /\ slots[q] \in Nat /\ breaker[q] \in Breaker /\ ResolverInv(q)
  BY InsideResolver DEF ShortCircuit
<1>2. PICK b \in Breaker : b = CurrentState(breaker[q])
  BY <1>1, CurrentStateTyped
<1>3. /\ pc[w] = "admit" /\ ~Admits(b, entry[q].cfg)
      /\ breaker' = [breaker EXCEPT ![q] = b] /\ Mirror(q, b)
      /\ pc' = [pc EXCEPT ![w] = "release"]
      /\ UNCHANGED <<config, current, entry, reloads, slots, org, seen, held, generation,
                    left, failed>>
  BY <1>1, <1>2 DEF ShortCircuit
<1>4. b = breaker[q]
  <2>1. entry[q].cfg.halfOpenProbes \in Nat /\ entry[q].cfg.halfOpenProbes > 0
    BY <1>1, ConfigFields
  <2> QED
    BY <1>1, <1>2, <1>3, <2>1, CurrentStateSteps DEF Admits
<1>5. OthersStay(w) /\ pc'[w] = "release" /\ breaker'[q] = breaker[q]
  BY <1>3, <1>4 DEF IInv, TypeOK, OthersStay
<1>6. /\ generation' \in [Workers -> Nat] /\ \A v \in Workers : generation'[v] = generation[v]
      /\ breaker' \in [Resolvers -> Breaker] /\ \A r \in Resolvers : breaker'[r] = breaker[r]
      /\ breaker'[q].generation >= breaker[q].generation
      /\ slots' \in [Resolvers -> Nat] /\ \A r \in Resolvers : slots'[r] = slots[r]
      /\ failed' \in [Orgs -> Nat]
      /\ \A o \in Orgs : failed'[o] \in 0 .. MaxFailures[o] /\ failed'[o] >= failed[o]
  BY <1>1, <1>3, <1>4 DEF IInv, TypeOK, Breaker
<1>7. gauge' \in [Orgs -> States]
  BY <1>1, <1>3, MirrorTyped
<1>8. ResolverInv(q)'
  <2>1. /\ Occupies(w, q)' /\ Occupies(w, q)
        /\ ~Counting(w, q)' /\ ~Counting(w, q)
    BY <1>1, <1>3, <1>5 DEF Occupies, Counting
  <2>2. Occupants(q)' = Occupants(q) /\ Counters(q)' = Counters(q)
    BY <1>5, <2>1, OccupantsMove, CountersMove
  <2> QED
    BY <1>1, <1>3, <1>5, <2>2 DEF ResolverInv
<1> QED
  BY <1>1, <1>3, <1>6, <1>7, <1>8, InsideInv

\* The breaker of q after a call of w has ended.
LEMMA ReturnSound ==
    ASSUME IInv, NEW w \in Workers, NEW ok \in BOOLEAN, Return(w, ok),
           NEW q \in Resolvers, q = held[w],
           NEW c \in Breaker, c = CurrentState(breaker[q]),
           NEW b \in Breaker, b = AfterRequest(c, generation[w], ok, entry[q].cfg),
           OthersStay(w), breaker'[q] = b, pc'[w] = "release",
           entry' = entry, slots' = slots, held' = held,
           NEW f \in Nat, NEW g \in Nat, f = failed[org[w]], g = failed'[org[w]],
           g = IF ok THEN f ELSE f + 1
    PROVE  ResolverInv(q)'
<1>1. /\ entry[q] \in Entry /\ entry[q].org = org[w] /\ entry[q].cfg \in Configs
      /\ breaker[q] \in Breaker /\ generation[w] \in Nat
      /\ generation[w] <= breaker[q].generation /\ ResolverInv(q)
  BY InsideResolver DEF Return
<1>2. /\ entry[q].cfg.failureThreshold \in Nat
      /\ entry[q].cfg.halfOpenProbes \in Nat /\ entry[q].cfg.halfOpenProbes > 0
  BY <1>1, ConfigFields
<1>3. Occupants(q)' = Occupants(q)
  <2>1. Occupies(w, q)' /\ Occupies(w, q)
    BY DEF Return, Occupies
  <2> QED
    BY <2>1, OccupantsMove
<1>4. ~Counting(w, q)'
  BY DEF Counting
<1>5. Counting(w, q) <=> generation[w] = breaker[q].generation
  BY DEF Counting, Return
<1>6. Cardinality(Counters(q)) \in Nat /\ Counters(q) \in SUBSET Workers
  BY FiniteSubsets DEF Counters
<1>7. /\ breaker[q].generation \in Nat /\ c.generation \in Nat
      /\ breaker[q].failures \in Nat /\ breaker[q].admitted \in Nat /\ breaker[q].succeeded \in Nat
      /\ b.failures \in Nat
  BY <1>1 DEF Breaker
<1>8. /\ entry'[q] = entry[q] /\ slots'[q] = slots[q] /\ failed'[entry'[q].org] = g
      /\ failed[entry[q].org] = f
  BY <1>1
<1>20. Sound(entry[q], slots[q], breaker[q], Occupants(q), Counters(q), f)
  BY <1>1, <1>8 DEF ResolverInv
<1>21. Sound(entry[q], slots[q], b, Occupants(q), Counters(q)', g) => ResolverInv(q)'
  BY <1>3, <1>8 DEF ResolverInv
<1>9. CASE c # breaker[q]
  <2>1. /\ breaker[q].state = "open" /\ c.state = "halfOpen"
        /\ c.generation = breaker[q].generation + 1 /\ c.admitted = 0 /\ c.succeeded = 0
    BY <1>1, <1>9, CurrentStateSteps
  <2>2. b = c
    BY <1>1, <1>7, <2>1 DEF AfterRequest
  <2>3. Counters(q)' = {}
    BY <1>4, <2>1, <2>2, CountersOfNewGeneration DEF IInv
  <2>4. Cardinality({}) = 0
    BY FS_EmptySet
  <2> QED
    BY <1>20, <1>21, <1>2, <2>1, <2>2, <2>3, <2>4 DEF Sound
<1>10. CASE c = breaker[q]
  <2>1. \/ b = c /\ (c.generation = generation[w] => c.state = "open" \/ (c.state = "closed" /\ ok))
        \/ /\ c.generation = generation[w] /\ b.generation = c.generation + 1
           /\ \/ c.state = "closed" /\ ~ok /\ b.state = "open"
                    /\ c.failures + 1 >= entry[q].cfg.failureThreshold
              \/ c.state = "halfOpen" /\ ~ok /\ b.state = "open"
              \/ c.state = "halfOpen" /\ ok /\ b.state = "closed" /\ b.failures = 0
        \/ /\ c.generation = generation[w] /\ b.generation = c.generation /\ b.state = c.state
           /\ \/ c.state = "closed" /\ b.failures = (IF ok THEN 0 ELSE c.failures + 1)
              \/ c.state = "halfOpen" /\ ok /\ b.admitted = c.admitted
                    /\ b.succeeded = c.succeeded + 1 /\ b.succeeded < entry[q].cfg.halfOpenProbes
    BY <1>1, AfterRequestSteps
  <2>2. CASE b = c /\ c.generation # generation[w]
    <3>1. Counters(q)' = Counters(q)
      BY <1>4, <1>5, <1>10, <2>2, CountersMove
    <3> QED
      BY <1>20, <1>21, <1>2, <1>7, <1>10, <2>2, <3>1 DEF Sound
  <2>3. CASE b = c /\ (c.state = "open" \/ (c.state = "closed" /\ ok))
    BY <1>20, <1>21, <1>2, <1>7, <1>10, <2>3 DEF Sound
  <2>4. CASE b.state \in {"open", "closed"} /\ b.generation = c.generation + 1
    BY <1>20, <1>21, <1>2, <1>7, <1>10, <2>1, <2>4 DEF Sound
  <2>5. CASE /\ c.generation = generation[w] /\ c.state = "closed" /\ b.state = "closed"
             /\ b.failures = (IF ok THEN 0 ELSE c.failures + 1)
    BY <1>20, <1>21, <1>2, <1>7, <1>10, <2>5 DEF Sound
  <2>6. CASE /\ c.generation = generation[w] /\ b.generation = c.generation
             /\ c.state = "halfOpen" /\ b.state = "halfOpen" /\ b.admitted = c.admitted
             /\ b.succeeded = c.succeeded + 1 /\ b.succeeded < entry[q].cfg.halfOpenProbes
    <3>1. Counting(w, q)
      BY <1>5, <1>10, <2>6
    <3>2. Counters(q)' = Counters(q) \ {w} /\ w \in Counters(q)
      BY <1>4, <1>10, <2>6, <3>1, CountersMove DEF Counters
    <3>3. Cardinality(Counters(q)') = Cardinality(Counters(q)) - 1
      BY <1>6, <3>2, CardinalityWithout
    <3> QED
      BY <1>20, <1>21, <1>2, <1>6, <1>7, <1>10, <2>6, <3>3 DEF Sound
  <2> QED
    BY <2>1, <2>2, <2>3, <2>4, <2>5, <2>6
<1> QED
  BY <1>9, <1>10

LEMMA ReturnInv ==
    ASSUME IInv, NEW w \in Workers, NEW ok \in BOOLEAN, Return(w, ok)
    PROVE  IInv'
<1>1. PICK q \in Resolvers :
         /\ q = held[w] /\ entry[q] \in Entry /\ entry[q].cfg \in Configs
         /\ breaker[q] \in Breaker /\ generation[w] \in Nat /\ org[w] \in Orgs
         /\ failed[org[w]] \in Nat
  BY InsideResolver DEF Return
<1>2. PICK c \in Breaker : c = CurrentState(breaker[q])
  BY <1>1, CurrentStateTyped
<1>3. PICK b \in Breaker : b = AfterRequest(c, generation[w], ok, entry[q].cfg)
  BY <1>1, AfterRequestTyped
<1>4. /\ pc[w] = "call" /\ (ok \/ failed[org[w]] < MaxFailures[org[w]])
      /\ failed' = (IF ok THEN failed ELSE [failed EXCEPT ![org[w]] = @ + 1])
      /\ breaker' = [breaker EXCEPT ![q] = b] /\ Mirror(q, b)
      /\ generation' = [generation EXCEPT ![w] = 0]
      /\ pc' = [pc EXCEPT ![w] = "release"]
      /\ UNCHANGED <<config, current, entry, reloads, slots, org, seen, held, left>>
  BY <1>1, <1>2, <1>3 DEF Return
<1>5. OthersStay(w) /\ pc'[w] = "release" /\ breaker'[q] = b
  BY <1>4 DEF IInv, TypeOK, OthersStay
<1>6. /\ generation' \in [Workers -> Nat]
      /\ \A v \in Workers \ {w} : generation'[v] = generation[v]
      /\ breaker' \in [Resolvers -> Breaker]
      /\ \A r \in Resolvers \ {q} : breaker'[r] = breaker[r]
      /\ slots' \in [Resolvers -> Nat] /\ \A r \in Resolvers : slots'[r] = slots[r]
  BY <1>4 DEF IInv, TypeOK
<1>7. b.generation >= breaker[q].generation
  <2>1. /\ breaker[q].generation \in Nat /\ c.generation \in Nat /\ b.generation \in Nat
    BY <1>1 DEF Breaker
  <2>2. c.generation >= breaker[q].generation
    BY <1>1, <1>2, <2>1, CurrentStateSteps
  <2>3. b.generation >= c.generation
    BY <1>1, <1>3, <2>1, AfterRequestSteps
  <2> QED
    BY <2>1, <2>2, <2>3
<1>8. /\ failed' \in [Orgs -> Nat]
      /\ \A o \in Orgs : failed'[o] \in 0 .. MaxFailures[o] /\ failed'[o] >= failed[o]
      /\ failed'[org[w]] = IF ok THEN failed[org[w]] ELSE failed[org[w]] + 1
  <2>1. MaxFailures \in [Orgs -> Nat]
    BY BoundAssumption
  <2> QED
    BY <1>1, <1>4, <2>1 DEF IInv, TypeOK
<1>9. gauge' \in [Orgs -> States]
  BY <1>1, <1>4, MirrorTyped
<1>10. PICK f \in Nat, g \in Nat : /\ f = failed[org[w]] /\ g = failed'[org[w]]
                                   /\ g = IF ok THEN f ELSE f + 1
  BY <1>1, <1>8
<1>11. ResolverInv(q)'
  BY <1>1, <1>2, <1>3, <1>4, <1>5, <1>10, ReturnSound
<1> QED
  BY <1>1, <1>4, <1>5, <1>6, <1>7, <1>8, <1>9, <1>11, InsideInv

\* Neither the end of openDuration nor a reload moves a worker.
LEMMA TimeInv ==
    ASSUME IInv, UNCHANGED <<current, entry, slots, workers, failed>>, TypeOK',
           \A r \in Resolvers : /\ breaker'[r].generation = breaker[r].generation
                                /\ breaker'[r].state = breaker[r].state
                                /\ breaker'[r].failures = breaker[r].failures
                                /\ breaker'[r].admitted = breaker[r].admitted
                                /\ breaker'[r].succeeded = breaker[r].succeeded
    PROVE  IInv'
<1>1. \A w \in Workers : WorkerInv(w)'
  BY DEF IInv, WorkerInv, workers
<1>2. CurrentInv' /\ Referenced' = Referenced
  BY DEF IInv, CurrentInv, Referenced, workers
<1>3. ASSUME NEW r \in Resolvers, r \in Referenced'
      PROVE  ResolverInv(r)'
  <2>1. ResolverInv(r)
    BY <1>2, <1>3 DEF IInv
  <2>2. Occupants(r)' = Occupants(r)
    BY DEF Occupants, Occupies, workers
  <2>3. Counters(r)' = Counters(r)
    BY DEF Counters, Counting, workers
  <2> QED
    BY <2>1, <2>2, <2>3 DEF ResolverInv, Sound
<1> QED
  BY <1>1, <1>2, <1>3 DEF IInv

LEMMA ExpireInv ==
    ASSUME IInv, NEW r \in Resolvers, Expire(r)
    PROVE  IInv'
<1>1. breaker[r] \in Breaker
  BY DEF IInv, TypeOK
<1>2. PICK b \in Breaker : /\ b = [breaker[r] EXCEPT !.expired = TRUE]
                          /\ b.generation = breaker[r].generation /\ b.state = breaker[r].state
                          /\ b.failures = breaker[r].failures /\ b.admitted = breaker[r].admitted
                          /\ b.succeeded = breaker[r].succeeded
  <2>1. [breaker[r] EXCEPT !.expired = TRUE] \in Breaker
    BY <1>1 DEF Breaker
  <2> QED
    BY <1>1, <2>1 DEF Breaker
<1>3. breaker' = [breaker EXCEPT ![r] = b] /\ UNCHANGED <<registry, slots, workers, failed>>
  BY <1>2 DEF Expire
<1>4. TypeOK'
  BY <1>3 DEF IInv, TypeOK, registry, workers
<1>5. \A q \in Resolvers : breaker'[q] = IF q = r THEN b ELSE breaker[q]
  BY <1>3 DEF IInv, TypeOK
<1> QED
  BY <1>2, <1>3, <1>4, <1>5, TimeInv DEF registry

LEMMA ReloadInv ==
    ASSUME IInv, NEW o \in Orgs, Reload(o)
    PROVE  IInv'
<1>1. TypeOK'
  BY BoundAssumption DEF Reload, IInv, TypeOK, workers
<1> QED
  BY <1>1, TimeInv DEF Reload, workers

LEMMA StutterInv ==
    ASSUME IInv, UNCHANGED vars
    PROVE  IInv'
<1>1. UNCHANGED <<config, current, entry, gauge, reloads, slots, breaker, workers, failed>>
  BY DEF vars, registry
<1>2. TypeOK'
  BY <1>1 DEF IInv, TypeOK, workers
<1> QED
  BY <1>1, <1>2, TimeInv

-----------------------------------------------------------------------------
(* The theorems.                                                           *)

\* The invariant: every OrgResolver in use knows the organisation it is for,
\* and its semaphore and breaker agree with what the workers are doing.
THEOREM Invariance == Spec => []IInv
<1>1. ASSUME IInv, [Next]_vars
      PROVE  IInv'
  <2>1. ASSUME NEW w \in Workers, Start(w) \/ Proceed(w)
        PROVE  IInv'
    BY <1>1, <2>1, StartInv, ReuseInv, RebuildInv, AcquireInv, RejectInv, AdmitInv,
       ShortCircuitInv, ReturnInv, ReleaseInv DEF Proceed
  <2>2. ASSUME NEW r \in Resolvers, Expire(r)
        PROVE  IInv'
    BY <1>1, <2>2, ExpireInv
  <2>3. ASSUME NEW o \in Orgs, Reload(o)
        PROVE  IInv'
    BY <1>1, <2>3, ReloadInv
  <2>4. CASE UNCHANGED vars
    BY <1>1, <2>4, StutterInv
  <2> QED
    BY <1>1, <2>1, <2>2, <2>3, <2>4 DEF Next
<1> QED
  BY InitInv, <1>1, PTL DEF Spec

\* Every variable keeps its type, for any organisations and workers: in
\* particular no slot is given back that was not taken.
THEOREM TypeCorrect == Spec => []TypeOK
<1>1. IInv => TypeOK
  BY DEF IInv
<1> QED
  BY <1>1, Invariance, PTL

\* No slot of a bulkhead leaks, and no bulkhead lets in more than it may.
THEOREM SlotsAlwaysAccounted == Spec => []SlotsAccounted
<1>1. IInv => SlotsAccounted
  BY DEF IInv, ResolverInv, Sound, SlotsAccounted, Occupants
<1> QED
  BY <1>1, Invariance, PTL

\* A half-open circuit forgets no probe and waits for none that will not come.
THEOREM ProbesAlwaysAccounted == Spec => []ProbesAccounted
<1>1. IInv => ProbesAccounted
  BY DEF IInv, ResolverInv, Sound, ProbesAccounted, Counters
<1> QED
  BY <1>1, Invariance, PTL

\* Isolation: one organisation's failures open no other organisation's circuit.
THEOREM OnlyOwnFailuresOpen == Spec => []OpenedByOwnFailures
<1>1. ASSUME IInv, NEW w \in Workers, held[w] # None, breaker[held[w]].state # "closed"
      PROVE  failed[org[w]] >= entry[held[w]].cfg.failureThreshold
  <2>1. WorkerInv(w) /\ held[w] \in Resolvers /\ held[w] \in Referenced
    BY <1>1 DEF IInv, TypeOK, Referenced
  <2>2. ResolverInv(held[w]) /\ entry[held[w]].org = org[w]
    BY <1>1, <2>1 DEF IInv, WorkerInv, TypeOK, PCs
  <2> QED
    BY <1>1, <2>2 DEF ResolverInv, Sound
<1>2. IInv => OpenedByOwnFailures
  BY <1>1 DEF OpenedByOwnFailures
<1> QED
  BY <1>2, Invariance, PTL

-----------------------------------------------------------------------------
(* The gauge.  Before the first reload an organisation has one OrgResolver *)
(* at most, and all its workers hold that one.                             *)

Settled(w) ==
    /\ pc[w] = "for" => seen[w] = config[org[w]]
    /\ held[w] # None => held[w] = current[org[w]]

Mirrored(o) ==
    current[o] # None => /\ entry[current[o]].cfg = config[o]
                         /\ gauge[o] = breaker[current[o]].state

GaugeInv == reloads = 0 => /\ \A w \in Workers : Settled(w)
                           /\ \A o \in Orgs : Mirrored(o)

\* What a step keeps of all organisations' OrgResolvers.
KeepsCurrent ==
    /\ UNCHANGED <<config, current>>
    /\ \A o \in Orgs : current[o] # None =>
          /\ entry'[current[o]] = entry[current[o]]
          /\ \/ /\ gauge'[o] = gauge[o]
                /\ breaker'[current[o]].state = breaker[current[o]].state
             \/ gauge'[o] = breaker'[current[o]].state

LEMMA MirroredKept ==
    ASSUME KeepsCurrent, NEW o \in Orgs, Mirrored(o)
    PROVE  Mirrored(o)'
  BY DEF KeepsCurrent, Mirrored

LEMMA SettledKept ==
    ASSUME UNCHANGED <<config, current>>, NEW w \in Workers, OthersStay(w),
           \A v \in Workers : Settled(v), Settled(w)'
    PROVE  \A v \in Workers : Settled(v)'
  BY DEF OthersStay, Settled

\* A worker's own OrgResolver changes its breaker to b, and mirrors it.
LEMMA MirrorKeeps ==
    ASSUME IInv, NEW w \in Workers, pc[w] \notin {"idle", "for"}, Settled(w),
           NEW b, Mirror(held[w], b), breaker' = [breaker EXCEPT ![held[w]] = b],
           UNCHANGED <<config, current, entry>>
    PROVE  KeepsCurrent
<1> SUFFICES ASSUME NEW o \in Orgs, current[o] # None
             PROVE  \/ /\ gauge'[o] = gauge[o]
                       /\ breaker'[current[o]].state = breaker[current[o]].state
                    \/ gauge'[o] = breaker'[current[o]].state
  BY DEF KeepsCurrent
<1>1. /\ held[w] \in Resolvers /\ org[w] \in Orgs /\ entry[held[w]].org = org[w]
      /\ held[w] = current[org[w]]
  BY InsideResolver, ConfigAssumption DEF Settled
<1>2. current[o] \in Resolvers /\ entry[current[o]].org = o
  BY DEF IInv, TypeOK, CurrentInv
<1>3. gauge' = IF b.state # breaker[held[w]].state
               THEN [gauge EXCEPT ![org[w]] = b.state]
               ELSE gauge
  BY <1>1 DEF Mirror
<1>4. CASE o = org[w]
  BY <1>1, <1>3, <1>4 DEF IInv, TypeOK
<1>5. CASE o # org[w]
  BY <1>1, <1>2, <1>3, <1>5 DEF IInv, TypeOK
<1> QED
  BY <1>4, <1>5

\* Steps outside the breaker, with which OrgResolvers may be collected.
LEMMA CollectKeeps ==
    ASSUME IInv, UNCHANGED <<config, current, gauge>>,
           entry' = Collected(entry, None), breaker' = Collected(breaker, NewBreaker)
    PROVE  KeepsCurrent
<1>1. \A o \in Orgs : current[o] # None => current[o] \in Resolvers /\ current[o] \in Referenced'
  BY DEF IInv, TypeOK, Referenced
<1> QED
  BY <1>1 DEF KeepsCurrent, Collected

LEMMA GaugeInit == Init => GaugeInv
  BY ConfigAssumption DEF Init, GaugeInv, Settled, Mirrored

LEMMA RebuildGauge ==
    ASSUME IInv, NEW w \in Workers, Rebuild(w),
           \A v \in Workers : Settled(v), \A o \in Orgs : Mirrored(o)
    PROVE  /\ \A v \in Workers : Settled(v)'
           /\ \A o \in Orgs : Mirrored(o)'
<1>1. pc[w] = "for" /\ org[w] \in Orgs /\ seen[w] = config[org[w]] /\ current[org[w]] = None
  BY DEF IInv, WorkerInv, Rebuild, Settled, Mirrored
<1>2. PICK q \in Resolvers : /\ q = CHOOSE x \in Resolvers : x \notin Referenced
                            /\ q \notin Referenced
  BY DEF Rebuild
<1>3. /\ current' = [current EXCEPT ![org[w]] = q]
      /\ held' = [held EXCEPT ![w] = q]
      /\ entry' = Collected([entry EXCEPT ![q] = [org |-> org[w], cfg |-> seen[w]]], None)
      /\ breaker' = Collected([breaker EXCEPT ![q] = NewBreaker], NewBreaker)
      /\ gauge' = [gauge EXCEPT ![org[w]] = "closed"]
      /\ seen' = [seen EXCEPT ![w] = None]
      /\ pc' = [pc EXCEPT ![w] = "acquire"]
      /\ UNCHANGED <<config, org>>
  BY <1>2 DEF Rebuild
<1>4. ASSUME NEW v \in Workers
      PROVE  Settled(v)'
  <2>1. CASE v = w
    BY <1>1, <1>3, <2>1 DEF IInv, TypeOK, Settled
  <2>2. CASE v # w
    <3>1. pc'[v] = pc[v] /\ held'[v] = held[v] /\ seen'[v] = seen[v] /\ Settled(v)
      BY <1>3, <2>2 DEF IInv, TypeOK
    <3>2. CASE held[v] = None
      BY <1>3, <3>1, <3>2 DEF Settled
    <3>3. CASE held[v] # None
      <4>1. held[v] = current[org[v]] /\ org[v] # org[w]
        BY <1>1, <3>1, <3>3 DEF Settled
      <4>2. current'[org[v]] = current[org[v]]
        BY <1>3, <4>1 DEF IInv, TypeOK
      <4> QED
        BY <1>3, <3>1, <4>1, <4>2 DEF Settled
    <3> QED
      BY <3>2, <3>3
  <2> QED
    BY <2>1, <2>2
<1>5. ASSUME NEW o \in Orgs
      PROVE  Mirrored(o)'
  <2>1. CASE o = org[w]
    <3>1. current'[o] = q /\ gauge'[o] = "closed" /\ q \in Referenced'
      BY <1>3, <2>1 DEF IInv, TypeOK, Referenced
    <3>2. entry'[q] = [org |-> org[w], cfg |-> seen[w]] /\ breaker'[q] = NewBreaker
      BY <1>2, <1>3, <3>1 DEF IInv, TypeOK, Collected
    <3> QED
      BY <1>1, <1>3, <2>1, <3>1, <3>2 DEF Mirrored, NewBreaker
  <2>2. CASE o # org[w]
    <3>1. current'[o] = current[o] /\ gauge'[o] = gauge[o] /\ config'[o] = config[o]
      BY <1>3, <2>2 DEF IInv, TypeOK
    <3>2. ASSUME current[o] # None
          PROVE  entry'[current[o]] = entry[current[o]] /\ breaker'[current[o]] = breaker[current[o]]
      <4>1. /\ current[o] \in Resolvers /\ current[o] \in Referenced /\ current[o] \in Referenced'
        BY <3>1, <3>2 DEF IInv, TypeOK, Referenced
      <4> QED
        BY <1>2, <1>3, <4>1 DEF IInv, TypeOK, Collected
    <3> QED
      BY <3>1, <3>2 DEF Mirrored
  <2> QED
    BY <2>1, <2>2
<1> QED
  BY <1>4, <1>5

\* The other steps of a worker.
LEMMA ProceedGauge ==
    ASSUME IInv, NEW w \in Workers, Proceed(w), ~Rebuild(w), \A v \in Workers : Settled(v)
    PROVE  KeepsCurrent /\ \A v \in Workers : Settled(v)'
<1>1. CASE Reuse(w)
  <2>1. KeepsCurrent
    BY <1>1 DEF Reuse, KeepsCurrent, registry
  <2>2. held' = [held EXCEPT ![w] = current[org[w]]] /\ pc' = [pc EXCEPT ![w] = "acquire"]
        /\ seen' = [seen EXCEPT ![w] = None] /\ UNCHANGED <<config, current, org>>
    BY <1>1 DEF Reuse, registry
  <2> QED
    BY <2>1, <2>2 DEF IInv, TypeOK, Settled
<1>2. CASE Acquire(w)
  <2>1. KeepsCurrent
    BY <1>2 DEF Acquire, KeepsCurrent, registry
  <2> QED
    BY <1>2, <2>1 DEF Acquire, registry, IInv, TypeOK, Settled
<1>3. CASE Reject(w) \/ Release(w)
  <2>1. KeepsCurrent
    BY <1>3, CollectKeeps DEF Reject, Release
  <2>2. /\ OthersStay(w) /\ UNCHANGED <<config, current>>
        /\ \/ held'[w] = held[w] /\ org'[w] = org[w] /\ pc'[w] = "acquire"
           \/ held'[w] = None /\ pc'[w] = "idle"
    BY <1>3, NextUserSteps DEF Reject, Release
  <2>3. Settled(w)'
    BY <2>2 DEF Settled
  <2> QED
    BY <2>1, <2>2, <2>3, SettledKept
<1>4. CASE Admit(w) \/ ShortCircuit(w) \/ \E ok \in BOOLEAN : Return(w, ok)
  <2>1. PICK b : Mirror(held[w], b) /\ breaker' = [breaker EXCEPT ![held[w]] = b]
    <3>1. CASE Admit(w)
      <4> DEFINE b == CurrentState(breaker[held[w]])
      <4>1. Mirror(held[w], b) /\ breaker' = [breaker EXCEPT ![held[w]] = Counted(b)]
            /\ pc[w] \notin {"idle", "for"}
        BY <3>1 DEF Admit
      <4>2. b \in Breaker
        BY <4>1, InsideResolver, CurrentStateTyped
      <4>3. Counted(b).state = b.state
        BY <4>2 DEF Counted, Breaker
      <4>4. Mirror(held[w], Counted(b))
        BY <4>1, <4>3 DEF Mirror
      <4> QED
        BY <4>1, <4>4
    <3>2. CASE ShortCircuit(w)
      BY <3>2 DEF ShortCircuit
    <3>3. CASE \E ok \in BOOLEAN : Return(w, ok)
      BY <3>3 DEF Return
    <3> QED
      BY <1>4, <3>1, <3>2, <3>3
  <2>2. /\ pc[w] \notin {"idle", "for"} /\ UNCHANGED <<config, current, entry, org, seen, held>>
        /\ pc' \in {[pc EXCEPT ![w] = "call"], [pc EXCEPT ![w] = "release"]}
    BY <1>4 DEF Admit, ShortCircuit, Return
  <2>3. KeepsCurrent
    BY <2>1, <2>2, MirrorKeeps
  <2> QED
    BY <2>2, <2>3 DEF IInv, TypeOK, Settled
<1> QED
  BY <1>1, <1>2, <1>3, <1>4 DEF Proceed

LEMMA GaugeStep ==
    ASSUME IInv, GaugeInv, [Next]_vars
    PROVE  GaugeInv'
<1> SUFFICES ASSUME reloads' = 0
             PROVE  /\ \A w \in Workers : Settled(w)'
                    /\ \A o \in Orgs : Mirrored(o)'
  BY DEF GaugeInv
<1>1. ASSUME NEW o \in Orgs, Reload(o)
      PROVE  FALSE
  BY <1>1 DEF Reload, IInv, TypeOK
<1>2. ASSUME NEW w \in Workers, Start(w) \/ Proceed(w)
      PROVE  reloads' = reloads
  BY <1>2 DEF Start, Proceed, Reuse, Rebuild, Acquire, Reject, Admit, ShortCircuit, Return, Release,
     registry
<1>3. reloads = 0 /\ (\A w \in Workers : Settled(w)) /\ \A o \in Orgs : Mirrored(o)
  BY <1>1, <1>2 DEF Next, Expire, registry, vars, GaugeInv
<1>4. ASSUME NEW w \in Workers, Start(w)
      PROVE  KeepsCurrent /\ \A v \in Workers : Settled(v)'
  <2>1. KeepsCurrent /\ UNCHANGED <<config, current, held>>
    BY <1>4 DEF Start, KeepsCurrent, registry
  <2>2. PICK o \in Orgs : org' = [org EXCEPT ![w] = o] /\ seen' = [seen EXCEPT ![w] = config[o]]
    BY <1>4 DEF Start
  <2>3. held[w] = None /\ pc' = [pc EXCEPT ![w] = "for"]
    BY <1>4 DEF Start, IInv, WorkerInv
  <2> QED
    BY <1>3, <2>1, <2>2, <2>3 DEF IInv, TypeOK, Settled
<1>5. ASSUME NEW r \in Resolvers, Expire(r)
      PROVE  KeepsCurrent /\ \A v \in Workers : Settled(v)'
  <2>1. \A q \in Resolvers : breaker'[q].state = breaker[q].state
    BY <1>5 DEF Expire, IInv, TypeOK, Breaker
  <2> QED
    BY <1>3, <1>5, <2>1 DEF Expire, registry, workers, KeepsCurrent, Settled, IInv, TypeOK
<1>6. CASE UNCHANGED vars
  BY <1>3, <1>6 DEF vars, registry, workers, Settled, Mirrored
<1>7. CASE \E w \in Workers : Rebuild(w)
  BY <1>3, <1>7, RebuildGauge
<1>8. CASE KeepsCurrent /\ \A v \in Workers : Settled(v)'
  BY <1>3, <1>8, MirroredKept
<1> QED
  BY <1>1, <1>3, <1>4, <1>5, <1>6, <1>7, <1>8, ProceedGauge DEF Next

\* The gauge tells the truth until the first reload: the invariant adds that
\* till then whoever holds an OrgResolver holds its organisation's only one.
THEOREM GaugeTrue == Spec => []GaugeShowsCircuit
<1>1. GaugeInv => GaugeShowsCircuit
  BY DEF GaugeInv, Mirrored, GaugeShowsCircuit
<1> QED
  BY GaugeInit, GaugeStep, Invariance, <1>1, PTL DEF Spec
=============================================================================
