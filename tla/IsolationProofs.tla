-------------------------- MODULE IsolationProofs --------------------------
(***************************************************************************)
(* The proof that the resolver registry implements Isolation.  A step of a *)
(* worker concerns the gate of its own organisation, and that only while   *)
(* the worker's OrgResolver is the organisation's current one.  What the   *)
(* gate then does follows from the invariant of ResolverRegistryProofs:    *)
(* the semaphore counts the workers inside, and a half-open breaker admits *)
(* a probe exactly when those that are out or succeeded are too few.       *)
(***************************************************************************)
EXTENDS ResolverRegistryProofs

-----------------------------------------------------------------------------
(* Gates.                                                                  *)

\* The gate to organisation o while r is its OrgResolver.
GateAt(r) ==
    [limits |-> entry[r].cfg, inside |-> slots[r],
     state |-> breaker[r].state, cooled |-> breaker[r].expired,
     count |-> IF breaker[r].state = "halfOpen" THEN breaker[r].succeeded ELSE breaker[r].failures,
     asked |-> IF breaker[r].state = "open" THEN 0 ELSE Cardinality(Counters(r))]

LEMMA GateIs ==
    ASSUME NEW o \in Orgs, NEW r, current[o] = r, r # None
    PROVE  Gate(o) = GateAt(r)
  BY DEF Gate, GateAt, Counters

LEMMA GateIsNext ==
    ASSUME NEW o \in Orgs, NEW r, current'[o] = r, r # None
    PROVE  Gate(o)' = GateAt(r)'
  BY DEF Gate, GateAt, Counters

\* A step that changes one organisation's gate, and one that changes none.
LEMMA OneGate ==
    ASSUME NEW o \in Orgs, NEW g, Gate(o)' = g, \A p \in Orgs \ {o} : Gate(p)' = Gate(p)
    PROVE  Promise!Becomes(o, g)
  BY DEF Promise!Becomes, Gates

LEMMA NoGate ==
    ASSUME \A o \in Orgs : Gate(o)' = Gate(o)
    PROVE  UNCHANGED Gates
  BY DEF Gates

LEMMA GateKept ==
    ASSUME NEW o \in Orgs, current'[o] = current[o], NEW r, r = current[o],
           r # None => entry'[r] = entry[r] /\ slots'[r] = slots[r] /\ breaker'[r] = breaker[r]
                       /\ Counters(r)' = Counters(r)
    PROVE  Gate(o)' = Gate(o)
<1>1. CASE r = None
  BY <1>1 DEF Gate
<1>2. CASE r # None
  <2>1. Gate(o) = GateAt(r) /\ Gate(o)' = GateAt(r)'
    BY <1>2, GateIs, GateIsNext
  <2>2. GateAt(r)' = GateAt(r)
    BY <1>2 DEF GateAt
  <2> QED
    BY <2>1, <2>2
<1> QED
  BY <1>1, <1>2

\* An OrgResolver is the current one of one organisation at most.
LEMMA OwnGate ==
    ASSUME IInv, NEW o \in Orgs, NEW p \in Orgs \ {o}, current[o] # None
    PROVE  current[p] # current[o]
  BY DEF IInv, CurrentInv

LEMMA CurrentTyped ==
    ASSUME IInv, NEW o \in Orgs, current[o] # None
    PROVE  /\ current[o] \in Resolvers /\ current[o] \in Referenced
           /\ entry[current[o]] \in Entry /\ entry[current[o]].org = o
           /\ entry[current[o]].cfg \in Configs
           /\ slots[current[o]] \in Nat /\ breaker[current[o]] \in Breaker
  BY DEF IInv, TypeOK, CurrentInv, Referenced, Entry

\* A step of worker w that concerns no OrgResolver but q leaves the gates of
\* the organisations alone that have another one.
LEMMA OthersKept ==
    ASSUME IInv, NEW w \in Workers, OthersStay(w), NEW q \in Resolvers,
           held[w] \in {q, None}, held'[w] \in {q, None},
           \A r \in Resolvers \ {q} : r \in Referenced' =>
               entry'[r] = entry[r] /\ slots'[r] = slots[r] /\ breaker'[r] = breaker[r],
           NEW o \in Orgs, current[o] # q, current'[o] = current[o]
    PROVE  Gate(o)' = Gate(o)
<1>1. PICK r : r = current[o]
  OBVIOUS
<1>2. CASE r # None
  <2>1. r \in Resolvers \ {q} /\ r \in Referenced'
    BY <1>1, <1>2, CurrentTyped DEF Referenced
  <2>2. entry'[r] = entry[r] /\ slots'[r] = slots[r] /\ breaker'[r] = breaker[r]
    BY <2>1
  <2>3. ~Counting(w, r) /\ ~Counting(w, r)'
    BY <1>2, <2>1 DEF Counting
  <2>4. Counters(r)' = Counters(r)
    BY <2>2, <2>3, CountersMove
  <2> QED
    BY <1>1, <2>2, <2>4, GateKept
<1> QED
  BY <1>1, <1>2, GateKept
-----------------------------------------------------------------------------
(* Where a worker works.                                                   *)

\* A step that concerns worker w and its OrgResolver q only: either no gate
\* changes, or q is the current one of q's organisation and just its gate does.
LEMMA WorkersGate ==
    ASSUME IInv, NEW w \in Workers, OthersStay(w), NEW q \in Resolvers, current' = current,
           held[w] \in {q, None}, held'[w] \in {q, None},
           \A r \in Resolvers \ {q} : r \in Referenced' =>
               entry'[r] = entry[r] /\ slots'[r] = slots[r] /\ breaker'[r] = breaker[r],
           NEW g, \A o \in Orgs : current[o] = q => GateAt(q)' = g,
           \A o \in Orgs : current[o] = q /\ Promise!Becomes(o, g) => Promise!Next \/ UNCHANGED Gates
    PROVE  Promise!Next \/ UNCHANGED Gates
<1>1. q # None
  BY ConfigAssumption
<1>2. \A o \in Orgs : current[o] # q => Gate(o)' = Gate(o)
  BY OthersKept
<1>3. \A o \in Orgs : current[o] = q => Gate(o) = GateAt(q) /\ Gate(o)' = GateAt(q)'
  BY <1>1, GateIs, GateIsNext
<1>4. CASE \A o \in Orgs : current[o] # q
  BY <1>2, <1>4, NoGate
<1>5. ASSUME NEW o \in Orgs, current[o] = q
      PROVE  Promise!Next \/ UNCHANGED Gates
  <2>1. \A p \in Orgs \ {o} : Gate(p)' = Gate(p)
    BY <1>1, <1>2, <1>5, OwnGate
  <2>2. Promise!Becomes(o, g)
    BY <1>3, <1>5, <2>1, OneGate
  <2> QED
    BY <1>5, <2>2
<1> QED
  BY <1>4, <1>5

LEMMA StartGate ==
    ASSUME IInv, NEW w \in Workers, Start(w)
    PROVE  UNCHANGED Gates
<1>1. UNCHANGED <<current, entry, slots, breaker, held, generation>> /\ pc[w] = "idle"
      /\ pc' = [pc EXCEPT ![w] = "for"]
  BY DEF Start, registry
<1>2. \A r : Counters(r)' = Counters(r)
  BY <1>1 DEF Counters, Counting, IInv, TypeOK
<1>3. \A o \in Orgs : Gate(o)' = Gate(o)
  BY <1>1, <1>2, GateKept
<1> QED
  BY <1>3, NoGate

LEMMA ReuseGate ==
    ASSUME IInv, NEW w \in Workers, Reuse(w)
    PROVE  UNCHANGED Gates
<1>1. UNCHANGED <<current, entry, slots, breaker, generation>> /\ pc[w] = "for"
      /\ pc' = [pc EXCEPT ![w] = "acquire"] /\ \A v \in Workers \ {w} : held'[v] = held[v]
  BY DEF Reuse, registry, IInv, TypeOK
<1>2. \A r : Counters(r)' = Counters(r)
  BY <1>1 DEF Counters, Counting, IInv, TypeOK
<1>3. \A o \in Orgs : Gate(o)' = Gate(o)
  BY <1>1, <1>2, GateKept
<1> QED
  BY <1>3, NoGate

\* A gate is replaced by one with other limits.
LEMMA RebuildGate ==
    ASSUME IInv, NEW w \in Workers, Rebuild(w)
    PROVE  Promise!Next
<1>1. pc[w] = "for" /\ held[w] = None
  BY DEF IInv, Rebuild, WorkerInv
<1>0. PICK o \in Orgs, c \in Configs : o = org[w] /\ c = seen[w]
  BY <1>1 DEF IInv, WorkerInv
<1>2. PICK q \in Resolvers : /\ q = CHOOSE x \in Resolvers : x \notin Referenced
                            /\ q \notin Referenced
  BY DEF Rebuild
<1>3. /\ current' = [current EXCEPT ![o] = q]
      /\ held' = [held EXCEPT ![w] = q]
      /\ entry' = Collected([entry EXCEPT ![q] = [org |-> o, cfg |-> c]], None)
      /\ slots' = Collected([slots EXCEPT ![q] = 0], 0)
      /\ breaker' = Collected([breaker EXCEPT ![q] = NewBreaker], NewBreaker)
      /\ pc' = [pc EXCEPT ![w] = "acquire"]
      /\ UNCHANGED generation
  BY <1>0, <1>2 DEF Rebuild
<1>4. OthersStay(w) /\ held'[w] = q /\ pc'[w] = "acquire" /\ current'[o] = q
  BY <1>1, <1>3 DEF Rebuild, IInv, TypeOK, OthersStay
<1>5. q # None /\ q \in Referenced'
  BY <1>1, <1>4, ConfigAssumption DEF Referenced
<1>6. entry'[q].cfg = c /\ slots'[q] = 0 /\ breaker'[q] = NewBreaker
  BY <1>3, <1>5 DEF Collected, IInv, TypeOK
<1>7. Counters(q)' = {}
  BY <1>2, <1>4 DEF Counters, Counting, OthersStay, Referenced
<1>8. Gate(o)' = Promise!Fresh(c)
  <2>1. Gate(o)' = GateAt(q)'
    BY <1>1, <1>4, <1>5, GateIsNext
  <2>2. Cardinality(Counters(q)') = 0
    BY <1>7, FS_EmptySet
  <2>3. breaker'[q].state = "closed" /\ breaker'[q].expired = FALSE /\ breaker'[q].failures = 0
    BY <1>6 DEF NewBreaker
  <2> QED
    BY <1>6, <2>1, <2>2, <2>3 DEF GateAt, Promise!Fresh
<1>9. ASSUME NEW p \in Orgs \ {o}
      PROVE  Gate(p)' = Gate(p)
  <2>1. current[p] # q /\ current'[p] = current[p]
    BY <1>1, <1>2, <1>3, <1>9 DEF Referenced, IInv, TypeOK
  <2>2. \A r \in Resolvers \ {q} : r \in Referenced' =>
            entry'[r] = entry[r] /\ slots'[r] = slots[r] /\ breaker'[r] = breaker[r]
    BY <1>3 DEF Collected, IInv, TypeOK
  <2> QED
    BY <1>1, <1>4, <2>1, <2>2, OthersKept
<1>10. c # Gate(o).limits
  <2>1. CASE current[o] = None
    BY <1>1, <2>1, ConfigAssumption DEF Gate
  <2>2. CASE current[o] # None
    <3>1. entry[current[o]].cfg # c
      BY <1>0, <2>2 DEF Rebuild
    <3> QED
      BY <1>1, <2>2, <3>1 DEF Gate
  <2> QED
    BY <2>1, <2>2
<1>11. Promise!Replace(o)
  <2>1. Promise!Becomes(o, Promise!Fresh(c))
    BY <1>1, <1>8, <1>9, OneGate
  <2>2. c \in Configs \ {Gates[o].limits}
    BY <1>1, <1>10 DEF Gates
  <2> QED
    BY <2>1, <2>2 DEF Promise!Replace
<1> QED
  BY <1>1, <1>11 DEF Promise!Next

-----------------------------------------------------------------------------
(* The steps inside an OrgResolver.                                        *)

LEMMA GateHere ==
    ASSUME NEW o \in Orgs, NEW q \in Resolvers, current[o] = q
    PROVE  Gates[o] = GateAt(q)
  BY GateIs, ConfigAssumption DEF Gates

\* Of the workers inside, w's request is not out.
LEMMA CountersFewer ==
    ASSUME NEW q, NEW w \in Occupants(q), Counters(q) \subseteq Occupants(q) \ {w}
    PROVE  Cardinality(Counters(q)) < Cardinality(Occupants(q)) /\ Cardinality(Counters(q)) \in Nat
<1>1. Occupants(q) \in SUBSET Workers /\ Counters(q) \in SUBSET Workers
  BY DEF Occupants, Counters
<1>2. IsFiniteSet(Occupants(q)) /\ Cardinality(Occupants(q)) \in Nat /\ Cardinality(Counters(q)) \in Nat
  BY <1>1, FiniteSubsets
<1>3. IsFiniteSet(Occupants(q) \ {w}) /\ Cardinality(Occupants(q) \ {w}) = Cardinality(Occupants(q)) - 1
  BY <1>2, FS_RemoveElement
<1>4. Cardinality(Counters(q)) <= Cardinality(Occupants(q) \ {w})
  BY <1>3, FS_Subset
<1> QED
  BY <1>2, <1>3, <1>4

LEMMA AcquireGate ==
    ASSUME IInv, NEW w \in Workers, Acquire(w)
    PROVE  Promise!Next \/ UNCHANGED Gates
<1>1. PICK q \in Resolvers : q = held[w] /\ entry[q].cfg \in Configs /\ slots[q] \in Nat
  BY InsideResolver DEF Acquire
<1>2. /\ pc[w] = "acquire" /\ slots[q] < entry[q].cfg.maxConcurrency
      /\ slots' = [slots EXCEPT ![q] = @ + 1] /\ pc' = [pc EXCEPT ![w] = "admit"]
      /\ UNCHANGED <<current, entry, breaker, org, seen, held, generation>>
  BY <1>1 DEF Acquire, registry
<1>3. OthersStay(w) /\ pc'[w] = "admit" /\ slots'[q] = slots[q] + 1
      /\ \A r \in Resolvers \ {q} : slots'[r] = slots[r]
  BY <1>2 DEF IInv, TypeOK, OthersStay
<1>4. Counters(q)' = Counters(q)
  BY <1>2, <1>3, CountersMove DEF Counting
<1> DEFINE g == [GateAt(q) EXCEPT !.inside = @ + 1]
<1>5. GateAt(q)' = g
  BY <1>2, <1>3, <1>4 DEF GateAt
<1>6. ASSUME NEW o \in Orgs, current[o] = q, Promise!Becomes(o, g)
      PROVE  Promise!Next
  <2>1. Gates[o] = GateAt(q)
    BY <1>6, GateHere
  <2>2. GateAt(q).limits # None /\ GateAt(q).inside < GateAt(q).limits.maxConcurrency
    BY <1>1, <1>2, ConfigAssumption DEF GateAt
  <2>3. Promise!Enter(o)
    BY <1>6, <2>1, <2>2 DEF Promise!Enter
  <2> QED
    BY <2>3 DEF Promise!Next
<1> HIDE DEF g
<1> QED
  BY <1>1, <1>2, <1>3, <1>5, <1>6, WorkersGate

\* A worker that leaves ResolveUser: one that was turned away was never in.
LEMMA LeaveGate ==
    ASSUME IInv, NEW w \in Workers, Reject(w) \/ Release(w)
    PROVE  Promise!Next \/ UNCHANGED Gates
<1>1. PICK q \in Resolvers : q = held[w] /\ slots[q] \in Nat /\ ResolverInv(q)
  BY InsideResolver DEF Reject, Release
<1>2. PICK f \in [Resolvers -> Int] :
         /\ entry' = Collected(entry, None) /\ slots' = Collected(f, 0)
         /\ breaker' = Collected(breaker, NewBreaker)
         /\ \A r \in Resolvers \ {q} : f[r] = slots[r]
         /\ \/ f[q] = slots[q]
            \/ f[q] = slots[q] - 1 /\ pc[w] = "release"
  <2>1. CASE Reject(w)
    BY <2>1 DEF Reject, IInv, TypeOK
  <2>2. CASE Release(w)
    <3>1. [slots EXCEPT ![q] = @ - 1] \in [Resolvers -> Int]
      BY DEF IInv, TypeOK
    <3> QED
      BY <1>1, <2>2, <3>1 DEF Release, IInv, TypeOK
  <2> QED
    BY <2>1, <2>2
<1>3. pc[w] \in {"acquire", "release"} /\ UNCHANGED <<current, seen, generation>> /\ NextUser(w)
  BY DEF Reject, Release
<1>4. OthersStay(w) /\ held'[w] \in {q, None} /\ pc'[w] \in {"acquire", "idle"}
  BY <1>1, <1>3, NextUserSteps
<1>5. \A r \in Resolvers \ {q} : r \in Referenced' =>
          entry'[r] = entry[r] /\ slots'[r] = slots[r] /\ breaker'[r] = breaker[r]
  BY <1>2 DEF Collected
<1> DEFINE g == [GateAt(q) EXCEPT !.inside = f[q]]
<1>6. ASSUME NEW o \in Orgs, current[o] = q
      PROVE  GateAt(q)' = g
  <2>1. q \in Referenced'
    BY <1>3, <1>6 DEF Referenced
  <2>2. entry'[q] = entry[q] /\ slots'[q] = f[q] /\ breaker'[q] = breaker[q]
    BY <1>2, <2>1 DEF Collected
  <2>3. Counters(q)' = Counters(q)
    BY <1>3, <1>4, <2>2, CountersMove DEF Counting
  <2> QED
    BY <2>2, <2>3 DEF GateAt
<1>7. ASSUME NEW o \in Orgs, current[o] = q, Promise!Becomes(o, g)
      PROVE  Promise!Next \/ UNCHANGED Gates
  <2>1. Gates[o] = GateAt(q)
    BY <1>7, GateHere
  <2>2. CASE f[q] = slots[q]
    <3>1. g = GateAt(q)
      BY <2>2 DEF GateAt
    <3> QED
      BY <1>7, <2>1, <3>1 DEF Promise!Becomes, Gates
  <2>3. CASE f[q] = slots[q] - 1 /\ pc[w] = "release"
    <3>1. g = [GateAt(q) EXCEPT !.inside = @ - 1]
      BY <2>3 DEF GateAt
    <3>2. GateAt(q).asked < GateAt(q).inside
      <4>1. Counters(q) \subseteq Occupants(q) \ {w} /\ w \in Occupants(q)
        BY <1>1, <2>3 DEF Counters, Counting, Occupants, Occupies
      <4>2. slots[q] = Cardinality(Occupants(q))
        BY <1>1 DEF ResolverInv, Sound
      <4>3. Cardinality(Counters(q)) < slots[q] /\ slots[q] > 0
        BY <1>1, <4>1, <4>2, CountersFewer
      <4> QED
        BY <4>3 DEF GateAt
    <3>3. Promise!Leave(o)
      BY <1>7, <2>1, <3>1, <3>2 DEF Promise!Leave
    <3> QED
      BY <3>3 DEF Promise!Next
  <2> QED
    BY <1>2, <2>2, <2>3
<1> HIDE DEF g
<1> QED
  BY <1>1, <1>3, <1>4, <1>5, <1>6, <1>7, WorkersGate

\* A request asks the directory, of a circuit that lets it.
LEMMA AdmitGate ==
    ASSUME IInv, NEW w \in Workers, Admit(w)
    PROVE  Promise!Next \/ UNCHANGED Gates
<1>1. PICK q \in Resolvers :
         /\ q = held[w] /\ entry[q].cfg \in Configs /\ slots[q] \in Nat /\ breaker[q] \in Breaker
         /\ ResolverInv(q)
  BY InsideResolver DEF Admit
<1>2. PICK b \in Breaker : b = CurrentState(breaker[q])
  BY <1>1, CurrentStateTyped
<1>3. /\ pc[w] = "admit" /\ Admits(b, entry[q].cfg)
      /\ breaker' = [breaker EXCEPT ![q] = Counted(b)]
      /\ generation' = [generation EXCEPT ![w] = b.generation]
      /\ pc' = [pc EXCEPT ![w] = "call"]
      /\ UNCHANGED <<current, entry, slots, org, seen, held>>
  BY <1>1, <1>2 DEF Admit
<1>4. /\ Counted(b).generation = b.generation /\ Counted(b).state = b.state
      /\ Counted(b).succeeded = b.succeeded /\ Counted(b).failures = b.failures
      /\ Counted(b).expired = b.expired
  BY DEF Counted, Breaker
<1>5. OthersStay(w) /\ pc'[w] = "call" /\ generation'[w] = b.generation
      /\ breaker'[q] = Counted(b) /\ \A r \in Resolvers \ {q} : breaker'[r] = breaker[r]
  BY <1>3 DEF IInv, TypeOK, OthersStay
<1>6. Counting(w, q)' /\ ~Counting(w, q)
  BY <1>1, <1>3, <1>4, <1>5 DEF Counting
<1>7. b.state # "open"
  BY <1>3 DEF Admits
<1> DEFINE met == Promise!Met(GateAt(q))
           g   == [met EXCEPT !.asked = @ + 1]
<1>8. Cardinality(Counters(q)) \in Nat /\ Cardinality(Counters(q)) < slots[q]
  <2>1. Counters(q) \subseteq Occupants(q) \ {w} /\ w \in Occupants(q)
    BY <1>1, <1>3 DEF Counters, Counting, Occupants, Occupies
  <2>2. slots[q] = Cardinality(Occupants(q))
    BY <1>1 DEF ResolverInv, Sound
  <2> QED
    BY <2>1, <2>2, CountersFewer
<1>9. /\ GateAt(q)' = g /\ met.asked < met.inside
      /\ \/ met.state = "closed"
         \/ met.state = "halfOpen" /\ met.count + met.asked < met.limits.halfOpenProbes
  <2>1. CASE b = breaker[q]
    <3>1. Counters(q)' = Counters(q) \cup {w} /\ w \notin Counters(q) /\ Counters(q) \in SUBSET Workers
      BY <1>4, <1>5, <1>6, <2>1, CountersMove DEF Counters
    <3>2. Cardinality(Counters(q)') = Cardinality(Counters(q)) + 1
      BY <3>1, CardinalityWith
    <3>3. met = GateAt(q)
      BY <1>7, <2>1 DEF Promise!Met, GateAt
    <3>4. GateAt(q)' = g
      BY <1>3, <1>4, <1>5, <1>7, <2>1, <3>2, <3>3 DEF GateAt
    <3>5. b.state = "halfOpen" => b.succeeded + Cardinality(Counters(q)) < entry[q].cfg.halfOpenProbes
      BY <1>1, <1>3, <2>1 DEF Admits, ResolverInv, Sound
    <3>6. b.state \in {"closed", "halfOpen"}
      BY <1>7 DEF Breaker, States
    <3> QED
      BY <1>8, <2>1, <3>3, <3>4, <3>5, <3>6 DEF GateAt
  <2>2. CASE b # breaker[q]
    <3>1. breaker[q].state = "open" /\ breaker[q].expired /\ b = Enter("halfOpen", breaker[q])
      BY <1>2, <2>2 DEF CurrentState
    <3>2. /\ b.state = "halfOpen" /\ b.generation = breaker[q].generation + 1
          /\ b.succeeded = 0 /\ b.expired = FALSE
      BY <3>1 DEF Enter
    <3>3. Cardinality(Counters(q)') = 1
      <4>1. Counters(q)' = {w}
        BY <1>4, <1>5, <1>6, <3>2, CountersOfNewGeneration DEF IInv
      <4> QED
        BY <4>1, FS_Singleton
    <3>4. met = [limits |-> entry[q].cfg, inside |-> slots[q], state |-> "halfOpen",
                 cooled |-> b.expired, count |-> 0, asked |-> 0]
      BY <3>1, <3>2 DEF Promise!Met, Promise!Turned, GateAt
    <3>5. GateAt(q)' = g
      <4> HIDE DEF met
      <4>1. g = [limits |-> entry[q].cfg, inside |-> slots[q], state |-> "halfOpen",
                 cooled |-> b.expired, count |-> 0, asked |-> 0 + 1]
        BY <3>4
      <4>2. /\ breaker'[q].state = "halfOpen" /\ breaker'[q].expired = b.expired
            /\ breaker'[q].succeeded = 0 /\ entry'[q] = entry[q] /\ slots'[q] = slots[q]
        BY <1>3, <1>4, <1>5, <3>2
      <4> HIDE DEF g
      <4> QED
        BY <3>3, <4>1, <4>2 DEF GateAt
    <3> QED
      BY <1>1, <1>8, <3>4, <3>5, ConfigFields
  <2> QED
    BY <2>1, <2>2
<1>10. ASSUME NEW o \in Orgs, current[o] = q, Promise!Becomes(o, g)
       PROVE  Promise!Next
  <2>1. Gates[o] = GateAt(q)
    BY <1>10, GateHere
  <2>2. Promise!Ask(o)
    BY <1>9, <1>10, <2>1 DEF Promise!Ask
  <2> QED
    BY <2>2 DEF Promise!Next
<1> HIDE DEF g, met
<1> QED
  BY <1>1, <1>3, <1>5, <1>9, <1>10, WorkersGate

\* A request that is short-circuited found no circuit whose time is over.
LEMMA ShortCircuitGate ==
    ASSUME IInv, NEW w \in Workers, ShortCircuit(w)
    PROVE  UNCHANGED Gates
<1>1. PICK q \in Resolvers :
         q = held[w] /\ entry[q].cfg \in Configs /\ breaker[q] \in Breaker
  BY InsideResolver DEF ShortCircuit
<1>2. CurrentState(breaker[q]) = breaker[q]
  BY <1>1, ConfigFields, CurrentStateSteps DEF ShortCircuit, Admits
<1>3. /\ pc[w] = "admit" /\ pc' = [pc EXCEPT ![w] = "release"]
      /\ UNCHANGED <<current, entry, slots, breaker, held, generation>>
  BY <1>1, <1>2 DEF ShortCircuit, IInv, TypeOK
<1>4. \A r : Counters(r)' = Counters(r)
  BY <1>3 DEF Counters, Counting, IInv, TypeOK
<1>5. \A o \in Orgs : Gate(o)' = Gate(o)
  BY <1>3, <1>4, GateKept
<1> QED
  BY <1>5, NoGate

\* What an outcome that counts does to a gate.
LEMMA OutcomeCounts ==
    ASSUME IInv, NEW o \in Orgs, NEW q \in Resolvers, current[o] = q, entry[q].cfg \in Configs,
           breaker[q] \in Breaker, breaker[q].state # "open", NEW ok \in BOOLEAN,
           Cardinality(Counters(q)) > 0,
           NEW a, a = IF ok THEN OnSuccess(breaker[q], entry[q].cfg)
                            ELSE OnFailure(breaker[q], entry[q].cfg),
           breaker'[q] = a, entry'[q] = entry[q], slots'[q] = slots[q],
           Cardinality(Counters(q)') = IF a.generation = breaker[q].generation
                                       THEN Cardinality(Counters(q)) - 1 ELSE 0,
           Promise!Becomes(o, GateAt(q)')
    PROVE  Promise!Next
<1>1. PICK b, n : b = breaker[q] /\ n = Cardinality(Counters(q))
  OBVIOUS
<1>2. PICK l : l = entry[q].cfg /\ l.halfOpenProbes \in Nat /\ l.failureThreshold \in Nat
  BY ConfigFields
<1>3. Gates[o] = [limits |-> l, inside |-> slots[q], state |-> b.state, cooled |-> b.expired,
                  count |-> IF b.state = "halfOpen" THEN b.succeeded ELSE b.failures,
                  asked |-> n]
  BY <1>1, <1>2, GateHere DEF GateAt
<1> DEFINE g == [Gates[o] EXCEPT !.asked = @ - 1]
<1>4. g = [limits |-> l, inside |-> slots[q], state |-> b.state, cooled |-> b.expired,
           count |-> IF b.state = "halfOpen" THEN b.succeeded ELSE b.failures,
           asked |-> n - 1]
  BY <1>3
<1>5. GateAt(q)' = [limits |-> l, inside |-> slots[q], state |-> a.state, cooled |-> a.expired,
                    count |-> IF a.state = "halfOpen" THEN a.succeeded ELSE a.failures,
                    asked |-> IF a.state = "open" \/ a.generation # b.generation
                              THEN 0 ELSE n - 1]
  BY <1>1, <1>2 DEF GateAt
<1>6. b \in Breaker /\ b.state \in {"closed", "halfOpen"} /\ Gates[o].asked > 0
  BY <1>1, <1>3 DEF Breaker, States
<1> HIDE DEF g
<1>7. CASE ok /\ b.state = "closed"
  <2>1. a = [b EXCEPT !.failures = 0]
    BY <1>1, <1>7 DEF OnSuccess
  <2>2. GateAt(q)' = [g EXCEPT !.count = 0]
    BY <1>4, <1>5, <1>6, <1>7, <2>1 DEF Breaker
  <2>3. Promise!Succeed(o)
    BY <1>4, <1>6, <1>7, <2>2 DEF Promise!Succeed, g
  <2> QED
    BY <2>3 DEF Promise!Next
<1>8. CASE ok /\ b.state = "halfOpen" /\ b.succeeded + 1 < l.halfOpenProbes
  <2>1. a = [b EXCEPT !.succeeded = @ + 1]
    BY <1>1, <1>2, <1>6, <1>8 DEF OnSuccess, Breaker
  <2>2. GateAt(q)' = [g EXCEPT !.count = @ + 1]
    BY <1>4, <1>5, <1>6, <1>8, <2>1 DEF Breaker
  <2>3. g.state = "halfOpen" /\ g.count + 1 < g.limits.halfOpenProbes
    BY <1>4, <1>8
  <2>4. Promise!Succeed(o)
    BY <1>6, <2>2, <2>3 DEF Promise!Succeed, g
  <2> QED
    BY <2>4 DEF Promise!Next
<1>9. CASE ok /\ b.state = "halfOpen" /\ ~(b.succeeded + 1 < l.halfOpenProbes)
  <2>1. a = Enter("closed", b)
    BY <1>1, <1>2, <1>6, <1>9 DEF OnSuccess, Breaker
  <2>2. GateAt(q)' = Promise!Turned(g, "closed")
    <3>1. /\ a.state = "closed" /\ a.expired = FALSE /\ a.failures = 0
          /\ a.generation # b.generation
      BY <1>6, <2>1 DEF Breaker, Enter
    <3>2. Promise!Turned(g, "closed") =
              [limits |-> l, inside |-> slots[q], state |-> "closed", cooled |-> FALSE,
               count |-> 0, asked |-> 0]
      BY <1>4 DEF Promise!Turned
    <3> QED
      BY <1>5, <3>1, <3>2
  <2>3. g.state = "halfOpen" /\ ~(g.count + 1 < g.limits.halfOpenProbes)
    BY <1>4, <1>9
  <2>4. Promise!Succeed(o)
    BY <1>6, <2>2, <2>3 DEF Promise!Succeed, g
  <2> QED
    BY <2>4 DEF Promise!Next
<1>10. CASE ~ok /\ b.state = "closed" /\ b.failures + 1 < l.failureThreshold
  <2>1. a = [b EXCEPT !.failures = @ + 1]
    BY <1>1, <1>2, <1>6, <1>10 DEF OnFailure, ReadyToTrip, Breaker
  <2>2. GateAt(q)' = [g EXCEPT !.count = @ + 1]
    BY <1>4, <1>5, <1>6, <1>10, <2>1 DEF Breaker
  <2>3. g.state = "closed" /\ g.count + 1 < g.limits.failureThreshold
    BY <1>4, <1>10
  <2>4. Promise!Fail(o)
    BY <1>6, <2>2, <2>3 DEF Promise!Fail, g
  <2> QED
    BY <2>4 DEF Promise!Next
<1>11. CASE ~ok /\ ~(b.state = "closed" /\ b.failures + 1 < l.failureThreshold)
  <2>1. a = Enter("open", b)
    BY <1>1, <1>2, <1>6, <1>11 DEF OnFailure, ReadyToTrip, Breaker
  <2>2. GateAt(q)' = Promise!Turned(g, "open")
    <3>1. /\ a.state = "open" /\ a.expired = FALSE /\ a.failures = 0
          /\ a.generation # b.generation
      BY <1>6, <2>1 DEF Breaker, Enter
    <3>2. Promise!Turned(g, "open") =
              [limits |-> l, inside |-> slots[q], state |-> "open", cooled |-> FALSE,
               count |-> 0, asked |-> 0]
      BY <1>4 DEF Promise!Turned
    <3> QED
      BY <1>5, <3>1, <3>2
  <2>3. g.state \in {"closed", "halfOpen"} /\ ~(g.state = "closed" /\ g.count + 1 < g.limits.failureThreshold)
    BY <1>4, <1>6, <1>11
  <2>4. Promise!Fail(o)
    BY <1>6, <2>2, <2>3 DEF Promise!Fail, g
  <2> QED
    BY <2>4 DEF Promise!Next
<1> QED
  BY <1>6, <1>7, <1>8, <1>9, <1>10, <1>11

\* A call ends: its outcome counts, or the circuit is found half-open, or
\* nothing changes.
LEMMA ReturnGate ==
    ASSUME IInv, NEW w \in Workers, NEW ok \in BOOLEAN, Return(w, ok)
    PROVE  Promise!Next \/ UNCHANGED Gates
<1>1. PICK q \in Resolvers :
         /\ q = held[w] /\ entry[q].cfg \in Configs /\ slots[q] \in Nat /\ breaker[q] \in Breaker
         /\ generation[w] \in Nat /\ generation[w] <= breaker[q].generation
  BY InsideResolver DEF Return
<1>2. PICK b \in Breaker : b = CurrentState(breaker[q])
  BY <1>1, CurrentStateTyped
<1>3. PICK a \in Breaker : a = AfterRequest(b, generation[w], ok, entry[q].cfg)
  BY <1>1, AfterRequestTyped
<1>4. /\ pc[w] = "call" /\ breaker' = [breaker EXCEPT ![q] = a]
      /\ generation' = [generation EXCEPT ![w] = 0] /\ pc' = [pc EXCEPT ![w] = "release"]
      /\ UNCHANGED <<current, entry, slots, org, seen, held>>
  BY <1>1, <1>2, <1>3 DEF Return
<1>5. OthersStay(w) /\ pc'[w] = "release" /\ breaker'[q] = a
      /\ \A r \in Resolvers \ {q} : breaker'[r] = breaker[r]
  BY <1>4 DEF IInv, TypeOK, OthersStay
<1>6. ~Counting(w, q)' /\ (Counting(w, q) <=> generation[w] = breaker[q].generation)
  BY <1>1, <1>4, <1>5 DEF Counting
<1>7. Counters(q) \in SUBSET Workers /\ (Counting(w, q) => w \in Counters(q))
  BY DEF Counters
<1>8. CASE b # breaker[q]
  <2>1. breaker[q].state = "open" /\ breaker[q].expired /\ b = Enter("halfOpen", breaker[q])
    BY <1>2, <1>8 DEF CurrentState
  <2>2. /\ b.state = "halfOpen" /\ b.generation = breaker[q].generation + 1
        /\ b.succeeded = 0 /\ b.expired = FALSE
    BY <2>1 DEF Enter
  <2>3. a = b
    BY <1>1, <1>3, <2>2 DEF AfterRequest, Breaker
  <2>4. Cardinality(Counters(q)') = 0
    <3>1. Counters(q)' = {}
      BY <1>5, <1>6, <2>2, <2>3, CountersOfNewGeneration DEF IInv
    <3> QED
      BY <3>1, FS_EmptySet
  <2> DEFINE g == Promise!Met(GateAt(q))
  <2>5. g = [limits |-> entry[q].cfg, inside |-> slots[q], state |-> "halfOpen",
             cooled |-> FALSE, count |-> 0, asked |-> 0]
    BY <2>1 DEF Promise!Met, Promise!Turned, GateAt
  <2>6. GateAt(q)' = g
    <3> HIDE DEF g
    <3> QED
      BY <1>4, <1>5, <2>2, <2>3, <2>4, <2>5 DEF GateAt
  <2>7. GateAt(q).state = "open"
    BY <2>1 DEF GateAt
  <2>8. ASSUME NEW o \in Orgs, current[o] = q, Promise!Becomes(o, g)
        PROVE  Promise!Next
    <3>1. Gates[o] = GateAt(q)
      BY <2>8, GateHere
    <3>2. g # GateAt(q)
      <4> HIDE DEF g
      <4> QED
        BY <2>5, <2>7
    <3>3. Promise!HalfOpen(o)
      BY <2>8, <3>1, <3>2 DEF Promise!HalfOpen
    <3> QED
      BY <3>3 DEF Promise!Next
  <2> HIDE DEF g
  <2> QED
    BY <1>1, <1>4, <1>5, <2>6, <2>8, WorkersGate
<1>9. CASE b = breaker[q] /\ (generation[w] # b.generation \/ b.state = "open")
  <2>1. a = b
    BY <1>1, <1>3, <1>9, AfterRequestSteps
  <2>2. GateAt(q)' = GateAt(q)
    <3>1. CASE b.state = "open"
      BY <1>4, <1>5, <1>9, <2>1, <3>1 DEF GateAt
    <3>2. CASE generation[w] # b.generation
      <4>1. Counters(q)' = Counters(q)
        BY <1>5, <1>6, <1>9, <2>1, <3>2, CountersMove
      <4> QED
        BY <1>4, <1>5, <1>9, <2>1, <4>1 DEF GateAt
    <3> QED
      BY <1>9, <3>1, <3>2
  <2>3. ASSUME NEW o \in Orgs, current[o] = q, Promise!Becomes(o, GateAt(q))
        PROVE  UNCHANGED Gates
    BY <2>3, GateHere DEF Promise!Becomes, Gates
  <2> QED
    BY <1>1, <1>4, <1>5, <2>2, <2>3, WorkersGate
<1>10. CASE b = breaker[q] /\ generation[w] = b.generation /\ b.state # "open"
  <2>1. a = IF ok THEN OnSuccess(b, entry[q].cfg) ELSE OnFailure(b, entry[q].cfg)
    BY <1>3, <1>10 DEF AfterRequest
  <2>2. a.generation \in {b.generation, b.generation + 1}
    BY <1>1, <1>3, <1>10, AfterRequestSteps
  <2>3. Cardinality(Counters(q)') = IF a.generation = b.generation
                                    THEN Cardinality(Counters(q)) - 1 ELSE 0
    <3>1. CASE a.generation = b.generation
      <4>1. Counters(q)' = Counters(q) \ {w}
        BY <1>5, <1>6, <1>10, <3>1, CountersMove
      <4> QED
        BY <1>6, <1>7, <1>10, <3>1, <4>1, CardinalityWithout
    <3>2. CASE a.generation = b.generation + 1
      <4>1. Counters(q)' = {}
        BY <1>5, <1>6, <1>10, <3>2, CountersOfNewGeneration DEF IInv
      <4> QED
        BY <3>2, <4>1, FS_EmptySet DEF Breaker
    <3> QED
      BY <2>2, <3>1, <3>2
  <2>4. Cardinality(Counters(q)) > 0
    BY <1>6, <1>7, <1>10, CardinalityWithout
  <2>5. ASSUME NEW o \in Orgs, current[o] = q, Promise!Becomes(o, GateAt(q)')
        PROVE  Promise!Next
    BY <1>1, <1>4, <1>5, <1>10, <2>1, <2>3, <2>4, <2>5, OutcomeCounts
  <2>6. PICK g : g = GateAt(q)'
    OBVIOUS
  <2> QED
    BY <1>1, <1>4, <1>5, <2>5, <2>6, WorkersGate
<1> QED
  BY <1>8, <1>9, <1>10

-----------------------------------------------------------------------------
(* Time, and reloads.                                                      *)

LEMMA ExpireGate ==
    ASSUME IInv, NEW q \in Resolvers, Expire(q)
    PROVE  Promise!Next \/ UNCHANGED Gates
<1>1. /\ breaker[q].state = "open" /\ breaker[q].expired = FALSE
      /\ breaker' = [breaker EXCEPT ![q].expired = TRUE]
      /\ UNCHANGED <<current, entry, slots, pc, held, generation>>
  BY DEF Expire, registry, workers, IInv, TypeOK, Breaker
<1>2. /\ breaker'[q] = [breaker[q] EXCEPT !.expired = TRUE]
      /\ \A r \in Resolvers \ {q} : breaker'[r] = breaker[r]
      /\ \A r \in Resolvers : breaker'[r].generation = breaker[r].generation
  BY <1>1 DEF IInv, TypeOK, Breaker
<1>3. \A r \in Resolvers : Counters(r)' = Counters(r)
  BY <1>1, <1>2 DEF Counters, Counting
<1>4. \A o \in Orgs : current[o] # q => Gate(o)' = Gate(o)
  BY <1>1, <1>2, <1>3, CurrentTyped, GateKept
<1>5. CASE \A o \in Orgs : current[o] # q
  BY <1>4, <1>5, NoGate
<1>6. ASSUME NEW o \in Orgs, current[o] = q
      PROVE  Promise!Next
  <2> DEFINE g == [GateAt(q) EXCEPT !.cooled = TRUE]
  <2>1. q # None
    BY ConfigAssumption
  <2>2. Gate(o)' = GateAt(q)' /\ Gates[o] = GateAt(q)
    BY <1>1, <1>6, <2>1, GateIsNext, GateHere
  <2>3. GateAt(q)' = g
    <3>1. /\ breaker'[q].state = breaker[q].state /\ breaker'[q].expired = TRUE
          /\ breaker'[q].succeeded = breaker[q].succeeded
          /\ breaker'[q].failures = breaker[q].failures
      BY <1>2 DEF IInv, TypeOK, Breaker
    <3>2. PICK t : t = TRUE /\ breaker'[q].expired = t
      BY <3>1
    <3>3. PICK b, n : b = breaker[q] /\ b.state = "open" /\ n = b.failures
      BY <1>1
    <3>4. GateAt(q) = [limits |-> entry[q].cfg, inside |-> slots[q], state |-> b.state,
                       cooled |-> b.expired, count |-> n, asked |-> 0]
      BY <3>3 DEF GateAt
    <3>5. GateAt(q)' = [limits |-> entry[q].cfg, inside |-> slots[q], state |-> b.state,
                        cooled |-> t, count |-> n, asked |-> 0]
      BY <1>1, <3>1, <3>2, <3>3 DEF GateAt
    <3>6. GateAt(q)' = [GateAt(q) EXCEPT !.cooled = t]
      BY <3>4, <3>5
    <3> QED
      BY <3>2, <3>6
  <2>4. Promise!Becomes(o, g)
    <3> HIDE DEF g
    <3>1. \A p \in Orgs \ {o} : Gate(p)' = Gate(p)
      BY <1>4, <1>6, <2>1, OwnGate
    <3> QED
      BY <2>2, <2>3, <3>1, OneGate
  <2>5. GateAt(q).state = "open" /\ ~GateAt(q).cooled
    BY <1>1 DEF GateAt
  <2>6. Promise!Cool(o)
    BY <2>2, <2>4, <2>5 DEF Promise!Cool
  <2> QED
    BY <2>6 DEF Promise!Next
<1> QED
  BY <1>5, <1>6

LEMMA StillGate ==
    ASSUME UNCHANGED <<current, entry, slots, breaker, workers>>
    PROVE  UNCHANGED Gates
<1>1. \A r : Counters(r)' = Counters(r)
  BY DEF Counters, Counting, workers
<1>2. \A o \in Orgs : Gate(o)' = Gate(o)
  BY <1>1, GateKept
<1> QED
  BY <1>2, NoGate

-----------------------------------------------------------------------------
(* The theorem.                                                            *)

LEMMA GateInit == Init => Promise!Init
<1> SUFFICES ASSUME Init PROVE \A o \in Orgs : Gate(o) = Promise!Fresh(None)
  BY DEF Promise!Init, Gates
<1> QED
  BY DEF Init, Gate, Promise!Fresh

LEMMA GateStep == IInv /\ [Next]_vars => [Promise!Next]_Gates
<1> SUFFICES ASSUME IInv, [Next]_vars
             PROVE  Promise!Next \/ UNCHANGED Gates
  OBVIOUS
<1>1. ASSUME NEW w \in Workers, Start(w) \/ Proceed(w)
      PROVE  Promise!Next \/ UNCHANGED Gates
  BY <1>1, StartGate, ReuseGate, RebuildGate, AcquireGate, LeaveGate, AdmitGate, ShortCircuitGate,
     ReturnGate DEF Proceed
<1>2. ASSUME NEW o \in Orgs, Reload(o)
      PROVE  UNCHANGED Gates
  BY <1>2, StillGate DEF Reload
<1>3. CASE UNCHANGED vars
  BY <1>3, StillGate DEF vars, registry
<1> QED
  BY <1>1, <1>2, <1>3, ExpireGate DEF Next

\* The registry keeps the promise of isolation.md for any organisations,
\* configurations, workers and bounds: every step is a step of one
\* organisation's gate, or none of any.
THEOREM GatesKeepPromise == Spec => GatesAsPromised
  BY GateInit, GateStep, Invariance, PTL DEF Spec, GatesAsPromised, Promise!Spec
=============================================================================
