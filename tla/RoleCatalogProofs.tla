-------------------------- MODULE RoleCatalogProofs --------------------------
(***************************************************************************)
(* Proofs about RoleCatalog, for any callers, projects and times: only the *)
(* holder of the mutex is inside the cache, contents are at most a call    *)
(* older than their entry says, and therefore what is served and what is   *)
(* refused is as it should be; and every refresh pays for the time it took *)
(* until the request that waited for it is over, so that a request waits   *)
(* for one refresh of each entry at most.                                  *)
(***************************************************************************)
EXTENDS RoleCatalog, FiniteSetTheorems, TLAPS

Inside == {"check", "granted", "roles", "name"}

\* What a caller inside the catalog relies on.
CallerInv(w) ==
    /\ mu = w <=> pc[w] \in Inside
    /\ pc[w] \in Inside => at[w] \in Projects
    /\ pc[w] \in {"granted", "roles", "name"} <=> (mu = w /\ ttlRead # Never)
    /\ pc[w] \in {"roles", "name"} => at[w] \notin granted.projects
    /\ pc[w] = "name" => rolesAt[w] <= RefreshTimeout + spent[w]

\* The true age of contents is that of their entry and at most one call more.
Close(entry) ==
    /\ entry.age = Never => entry.data = Never
    /\ entry.data <= entry.age + RefreshTimeout

\* Only the holder of the mutex is inside, and has read the TTL.
Control ==
    /\ TypeOK
    /\ \A w \in Callers : CallerInv(w)
    /\ mu = None => ttlRead = Never

IInv ==
    /\ Control
    /\ Close(granted)
    /\ \A p \in Projects : Close(owned[p])

-----------------------------------------------------------------------------
(* One unit of time.                                                       *)

LEMMA Times ==
    ASSUME TypeOK
    PROVE  /\ RefreshTimeout \in Nat /\ FailureBackoff \in Nat /\ Old \in Nat
           /\ ttl \in Nat /\ ttl + RefreshTimeout < Old
           /\ 0 \in Ages /\ 0 .. RefreshTimeout \subseteq Ages
  BY TimeAssumption DEF TypeOK, Ages

LEMMA OlderTyped ==
    ASSUME NEW age \in Ages \cup {Never}
    PROVE  /\ Older(age) \in Ages \cup {Never}
           /\ age \in Ages => Older(age) \in Ages
           /\ Older(age) = Never <=> age = Never
  BY TimeAssumption DEF Ages, Never, Older

LEMMA OlderClose ==
    ASSUME NEW age \in Ages \cup {Never}, NEW data \in Ages \cup {Never},
           age = Never => data = Never,
           data <= age + RefreshTimeout
    PROVE  Older(data) <= Older(age) + RefreshTimeout
  BY TimeAssumption DEF Ages, Never, Older

-----------------------------------------------------------------------------
(* Whoever is inside is alone there; what the pieces of a lookup do.       *)

Typed(g, o) == g \in GrantedEntry /\ o \in [Projects -> OwnedEntry]

LEMMA Alone ==
    ASSUME Control, NEW w \in Callers, pc[w] \in Inside
    PROVE  /\ mu = w /\ at[w] \in Projects
           /\ \A v \in Callers : v # w => pc[v] \notin Inside
  BY DEF Control, CallerInv

LEMMA ReturnInv ==
    ASSUME Control, NEW w \in Callers, pc[w] \in Inside,
           NEW result \in {"info", "error"}, Return(w, result), ttl' = ttl, Typed(granted', owned')
    PROVE  Control'
<1>1. TypeOK'
  <2>0. 0 \in Ages /\ 0 \in 0 .. RefreshTimeout
    BY Times DEF Control
  <2>1. /\ ttl' \in TTLs /\ ttlRead' = Never /\ mu' = None
        /\ at' \in [Callers -> Projects \cup {None}]
        /\ answer' \in [Callers -> {"none", "info", "error"}]
        /\ spent' \in [Callers -> 0 .. RefreshTimeout]
        /\ rolesAt' \in [Callers -> Ages]
    BY <2>0 DEF Control, TypeOK, Return
  <2>2. /\ todo' \in [Callers -> SUBSET Projects] /\ plan' \in [Callers -> SUBSET Projects]
        /\ pass' \in [Callers -> {"desired", "claims"}]
        /\ elapsed' \in [Callers -> Ages] /\ warm' \in [Callers -> BOOLEAN]
        /\ pc' \in [Callers -> {"idle", "lock", "check", "granted", "roles", "name"}]
    <3>1. CASE todo[w] \ {at[w]} # {}
      BY <3>1 DEF Control, TypeOK, Return
    <3>2. CASE todo[w] \ {at[w]} = {} /\ pass[w] = "desired"
      BY <3>2 DEF Control, TypeOK, Return
    <3>3. CASE todo[w] \ {at[w]} = {} /\ pass[w] # "desired"
      <4>1. /\ todo' = [todo EXCEPT ![w] = {}] /\ plan' = [plan EXCEPT ![w] = {}]
            /\ pass' = [pass EXCEPT ![w] = "desired"] /\ pc' = [pc EXCEPT ![w] = "idle"]
            /\ elapsed' = [elapsed EXCEPT ![w] = 0] /\ warm' = [warm EXCEPT ![w] = FALSE]
        BY <3>3 DEF Return
      <4> QED
        BY <4>1, <2>0 DEF Control, TypeOK
    <3> QED
      BY <3>1, <3>2, <3>3
  <2> QED
    BY <2>1, <2>2 DEF TypeOK, Typed
<1>2. ASSUME NEW v \in Callers
      PROVE  CallerInv(v)'
  <2>1. pc'[v] \notin Inside
    <3>1. CASE v = w
      BY <3>1 DEF Control, TypeOK, Return, Inside
    <3>2. CASE v # w
      BY <3>2, Alone DEF Control, TypeOK, Return
    <3> QED
      BY <3>1, <3>2
  <2>2. mu' = None /\ None \notin Callers
    BY NoneAssumption DEF Return
  <2> QED
    BY <2>1, <2>2 DEF CallerInv, Inside
<1> QED
  BY <1>1, <1>2 DEF Control, Return

LEMMA CallInv ==
    ASSUME Control, NEW w \in Callers, pc[w] \in Inside,
           NEW what \in {"granted", "roles"}, NEW limit \in TTLs, Call(w, what, limit),
           ttl' = ttl, Typed(granted', owned'), what = "roles" => at[w] \notin granted'.projects
    PROVE  Control'
<1>1. TypeOK'
  BY Times DEF Control, TypeOK, Typed, Call
<1>2. limit # Never
  BY TimeAssumption DEF Never
<1>3. ASSUME NEW v \in Callers
      PROVE  CallerInv(v)'
  <2>1. CASE v = w
    BY <2>1, <1>2, Alone DEF Control, TypeOK, Call, CallerInv, Inside
  <2>2. CASE v # w
    <3>1. pc'[v] = pc[v] /\ pc[v] \notin Inside /\ mu' # v
      BY <2>2, Alone DEF Control, TypeOK, Call
    <3> QED
      BY <3>1 DEF CallerInv, Inside
  <2> QED
    BY <2>1, <2>2
<1>4. mu' # None
  BY Alone, NoneAssumption DEF Call
<1> QED
  BY <1>1, <1>3, <1>4 DEF Control

LEMMA LookUpInv ==
    ASSUME Control, NEW w \in Callers, pc[w] \in Inside,
           NEW limit \in TTLs, LookUp(w, granted'.projects, limit), ttl' = ttl,
           Typed(granted', owned')
    PROVE  Control'
  BY ReturnInv, CallInv DEF LookUp

-----------------------------------------------------------------------------
(* The steps.                                                              *)

LEMMA InitInv == Init => IInv
<1> SUFFICES ASSUME Init PROVE IInv
  OBVIOUS
<1>1. ttl \in TTLs /\ None \notin Callers
  BY NoneAssumption DEF Init
<1>2. RefreshTimeout \in Nat /\ 0 \in Ages /\ 0 \in 0 .. RefreshTimeout
  BY TimeAssumption, <1>1 DEF Ages
<1>3. TypeOK
  BY <1>1, <1>2 DEF Init, TypeOK, GrantedEntry, OwnedEntry
<1>4. \A w \in Callers : CallerInv(w)
  BY <1>1, <1>2 DEF Init, CallerInv, Inside
<1>5. Close(granted) /\ \A p \in Projects : Close(owned[p])
  BY <1>2 DEF Init, Close, Never
<1> QED
  BY <1>3, <1>4, <1>5 DEF IInv, Control, Init

LEMMA BeginInv ==
    ASSUME IInv, NEW w \in Callers, Begin(w)
    PROVE  IInv'
<1>1. PICK ps \in Plans : /\ plan' = [plan EXCEPT ![w] = ps]
                          /\ todo' = [todo EXCEPT ![w] = ps]
  BY DEF Begin
<1>2. ps \in SUBSET Projects
  BY PlanAssumption
<1>3. TypeOK'
  BY <1>1, <1>2 DEF IInv, Control, TypeOK, Begin, cache
<1>4. ASSUME NEW v \in Callers
      PROVE  CallerInv(v)'
  BY DEF IInv, Control, TypeOK, Begin, cache, CallerInv, Inside
<1> QED
  BY <1>3, <1>4 DEF IInv, Control, Begin, cache, Close

LEMMA LockInv ==
    ASSUME IInv, NEW w \in Callers, Lock(w)
    PROVE  IInv'
<1>1. PICK p \in todo[w] : at' = [at EXCEPT ![w] = p]
  BY DEF Lock
<1>2. p \in Projects
  BY DEF IInv, Control, TypeOK
<1>3. TypeOK'
  BY <1>1, <1>2 DEF IInv, Control, TypeOK, Lock, cache
<1>4. mu = None /\ None \notin Callers
  BY NoneAssumption DEF Lock
<1>5. ASSUME NEW v \in Callers
      PROVE  CallerInv(v)'
  <2>0. pc[v] \notin Inside
    BY <1>4 DEF IInv, Control, CallerInv
  <2>1. CASE v = w
    BY <2>1, <1>1, <1>2, <1>4 DEF IInv, Control, TypeOK, Lock, cache, CallerInv, Inside
  <2>2. CASE v # w
    BY <2>0, <2>2 DEF IInv, Control, TypeOK, Lock, cache, CallerInv, Inside
  <2> QED
    BY <2>1, <2>2
<1> QED
  BY <1>3, <1>4, <1>5 DEF IInv, Control, Lock, cache, Close

LEMMA CheckInv ==
    ASSUME IInv, NEW w \in Callers, Check(w)
    PROVE  IInv'
<1>1. pc[w] \in Inside /\ ttl \in TTLs /\ ttl' = ttl /\ granted' = granted /\ owned' = owned
  BY DEF IInv, Control, TypeOK, Check, cache, Inside
<1>2. Typed(granted', owned')
  BY <1>1 DEF IInv, Control, TypeOK, Typed
<1>3. Control'
  <2>1. CASE Stale(granted, ttl)
    BY <2>1, <1>1, <1>2, CallInv DEF IInv, Check
  <2>2. CASE ~Stale(granted, ttl)
    <3>1. LookUp(w, granted'.projects, ttl)
      BY <2>2, <1>1 DEF Check
    <3> QED
      BY <3>1, <1>1, <1>2, LookUpInv DEF IInv
  <2> QED
    BY <2>1, <2>2
<1> QED
  BY <1>1, <1>3 DEF IInv, Close

LEMMA Waiting ==
    ASSUME IInv, NEW w \in Callers, pc[w] \in {"granted", "roles", "name"}
    PROVE  /\ pc[w] \in Inside /\ ttlRead \in TTLs /\ ttlRead # Never
           /\ mu = w /\ at[w] \in Projects
  BY DEF IInv, Control, TypeOK, CallerInv, Inside

LEMMA GrantedAnswerInv ==
    ASSUME IInv, NEW w \in Callers, GrantedAnswer(w)
    PROVE  IInv'
<1>1. PICK ps \in SUBSET Projects :
         /\ granted' = [projects |-> ps, age |-> 0, failed |-> Never, data |-> spent[w]]
         /\ LookUp(w, ps, ttlRead)
  BY DEF GrantedAnswer
<1>2. ttl' = ttl /\ owned' = owned /\ pc[w] = "granted"
  BY DEF GrantedAnswer
<1>3. RefreshTimeout \in Nat /\ 0 \in Ages /\ spent[w] \in 0 .. RefreshTimeout /\ spent[w] \in Ages
  BY Times DEF IInv, Control, TypeOK
<1>4. Typed(granted', owned') /\ granted'.projects = ps
  BY <1>1, <1>2, <1>3 DEF IInv, Control, TypeOK, Typed, GrantedEntry
<1>5. Control'
  BY <1>1, <1>2, <1>4, Waiting, LookUpInv DEF IInv
<1>6. Close(granted')
  BY <1>1, <1>3 DEF Close, Never
<1> QED
  BY <1>2, <1>5, <1>6 DEF IInv, Close

LEMMA GrantedFailureInv ==
    ASSUME IInv, NEW w \in Callers, GrantedFailure(w)
    PROVE  IInv'
<1>1. /\ granted' = [granted EXCEPT !.failed = 0] /\ granted \in GrantedEntry
      /\ ttl' = ttl /\ owned' = owned /\ pc[w] = "granted"
  BY DEF GrantedFailure, IInv, Control, TypeOK
<1>2. /\ granted'.projects = granted.projects
      /\ granted'.age = granted.age /\ granted'.data = granted.data
  BY <1>1 DEF GrantedEntry
<1>3. Typed(granted', owned')
  BY <1>1, Times DEF IInv, Control, TypeOK, Typed, GrantedEntry
<1>4. Control'
  <2>1. CASE Cached(granted)
    <3>1. LookUp(w, granted'.projects, ttlRead)
      BY <2>1, <1>2 DEF GrantedFailure
    <3> QED
      BY <3>1, <1>1, <1>3, Waiting, LookUpInv DEF IInv
  <2>2. CASE ~Cached(granted)
    BY <2>2, <1>1, <1>3, Waiting, ReturnInv DEF IInv, GrantedFailure
  <2> QED
    BY <2>1, <2>2
<1> QED
  BY <1>1, <1>2, <1>4 DEF IInv, Close

LEMMA RolesAnswerInv ==
    ASSUME IInv, NEW w \in Callers, RolesAnswer(w)
    PROVE  IInv'
<1>1. RefreshTimeout \in Nat /\ 0 \in 0 .. RefreshTimeout /\ spent[w] \in 0 .. RefreshTimeout
      /\ spent[w] \in Ages
  BY Times DEF IInv, Control, TypeOK
<1>2. TypeOK'
  BY <1>1 DEF IInv, Control, TypeOK, RolesAnswer, cache
<1>3. ASSUME NEW v \in Callers
      PROVE  CallerInv(v)'
  <2>1. CASE v = w
    BY <1>1, <2>1 DEF IInv, Control, TypeOK, RolesAnswer, cache, CallerInv, Inside
  <2>2. CASE v # w
    BY <2>2 DEF IInv, Control, TypeOK, RolesAnswer, cache, CallerInv
  <2> QED
    BY <2>1, <2>2
<1> QED
  BY <1>2, <1>3 DEF IInv, Control, RolesAnswer, cache, Close

LEMMA RolesFailureInv ==
    ASSUME IInv, NEW w \in Callers, RolesFailure(w)
    PROVE  IInv'
<1>1. pc[w] = "roles" /\ ttl' = ttl /\ granted' = granted /\ at[w] \in Projects
  BY Waiting DEF RolesFailure
<1>2. CASE Cached(owned[at[w]])
  <2>1. owned' = [owned EXCEPT ![at[w]].failed = 0] /\ Return(w, "info")
    BY <1>2 DEF RolesFailure
  <2>2. Typed(granted', owned')
    BY <2>1, <1>1, Times DEF IInv, Control, TypeOK, Typed, OwnedEntry
  <2>3. Control'
    BY <1>1, <2>1, <2>2, Waiting, ReturnInv DEF IInv
  <2>4. \A p \in Projects : owned'[p].age = owned[p].age /\ owned'[p].data = owned[p].data
    BY <2>1, <1>1 DEF IInv, Control, TypeOK, OwnedEntry
  <2> QED
    BY <1>1, <2>3, <2>4 DEF IInv, Close
<1>3. CASE ~Cached(owned[at[w]])
  <2>1. owned' = owned /\ Return(w, "error")
    BY <1>3 DEF RolesFailure
  <2>2. Control'
    BY <1>1, <2>1, Waiting, ReturnInv DEF IInv, Control, TypeOK, Typed
  <2> QED
    BY <1>1, <2>1, <2>2 DEF IInv, Close
<1> QED
  BY <1>2, <1>3

LEMMA NameAnswerInv ==
    ASSUME IInv, NEW w \in Callers, NameAnswer(w)
    PROVE  IInv'
<1> DEFINE new == [age |-> spent[w], failed |-> Never, data |-> rolesAt[w]]
<1>1. /\ pc[w] = "name" /\ ttl' = ttl /\ granted' = granted /\ at[w] \in Projects
      /\ owned' = [owned EXCEPT ![at[w]] = new] /\ Return(w, "info")
  BY Waiting DEF NameAnswer
<1>2. /\ RefreshTimeout \in Nat /\ spent[w] \in 0 .. RefreshTimeout /\ spent[w] \in Ages
      /\ rolesAt[w] \in Ages /\ rolesAt[w] <= RefreshTimeout + spent[w]
  BY <1>1, Times DEF IInv, Control, TypeOK, CallerInv
<1>3. new \in OwnedEntry /\ Close(new)
  BY <1>2 DEF OwnedEntry, Close, Ages, Never
<1>4. Typed(granted', owned')
  BY <1>1, <1>3 DEF IInv, Control, TypeOK, Typed
<1>5. Control'
  BY <1>1, <1>4, Waiting, ReturnInv DEF IInv
<1>6. \A p \in Projects : owned'[p] = IF p = at[w] THEN new ELSE owned[p]
  BY <1>1 DEF IInv, Control, TypeOK
<1>7. \A p \in Projects : Close(owned'[p])
  <2> HIDE DEF new
  <2> QED
    BY <1>3, <1>6 DEF IInv
<1> QED
  BY <1>1, <1>5, <1>7 DEF IInv, Close

\* An entry one unit later.
LEMMA TickEntry ==
    ASSUME NEW e, e \in GrantedEntry \/ e \in OwnedEntry, Close(e)
    PROVE  LET f == Aged(e) IN
           /\ e \in GrantedEntry => f \in GrantedEntry /\ f.projects = e.projects
           /\ e \in OwnedEntry => f \in OwnedEntry
           /\ Close(f)
<1>1. e.age \in Ages \cup {Never} /\ e.failed \in Ages \cup {Never} /\ e.data \in Ages \cup {Never}
  BY DEF GrantedEntry, OwnedEntry
<1> DEFINE f == Aged(e)
<1>2. f.age = Older(e.age) /\ f.failed = Older(e.failed) /\ f.data = Older(e.data)
  BY DEF GrantedEntry, OwnedEntry, Aged
<1>3. Close(f)
  BY <1>1, <1>2, OlderTyped, OlderClose DEF Close
<1>4. /\ Older(e.age) \in Ages \cup {Never} /\ Older(e.failed) \in Ages \cup {Never}
      /\ Older(e.data) \in Ages \cup {Never}
  BY <1>1, OlderTyped
<1>5. e \in GrantedEntry => f \in GrantedEntry /\ f.projects = e.projects
  BY <1>4 DEF GrantedEntry, Aged
<1>6. e \in OwnedEntry => f \in OwnedEntry
  BY <1>4 DEF OwnedEntry, Aged
<1> QED
  BY <1>3, <1>5, <1>6

LEMMA TickInv ==
    ASSUME IInv, Tick
    PROVE  IInv'
<1>1. granted' \in GrantedEntry /\ granted'.projects = granted.projects /\ Close(granted')
  BY TickEntry DEF IInv, Control, TypeOK, Tick
<1>2. \A p \in Projects : owned'[p] \in OwnedEntry /\ Close(owned'[p])
  BY TickEntry DEF IInv, Control, TypeOK, Tick
<1>3. owned' \in [Projects -> OwnedEntry]
  BY <1>2 DEF Tick
<1>4. RefreshTimeout \in Nat /\ 0 \in Ages
  BY Times DEF IInv, Control
<1>5. ASSUME NEW w \in Callers
      PROVE  /\ spent'[w] \in 0 .. RefreshTimeout
             /\ Calling(w) => spent'[w] = spent[w] + 1
             /\ ~Calling(w) => spent'[w] = spent[w]
  BY <1>4 DEF IInv, Control, TypeOK, Tick, Calling
<1>6. ASSUME NEW w \in Callers
      PROVE  /\ rolesAt'[w] \in Ages /\ elapsed'[w] \in Ages
             /\ rolesAt'[w] <= rolesAt[w] + 1
  <2>1. rolesAt[w] \in Ages /\ elapsed[w] \in Ages
    BY DEF IInv, Control, TypeOK
  <2>2. /\ Older(rolesAt[w]) \in Ages /\ Older(elapsed[w]) \in Ages
        /\ Older(rolesAt[w]) <= rolesAt[w] + 1
    BY <2>1, OlderTyped DEF Older, Ages, Never
  <2> QED
    BY <2>1, <2>2, <1>4 DEF Tick, Ages
<1>7. TypeOK'
  <2>1. spent' \in [Callers -> 0 .. RefreshTimeout]
    BY <1>5 DEF Tick
  <2>2. rolesAt' \in [Callers -> Ages] /\ elapsed' \in [Callers -> Ages]
    BY <1>6 DEF Tick
  <2> QED
    BY <1>1, <1>3, <2>1, <2>2 DEF IInv, Control, TypeOK, Tick
<1>8. ASSUME NEW w \in Callers
      PROVE  CallerInv(w)'
  <2>1. /\ mu' = mu /\ pc' = pc /\ at' = at /\ ttlRead' = ttlRead
        /\ CallerInv(w) /\ spent[w] \in Nat /\ rolesAt[w] \in Nat
    BY DEF IInv, Control, TypeOK, Tick, Ages
  <2>2. pc[w] = "name" => rolesAt'[w] <= RefreshTimeout + spent'[w]
    <3>1. CASE pc[w] = "name"
      <4>1. /\ Calling(w) /\ spent'[w] = spent[w] + 1 /\ rolesAt'[w] <= rolesAt[w] + 1
            /\ rolesAt[w] <= RefreshTimeout + spent[w] /\ rolesAt'[w] \in Nat
        BY <3>1, <2>1, <1>5, <1>6 DEF Calling, CallerInv, Ages
      <4> QED
        BY <4>1, <2>1, <1>4
    <3> QED
      BY <3>1
  <2> QED
    BY <2>1, <2>2, <1>1 DEF CallerInv
<1> QED
  BY <1>1, <1>2, <1>7, <1>8 DEF IInv, Control, Tick

LEMMA ReloadInv ==
    ASSUME IInv, Reload
    PROVE  IInv'
  BY DEF IInv, Control, TypeOK, CallerInv, Close, Reload, cache, caller

LEMMA NextInv ==
    ASSUME IInv, [Next]_vars
    PROVE  IInv'
<1>1. ASSUME NEW w \in Callers, Step(w)
      PROVE  IInv'
  BY <1>1, BeginInv, LockInv, CheckInv, GrantedAnswerInv, GrantedFailureInv, RolesAnswerInv,
     RolesFailureInv, NameAnswerInv DEF Step
<1>2. ASSUME UNCHANGED vars
      PROVE  IInv'
  BY <1>2 DEF IInv, Control, TypeOK, CallerInv, Close, vars, cache, caller
<1> QED
  BY <1>1, <1>2, TickInv, ReloadInv DEF Next

\* All of it, in every reachable state.
THEOREM Invariance == Spec => []IInv
  BY InitInv, NextInv, PTL DEF Spec

\* TypeOK: ages stay within their bound and calls within their timeout, for
\* any number of callers, projects and values of the TTL.
THEOREM TypeCorrect == Spec => []TypeOK
<1>1. IInv => TypeOK
  BY DEF IInv, Control
<1> QED
  BY <1>1, Invariance, PTL

-----------------------------------------------------------------------------
(* What a lookup returns.                                                  *)

\* The limit the lookup of a caller goes by.
Limit == IF ttlRead = Never THEN ttl ELSE ttlRead

\* An entry that is not refreshed is young enough or in its back-off.
LEMMA NotStale ==
    ASSUME NEW e, e \in GrantedEntry \/ e \in OwnedEntry, Close(e), IInv, ~Stale(e, Limit)
    PROVE  Cached(e) /\ Excused(e)
<1>1. e.age \in Ages /\ e.data \in Ages \cup {Never} /\ Limit \in Nat /\ RefreshTimeout \in Nat
  BY TimeAssumption DEF GrantedEntry, OwnedEntry, Stale, Cached, IInv, Control, TypeOK, Limit
<1>2. e.data <= e.age + RefreshTimeout /\ (e.age > Limit => InFailureBackoff(e))
  BY DEF Close, Stale
<1>3. e.data > Limit + RefreshTimeout => e.age > Limit
  BY <1>1, <1>2 DEF Ages, Never
<1> QED
  BY <1>2, <1>3 DEF Stale, Excused, Limit

\* What both properties ask of a step in which w's lookup returns.
Served(w) ==
    Returns(w, "info") =>
        IF at[w] \in granted'.projects THEN Excused(granted') ELSE Excused(owned'[at[w]])

Founded(w) ==
    Returns(w, "error") =>
        ~Cached(granted') \/ (at[w] \notin granted'.projects /\ ~Cached(owned'[at[w]]))

LEMMA ReturnAnswers ==
    ASSUME IInv, NEW w \in Callers, NEW result, Return(w, result)
    PROVE  answer'[w] = result
  BY DEF IInv, Control, TypeOK, Return

LEMMA CallKeeps ==
    ASSUME NEW w \in Callers, NEW what, NEW limit, Call(w, what, limit)
    PROVE  Served(w) /\ Founded(w)
  BY DEF Call, Served, Founded, Returns

\* The granted half may be excused on a condition; the rest needs none.
LEMMA LookUpServes ==
    ASSUME IInv, NEW w \in Callers, at[w] \in Projects,
           LookUp(w, granted'.projects, Limit), owned' = owned,
           NEW P \in BOOLEAN, P /\ at[w] \in granted'.projects => Excused(granted')
    PROVE  (P => Served(w)) /\ Founded(w)
<1>1. CASE at[w] \notin granted'.projects /\ Stale(owned[at[w]], Limit)
  BY <1>1, CallKeeps DEF LookUp
<1>2. CASE ~(at[w] \notin granted'.projects /\ Stale(owned[at[w]], Limit))
  <2>1. answer'[w] = "info"
    BY <1>2, ReturnAnswers DEF LookUp
  <2>2. at[w] \notin granted'.projects => Excused(owned[at[w]])
    <3>1. owned[at[w]] \in OwnedEntry /\ Close(owned[at[w]])
      BY DEF IInv, Control, TypeOK
    <3> QED
      BY <3>1, <1>2, NotStale
  <2> QED
    BY <2>1, <2>2 DEF Served, Founded, Returns
<1> QED
  BY <1>1, <1>2

\* The back-off is something, and no TTL is shorter than a call may take.
Reasonable == FailureBackoff > 0 /\ \A t \in TTLs : RefreshTimeout <= t

LEMMA StepServes ==
    ASSUME IInv, NEW w \in Callers, Step(w)
    PROVE  (Reasonable => Served(w)) /\ Founded(w)
<1>1. CASE Begin(w)
  BY <1>1 DEF Begin, Served, Founded, Returns
<1>2. CASE Lock(w)
  BY <1>2, NoneAssumption DEF Lock, Served, Founded, Returns
<1>3. CASE Check(w)
  <2>1. /\ at[w] \in Projects /\ Limit = ttl /\ granted' = granted /\ owned' = owned
        /\ granted \in GrantedEntry /\ Close(granted)
    BY <1>3 DEF Check, IInv, Control, TypeOK, CallerInv, Inside, cache, Limit
  <2>2. CASE Stale(granted, ttl)
    BY <1>3, <2>2, CallKeeps DEF Check
  <2>3. CASE ~Stale(granted, ttl)
    <3>1. LookUp(w, granted'.projects, Limit)
      BY <1>3, <2>1, <2>3 DEF Check
    <3>2. Excused(granted')
      BY <2>1, <2>3, NotStale
    <3> QED
      BY <2>1, <3>1, <3>2, LookUpServes
  <2> QED
    BY <2>2, <2>3
<1>4. CASE GrantedAnswer(w)
  <2>1. PICK ps \in SUBSET Projects :
           /\ granted' = [projects |-> ps, age |-> 0, failed |-> Never, data |-> spent[w]]
           /\ LookUp(w, ps, ttlRead)
    BY <1>4 DEF GrantedAnswer
  <2>2. /\ at[w] \in Projects /\ Limit = ttlRead /\ Limit \in Nat /\ owned' = owned
        /\ RefreshTimeout \in Nat /\ spent[w] \in 0 .. RefreshTimeout
    BY <1>4, Waiting, TimeAssumption DEF GrantedAnswer, Limit, IInv, Control, TypeOK
  <2>3. Excused(granted')
    BY <2>1, <2>2 DEF Excused, Limit
  <2> QED
    BY <2>1, <2>2, <2>3, LookUpServes
<1>5. CASE GrantedFailure(w)
  <2>1. /\ at[w] \in Projects /\ Limit = ttlRead /\ owned' = owned
        /\ granted \in GrantedEntry /\ granted' = [granted EXCEPT !.failed = 0]
    BY <1>5, Waiting DEF GrantedFailure, Limit, IInv, Control, TypeOK
  <2>2. /\ granted'.projects = granted.projects /\ granted'.age = granted.age
        /\ granted'.failed = 0
    BY <2>1 DEF GrantedEntry
  <2>3. CASE Cached(granted)
    <3>1. LookUp(w, granted'.projects, Limit)
      BY <1>5, <2>1, <2>2, <2>3 DEF GrantedFailure
    <3>2. Reasonable => Excused(granted')
      BY <2>2 DEF Reasonable, Excused, InFailureBackoff, Never
    <3>3. Reasonable \in BOOLEAN
      BY DEF Reasonable
    <3> QED
      BY <2>1, <3>1, <3>2, <3>3, LookUpServes
  <2>4. CASE ~Cached(granted)
    <3>1. answer'[w] = "error" /\ ~Cached(granted')
      BY <1>5, <2>2, <2>4, ReturnAnswers DEF GrantedFailure, Cached
    <3> QED
      BY <3>1 DEF Served, Founded, Returns
  <2> QED
    BY <2>3, <2>4
<1>6. CASE RolesAnswer(w)
  BY <1>6 DEF RolesAnswer, Served, Founded, Returns
<1>7. CASE RolesFailure(w)
  <2>1. /\ at[w] \in Projects /\ at[w] \notin granted'.projects
        /\ owned \in [Projects -> OwnedEntry]
    BY <1>7, Waiting DEF RolesFailure, IInv, Control, TypeOK, CallerInv
  <2>2. CASE Cached(owned[at[w]])
    <3>1. owned' = [owned EXCEPT ![at[w]].failed = 0] /\ answer'[w] = "info"
      BY <1>7, <2>2, ReturnAnswers DEF RolesFailure
    <3>2. owned'[at[w]].failed = 0
      BY <2>1, <3>1 DEF OwnedEntry
    <3> QED
      BY <2>1, <3>1, <3>2
         DEF Reasonable, Served, Founded, Returns, Excused, InFailureBackoff, Never
  <2>3. CASE ~Cached(owned[at[w]])
    <3>1. owned' = owned /\ answer'[w] = "error"
      BY <1>7, <2>3, ReturnAnswers DEF RolesFailure
    <3> QED
      BY <2>1, <2>3, <3>1 DEF Served, Founded, Returns
  <2> QED
    BY <2>2, <2>3
<1>8. CASE NameAnswer(w)
  <2>1. /\ at[w] \in Projects /\ at[w] \notin granted'.projects /\ answer'[w] = "info"
        /\ Limit = ttlRead /\ ttlRead \in TTLs
    BY <1>8, Waiting, ReturnAnswers DEF NameAnswer, IInv, Control, CallerInv, Limit
  <2>2. owned'[at[w]].data = rolesAt[w]
    BY <1>8, <2>1 DEF NameAnswer, IInv, Control, TypeOK
  <2>3. /\ RefreshTimeout \in Nat /\ ttlRead \in Nat /\ spent[w] \in 0 .. RefreshTimeout
        /\ rolesAt[w] \in Nat /\ rolesAt[w] <= RefreshTimeout + spent[w]
    BY <1>8, <2>1, TimeAssumption DEF NameAnswer, IInv, Control, TypeOK, CallerInv, Ages
  <2>4. Reasonable => ~(rolesAt[w] > Limit + RefreshTimeout)
    BY <2>1, <2>3 DEF Reasonable
  <2> QED
    BY <2>1, <2>2, <2>4 DEF Served, Founded, Returns, Excused, Limit
<1> QED
  BY <1>1, <1>2, <1>3, <1>4, <1>5, <1>6, <1>7, <1>8 DEF Step

\* Only the holder of the mutex can give it back.
LEMMA NextServes ==
    ASSUME IInv, [Next]_vars, NEW w \in Callers
    PROVE  (Reasonable => Served(w)) /\ Founded(w)
<1>1. CASE \E v \in Callers : v # w /\ Step(v)
  <2>1. PICK v \in Callers : v # w /\ Step(v)
    BY <1>1
  <2>2. mu = w => pc[v] \notin Inside /\ pc[w] \in Inside
    BY <2>1 DEF IInv, Control, CallerInv
  <2>3. mu = w => Begin(v)
    BY <2>1, <2>2, NoneAssumption DEF Step, Lock, Check, GrantedAnswer, GrantedFailure, RolesAnswer,
       RolesFailure, NameAnswer, Inside
  <2> QED
    BY <2>3 DEF Begin, Served, Founded, Returns
<1>2. CASE Step(w)
  BY <1>2, StepServes
<1>3. CASE Tick \/ Reload \/ UNCHANGED vars
  BY <1>3 DEF Tick, Reload, vars, Served, Founded, Returns
<1> QED
  BY <1>1, <1>2, <1>3 DEF Next

\* OldOnlyAfterFailure, provided that no TTL is shorter than a call may take:
\* roles may be two calls old when their name has been fetched.
THEOREM OldServedOnlyAfterFailure == Reasonable => (Spec => OldOnlyAfterFailure)
<1> SUFFICES ASSUME Reasonable PROVE Spec => OldOnlyAfterFailure
  OBVIOUS
<1>1. ASSUME IInv, [Next]_vars
      PROVE  [\A w \in Callers : Returns(w, "info") =>
                LET p == at[w] IN
                IF p \in granted'.projects THEN Excused(granted') ELSE Excused(owned'[p])]_vars
  BY <1>1, NextServes DEF Served
<1> QED
  BY <1>1, Invariance, PTL DEF Spec, OldOnlyAfterFailure

\* StaleRatherThanError: whatever is cached is preferred to an error.
THEOREM ErrorsOnlyWhenCold == Spec => StaleRatherThanError
<1>1. ASSUME IInv, [Next]_vars
      PROVE  [\A w \in Callers : Returns(w, "error") =>
                \/ ~Cached(granted')
                \/ at[w] \notin granted'.projects /\ ~Cached(owned'[at[w]])]_vars
  BY <1>1, NextServes DEF Founded
<1> QED
  BY <1>1, Invariance, PTL DEF Spec, StaleRatherThanError

-----------------------------------------------------------------------------
(***************************************************************************)
(* How long a request waits.  A call is paid for by the entry it refreshes:*)
(* an entry that was refreshed, or failed to be, since a request began is  *)
(* not refreshed again before the request is over.                         *)
(***************************************************************************)

\* The longest a request may wait: for the list of granted projects, and for
\* every project's roles and name.
Budget == (1 + 2 * Cardinality(Projects)) * RefreshTimeout

\* Zitadel waits long enough, and neither a failure nor a refresh is forgotten
\* while a request waits.
Ample ==
    /\ IsFiniteSet(Projects)
    /\ Budget <= HookTimeout
    /\ Budget < FailureBackoff
    /\ \A t \in TTLs : Budget + RefreshTimeout <= t

\* A refresh of the entry ended in the last t units of time, or its age began
\* to count at most one call before.
DoneBy(entry, t) ==
    \/ entry.failed # Never /\ entry.failed <= t
    \/ entry.age # Never /\ entry.age <= t + RefreshTimeout

Weight(list, projects) == (IF list THEN 1 ELSE 0) + 2 * Cardinality(projects)

Refreshed(w) == {p \in Projects : DoneBy(owned[p], elapsed[w])}

\* The calls that ended while w waited, at most.
Paid(w) == Weight(DoneBy(granted, elapsed[w]), Refreshed(w))

\* The time the refresh in progress has taken.
Pending ==
    IF mu = None THEN 0
    ELSE CASE pc[mu] \in {"granted", "roles"} -> spent[mu]
           [] pc[mu] = "name" -> RefreshTimeout + spent[mu]
           [] OTHER -> 0

\* Whoever calls refreshes a stale entry; whoever rests has waited for nothing.
Overdue(w) ==
    /\ pc[w] = "granted" => Stale(granted, ttlRead)
    /\ pc[w] \in {"roles", "name"} => Stale(owned[at[w]], ttlRead)

Resting(w) == pc[w] = "idle" => elapsed[w] = 0 /\ ~warm[w]

AllCached == Cached(granted) /\ \A p \in Projects : Cached(owned[p])

InTime(w) ==
    warm[w] => /\ AllCached
               /\ elapsed[w] <= Budget
               /\ elapsed[w] <= RefreshTimeout * Paid(w) + Pending

WaitInv == IInv /\ \A w \in Callers : Overdue(w) /\ Resting(w) /\ InTime(w)

-----------------------------------------------------------------------------
(* Weights.                                                                *)

LEMMA Scaled ==
    ASSUME NEW r \in Nat, NEW a \in Nat, NEW b \in Nat
    PROVE  /\ r * a \in Nat
           /\ a <= b => r * a <= r * b
           /\ r * (a + 1) = r * a + r /\ r * (a + 2) = r * a + 2 * r
<1>1. r * a \in Nat /\ r * (a + 1) = r * a + r /\ r * (a + 2) = r * a + 2 * r
  OBVIOUS
<1>2. ASSUME a <= b PROVE r * a <= r * b
  <2>1. b - a \in Nat /\ r * (b - a) \in Nat /\ r * b = r * a + r * (b - a)
    BY <1>2
  <2> QED
    BY <2>1, <1>1
<1> QED
  BY <1>1, <1>2

\* More refreshed entries weigh more, and all of them weigh the whole.
LEMMA Weights ==
    ASSUME IsFiniteSet(Projects), NEW g \in BOOLEAN, NEW h \in BOOLEAN, g => h,
           NEW D \in SUBSET Projects, NEW E \in SUBSET Projects, D \subseteq E
    PROVE  /\ Cardinality(Projects) \in Nat
           /\ Weight(g, D) \in Nat /\ Weight(h, E) \in Nat
           /\ Weight(g, D) <= Weight(h, E)
           /\ ~g /\ h => Weight(g, D) + 1 <= Weight(h, E)
           /\ \A p \in E \ D : Weight(g, D) + 2 <= Weight(h, E)
           /\ Weight(g, D) <= 1 + 2 * Cardinality(Projects)
           /\ ~g => Weight(g, D) + 1 <= 1 + 2 * Cardinality(Projects)
           /\ \A p \in Projects \ D : Weight(g, D) + 2 <= 1 + 2 * Cardinality(Projects)
<1>1. /\ IsFiniteSet(D) /\ IsFiniteSet(E)
      /\ Cardinality(D) <= Cardinality(Projects) /\ Cardinality(E) <= Cardinality(Projects)
  BY FS_Subset
<1>2. Cardinality(D) \in Nat /\ Cardinality(E) \in Nat /\ Cardinality(Projects) \in Nat
  BY <1>1, FS_CardinalityType
<1>3. Cardinality(D) <= Cardinality(E)
  BY <1>1, FS_Subset
<1>4. ASSUME NEW p \in Projects \ D, NEW F \in {E, Projects}, p \in F
      PROVE  Cardinality(D) + 1 <= Cardinality(F)
  <2>1. Cardinality(D \cup {p}) = Cardinality(D) + 1
    BY <1>1, <1>4, FS_AddElement
  <2>2. D \cup {p} \in SUBSET F /\ IsFiniteSet(F)
    BY <1>1, <1>4
  <2> QED
    BY <2>1, <2>2, FS_Subset
<1>5. \A p \in E \ D : Cardinality(D) + 1 <= Cardinality(E)
  BY <1>4
<1>6. \A p \in Projects \ D : Cardinality(D) + 1 <= Cardinality(Projects)
  BY <1>4
<1> QED
  BY <1>1, <1>2, <1>3, <1>5, <1>6 DEF Weight

-----------------------------------------------------------------------------
(* The pieces of a lookup.                                                 *)

\* What a step that lets no time pass does to the requests.
Timeless ==
    /\ \A v \in Callers : warm'[v] => warm[v] /\ elapsed'[v] = elapsed[v]
    /\ \A v \in Callers : Resting(v)'

\* w has given the mutex back, or has just begun to call.
Settling(w) ==
    /\ \A v \in Callers : v # w => pc'[v] = pc[v]
    /\ \/ mu' = None /\ pc'[w] \in {"idle", "lock"}
       \/ mu' = w /\ pc'[w] \in {"granted", "roles"} /\ spent'[w] = 0

LEMMA ReturnTimes ==
    ASSUME WaitInv, NEW w \in Callers, NEW result, Return(w, result)
    PROVE  Timeless /\ Settling(w) /\ mu' = None
<1>1. \/ pc' = [pc EXCEPT ![w] = "lock"] /\ UNCHANGED <<elapsed, warm>>
      \/ /\ pc' = [pc EXCEPT ![w] = "idle"]
         /\ elapsed' = [elapsed EXCEPT ![w] = 0] /\ warm' = [warm EXCEPT ![w] = FALSE]
  <2>1. CASE todo[w] \ {at[w]} # {}
    BY <2>1 DEF Return
  <2>2. CASE todo[w] \ {at[w]} = {} /\ pass[w] = "desired"
    BY <2>2 DEF Return
  <2>3. CASE todo[w] \ {at[w]} = {} /\ pass[w] # "desired"
    BY <2>3 DEF Return
  <2> QED
    BY <2>1, <2>2, <2>3
<1>2. mu' = None
  BY DEF Return
<1> QED
  BY <1>1, <1>2 DEF WaitInv, IInv, Control, TypeOK, Resting, Timeless, Settling

LEMMA CallTimes ==
    ASSUME WaitInv, NEW w \in Callers, pc[w] \in Inside, NEW what \in {"granted", "roles"},
           NEW limit \in TTLs, Call(w, what, limit)
    PROVE  Timeless /\ Settling(w) /\ pc'[w] = what /\ ttlRead' = limit /\ at' = at
<1>1. mu = w
  BY DEF WaitInv, IInv, Control, CallerInv
<1> QED
  BY <1>1 DEF WaitInv, IInv, Control, TypeOK, Resting, Call, Timeless, Settling, Inside

\* Nobody else is at a call.
LEMMA OthersQuiet ==
    ASSUME IInv, NEW w \in Callers, pc[w] \in Inside, Settling(w),
           pc'[w] = "granted" => Stale(granted', ttlRead'),
           pc'[w] = "roles" => Stale(owned'[at'[w]], ttlRead')
    PROVE  (\A v \in Callers : Overdue(v)') /\ Pending' = 0
<1>1. \A v \in Callers : v # w => pc'[v] \notin Inside
  BY Alone DEF IInv, Settling
<1>2. \A v \in Callers : Overdue(v)'
  BY <1>1 DEF Overdue, Settling, Inside
<1>3. Pending' = 0
  BY NoneAssumption DEF Settling, Pending
<1> QED
  BY <1>2, <1>3

LEMMA ReturnOverdue ==
    ASSUME WaitInv, NEW w \in Callers, pc[w] \in Inside, NEW result, Return(w, result)
    PROVE  Timeless /\ (\A v \in Callers : Overdue(v)') /\ Pending' = 0
<1>1. Settling(w) /\ mu' = None /\ Timeless
  BY ReturnTimes
<1>2. pc'[w] \notin {"granted", "roles"}
  BY <1>1, NoneAssumption DEF Settling
<1> QED
  BY <1>1, <1>2, OthersQuiet DEF WaitInv

LEMMA LookUpOverdue ==
    ASSUME WaitInv, NEW w \in Callers, pc[w] \in Inside, NEW limit \in TTLs, NEW ps,
           LookUp(w, ps, limit), owned' = owned
    PROVE  Timeless /\ (\A v \in Callers : Overdue(v)') /\ Pending' = 0
<1>1. CASE at[w] \notin ps /\ Stale(owned[at[w]], limit)
  <2>1. Call(w, "roles", limit)
    BY <1>1 DEF LookUp
  <2>2. Timeless /\ Settling(w) /\ pc'[w] = "roles" /\ ttlRead' = limit /\ at' = at
    BY <2>1, CallTimes
  <2> QED
    BY <1>1, <2>2, OthersQuiet DEF WaitInv
<1>2. CASE ~(at[w] \notin ps /\ Stale(owned[at[w]], limit))
  BY <1>2, ReturnOverdue DEF LookUp
<1> QED
  BY <1>1, <1>2

-----------------------------------------------------------------------------
(* What a waiting request owes, step by step.                              *)

LEMMA Amounts ==
    ASSUME Ample, IInv
    PROVE  /\ RefreshTimeout \in Nat /\ Budget \in Nat /\ FailureBackoff \in Nat
           /\ HookTimeout \in Nat /\ Old \in Nat
           /\ Cardinality(Projects) \in Nat
           /\ Budget = RefreshTimeout * (1 + 2 * Cardinality(Projects))
           /\ Budget < Old /\ FailureBackoff <= Old
           /\ \A w \in Callers : elapsed[w] \in Nat /\ spent[w] \in 0 .. RefreshTimeout
           /\ ttlRead # Never => /\ ttlRead \in Nat /\ Budget + RefreshTimeout <= ttlRead
                                 /\ ttlRead + RefreshTimeout < Old
<1>1. Cardinality(Projects) \in Nat
  BY FS_CardinalityType DEF Ample
<1> QED
  BY <1>1, TimeAssumption DEF Ample, Budget, IInv, Control, TypeOK, Ages

\* A stale entry was refreshed too long ago to have been paid for.
LEMMA StaleUnpaid ==
    ASSUME Ample, IInv, NEW e, e \in GrantedEntry \/ e \in OwnedEntry,
           ttlRead # Never, Stale(e, ttlRead), Cached(e), NEW t \in Nat, t <= Budget
    PROVE  ~DoneBy(e, t)
<1>1. e.age \in Nat /\ e.failed \in Nat \cup {Never}
  BY Amounts DEF GrantedEntry, OwnedEntry, Cached, Ages
<1>2. e.age > ttlRead /\ (e.failed = Never \/ e.failed >= FailureBackoff)
  BY <1>1, Amounts DEF Stale, InFailureBackoff, Never
<1> QED
  BY <1>1, <1>2, Amounts DEF DoneBy, Ample

LEMMA PaysFor ==
    ASSUME NEW r \in Nat, NEW k \in Nat, NEW m \in Nat, k <= m, NEW debt \in Nat,
           debt = 0 \/ (k + 1 <= m /\ debt <= r) \/ (k + 2 <= m /\ debt <= 2 * r)
    PROVE  r * k + debt <= r * m
<1>1. r * k \in Nat /\ r * m \in Nat /\ r * k <= r * m
  BY Scaled
<1>2. k + 1 <= m => r * (k + 1) <= r * m /\ r * (k + 1) = r * k + r
  BY Scaled
<1>3. k + 2 <= m => r * (k + 2) <= r * m /\ r * (k + 2) = r * k + 2 * r
  BY Scaled
<1> QED
  BY <1>1, <1>2, <1>3

LEMMA PendingTyped == ASSUME Ample, IInv PROVE Pending \in Nat
<1>1. mu # None => mu \in Callers
  BY DEF IInv, Control, TypeOK
<1> QED
  BY <1>1, Amounts DEF Pending

\* A step that lets no time pass keeps w in time if what it pays for is there.
LEMMA Kept ==
    ASSUME Ample, WaitInv, Timeless, NEW w \in Callers, warm'[w],
           AllCached', Pending' = 0,
           /\ DoneBy(granted, elapsed[w]) => DoneBy(granted', elapsed[w])
           /\ \A p \in Projects : DoneBy(owned[p], elapsed[w]) => DoneBy(owned'[p], elapsed[w]),
           \/ Pending = 0
           \/ /\ ~DoneBy(granted, elapsed[w]) /\ DoneBy(granted', elapsed[w])
              /\ Pending <= RefreshTimeout
           \/ /\ \E p \in Projects : ~DoneBy(owned[p], elapsed[w]) /\ DoneBy(owned'[p], elapsed[w])
              /\ Pending <= 2 * RefreshTimeout
    PROVE  InTime(w)'
<1>1. elapsed'[w] = elapsed[w] /\ warm[w]
  BY DEF Timeless
<1>2. elapsed[w] <= Budget /\ elapsed[w] <= RefreshTimeout * Paid(w) + Pending
  BY <1>1 DEF WaitInv, InTime
<1> DEFINE g == DoneBy(granted, elapsed[w])
           h == DoneBy(granted', elapsed[w])
           E == {p \in Projects : DoneBy(owned'[p], elapsed[w])}
<1>3. Paid(w)' = Weight(h, E) /\ Paid(w) = Weight(g, Refreshed(w))
  BY <1>1 DEF Paid, Refreshed
<1>4. /\ g \in BOOLEAN /\ h \in BOOLEAN /\ (g => h)
      /\ Refreshed(w) \in SUBSET Projects /\ E \in SUBSET Projects /\ Refreshed(w) \subseteq E
  BY DEF DoneBy, Refreshed
<1>5. /\ Weight(g, Refreshed(w)) \in Nat /\ Weight(h, E) \in Nat
      /\ Weight(g, Refreshed(w)) <= Weight(h, E)
      /\ ~g /\ h => Weight(g, Refreshed(w)) + 1 <= Weight(h, E)
      /\ \A p \in E \ Refreshed(w) : Weight(g, Refreshed(w)) + 2 <= Weight(h, E)
  BY <1>4, Weights DEF Ample
<1>6. RefreshTimeout \in Nat /\ elapsed[w] \in Nat
  BY Amounts DEF WaitInv
<1> DEFINE k == Weight(g, Refreshed(w))
           m == Weight(h, E)
<1>7. RefreshTimeout * k + Pending <= RefreshTimeout * m
  <2>1. Pending \in Nat
    BY PendingTyped DEF WaitInv
  <2>2. \/ Pending = 0
        \/ k + 1 <= m /\ Pending <= RefreshTimeout
        \/ k + 2 <= m /\ Pending <= 2 * RefreshTimeout
    BY <1>5 DEF Refreshed
  <2> HIDE DEF k, m
  <2>3. k \in Nat /\ m \in Nat /\ k <= m
    BY <1>5 DEF k, m
  <2> QED
    BY <1>6, <2>1, <2>2, <2>3, PaysFor
<1>8. RefreshTimeout * k \in Nat /\ RefreshTimeout * m \in Nat /\ Pending \in Nat
  BY <1>5, <1>6, Scaled, PendingTyped DEF WaitInv
<1>9. elapsed[w] <= RefreshTimeout * m + 0
  <2> HIDE DEF k, m
  <2>1. elapsed[w] <= RefreshTimeout * k + Pending
    BY <1>2, <1>3 DEF k
  <2> QED
    BY <2>1, <1>6, <1>7, <1>8
<1> QED
  <2> HIDE DEF k, g, h, E
  <2>1. RefreshTimeout' = RefreshTimeout /\ Budget' = Budget
    BY DEF Budget
  <2> QED
    BY <1>1, <1>2, <1>3, <1>9, <2>1 DEF InTime

\* The part of WaitInv that IInv does not say.
Waits == \A v \in Callers : Overdue(v) /\ Resting(v) /\ InTime(v)

LEMMA PaidTyped ==
    ASSUME Ample, IInv, NEW w \in Callers
    PROVE  /\ Paid(w) \in Nat /\ RefreshTimeout * Paid(w) \in Nat
           /\ Paid(w) <= 1 + 2 * Cardinality(Projects)
<1>1. DoneBy(granted, elapsed[w]) \in BOOLEAN /\ Refreshed(w) \in SUBSET Projects
  BY DEF DoneBy, Refreshed
<1>2. Paid(w) \in Nat /\ Paid(w) <= 1 + 2 * Cardinality(Projects)
  BY <1>1, Weights DEF Ample, Paid
<1> QED
  BY <1>2, Scaled, Amounts

LEMMA BeginWaits ==
    ASSUME Ample, WaitInv, NEW w \in Callers, Begin(w)
    PROVE  Waits'
<1>1. /\ pc[w] = "idle" /\ pc' = [pc EXCEPT ![w] = "lock"]
      /\ warm' = [warm EXCEPT ![w] = Cached(granted) /\ \A p \in Projects : Cached(owned[p])]
      /\ UNCHANGED <<ttlRead, mu, granted, owned, at, spent, elapsed>>
  BY DEF Begin, cache
<1>2. mu # w
  BY <1>1 DEF WaitInv, IInv, Control, CallerInv, Inside
<1>3. \A v \in Callers : /\ pc'[v] = (IF v = w THEN "lock" ELSE pc[v])
                         /\ warm'[v] = (IF v = w THEN AllCached ELSE warm[v])
  BY <1>1 DEF WaitInv, IInv, Control, TypeOK, AllCached
<1>4. Pending' = Pending
  BY <1>1, <1>2, <1>3 DEF Pending, WaitInv, IInv, Control, TypeOK
<1>5. ASSUME NEW v \in Callers
      PROVE  /\ Overdue(v)' /\ Resting(v)'
             /\ Paid(v)' = Paid(v) /\ AllCached' = AllCached
  BY <1>1, <1>3 DEF WaitInv, Overdue, Resting, Paid, Refreshed, AllCached
<1>6. ASSUME NEW v \in Callers
      PROVE  InTime(v)'
  <2>1. CASE v = w
    <3>1. elapsed'[w] = 0
      BY <1>1 DEF WaitInv, Resting
    <3>2. 0 <= Budget /\ 0 <= RefreshTimeout * Paid(w) + Pending
      BY PaidTyped, PendingTyped, Amounts DEF WaitInv
    <3> QED
      BY <2>1, <3>1, <3>2, <1>3, <1>4, <1>5 DEF InTime, Budget
  <2>2. CASE v # w
    BY <2>2, <1>1, <1>3, <1>4, <1>5 DEF WaitInv, InTime, Budget
  <2> QED
    BY <2>1, <2>2
<1> QED
  BY <1>5, <1>6 DEF Waits

\* A step that ends or begins no call and lets no time pass.
LEMMA QuietWaits ==
    ASSUME Ample, WaitInv, Timeless, UNCHANGED cache, Pending = 0, Pending' = 0,
           \A v \in Callers : Overdue(v)'
    PROVE  Waits'
<1>1. ASSUME NEW v \in Callers, warm'[v]
      PROVE  InTime(v)'
  <2>1. AllCached'
    <3>1. AllCached
      BY <1>1 DEF WaitInv, InTime, Timeless
    <3> QED
      BY <3>1 DEF AllCached, cache
  <2> QED
    BY <1>1, <2>1, Kept DEF cache
<1>2. \A v \in Callers : InTime(v)'
  BY <1>1 DEF InTime
<1> QED
  BY <1>2 DEF Waits, Timeless

LEMMA LockWaits ==
    ASSUME Ample, WaitInv, NEW w \in Callers, Lock(w)
    PROVE  Waits'
<1>1. /\ pc[w] = "lock" /\ pc' = [pc EXCEPT ![w] = "check"] /\ mu = None /\ mu' = w
      /\ UNCHANGED <<ttlRead, granted, owned, elapsed, warm>>
  BY DEF Lock, cache
<1>2. \A v \in Callers : pc[v] \notin Inside /\ mu # v
  BY <1>1, NoneAssumption DEF WaitInv, IInv, Control, CallerInv
<1>3. \A v \in Callers : pc'[v] = (IF v = w THEN "check" ELSE pc[v])
  BY <1>1 DEF WaitInv, IInv, Control, TypeOK
<1>4. Pending = 0 /\ Pending' = 0
  BY <1>1, <1>3, NoneAssumption DEF Pending
<1>5. Timeless /\ \A v \in Callers : Overdue(v)'
  BY <1>1, <1>2, <1>3 DEF WaitInv, Timeless, Resting, Overdue, Inside
<1> QED
  BY <1>1, <1>4, <1>5, QuietWaits DEF cache

LEMMA CheckWaits ==
    ASSUME Ample, WaitInv, NEW w \in Callers, Check(w)
    PROVE  Waits'
<1>1. pc[w] = "check" /\ pc[w] \in Inside /\ UNCHANGED cache /\ ttl \in TTLs
  BY DEF Check, Inside, WaitInv, IInv, Control, TypeOK
<1>2. mu = w
  BY <1>1 DEF WaitInv, IInv, Control, CallerInv
<1>3. Pending = 0
  BY <1>1, <1>2, NoneAssumption DEF Pending
<1>4. Timeless /\ (\A v \in Callers : Overdue(v)') /\ Pending' = 0
  <2>1. CASE Stale(granted, ttl)
    <3>1. Call(w, "granted", ttl)
      BY <2>1 DEF Check
    <3>2. Timeless /\ Settling(w) /\ pc'[w] = "granted" /\ ttlRead' = ttl
      BY <3>1, <1>1, CallTimes
    <3> QED
      BY <2>1, <3>2, <1>1, OthersQuiet DEF WaitInv, cache
  <2>2. CASE ~Stale(granted, ttl)
    <3>1. LookUp(w, granted.projects, ttl)
      BY <2>2 DEF Check
    <3> QED
      BY <3>1, <1>1, LookUpOverdue DEF cache
  <2> QED
    BY <2>1, <2>2
<1> QED
  BY <1>1, <1>3, <1>4, QuietWaits

\* The refresh of the list has ended: it is paid for.
LEMMA ListWaits ==
    ASSUME Ample, WaitInv, NEW w \in Callers, pc[w] = "granted",
           Timeless, \A v \in Callers : Overdue(v)', Pending' = 0,
           owned' = owned, Cached(granted) => Cached(granted'),
           \/ granted'.failed = 0
           \/ granted'.age = 0
    PROVE  Waits'
<1>1. mu = w /\ ttlRead # Never /\ Stale(granted, ttlRead) /\ granted \in GrantedEntry
  BY Waiting DEF WaitInv, Overdue, IInv, Control, TypeOK
<1>2. Pending = spent[w] /\ Pending <= RefreshTimeout
  BY <1>1, Amounts, NoneAssumption DEF Pending, WaitInv
<1>3. ASSUME NEW v \in Callers, warm'[v]
      PROVE  InTime(v)'
  <2>1. AllCached /\ elapsed[v] \in Nat /\ elapsed[v] <= Budget
    BY <1>3, Amounts DEF WaitInv, InTime, Timeless
  <2>2. AllCached'
    BY <2>1 DEF AllCached
  <2>3. ~DoneBy(granted, elapsed[v])
    BY <1>1, <2>1, StaleUnpaid DEF WaitInv, AllCached
  <2>4. DoneBy(granted', elapsed[v])
    BY <2>1, Amounts DEF DoneBy, Never, WaitInv
  <2> QED
    BY <1>2, <1>3, <2>2, <2>3, <2>4, Kept
<1>4. \A v \in Callers : InTime(v)'
  BY <1>3 DEF InTime
<1> QED
  BY <1>4 DEF Waits, Timeless

LEMMA GrantedAnswerWaits ==
    ASSUME Ample, WaitInv, NEW w \in Callers, GrantedAnswer(w)
    PROVE  Waits'
<1>1. PICK ps \in SUBSET Projects :
         /\ granted' = [projects |-> ps, age |-> 0, failed |-> Never, data |-> spent[w]]
         /\ LookUp(w, ps, ttlRead)
  BY DEF GrantedAnswer
<1>2. pc[w] = "granted" /\ pc[w] \in Inside /\ owned' = owned
  BY DEF GrantedAnswer, Inside
<1>3. ttlRead \in TTLs
  BY <1>2, Waiting DEF WaitInv
<1>4. granted'.age = 0 /\ Cached(granted')
  BY <1>1 DEF Cached, Never
<1> QED
  BY <1>1, <1>2, <1>3, <1>4, LookUpOverdue, ListWaits

LEMMA GrantedFailureWaits ==
    ASSUME Ample, WaitInv, NEW w \in Callers, GrantedFailure(w)
    PROVE  Waits'
<1>1. /\ granted' = [granted EXCEPT !.failed = 0] /\ granted \in GrantedEntry
      /\ owned' = owned /\ pc[w] = "granted" /\ pc[w] \in Inside
  BY DEF GrantedFailure, WaitInv, IInv, Control, TypeOK, Inside
<1>2. granted'.failed = 0 /\ granted'.age = granted.age
  BY <1>1 DEF GrantedEntry
<1>3. Timeless /\ (\A v \in Callers : Overdue(v)') /\ Pending' = 0
  <2>1. ttlRead \in TTLs
    BY <1>1, Waiting DEF WaitInv
  <2> QED
    BY <1>1, <2>1, LookUpOverdue, ReturnOverdue DEF GrantedFailure
<1> QED
  BY <1>1, <1>2, <1>3, ListWaits DEF Cached

LEMMA RolesAnswerWaits ==
    ASSUME Ample, WaitInv, NEW w \in Callers, RolesAnswer(w)
    PROVE  Waits'
<1>1. /\ pc[w] = "roles" /\ pc[w] \in Inside /\ pc' = [pc EXCEPT ![w] = "name"]
      /\ spent' = [spent EXCEPT ![w] = 0]
      /\ UNCHANGED <<ttlRead, mu, granted, owned, at, elapsed, warm>>
  BY DEF RolesAnswer, cache, Inside
<1>2. mu = w /\ \A v \in Callers : v # w => pc[v] \notin Inside
  BY <1>1, Alone DEF WaitInv, IInv
<1>3. \A v \in Callers : pc'[v] = (IF v = w THEN "name" ELSE pc[v])
  BY <1>1 DEF WaitInv, IInv, Control, TypeOK
<1>4. spent[w] \in 0 .. RefreshTimeout /\ spent'[w] = 0 /\ RefreshTimeout \in Nat
  BY <1>1, Amounts DEF WaitInv, IInv, Control, TypeOK
<1>5. Pending = spent[w] /\ Pending' = RefreshTimeout + 0
  BY <1>1, <1>2, <1>3, <1>4, NoneAssumption DEF Pending
<1>6. ASSUME NEW v \in Callers
      PROVE  /\ Overdue(v)' /\ Resting(v)'
             /\ Paid(v)' = Paid(v) /\ AllCached' = AllCached
  BY <1>1, <1>3 DEF WaitInv, Overdue, Resting, Paid, Refreshed, AllCached
<1>7. ASSUME NEW v \in Callers, warm[v]
      PROVE  elapsed[v] <= RefreshTimeout * Paid(v) + Pending'
  <2>1. elapsed[v] <= RefreshTimeout * Paid(v) + Pending /\ elapsed[v] \in Nat
    BY <1>7, Amounts DEF WaitInv, InTime
  <2>2. RefreshTimeout * Paid(v) \in Nat
    BY PaidTyped DEF WaitInv
  <2> QED
    BY <2>1, <2>2, <1>4, <1>5
<1>8. \A v \in Callers : InTime(v)'
  BY <1>1, <1>6, <1>7 DEF WaitInv, InTime, Budget
<1> QED
  BY <1>6, <1>8 DEF Waits

\* The refresh of a project's roles has ended: it is paid for.
LEMMA ProjectWaits ==
    ASSUME Ample, WaitInv, NEW w \in Callers, pc[w] \in {"roles", "name"},
           Timeless, \A v \in Callers : Overdue(v)', Pending' = 0,
           granted' = granted, NEW new,
           Cached(owned[at[w]]) => /\ owned' = [owned EXCEPT ![at[w]] = new] /\ Cached(new)
                                   /\ new.failed = 0 \/ new.age \in 0 .. RefreshTimeout,
           \A p \in Projects : Cached(owned[p]) => Cached(owned'[p])
    PROVE  Waits'
<1>1. /\ mu = w /\ at[w] \in Projects /\ ttlRead # Never /\ Stale(owned[at[w]], ttlRead)
      /\ owned[at[w]] \in OwnedEntry
  BY Waiting DEF WaitInv, Overdue, IInv, Control, TypeOK
<1>2. Pending <= 2 * RefreshTimeout
  BY <1>1, Amounts, NoneAssumption DEF Pending, WaitInv
<1>3. ASSUME NEW v \in Callers, warm'[v]
      PROVE  InTime(v)'
  <2>1. AllCached /\ elapsed[v] \in Nat /\ elapsed[v] <= Budget
    BY <1>3, Amounts DEF WaitInv, InTime, Timeless
  <2>2. AllCached'
    BY <2>1 DEF AllCached
  <2>3. ~DoneBy(owned[at[w]], elapsed[v])
    BY <1>1, <2>1, StaleUnpaid DEF WaitInv, AllCached
  <2>4. /\ owned'[at[w]] = new
        /\ \A p \in Projects : p # at[w] => owned'[p] = owned[p]
        /\ new.failed = 0 \/ new.age \in 0 .. RefreshTimeout
    BY <1>1, <2>1 DEF AllCached, WaitInv, IInv, Control, TypeOK
  <2>5. DoneBy(new, elapsed[v])
    BY <2>1, <2>4, Amounts DEF DoneBy, Never, WaitInv
  <2>6. \E p \in Projects : ~DoneBy(owned[p], elapsed[v]) /\ DoneBy(owned'[p], elapsed[v])
    BY <1>1, <2>3, <2>4, <2>5
  <2>7. \A p \in Projects : DoneBy(owned[p], elapsed[v]) => DoneBy(owned'[p], elapsed[v])
    BY <2>3, <2>4, <2>5
  <2> QED
    BY <1>2, <1>3, <2>2, <2>6, <2>7, Kept
<1>4. \A v \in Callers : InTime(v)'
  BY <1>3 DEF InTime
<1> QED
  BY <1>4 DEF Waits, Timeless

LEMMA RolesFailureWaits ==
    ASSUME Ample, WaitInv, NEW w \in Callers, RolesFailure(w)
    PROVE  Waits'
<1>1. /\ pc[w] = "roles" /\ pc[w] \in Inside /\ granted' = granted /\ at[w] \in Projects
      /\ owned \in [Projects -> OwnedEntry]
  BY Waiting DEF RolesFailure, WaitInv, IInv, Control, TypeOK, Inside
<1>2. Timeless /\ (\A v \in Callers : Overdue(v)') /\ Pending' = 0
  BY <1>1, ReturnOverdue DEF RolesFailure
<1> DEFINE new == [owned[at[w]] EXCEPT !.failed = 0]
<1>3. new.failed = 0 /\ new.age = owned[at[w]].age
  BY <1>1 DEF OwnedEntry
<1>4. Cached(owned[at[w]]) => owned' = [owned EXCEPT ![at[w]] = new] /\ Cached(new)
  BY <1>1, <1>3 DEF RolesFailure, Cached
<1>5. ~Cached(owned[at[w]]) => owned' = owned
  BY DEF RolesFailure
<1> HIDE DEF new
<1>6. \A p \in Projects : Cached(owned[p]) => Cached(owned'[p])
  BY <1>1, <1>4, <1>5
<1> QED
  BY <1>1, <1>2, <1>3, <1>4, <1>6, ProjectWaits

LEMMA NameAnswerWaits ==
    ASSUME Ample, WaitInv, NEW w \in Callers, NameAnswer(w)
    PROVE  Waits'
<1> DEFINE new == [age |-> spent[w], failed |-> Never, data |-> rolesAt[w]]
<1>1. /\ pc[w] = "name" /\ pc[w] \in Inside /\ granted' = granted /\ at[w] \in Projects
      /\ owned \in [Projects -> OwnedEntry]
      /\ owned' = [owned EXCEPT ![at[w]] = new] /\ Return(w, "info")
  BY Waiting DEF NameAnswer, WaitInv, IInv, Control, TypeOK, Inside
<1>2. Timeless /\ (\A v \in Callers : Overdue(v)') /\ Pending' = 0
  BY <1>1, ReturnOverdue
<1>3. new.age \in 0 .. RefreshTimeout /\ Cached(new)
  BY Amounts DEF WaitInv, Cached, Never
<1> HIDE DEF new
<1>4. \A p \in Projects : Cached(owned[p]) => Cached(owned'[p])
  BY <1>1, <1>3
<1> QED
  BY <1>1, <1>2, <1>3, <1>4, ProjectWaits

-----------------------------------------------------------------------------
(* Time passes: a call is spent further, and what was paid for stays paid. *)

LEMMA AgedEntry ==
    ASSUME NEW e, e \in GrantedEntry \/ e \in OwnedEntry
    PROVE  LET f == Aged(e) IN
           /\ Cached(f) <=> Cached(e)
           /\ \A t \in Nat : DoneBy(e, t) => DoneBy(f, t + 1)
           /\ \A t \in TTLs : Stale(e, t) => Stale(f, t)
<1>1. e.age \in Ages \cup {Never} /\ e.failed \in Ages \cup {Never}
  BY DEF GrantedEntry, OwnedEntry
<1> DEFINE f == Aged(e)
<1>2. f.age = Older(e.age) /\ f.failed = Older(e.failed)
  BY DEF GrantedEntry, OwnedEntry, Aged
<1>3. Cached(f) <=> Cached(e)
  BY <1>1, <1>2, OlderTyped DEF Cached
<1>4. ASSUME NEW t \in Nat, DoneBy(e, t) PROVE DoneBy(f, t + 1)
  BY <1>1, <1>2, <1>4, TimeAssumption DEF DoneBy, Older, Ages, Never
<1>5. ASSUME NEW t \in TTLs, Stale(e, t) PROVE Stale(f, t)
  BY <1>1, <1>2, <1>3, <1>5, TimeAssumption DEF Stale, InFailureBackoff, Older, Ages, Never, Cached
<1> QED
  BY <1>3, <1>4, <1>5

\* The refresh in progress is not paid for yet, and there is money for it.
LEMMA Affordable ==
    ASSUME Ample, WaitInv, NEW w \in Callers, warm[w], NEW m \in Callers, mu = m,
           Calling(m), spent[m] < RefreshTimeout
    PROVE  RefreshTimeout * Paid(w) + Pending + 1 <= Budget
<1>1. /\ AllCached /\ elapsed[w] \in Nat /\ elapsed[w] <= Budget
      /\ RefreshTimeout \in Nat /\ spent[m] \in Nat /\ Cardinality(Projects) \in Nat
      /\ Budget = RefreshTimeout * (1 + 2 * Cardinality(Projects))
  BY Amounts DEF WaitInv, InTime
<1>2. at[m] \in Projects /\ ttlRead # Never
  BY Waiting DEF WaitInv, Calling
<1>3. DoneBy(granted, elapsed[w]) \in BOOLEAN /\ Refreshed(w) \in SUBSET Projects
  BY DEF DoneBy, Refreshed
<1> DEFINE k == Paid(w)
           n == 1 + 2 * Cardinality(Projects)
<1>4. k \in Nat /\ n \in Nat /\ k <= n
  BY <1>1, PaidTyped DEF WaitInv
<1>5. CASE pc[m] = "granted"
  <2>1. ~DoneBy(granted, elapsed[w])
    BY <1>1, <1>2, <1>5, StaleUnpaid DEF WaitInv, Overdue, IInv, Control, TypeOK, AllCached
  <2>2. k + 1 <= n
    BY <1>3, <2>1, Weights DEF Ample, Paid
  <2>3. Pending = spent[m]
    BY <1>5, NoneAssumption DEF Pending
  <2> HIDE DEF k, n
  <2>4. RefreshTimeout * k + (spent[m] + 1) <= RefreshTimeout * n
    BY <1>1, <1>4, <2>2, PaysFor
  <2>5. RefreshTimeout * k \in Nat
    BY <1>1, <1>4, Scaled
  <2> QED
    BY <1>1, <2>3, <2>4, <2>5 DEF k, n
<1>6. CASE pc[m] \in {"roles", "name"}
  <2>1. ~DoneBy(owned[at[m]], elapsed[w])
    BY <1>1, <1>2, <1>6, StaleUnpaid DEF WaitInv, Overdue, IInv, Control, TypeOK, AllCached
  <2>2. k + 2 <= n
    BY <1>2, <1>3, <2>1, Weights DEF Ample, Paid, Refreshed
  <2>3. Pending \in Nat /\ Pending + 1 <= 2 * RefreshTimeout
    BY <1>1, <1>6, NoneAssumption DEF Pending
  <2> HIDE DEF k, n
  <2>4. RefreshTimeout * k + (Pending + 1) <= RefreshTimeout * n
    BY <1>1, <1>4, <2>2, <2>3, PaysFor
  <2>5. RefreshTimeout * k \in Nat
    BY <1>1, <1>4, Scaled
  <2> QED
    BY <1>1, <2>3, <2>4, <2>5 DEF k, n
<1> QED
  BY <1>5, <1>6 DEF Calling

LEMMA TickWaits ==
    ASSUME Ample, WaitInv, Tick
    PROVE  Waits'
<1>1. /\ granted \in GrantedEntry /\ owned \in [Projects -> OwnedEntry]
      /\ granted' = Aged(granted) /\ \A p \in Projects : owned'[p] = Aged(owned[p])
      /\ UNCHANGED <<ttlRead, mu, pc, at, warm>>
  BY DEF Tick, WaitInv, IInv, Control, TypeOK
<1>2. ASSUME NEW v \in Callers PROVE Overdue(v)'
  <2>1. pc[v] \in {"granted", "roles", "name"} => ttlRead \in TTLs /\ at[v] \in Projects
    BY Waiting DEF WaitInv
  <2> QED
    BY <1>1, <2>1, AgedEntry DEF WaitInv, Overdue
<1>3. ASSUME NEW v \in Callers PROVE Resting(v)'
  BY <1>1 DEF WaitInv, Resting, Tick
<1>4. ASSUME NEW v \in Callers, warm[v] PROVE InTime(v)'
  <2>1. /\ pc[v] # "idle" /\ AllCached /\ elapsed[v] \in Nat /\ elapsed[v] <= Budget
        /\ elapsed[v] <= RefreshTimeout * Paid(v) + Pending
    BY <1>4, Amounts DEF WaitInv, Resting, InTime
  <2>2. mu \in Callers
    <3>1. mu # None \/ Calling(v)
      BY <2>1 DEF Tick
    <3>2. Calling(v) => mu = v
      BY Waiting DEF WaitInv, Calling
    <3> QED
      BY <3>1, <3>2 DEF WaitInv, IInv, Control, TypeOK
  <2>3. Calling(mu) /\ spent[mu] < RefreshTimeout
    <3>1. pc[mu] \in Inside
      BY <2>2 DEF WaitInv, IInv, Control, CallerInv
    <3> QED
      BY <2>2, <3>1 DEF Tick, Inside
  <2>4. spent'[mu] = spent[mu] + 1 /\ spent[mu] \in Nat /\ RefreshTimeout \in Nat
    BY <2>2, <2>3, Amounts DEF Tick, WaitInv
  <2>5. Pending' = Pending + 1 /\ Pending \in Nat
    BY <1>1, <2>2, <2>3, <2>4, NoneAssumption DEF Pending, Calling
  <2>6. elapsed'[v] = elapsed[v] + 1
    BY <2>1, Amounts DEF Tick, Older, Never, WaitInv
  <2>7. AllCached'
    BY <1>1, <2>1, AgedEntry DEF AllCached
  <2>8. Paid(v) \in Nat /\ Paid(v)' \in Nat /\ Paid(v) <= Paid(v)'
    <3> DEFINE g == DoneBy(granted, elapsed[v])
               h == DoneBy(granted', elapsed[v] + 1)
               E == {p \in Projects : DoneBy(owned'[p], elapsed[v] + 1)}
    <3>1. Paid(v) = Weight(g, Refreshed(v)) /\ Paid(v)' = Weight(h, E)
      BY <2>6 DEF Paid, Refreshed
    <3>2. /\ g \in BOOLEAN /\ h \in BOOLEAN /\ (g => h)
          /\ Refreshed(v) \in SUBSET Projects /\ E \in SUBSET Projects /\ Refreshed(v) \subseteq E
      BY <1>1, <2>1, AgedEntry DEF DoneBy, Refreshed
    <3> HIDE DEF g, h, E
    <3> QED
      BY <3>1, <3>2, Weights DEF Ample
  <2>9. /\ RefreshTimeout * Paid(v) \in Nat /\ RefreshTimeout * Paid(v)' \in Nat
        /\ RefreshTimeout * Paid(v) <= RefreshTimeout * Paid(v)'
    BY <2>4, <2>8, Scaled
  <2>10. elapsed[v] + 1 <= Budget /\ elapsed[v] + 1 <= RefreshTimeout * Paid(v)' + (Pending + 1)
    <3>1. RefreshTimeout * Paid(v) + Pending + 1 <= Budget /\ Budget \in Nat
      BY <1>4, <2>2, <2>3, Affordable, Amounts DEF WaitInv
    <3> QED
      BY <3>1, <2>1, <2>5, <2>9
  <2> QED
    BY <2>5, <2>6, <2>7, <2>10 DEF InTime, Budget
<1>5. \A v \in Callers : InTime(v)'
  BY <1>1, <1>4 DEF InTime
<1> QED
  BY <1>2, <1>3, <1>5 DEF Waits

LEMMA StillWaits ==
    ASSUME WaitInv, Reload \/ UNCHANGED vars
    PROVE  Waits'
<1>1. UNCHANGED <<ttlRead, mu, granted, owned, pc, at, spent, elapsed, warm>>
  BY DEF Reload, vars, cache, caller
<1> QED
  BY <1>1 DEF WaitInv, Waits, Overdue, Resting, InTime, AllCached, Paid, Refreshed, Pending, Budget

LEMMA InitWaits == Ample /\ Init => WaitInv
<1> SUFFICES ASSUME Ample, Init PROVE WaitInv
  OBVIOUS
<1>1. \A w \in Callers : pc[w] = "idle" /\ elapsed[w] = 0 /\ ~warm[w]
  BY DEF Init
<1> QED
  BY <1>1, InitInv DEF WaitInv, Overdue, Resting, InTime

LEMMA NextWaits ==
    ASSUME Ample, WaitInv, [Next]_vars
    PROVE  WaitInv'
<1>1. IInv'
  BY NextInv DEF WaitInv
<1>2. ASSUME NEW w \in Callers, Step(w) PROVE Waits'
  BY <1>1, <1>2, BeginWaits, LockWaits, CheckWaits, GrantedAnswerWaits, GrantedFailureWaits,
     RolesAnswerWaits, RolesFailureWaits, NameAnswerWaits DEF Step
<1>3. Waits'
  BY <1>2, TickWaits, StillWaits DEF Next
<1> QED
  BY <1>1, <1>3 DEF WaitInv, Waits

\* AnsweredInTime: whoever finds everything cached is answered before Zitadel
\* gives up, whatever times out and however the requests interleave, provided
\* that the times are as far apart as Ample says.
THEOREM WarmAnsweredInTime == Ample => (Spec => []AnsweredInTime)
<1> SUFFICES ASSUME Ample PROVE Spec => []AnsweredInTime
  OBVIOUS
<1>1. Init => WaitInv
  BY InitWaits
<1>2. WaitInv /\ [Next]_vars => WaitInv'
  BY NextWaits
<1>3. WaitInv => AnsweredInTime
  <2> SUFFICES ASSUME WaitInv, NEW w \in Callers, warm[w] PROVE elapsed[w] <= HookTimeout
    BY DEF AnsweredInTime
  <2>1. elapsed[w] <= Budget /\ elapsed[w] \in Nat /\ Budget \in Nat /\ HookTimeout \in Nat
    BY Amounts DEF WaitInv, InTime
  <2> QED
    BY <2>1 DEF Ample
<1> QED
  BY <1>1, <1>2, <1>3, PTL DEF Spec
=============================================================================
