------------------------ MODULE GrantAuthorityProofs ------------------------
(***************************************************************************)
(* What no interleaving, fault or crash can do, whether the workers share  *)
(* locks or not: touch the grants of a user the mapper has no authority    *)
(* over, or give a role that nothing entitles the user to.                 *)
(***************************************************************************)
EXTENDS GrantReconcilerProofs

-----------------------------------------------------------------------------
(* Unmanaged users.                                                        *)

(* Whoever is on the way to a write is at a managed user: a login past its *)
(* guard, and a batch by what its organisations and its lists may hold.    *)
AtWorkManaged ==
    /\ \A w \in Workers : pc[w] = "lock" \/ pc[w] \in Critical => Managed(user[w])
    /\ \A w \in Workers : pc[w] = "resolve" => Enriched(user[w])

RunManaged ==
    \A b \in Batches :
        /\ \A o \in run[b].orgs : o \in Configured /\ Rules[o] # {}
        /\ \A u \in run[b].unresolved \cup run[b].left : Managed(u)

ManagedWork == AtWorkManaged /\ RunManaged

LEMMA ManagedInit == Init => ManagedWork
BY DEF Init, ManagedWork, AtWorkManaged, RunManaged, NoRun, Critical, Batches

(* The humans of an organisation with rules are managed: validate demands a*)
(* resolver for it.                                                        *)
LEMMA HumansManaged ==
    ASSUME NEW u \in Users \ Machines, OrgOf[u] \in Configured, RulesFor(u) # {}
    PROVE  Managed(u)
BY ConfigWellFormed DEF Managed, Enriched, RulesFor

(* A step that leaves the runs alone and sets nobody on the way.           *)
LEMMA NobodySetOut ==
    ASSUME ManagedWork, run' = run,
           \A v \in Workers :
              /\ pc'[v] = "lock" \/ pc'[v] \in Critical =>
                    (pc[v] = "lock" \/ pc[v] \in Critical) /\ user'[v] = user[v]
              /\ pc'[v] = "resolve" => pc[v] = "resolve" /\ user'[v] = user[v]
    PROVE  ManagedWork'
BY DEF ManagedWork, AtWorkManaged, RunManaged, Managed, Enriched, RulesFor

(* The fields of a batch's state after one step of phase 1.                *)
LEMMA ListedFields ==
    ASSUME NEW r \in Runs, NEW os, NEW us
    PROVE  /\ [r EXCEPT !.orgs = os, !.unresolved = us].orgs = os
           /\ [r EXCEPT !.orgs = os, !.unresolved = us].unresolved = us
           /\ [r EXCEPT !.orgs = os, !.unresolved = us].left = r.left
           /\ [r EXCEPT !.orgs = os].orgs = os
           /\ [r EXCEPT !.orgs = os].unresolved = r.unresolved
           /\ [r EXCEPT !.orgs = os].left = r.left
           /\ [r EXCEPT !.orgs = os, !.unresolved = us].answers = r.answers
           /\ [r EXCEPT !.orgs = os].answers = r.answers
BY DEF Runs

LEMMA ManagedStep == TypeOK /\ ManagedWork /\ [Next]_vars => ManagedWork'
<1> SUFFICES ASSUME TypeOK, ManagedWork, [Next]_vars PROVE ManagedWork'
  OBVIOUS
<1> USE WorkersDisjoint DEF TypeOK, Types, Shape, Workers, Batches, Locked
<1>1. ASSUME NEW l \in Logins, NEW u \in Users, ReceiveLogin(l, u) PROVE ManagedWork'
  BY <1>1 DEF ReceiveLogin, Goto, ManagedWork, AtWorkManaged, RunManaged, Critical, Managed, Enriched, RulesFor
<1>2. ASSUME NEW l \in Logins, ResolveLogin(l) PROVE ManagedWork'
  <2>1. Enriched(user[l]) /\ user[l] \in Users
    BY <1>2, AtWork DEF ResolveLogin, ManagedWork, AtWorkManaged
  <2>2. ASSUME NEW a, LoginSyncs(user[l], a) PROVE Managed(user[l])
    BY <2>1, <2>2 DEF LoginSyncs, RulesApply, Managed
  <2>3. CASE pc' = [pc EXCEPT ![l] = "idle"] /\ UNCHANGED run
    BY <1>2, <2>3, NobodySetOut DEF ResolveLogin, Done, Goto, Critical
  <2>4. CASE /\ pc' = [pc EXCEPT ![l] = "lock"] /\ Managed(user[l])
             /\ UNCHANGED <<user, run>>
    BY <2>4 DEF ManagedWork, AtWorkManaged, RunManaged, Critical, Managed, Enriched, RulesFor
  <2> QED  BY <1>2, <2>2, <2>3, <2>4 DEF ResolveLogin, Done, Goto
<1>3. ASSUME NEW b \in Batches, StartBatch(b) PROVE ManagedWork'
  <2>1. AtWorkManaged'
    BY <1>3 DEF StartBatch, Goto, job, ManagedWork, AtWorkManaged, Critical, Managed, Enriched, RulesFor
  <2>2. RunManaged'
    BY <1>3 DEF StartBatch, NoRun, ManagedWork, RunManaged, Managed, Enriched, RulesFor
  <2> QED  BY <2>1, <2>2 DEF ManagedWork
<1>4. ASSUME NEW b \in Batches, ListUsersInOrg(b) PROVE ManagedWork'
  <2>1. AtWorkManaged'
    BY <1>4 DEF ListUsersInOrg, job, ManagedWork, AtWorkManaged, Critical, Managed, Enriched, RulesFor
  <2>2. PICK o \in run[b].orgs :
           \E us \in {run[b].unresolved, {u \in Users \ Machines : OrgOf[u] = o}} :
              run'[b] = [run[b] EXCEPT !.orgs = run[b].orgs \ {o}, !.unresolved = us]
    <3>1. PICK o \in run[b].orgs :
            \/ run' = [run EXCEPT ![b] =
                   [run[b] EXCEPT !.orgs = run[b].orgs \ {o},
                             !.unresolved = {u \in Users \ Machines : OrgOf[u] = o}]]
            \/ run' = [run EXCEPT ![b] = [run[b] EXCEPT !.orgs = run[b].orgs \ {o}]]
      BY <1>4 DEF ListUsersInOrg
    <3>2. run[b] \in Runs
      OBVIOUS
    <3>3. [run[b] EXCEPT !.orgs = run[b].orgs \ {o}] =
             [run[b] EXCEPT !.orgs = run[b].orgs \ {o}, !.unresolved = run[b].unresolved]
      BY <3>2 DEF Runs
    <3> QED  BY <3>1, <3>3
  <2>3. o \in Configured /\ Rules[o] # {}
    BY DEF ManagedWork, RunManaged
  <2>4. PICK us \in {run[b].unresolved, {u \in Users \ Machines : OrgOf[u] = o}} :
           run'[b] = [run[b] EXCEPT !.orgs = run[b].orgs \ {o}, !.unresolved = us]
    BY <2>2
  <2>5. \A u \in us : u \in run[b].unresolved \/ Managed(u)
    BY <2>3, HumansManaged DEF RulesFor
  <2>6. /\ run'[b].orgs = run[b].orgs \ {o}
        /\ run'[b].left = run[b].left /\ run'[b].unresolved = us
    BY <2>4, ListedFields
  <2>7. \A c \in Batches \ {b} : run'[c] = run[c]
    BY <1>4 DEF ListUsersInOrg
  <2>8. RunManaged'
    BY <2>5, <2>6, <2>7 DEF ManagedWork, RunManaged, Managed, Enriched, RulesFor
  <2> QED  BY <2>1, <2>8 DEF ManagedWork
<1>5. ASSUME NEW b \in Batches, NEW u \in Users, ResolveInBatch(b, u) PROVE ManagedWork'
  <2>1. AtWorkManaged'
    BY <1>5 DEF ResolveInBatch, job, ManagedWork, AtWorkManaged, Critical, Managed, Enriched, RulesFor
  <2>2. run[b] \in Runs
    OBVIOUS
  <2>3. u \in run[b].unresolved /\ \A c \in Batches \ {b} : run'[c] = run[c]
    BY <1>5 DEF ResolveInBatch
  <2>4. /\ run'[b].orgs = run[b].orgs
        /\ run'[b].unresolved \subseteq run[b].unresolved
        /\ run'[b].left \subseteq run[b].left \cup {u}
    <3> DEFINE s == run'[b]
               r == run[b]
    <3>1. r \in Runs
      BY <2>2
    <3>2. \/ s = [r EXCEPT !.unresolved = r.unresolved \ {u},
                           !.resolved   = r.resolved \cup {u},
                           !.left       = r.left \cup {u},
                           !.answers    = [r.answers EXCEPT ![u] = Told(u)]]
          \/ s = [r EXCEPT !.unresolved = r.unresolved \ {u}]
      BY <1>5 DEF ResolveInBatch
    <3> HIDE DEF s, r
    <3>3. /\ s.orgs = r.orgs /\ s.unresolved = r.unresolved \ {u}
          /\ s.left = r.left \cup {u} \/ s.left = r.left
      <4>1. CASE s = [r EXCEPT !.unresolved = r.unresolved \ {u},
                               !.resolved   = r.resolved \cup {u},
                               !.left       = r.left \cup {u},
                               !.answers    = [r.answers EXCEPT ![u] = Told(u)]]
        BY ONLY <3>1, <4>1 DEF Runs
      <4>2. CASE s = [r EXCEPT !.unresolved = r.unresolved \ {u}]
        BY ONLY <3>1, <4>2 DEF Runs
      <4> QED  BY ONLY <3>2, <4>1, <4>2
    <3> QED  BY ONLY <3>3 DEF s, r
  <2>5. RunManaged'
    <3>1. Managed(u)
      BY <2>3 DEF ManagedWork, RunManaged
    <3>2. \A c \in Batches : /\ run'[c].orgs \subseteq run[c].orgs
                             /\ run'[c].unresolved \cup run'[c].left
                                  \subseteq run[c].unresolved \cup run[c].left \cup {u}
      BY <2>3, <2>4
    <3>3. ASSUME NEW c \in Batches
          PROVE  /\ \A o \in run'[c].orgs : o \in Configured /\ Rules[o] # {}
                 /\ \A v \in run'[c].unresolved \cup run'[c].left : Managed(v)
      BY <3>1, <3>2 DEF ManagedWork, RunManaged
    <3> QED  BY <3>3 DEF RunManaged, Managed, Enriched, RulesFor
  <2> QED  BY <2>1, <2>5 DEF ManagedWork
<1>6. ASSUME NEW b \in Batches, DecideBatch(b) \/ EndBatch(b) PROVE ManagedWork'
  <2>1. AtWorkManaged'
    <3>1. user' = user /\ \A w \in Workers : pc'[w] = pc[w] \/ pc'[w] \in {"idle", "next"}
      BY <1>6 DEF DecideBatch, EndBatch, Goto, job
    <3> QED  BY <3>1 DEF ManagedWork, AtWorkManaged, Critical, Managed, Enriched, RulesFor
  <2>2. run' = run \/ run' = [run EXCEPT ![b] = NoRun]
    BY <1>6 DEF DecideBatch, EndBatch
  <2>3. RunManaged'
    <3>1. \A c \in Batches : run'[c] = run[c] \/ run'[c] = NoRun
      BY <2>2
    <3>2. NoRun.orgs = {} /\ NoRun.unresolved = {} /\ NoRun.left = {}
      BY DEF NoRun
    <3> QED  BY <3>1, <3>2 DEF ManagedWork, RunManaged, Managed, Enriched, RulesFor
  <2> QED  BY <2>1, <2>3 DEF ManagedWork
<1>7. ASSUME NEW b \in Batches, NEW u \in Users, PickUser(b, u) PROVE ManagedWork'
  <2>1. Managed(u) /\ Managed(u)'
    BY <1>7 DEF PickUser, ManagedWork, RunManaged, Managed, Enriched, RulesFor
  <2>2. AtWorkManaged'
    <3>1. \A w \in Workers : \/ pc'[w] = pc[w] /\ user'[w] = user[w]
                             \/ pc'[w] = "lock" /\ user'[w] = u
      BY <1>7 DEF PickUser, Goto
    <3> QED  BY <2>1, <3>1 DEF ManagedWork, AtWorkManaged, Managed, Enriched, RulesFor
  <2>3. run[b] \in Runs
    OBVIOUS
  <2>4. /\ run'[b].orgs = run[b].orgs /\ run'[b].unresolved = run[b].unresolved
        /\ run'[b].left \subseteq run[b].left
        /\ \A c \in Batches \ {b} : run'[c] = run[c]
    BY <1>7, <2>3 DEF PickUser, Runs
  <2>5. RunManaged'
    <3>1. \A c \in Batches : /\ run'[c].orgs \subseteq run[c].orgs
                             /\ run'[c].unresolved \cup run'[c].left
                                  \subseteq run[c].unresolved \cup run[c].left
      BY <2>4
    <3> QED  BY <3>1 DEF ManagedWork, RunManaged, Managed, Enriched, RulesFor
  <2> QED  BY <2>2, <2>5 DEF ManagedWork
<1>8. ASSUME NEW w \in Workers, Lock(w) PROVE ManagedWork'
  BY <1>8, NobodySetOut DEF Lock, Goto, job, Critical
<1>9. ASSUME NEW w \in Workers, PlanGrants(w) \/ ListGrants(w) PROVE ManagedWork'
  BY <1>9, NobodySetOut DEF PlanGrants, ListGrants, Goto, Critical
<1>10. ASSUME NEW w \in Workers, NEW p \in Projects,
              AddGrant(w, p) \/ UpdateGrant(w, p) \/ RemoveGrant(w, p)
       PROVE  ManagedWork'
  <2>1. /\ pc[w] = "write" /\ (pc' = pc \/ pc' = [pc EXCEPT ![w] = "failed"])
        /\ UNCHANGED <<user, run>>
    BY <1>10, WriteOutcome
  <2> QED  BY <1>10, <2>1, WriteOutcome, NobodySetOut DEF Critical
<1>11. ASSUME NEW w \in Workers, Unlock(w) PROVE ManagedWork'
  BY <1>11, NobodySetOut DEF Unlock, Done, Critical
<1>12. ASSUME NEW u \in Users, ChangeDirectory(u) PROVE ManagedWork'
  BY <1>12, NobodySetOut DEF ChangeDirectory, job
<1>13. ASSUME NEW dead, Crash(dead) PROVE ManagedWork'
  <2>1. AtWorkManaged'
    BY <1>13 DEF Crash, ManagedWork, AtWorkManaged, Critical, Managed, Enriched, RulesFor
  <2>2. RunManaged'
    BY <1>13 DEF Crash, NoRun, ManagedWork, RunManaged, Managed, Enriched, RulesFor
  <2> QED  BY <2>1, <2>2 DEF ManagedWork
<1>14. CASE UNCHANGED vars
  BY <1>14, NobodySetOut DEF vars
<1>15. ASSUME NEW w \in Workers, Work(w) PROVE ManagedWork'
  BY <1>9, <1>10, <1>11, <1>15 DEF Work
<1> QED
  BY <1>1, <1>2, <1>3, <1>4, <1>5, <1>6, <1>7, <1>8, <1>12, <1>13, <1>14, <1>15
     DEF Next, LoginStep, BatchStep, Environment, CrashServer, CrashCron

(* Who writes is at a managed user, and writes that user's grants only.    *)
LEMMA ManagedWrite ==
    TypeOK /\ ManagedWork /\ [Next]_vars =>
        \A u \in Users : ~Managed(u) => grants'[u] = grants[u]
<1> SUFFICES ASSUME TypeOK, ManagedWork, [Next]_vars, NEW u \in Users, ~Managed(u)
             PROVE  grants'[u] = grants[u]
  OBVIOUS
<1>1. ASSUME NEW w \in Workers, NEW p \in Projects,
             AddGrant(w, p) \/ UpdateGrant(w, p) \/ RemoveGrant(w, p)
      PROVE  grants'[u] = grants[u]
  <2>1. pc[w] = "write" /\ (grants' = grants \/ Written(w, p))
    BY <1>1, WriteOutcome
  <2>2. user[w] \in Users /\ user[w] # u
    BY <2>1, AtWork DEF ManagedWork, AtWorkManaged, Critical
  <2> QED  BY <2>1, <2>2 DEF Written, TypeOK, Types
<1>2. ASSUME NEW w \in Workers, Work(w) PROVE grants'[u] = grants[u]
  BY <1>1, <1>2 DEF Work, PlanGrants, ListGrants, Unlock
<1>3. ASSUME NEW l \in Logins, LoginStep(l) \/ \E v \in Users : ReceiveLogin(l, v)
      PROVE  grants'[u] = grants[u]
  BY <1>2, <1>3 DEF LoginStep, ResolveLogin, ReceiveLogin, Lock, Workers
<1>4. ASSUME NEW b \in Batches, BatchStep(b) \/ StartBatch(b) PROVE grants'[u] = grants[u]
  BY <1>2, <1>4 DEF BatchStep, StartBatch, ListUsersInOrg, DecideBatch, EndBatch, Lock,
                    ResolveInBatch, PickUser, Workers
<1>5. ASSUME Environment PROVE grants'[u] = grants[u]
  BY <1>5 DEF Environment, ChangeDirectory, CrashServer, CrashCron, Crash
<1> QED  BY <1>3, <1>4, <1>5 DEF Next, vars

(* The grants of users the mapper has no authority over never change.      *)
THEOREM UnmanagedNeverTouched == Spec => UnmanagedUntouched
<1>1. Init => TypeOK /\ ManagedWork
  BY TypeInit, ManagedInit
<1>2. TypeOK /\ ManagedWork /\ [Next]_vars => (TypeOK /\ ManagedWork)'
  BY TypeStep, ManagedStep
<1>3. TypeOK /\ ManagedWork /\ [Next]_vars =>
         [\A u \in Users : ~Managed(u) => grants'[u] = grants[u]]_vars
  BY ManagedWrite
<1> QED  BY <1>1, <1>2, <1>3, PTL DEF Spec, UnmanagedUntouched

-----------------------------------------------------------------------------
(* Unwarranted roles.                                                      *)

(* What u has ever been entitled to on p.                                  *)
Warrant(u, p) == Entitled(u, everIn[u], p)

(* Every answer on its way to a plan, every plan on its way to the grants, *)
(* and the grants themselves rest on groups the user has been in.          *)
WarrantedAnswers ==
    /\ \A u \in Users : directory[u].groups \subseteq everIn[u]
    /\ \A w \in Workers : pc[w] \in {"lock", "plan"} =>
          answer[w].groups \subseteq everIn[user[w]]
    /\ \A b \in Batches : \A u \in run[b].left :
          run[b].answers[u].groups \subseteq everIn[u]

Planned == {"list", "write", "failed"}

WarrantedPlans ==
    \A w \in Workers, p \in Projects : \A r \in plan[w].roles[p] :
        pc[w] \in Planned /\ r \in Warrant(user[w], p)

Warranted == WarrantedAnswers /\ WarrantedPlans /\ NoUnwarrantedRole

(* More groups never entitle to less.                                      *)
LEMMA EntitledMonotone ==
    ASSUME NEW u, NEW p, NEW G, NEW H, G \subseteq H
    PROVE  Entitled(u, G, p) \subseteq Entitled(u, H, p)
BY DEF Entitled

(* Desired gives no role but those the rules give for these groups, a      *)
(* failed catalog or not: the path through MapIdentity and ExpandRoles     *)
(* agrees with the reading of the rules.                                   *)
LEMMA DesiredEntitled ==
    ASSUME NEW u \in Users, NEW groups, NEW failed, NEW p \in Projects
    PROVE  Desired(u, groups, failed).roles[p] \subseteq Entitled(u, groups, p)
<1> DEFINE matched == MatchedGrants(RulesFor(u), u, groups)
           mapped  == MapIdentity(RulesFor(u), u, groups)
           info    == Catalog[OrgOf[u]]
<1>1. OrgOf[u] \in Orgs
  BY ConfigWellFormed
<1>2. ASSUME NEW g \in matched
      PROVE  \E rule \in RulesFor(u) :
                (rule.group \in groups \/ u \in rule.users) /\ g \in rule.grants
  BY <1>2 DEF MatchedGrants, RuleMatches
<1>3. \A g \in matched : g.roles \subseteq Roles
  BY <1>1, <1>2, ConfigWellFormed DEF RulesFor
<1>4. info[p].roles \subseteq Roles
  BY <1>1, ConfigWellFormed
<1>5. ASSUME p \in DOMAIN mapped, NEW r \in mapped[p].roles PROVE r \in Entitled(u, groups, p)
  <2>1. PICK g \in matched : g.project = p /\ r \in g.roles
    BY <1>5 DEF MapIdentity
  <2> QED  BY <2>1, <1>2, <1>3 DEF Entitled
<1>6. ASSUME p \in DOMAIN mapped, NEW r \in info[p].roles \ Protected,
             NEW pattern \in mapped[p].patterns, r \in pattern
      PROVE  r \in Entitled(u, groups, p)
  <2>1. PICK g \in matched : g.project = p /\ pattern \in g.patterns
    BY <1>6 DEF MapIdentity
  <2>2. PICK rule \in RulesFor(u) :
           (rule.group \in groups \/ u \in rule.users) /\ g \in rule.grants
    BY <1>2
  <2> QED  BY <2>1, <2>2, <1>4, <1>6 DEF Entitled
<1>7. \/ Desired(u, groups, failed).roles[p] = {}
      \/ /\ p \in DOMAIN mapped
         /\ Desired(u, groups, failed).roles[p] \subseteq ExpandRoles(mapped[p], info[p].roles)
  BY DEF Desired, ExpandRoles
<1> QED  BY <1>5, <1>6, <1>7 DEF ExpandRoles

LEMMA WarrantedInit == Init => Warranted
<1> SUFFICES ASSUME Init PROVE Warranted
  OBVIOUS
<1>1. WarrantedAnswers
  BY DEF Init, WarrantedAnswers, NoRun, Workers, Batches
<1>2. WarrantedPlans
  BY DEF Init, WarrantedPlans, NoPlan, NoGrants
<1>3. NoUnwarrantedRole
  BY DEF Init, NoUnwarrantedRole
<1> QED  BY <1>1, <1>2, <1>3 DEF Warranted

(* A step that leaves the directory alone, and changes no answer at hand.  *)
AnswersKept ==
    /\ UNCHANGED <<directory, everIn>>
    /\ \A w \in Workers : pc'[w] \in {"lock", "plan"} =>
          pc[w] \in {"lock", "plan"} /\ answer'[w] = answer[w] /\ user'[w] = user[w]
    /\ \A b \in Batches :
          \/ run'[b].left \subseteq run[b].left /\ run'[b].answers = run[b].answers
          \/ run'[b].left = {}

(* ... and one that makes no plan, and keeps plan and user together.       *)
PlansKept ==
    /\ UNCHANGED <<directory, everIn>>
    /\ \A w \in Workers :
          \/ plan'[w] = NoPlan
          \/ /\ plan'[w] = plan[w]
             /\ pc[w] \in Planned => pc'[w] \in Planned /\ user'[w] = user[w]

LEMMA KeptAnswers == Warranted /\ AnswersKept => WarrantedAnswers'
BY DEF Warranted, WarrantedAnswers, AnswersKept

LEMMA KeptPlans == Warranted /\ PlansKept => WarrantedPlans'
<1> SUFFICES ASSUME Warranted, PlansKept, NEW w \in Workers, NEW p \in Projects,
                    NEW r \in plan'[w].roles[p]
             PROVE  pc'[w] \in Planned /\ r \in Warrant(user[w], p)'
  BY DEF WarrantedPlans
<1>1. plan'[w] # NoPlan
  BY DEF NoPlan, NoGrants
<1>2. pc[w] \in Planned /\ r \in Warrant(user[w], p)
  BY <1>1 DEF PlansKept, Warranted, WarrantedPlans
<1>3. pc'[w] \in Planned /\ user'[w] = user[w]
  BY <1>1, <1>2 DEF PlansKept
<1>4. Warrant(user[w], p)' = Entitled(user[w], everIn[user[w]], p)
  BY <1>3 DEF PlansKept, Warrant, Entitled, RulesFor
<1> QED  BY <1>2, <1>3, <1>4 DEF Warrant

LEMMA KeptGrants ==
    Warranted /\ UNCHANGED <<everIn, grants>> => NoUnwarrantedRole'
BY DEF Warranted, NoUnwarrantedRole, Entitled, RulesFor

LEMMA WarrantedStep == TypeOK /\ Warranted /\ [Next]_vars => Warranted'
<1> SUFFICES ASSUME TypeOK, Warranted, [Next]_vars PROVE Warranted'
  OBVIOUS
<1> USE WorkersDisjoint DEF TypeOK, Types, Shape, Workers, Batches, Locked
<1>K. ASSUME AnswersKept, PlansKept, grants' = grants PROVE Warranted'
  BY <1>K, KeptAnswers, KeptPlans, KeptGrants DEF Warranted, AnswersKept
<1>1. ASSUME NEW l \in Logins, NEW u \in Users, ReceiveLogin(l, u) PROVE Warranted'
  <2>1. AnswersKept /\ PlansKept
    BY <1>1 DEF ReceiveLogin, Goto, env, AnswersKept, PlansKept, Planned
  <2> QED  BY <1>1, <2>1, <1>K DEF ReceiveLogin
<1>2. ASSUME NEW l \in Logins, ResolveLogin(l) PROVE Warranted'
  <2>1. user[l] \in Users
    BY <1>2, AtWork DEF ResolveLogin
  <2>2. \A a \in {Told(user[l]), NoAnswer} : a.groups \subseteq everIn[user[l]]
    BY <2>1 DEF Warranted, WarrantedAnswers, Told, NoAnswer
  <2>3. WarrantedAnswers'
    <3>1. CASE Done(l)
      BY <1>2, <3>1, KeptAnswers DEF ResolveLogin, Done, env, AnswersKept
    <3>2. CASE \E a \in {Told(user[l]), NoAnswer} :
                  pc' = [pc EXCEPT ![l] = "lock"] /\ answer' = [answer EXCEPT ![l] = a]
                  /\ user' = user
      BY <1>2, <2>2, <3>2 DEF ResolveLogin, env, Warranted, WarrantedAnswers
    <3> QED  BY <1>2, <3>1, <3>2 DEF ResolveLogin, Goto
  <2>4. PlansKept
    BY <1>2 DEF ResolveLogin, Goto, Done, env, PlansKept, Planned
  <2> QED  BY <1>2, <2>3, <2>4, KeptPlans, KeptGrants DEF ResolveLogin, env, Warranted
<1>3. ASSUME NEW b \in Batches, StartBatch(b) \/ DecideBatch(b) \/ EndBatch(b)
      PROVE  Warranted'
  <2>1. \A c \in Batches : run'[c] = run[c] \/ run'[c].left = {}
    <3>1. CASE StartBatch(b)
      <4>1. PICK force \in BOOLEAN :
               run' = [run EXCEPT ![b] = [NoRun EXCEPT !.force = force,
                                            !.orgs = {o \in Configured : Rules[o] # {}}]]
        BY <3>1 DEF StartBatch
      <4>2. [NoRun EXCEPT !.force = force,
                          !.orgs = {o \in Configured : Rules[o] # {}}].left = {}
        BY DEF NoRun
      <4> QED  BY <4>1, <4>2
    <3>2. CASE run' = run \/ run' = [run EXCEPT ![b] = NoRun]
      <4>1. NoRun.left = {}
        BY DEF NoRun
      <4> QED  BY <3>2, <4>1
    <3> QED  BY <1>3, <3>1, <3>2 DEF DecideBatch, EndBatch
  <2>2. AnswersKept /\ PlansKept
    BY <1>3, <2>1 DEF StartBatch, DecideBatch, EndBatch, Goto, env, job, AnswersKept, PlansKept, Planned
  <2> QED  BY <1>3, <2>2, <1>K DEF StartBatch, DecideBatch, EndBatch
<1>4. ASSUME NEW b \in Batches, ListUsersInOrg(b) PROVE Warranted'
  <2>1. \A c \in Batches : run'[c].left = run[c].left /\ run'[c].answers = run[c].answers
    <3>1. PICK o \in run[b].orgs :
             \/ run' = [run EXCEPT ![b] =
                   [run[b] EXCEPT !.orgs = run[b].orgs \ {o},
                             !.unresolved = {u \in Users \ Machines : OrgOf[u] = o}]]
             \/ run' = [run EXCEPT ![b] = [run[b] EXCEPT !.orgs = run[b].orgs \ {o}]]
      BY <1>4 DEF ListUsersInOrg
    <3>2. run[b] \in Runs
      OBVIOUS
    <3>3. run'[b].left = run[b].left /\ run'[b].answers = run[b].answers
      <4> DEFINE us == {u \in Users \ Machines : OrgOf[u] = o}
      <4>1. \/ run'[b] = [run[b] EXCEPT !.orgs = run[b].orgs \ {o}, !.unresolved = us]
            \/ run'[b] = [run[b] EXCEPT !.orgs = run[b].orgs \ {o}]
        BY <3>1
      <4> HIDE DEF us
      <4> QED  BY ONLY <3>2, <4>1 DEF Runs
    <3> QED  BY <3>1, <3>3
  <2>2. AnswersKept /\ PlansKept
    BY <1>4, <2>1 DEF ListUsersInOrg, env, job, AnswersKept, PlansKept
  <2> QED  BY <1>4, <2>2, <1>K DEF ListUsersInOrg
<1>5. ASSUME NEW b \in Batches, NEW u \in Users, ResolveInBatch(b, u) PROVE Warranted'
  <2>1. PlansKept /\ UNCHANGED <<directory, everIn, grants, pc, user, answer>>
    BY <1>5 DEF ResolveInBatch, env, job, PlansKept
  <2>2. \A c \in Batches :
           \/ run'[c].left = run[c].left /\ run'[c].answers = run[c].answers
           \/ /\ run'[c].left = run[c].left \cup {u}
              /\ run'[c].answers = [run[c].answers EXCEPT ![u] = Told(u)]
    <3> DEFINE s == run'[b]
               r == run[b]
    <3>1. r \in Runs /\ \A c \in Batches \ {b} : run'[c] = run[c]
      BY <1>5 DEF ResolveInBatch
    <3>2. \/ s = [r EXCEPT !.unresolved = r.unresolved \ {u},
                           !.resolved   = r.resolved \cup {u},
                           !.left       = r.left \cup {u},
                           !.answers    = [r.answers EXCEPT ![u] = Told(u)]]
          \/ s = [r EXCEPT !.unresolved = r.unresolved \ {u}]
      BY <1>5 DEF ResolveInBatch
    <3> HIDE DEF s, r
    <3>3. \/ /\ s.left = r.left \cup {u}
             /\ s.answers = [r.answers EXCEPT ![u] = Told(u)]
          \/ s.left = r.left /\ s.answers = r.answers
      <4>1. CASE s = [r EXCEPT !.unresolved = r.unresolved \ {u},
                               !.resolved   = r.resolved \cup {u},
                               !.left       = r.left \cup {u},
                               !.answers    = [r.answers EXCEPT ![u] = Told(u)]]
        BY ONLY <3>1, <4>1 DEF Runs
      <4>2. CASE s = [r EXCEPT !.unresolved = r.unresolved \ {u}]
        BY ONLY <3>1, <4>2 DEF Runs
      <4> QED  BY ONLY <3>2, <4>1, <4>2
    <3> QED  BY <3>1, <3>3 DEF s, r
  <2>3. Told(u).groups \subseteq everIn[u]
    BY DEF Told, Warranted, WarrantedAnswers
  <2>4. \A c \in Batches : DOMAIN run[c].answers = Users /\ run[c].left \subseteq Users
    BY DEF Runs
  <2>5. ASSUME NEW c \in Batches, NEW v \in run'[c].left
        PROVE  run'[c].answers[v].groups \subseteq everIn[v]
    <3>1. CASE run'[c].left = run[c].left /\ run'[c].answers = run[c].answers
      BY <2>5, <3>1 DEF Warranted, WarrantedAnswers
    <3>2. CASE /\ run'[c].left = run[c].left \cup {u}
               /\ run'[c].answers = [run[c].answers EXCEPT ![u] = Told(u)]
      <4>1. CASE v = u
        BY <2>3, <2>4, <3>2, <4>1
      <4>2. CASE v # u
        BY <2>4, <2>5, <3>2, <4>2 DEF Warranted, WarrantedAnswers
      <4> QED  BY <4>1, <4>2
    <3> QED  BY <2>2, <3>1, <3>2
  <2>6. WarrantedAnswers'
    BY <2>1, <2>5 DEF Warranted, WarrantedAnswers
  <2> QED  BY <2>1, <2>6, KeptPlans, KeptGrants DEF Warranted
<1>6. ASSUME NEW b \in Batches, NEW u \in Users, PickUser(b, u) PROVE Warranted'
  <2>1. \A c \in Batches : run'[c].left \subseteq run[c].left /\ run'[c].answers = run[c].answers
    BY <1>6 DEF PickUser, Runs
  <2>2. run[b].answers[u].groups \subseteq everIn[u]
    BY <1>6 DEF PickUser, Warranted, WarrantedAnswers
  <2>3. WarrantedAnswers'
    BY <1>6, <2>1, <2>2 DEF PickUser, Goto, env, Warranted, WarrantedAnswers
  <2>4. PlansKept
    BY <1>6 DEF PickUser, Goto, env, PlansKept, Planned
  <2> QED  BY <1>6, <2>3, <2>4, KeptPlans, KeptGrants DEF PickUser, env, Warranted
<1>7. ASSUME NEW w \in Workers, Lock(w) PROVE Warranted'
  <2>1. AnswersKept /\ PlansKept
    BY <1>7 DEF Lock, Goto, env, job, AnswersKept, PlansKept, Planned
  <2> QED  BY <1>7, <2>1, <1>K DEF Lock
<1>8. ASSUME NEW w \in Workers, PlanGrants(w) PROVE Warranted'
  <2>1. AnswersKept
    BY <1>8 DEF PlanGrants, Goto, env, AnswersKept
  <2>2. user[w] \in Users
    BY <1>8, AtWork DEF PlanGrants
  <2>3. PICK failed : plan' = [plan EXCEPT ![w] = Desired(user[w], answer[w].groups, failed)]
    BY <1>8 DEF PlanGrants
  <2>4. UNCHANGED <<everIn, user, grants>> /\ pc' = [pc EXCEPT ![w] = "list"]
    BY <1>8 DEF PlanGrants, Goto, env
  <2>5. answer[w].groups \subseteq everIn[user[w]]
    BY <1>8 DEF PlanGrants, Warranted, WarrantedAnswers
  <2>6. \A p \in Projects : plan'[w].roles[p] \subseteq Warrant(user[w], p)
    <3> SUFFICES ASSUME NEW p \in Projects
                 PROVE  plan'[w].roles[p] \subseteq Warrant(user[w], p)
      OBVIOUS
    <3>1. plan'[w].roles[p] \subseteq Entitled(user[w], answer[w].groups, p)
      BY <2>2, <2>3, DesiredEntitled
    <3> QED  BY <2>5, <3>1, EntitledMonotone DEF Warrant
  <2>7. WarrantedPlans'
    <3> SUFFICES ASSUME NEW v \in Workers, NEW p \in Projects, NEW r \in plan'[v].roles[p]
                 PROVE  pc'[v] \in Planned /\ r \in Warrant(user[v], p)'
      BY DEF WarrantedPlans
    <3>1. Warrant(user[v], p)' = Warrant(user[v], p)
      BY <2>4 DEF Warrant, Entitled, RulesFor
    <3>2. pc'[v] \in Planned
      BY <2>3, <2>4 DEF Planned, Warranted, WarrantedPlans
    <3>3. r \in Warrant(user[v], p)
      BY <2>3, <2>6 DEF Warranted, WarrantedPlans
    <3> QED  BY <3>1, <3>2, <3>3
  <2> QED  BY <2>1, <2>4, <2>7, KeptAnswers, KeptGrants DEF Warranted
<1>9. ASSUME NEW w \in Workers, ListGrants(w) \/ Unlock(w) PROVE Warranted'
  <2>1. AnswersKept /\ PlansKept
    BY <1>9 DEF ListGrants, Unlock, Done, Goto, env, AnswersKept, PlansKept, Planned
  <2> QED  BY <1>9, <2>1, <1>K DEF ListGrants, Unlock
<1>10. ASSUME NEW w \in Workers, NEW p \in Projects,
              AddGrant(w, p) \/ UpdateGrant(w, p) \/ RemoveGrant(w, p)
       PROVE  Warranted'
  <2>1. /\ pc[w] = "write" /\ (pc' = pc \/ pc' = [pc EXCEPT ![w] = "failed"])
        /\ Written(w, p) \/ grants' = grants
        /\ UNCHANGED <<user, answer, plan, run, everIn>>
    BY <1>10, WriteOutcome
  <2>2. directory' = directory
    BY <1>10 DEF AddGrant, UpdateGrant, RemoveGrant, env
  <2>3. AnswersKept /\ PlansKept
    BY <2>1, <2>2 DEF AnswersKept, PlansKept, Planned
  <2>4. plan[w].roles[p] \subseteq Entitled(user[w], everIn[user[w]], p)
    BY DEF Warranted, WarrantedPlans, Warrant
  <2>5. user[w] \in Users
    BY <2>1, AtWork
  <2>6. \A u \in Users, q \in Projects :
           \/ grants'[u][q] = grants[u][q]
           \/ u = user[w] /\ q = p /\ grants'[u][q] = plan[w].roles[p]
    BY <2>1, <2>5 DEF Written, GrantSets
  <2>7. NoUnwarrantedRole'
    <3>1. ASSUME NEW u \in Users, NEW q \in Projects
          PROVE  grants'[u][q] \subseteq
                    Entitled(u, everIn[u], q) \cup UNION {g[u][q] : g \in InitGrants}
      BY <2>4, <2>6 DEF Warranted, NoUnwarrantedRole
    <3> QED  BY <2>1, <3>1 DEF NoUnwarrantedRole, Entitled, RulesFor
  <2> QED  BY <2>3, <2>7, KeptAnswers, KeptPlans DEF Warranted
<1>11. ASSUME NEW u \in Users, ChangeDirectory(u) PROVE Warranted'
  <2>1. UNCHANGED <<grants, pc, user, answer, plan, run>>
    BY <1>11 DEF ChangeDirectory, job
  <2>2. /\ \A v \in Users : everIn[v] \subseteq everIn'[v]
        /\ \A v \in Users : directory'[v].groups \subseteq everIn'[v]
    BY <1>11 DEF ChangeDirectory, Warranted, WarrantedAnswers
  <2>3. WarrantedAnswers'
    <3>1. \A w \in Workers : pc[w] \in {"lock", "plan"} => user[w] \in Users
      BY AtWork
    <3>2. \A b \in Batches : run[b].left \subseteq Users
      BY DEF Runs
    <3> QED  BY <2>1, <2>2, <3>1, <3>2 DEF Warranted, WarrantedAnswers
  <2>4. WarrantedPlans'
    <3> SUFFICES ASSUME NEW w \in Workers, NEW p \in Projects, NEW r \in plan[w].roles[p]
                 PROVE  pc[w] \in Planned /\ r \in Warrant(user[w], p)'
      BY <2>1 DEF WarrantedPlans
    <3>1. pc[w] \in Planned /\ r \in Warrant(user[w], p)
      BY DEF Warranted, WarrantedPlans
    <3>2. user[w] \in Users
      BY <3>1, AtWork DEF Planned
    <3>3. everIn[user[w]] \subseteq everIn'[user[w]]
      BY <2>2, <3>2
    <3>4. Warrant(user[w], p)' = Entitled(user[w], everIn'[user[w]], p)
      BY <2>1 DEF Warrant, Entitled, RulesFor
    <3> QED  BY <3>1, <3>3, <3>4, EntitledMonotone DEF Warrant
  <2>5. NoUnwarrantedRole'
    <3>1. ASSUME NEW v \in Users, NEW p \in Projects
          PROVE  grants[v][p] \subseteq
                    Entitled(v, everIn'[v], p) \cup UNION {g[v][p] : g \in InitGrants}
      BY <2>2, EntitledMonotone DEF Warranted, NoUnwarrantedRole
    <3> QED  BY <2>1, <3>1 DEF NoUnwarrantedRole, Entitled, RulesFor
  <2> QED  BY <2>3, <2>4, <2>5 DEF Warranted
<1>12. ASSUME NEW dead, Crash(dead) PROVE Warranted'
  <2>1. AnswersKept /\ PlansKept
    BY <1>12 DEF Crash, env, NoRun, AnswersKept, PlansKept, Planned
  <2> QED  BY <1>12, <2>1, <1>K DEF Crash
<1>13. CASE UNCHANGED vars
  <2>1. AnswersKept /\ PlansKept
    BY <1>13 DEF vars, env, job, AnswersKept, PlansKept
  <2> QED  BY <1>13, <2>1, <1>K DEF vars
<1>14. ASSUME NEW w \in Workers, Work(w) PROVE Warranted'
  BY <1>8, <1>9, <1>10, <1>14 DEF Work
<1> QED
  BY <1>1, <1>2, <1>3, <1>4, <1>5, <1>6, <1>7, <1>11, <1>12, <1>13, <1>14
     DEF Next, LoginStep, BatchStep, Environment, CrashServer, CrashCron

(* Nobody is ever given a role that no group they have been in gives.      *)
THEOREM RolesWarranted == Spec => []NoUnwarrantedRole
<1>1. Init => TypeOK /\ Warranted
  BY TypeInit, WarrantedInit
<1>2. TypeOK /\ Warranted /\ [Next]_vars => (TypeOK /\ Warranted)'
  BY TypeStep, WarrantedStep
<1>3. Warranted => NoUnwarrantedRole
  BY DEF Warranted
<1> QED  BY <1>1, <1>2, <1>3, PTL DEF Spec
=============================================================================
