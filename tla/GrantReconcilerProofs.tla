------------------------ MODULE GrantReconcilerProofs ------------------------
(***************************************************************************)
(* Theorems about GrantReconciler, for every set of users, organisations,  *)
(* rules, workers and faults.                                              *)
(***************************************************************************)
EXTENDS GrantReconciler, TLAPS

-----------------------------------------------------------------------------
(* Type correctness.                                                       *)

(* The facts about the constants the type proofs rest on.                  *)
USE DEF Workers, Batches, Locked

(* Desired yields a plan: role keys and projects are those of the          *)
(* deployment (reconcile.Desired over mapper.MapIdentity and ExpandRoles). *)
LEMMA DesiredType ==
    ASSUME NEW u \in Users, NEW groups, NEW failed
    PROVE  Desired(u, groups, failed) \in Plans
<1> DEFINE mapped == MapIdentity(RulesFor(u), u, groups)
           info   == Catalog[OrgOf[u]]
<1>1. OrgOf[u] \in Orgs
  BY ConfigWellFormed
<1>2. \A p \in DOMAIN mapped : p \in Projects /\ mapped[p].roles \subseteq Roles
  BY <1>1, ConfigWellFormed DEF MapIdentity, MatchedGrants, RulesFor
<1>3. \A p \in Projects : info[p].roles \subseteq Roles
  BY <1>1, ConfigWellFormed
<1>4. \A p \in DOMAIN mapped : ExpandRoles(mapped[p], info[p].roles) \subseteq Roles
  BY <1>2, <1>3 DEF ExpandRoles
<1> QED
  BY <1>2, <1>4 DEF Desired, Plans, GrantSets

LEMMA DefaultsTyped == NoPlan \in Plans /\ NoGrants \in GrantSets /\ NoAnswer \in Answers
BY DEF NoPlan, NoGrants, NoAnswer, Plans, GrantSets, Answers

LEMMA NoRunTyped == NoRun \in Runs
BY DefaultsTyped DEF NoRun, Runs

LEMMA ToldTyped == ASSUME TypeOK, NEW u \in Users PROVE Told(u) \in Answers
BY DEF TypeOK, Types, Told, Answers, Standing

LEMMA TypeInit == Init => TypeOK
BY DefaultsTyped, NoRunTyped, SentinelsDistinct, InitsWellFormed, BoundsAreNatural
   DEF Init, TypeOK, Types, Shape, PCs, Standing

LEMMA FaultTyped ==
    ASSUME TypeOK, NEW k, Fault(k) \/ UNCHANGED faults
    PROVE  faults' \in 0..MaxFaults
BY BoundsAreNatural DEF TypeOK, Types, Fault

(* A batch's state after one step of reconcile.All.                        *)
LEMMA RunListed ==
    ASSUME NEW r \in Runs, NEW os, NEW us \in SUBSET Users
    PROVE  /\ [r EXCEPT !.orgs = r.orgs \ os, !.unresolved = us] \in Runs
           /\ [r EXCEPT !.orgs = r.orgs \ os] \in Runs
BY DEF Runs

LEMMA RunResolved ==
    ASSUME NEW r \in Runs, NEW u \in Users, NEW a \in Answers
    PROVE  [r EXCEPT !.unresolved = r.unresolved \ {u}, !.resolved = r.resolved \cup {u},
             !.left = r.left \cup {u}, !.answers = [r.answers EXCEPT ![u] = a]] \in Runs
BY DEF Runs

LEMMA RunReduced ==
    ASSUME NEW r \in Runs, NEW u
    PROVE  [r EXCEPT !.unresolved = r.unresolved \ {u}] \in Runs /\ [r EXCEPT !.left = r.left \ {u}] \in Runs
BY DEF Runs

LEMMA RunStarted ==
    ASSUME NEW f \in BOOLEAN, NEW os \in SUBSET Orgs
    PROVE  [NoRun EXCEPT !.force = f, !.orgs = os] \in Runs
BY NoRunTyped DEF Runs

(* The user of a worker at work is a user.                                 *)
LEMMA AtWork ==
    ASSUME TypeOK, NEW w \in Workers, pc[w] \notin {"idle", "collect", "next"}
    PROVE  user[w] \in Users
BY DEF TypeOK, Types, Shape

LEMMA TypeStep == TypeOK /\ [Next]_vars => TypeOK'
<1> SUFFICES ASSUME TypeOK, [Next]_vars PROVE TypeOK'
  OBVIOUS
<1> USE SentinelsDistinct, WorkersDisjoint, BoundsAreNatural DEF TypeOK
<1>1. ASSUME NEW l \in Logins, NEW u \in Users, ReceiveLogin(l, u) PROVE TypeOK'
  <2>1. Types'
    BY <1>1 DEF Types, Shape, ReceiveLogin, env, Goto, PCs
  <2>2. Shape'
    BY <1>1 DEF Types, Shape, ReceiveLogin, env, Goto
  <2> QED  BY <2>1, <2>2
<1>2. ASSUME NEW l \in Logins, ResolveLogin(l) PROVE TypeOK'
  <2>1. Types'
    <3>1. faults' \in 0..MaxFaults
      BY <1>2, FaultTyped DEF ResolveLogin
    <3>2. \A a \in {Told(user[l]), NoAnswer} : a \in Answers
      BY <1>2, ToldTyped, DefaultsTyped, AtWork DEF ResolveLogin
    <3>3. CASE \E a \in {Told(user[l]), NoAnswer} :
                  /\ Goto(l, "lock") /\ answer' = [answer EXCEPT ![l] = a]
                  /\ UNCHANGED <<user, plan, listed, todo>>
      BY <1>2, <3>1, <3>2, <3>3 DEF Types, ResolveLogin, env, Goto, PCs
    <3>4. CASE Done(l)
      BY <1>2, <3>1, <3>4, DefaultsTyped DEF Types, ResolveLogin, env, Done, PCs
    <3> QED  BY <1>2, <3>3, <3>4 DEF ResolveLogin
  <2>2. Shape'
    BY <1>2, AtWork DEF Types, Shape, ResolveLogin, env, Goto, Done
  <2> QED  BY <2>1, <2>2
<1>3. ASSUME NEW b \in Batches, StartBatch(b) PROVE TypeOK'
  <2>1. Types'
    <3>1. {o \in Configured : Rules[o] # {}} \in SUBSET Orgs
      BY ConfigWellFormed
    <3>2. run' \in [Batches -> Runs]
      <4>1. PICK force \in BOOLEAN : run' = [run EXCEPT ![b] =
                [NoRun EXCEPT !.force = force, !.orgs = {o \in Configured : Rules[o] # {}}]]
        BY <1>3 DEF StartBatch
      <4>2. [NoRun EXCEPT !.force = force, !.orgs = {o \in Configured : Rules[o] # {}}] \in Runs
        BY <3>1, RunStarted
      <4> QED  BY <4>1, <4>2 DEF Types
    <3> QED  BY <1>3, <3>2 DEF Types, StartBatch, env, job, Goto, PCs
  <2>2. Shape'
    BY <1>3 DEF Types, Shape, StartBatch, env, job, Goto
  <2> QED  BY <2>1, <2>2
<1>4. ASSUME NEW b \in Batches, ListUsersInOrg(b) PROVE TypeOK'
  <2>1. Types'
    <3>1. PICK o \in run[b].orgs :
            \/ run' = [run EXCEPT ![b] =
                   [run[b] EXCEPT !.orgs = run[b].orgs \ {o},
                             !.unresolved = {u \in Users \ Machines : OrgOf[u] = o}]]
            \/ run' = [run EXCEPT ![b] = [run[b] EXCEPT !.orgs = run[b].orgs \ {o}]]
      BY <1>4 DEF ListUsersInOrg
    <3>2. {u \in Users \ Machines : OrgOf[u] = o} \in SUBSET Users
      OBVIOUS
    <3>3. /\ [run[b] EXCEPT !.orgs = run[b].orgs \ {o},
                            !.unresolved = {u \in Users \ Machines : OrgOf[u] = o}] \in Runs
          /\ [run[b] EXCEPT !.orgs = run[b].orgs \ {o}] \in Runs
      BY <3>2, RunListed DEF Types
    <3>4. run' \in [Batches -> Runs]
      BY <3>1, <3>3 DEF Types
    <3>5. faults' \in 0..MaxFaults
      BY <1>4, FaultTyped DEF ListUsersInOrg
    <3> QED  BY <1>4, <3>4, <3>5 DEF Types, ListUsersInOrg, env, job
  <2>2. Shape'
    BY <1>4 DEF Types, Shape, ListUsersInOrg, env, job
  <2> QED  BY <2>1, <2>2
<1>5. ASSUME NEW b \in Batches, NEW u \in Users, ResolveInBatch(b, u) PROVE TypeOK'
  <2>1. Types'
    <3>1. run[b] \in Runs /\ Told(u) \in Answers
      BY ToldTyped DEF Types
    <3>2. run' \in [Batches -> Runs]
      <4>1. /\ [run[b] EXCEPT !.unresolved = run[b].unresolved \ {u}, !.resolved = run[b].resolved \cup {u},
                              !.left = run[b].left \cup {u},
                              !.answers = [run[b].answers EXCEPT ![u] = Told(u)]] \in Runs
            /\ [run[b] EXCEPT !.unresolved = run[b].unresolved \ {u}] \in Runs
        BY <3>1, RunResolved, RunReduced
      <4> QED  BY <1>5, <4>1 DEF Types, ResolveInBatch
    <3>3. faults' \in 0..MaxFaults
      BY <1>5, FaultTyped DEF ResolveInBatch
    <3> QED  BY <1>5, <3>2, <3>3 DEF Types, ResolveInBatch, env, job
  <2>2. Shape'
    BY <1>5 DEF Types, Shape, ResolveInBatch, env, job
  <2> QED  BY <2>1, <2>2
<1>6. ASSUME NEW b \in Batches, DecideBatch(b) PROVE TypeOK'
  <2>1. Types'
    BY <1>6, NoRunTyped DEF Types, Shape, DecideBatch, env, job, Goto, PCs
  <2>2. Shape'
    BY <1>6 DEF Types, Shape, DecideBatch, env, job, Goto
  <2> QED  BY <2>1, <2>2
<1>7. ASSUME NEW b \in Batches, NEW u \in Users, PickUser(b, u) PROVE TypeOK'
  <2>1. Types'
    <3>1. run[b] \in Runs /\ run[b].left \ {u} \in SUBSET Users /\ run[b].answers[u] \in Answers
      BY DEF Types, Runs
    <3>2. run' \in [Batches -> Runs]
      BY <1>7, <3>1, RunReduced DEF Types, PickUser
    <3>3. /\ pc' \in [Workers -> PCs]
          /\ user' \in [Workers -> Users \cup {NoUser}]
          /\ answer' \in [Workers -> Answers]
      BY <1>7, <3>1 DEF Types, PickUser, Goto, PCs
    <3> QED  BY <1>7, <3>2, <3>3 DEF Types, PickUser, env
  <2>2. Shape'
    BY <1>7 DEF Types, Shape, PickUser, env, Goto
  <2> QED  BY <2>1, <2>2
<1>8. ASSUME NEW b \in Batches, EndBatch(b) PROVE TypeOK'
  <2>1. Types'
    BY <1>8, NoRunTyped DEF Types, Shape, EndBatch, env, job, Goto, PCs
  <2>2. Shape'
    BY <1>8 DEF Types, Shape, EndBatch, env, job, Goto
  <2> QED  BY <2>1, <2>2
<1>9. ASSUME NEW w \in Workers, Lock(w) PROVE TypeOK'
  <2>1. Types'
    <3>1. lock' \in [Pods -> [Users -> Locked \cup {Free}]]
      <4>1. user[w] \in Users
        BY <1>9, AtWork DEF Lock
      <4>2. CASE w \in Locked /\ lock' = [lock EXCEPT ![PodOf[w]][user[w]] = w]
        BY <4>1, <4>2, ConfigWellFormed DEF Types
      <4> QED  BY <1>9, <4>2 DEF Types, Lock
    <3> QED  BY <1>9, <3>1 DEF Types, Lock, env, job, Goto, PCs
  <2>2. Shape'
    BY <1>9 DEF Types, Shape, Lock, env, job, Goto
  <2> QED  BY <2>1, <2>2
<1>10. ASSUME NEW w \in Workers, PlanGrants(w) PROVE TypeOK'
  <2>1. Types'
    BY <1>10, DesiredType, AtWork DEF Types, Shape, PlanGrants, env, Goto, PCs, Fault
  <2>2. Shape'
    BY <1>10 DEF Types, Shape, PlanGrants, env, Goto
  <2> QED  BY <2>1, <2>2
<1>11. ASSUME NEW w \in Workers, ListGrants(w) PROVE TypeOK'
  <2>1. Types'
    <3>1. user[w] \in Users
      BY <1>11, AtWork DEF ListGrants
    <3>2. faults' \in 0..MaxFaults
      BY <1>11, FaultTyped DEF ListGrants
    <3>3. listed' \in [Workers -> GrantSets] /\ todo' \in [Workers -> SUBSET Projects]
      BY <1>11, <3>1 DEF Types, ListGrants
    <3> QED  BY <1>11, <3>2, <3>3 DEF Types, ListGrants, env, Goto, PCs
  <2>2. Shape'
    BY <1>11 DEF Types, Shape, ListGrants, env, Goto
  <2> QED  BY <2>1, <2>2
<1>12. ASSUME NEW w \in Workers, NEW p \in Projects,
              AddGrant(w, p) \/ UpdateGrant(w, p) \/ RemoveGrant(w, p) PROVE TypeOK'
  <2>1. Types'
    <3>1. user[w] \in Users
      BY <1>12, AtWork DEF AddGrant, UpdateGrant, RemoveGrant
    <3>2. faults' \in 0..MaxFaults
      BY <1>12, FaultTyped DEF AddGrant, UpdateGrant, RemoveGrant, Applied, Refused, Lost
    <3>3. plan[w].roles[p] \in SUBSET Roles
      BY DEF Types, Plans, GrantSets
    <3>4. grants' = grants \/ grants' = [grants EXCEPT ![user[w]][p] = plan[w].roles[p]]
      BY <1>12 DEF AddGrant, UpdateGrant, RemoveGrant, Applied, Refused, Lost
    <3>5. grants' \in [Users -> GrantSets]
      <4>1. grants[user[w]] \in GrantSets
        BY <3>1 DEF Types
      <4>2. [grants[user[w]] EXCEPT ![p] = plan[w].roles[p]] \in GrantSets
        BY <3>3, <4>1 DEF GrantSets
      <4> QED  BY <3>1, <3>4, <4>2 DEF Types
    <3>6. todo' \in [Workers -> SUBSET Projects] /\ pc' \in [Workers -> PCs]
      <4>1. todo' = todo \/ todo' = [todo EXCEPT ![w] = @ \ {p}]
        BY <1>12 DEF AddGrant, UpdateGrant, RemoveGrant, Applied, Refused, Lost
      <4>2. pc' = pc \/ pc' = [pc EXCEPT ![w] = "failed"]
        BY <1>12 DEF AddGrant, UpdateGrant, RemoveGrant, Applied, Refused, Lost, Goto
      <4> QED  BY <4>1, <4>2 DEF Types, PCs
    <3>7. UNCHANGED <<directory, lock, user, answer, plan, listed, run, changes, everIn, pruned>>
      BY <1>12 DEF AddGrant, UpdateGrant, RemoveGrant, env
    <3> QED  BY <3>2, <3>5, <3>6, <3>7 DEF Types
  <2>2. Shape'
    BY <1>12 DEF Types, Shape, AddGrant, UpdateGrant, RemoveGrant, Applied, Refused, Lost, env, Goto
  <2> QED  BY <2>1, <2>2
<1>13. ASSUME NEW w \in Workers, Unlock(w) PROVE TypeOK'
  <2>1. Types'
    <3>1. user[w] \in Users
      BY <1>13, AtWork DEF Unlock
    <3>2. lock' \in [Pods -> [Users -> Locked \cup {Free}]]
      <4>1. CASE w \in Locked /\ lock' = [lock EXCEPT ![PodOf[w]][user[w]] = Free]
        BY <3>1, <4>1, ConfigWellFormed DEF Types
      <4> QED  BY <1>13, <4>1 DEF Types, Unlock
    <3>3. pruned' \subseteq Users
      BY <1>13, <3>1 DEF Types, Unlock
    <3> QED  BY <1>13, <3>2, <3>3, DefaultsTyped DEF Types, Unlock, Done, env, PCs
  <2>2. Shape'
    BY <1>13 DEF Types, Shape, Unlock, Done, env
  <2> QED  BY <2>1, <2>2
<1>14. ASSUME NEW u \in Users, ChangeDirectory(u) PROVE TypeOK'
  <2>1. Types'
    BY <1>14 DEF Types, Shape, ChangeDirectory, job, Standing
  <2>2. Shape'
    BY <1>14 DEF Types, Shape, ChangeDirectory, job
  <2> QED  BY <2>1, <2>2
<1>15. ASSUME NEW dead, Crash(dead), lock' \in [Pods -> [Users -> Locked \cup {Free}]] PROVE TypeOK'
  <2>1. Types'
    BY <1>15, DefaultsTyped, NoRunTyped DEF Types, Shape, Crash, env, PCs, Fault
  <2>2. Shape'
    BY <1>15 DEF Types, Shape, Crash, env
  <2> QED  BY <2>1, <2>2
<1>16. CASE UNCHANGED vars
  BY <1>16 DEF vars, Types, Shape
<1>17. ASSUME Environment PROVE TypeOK'
  <2>1. ASSUME NEW pod \in Pods, CrashServer(pod) PROVE TypeOK'
    <3>1. lock' \in [Pods -> [Users -> Locked \cup {Free}]]
      BY <2>1 DEF CrashServer, Types
    <3> QED  BY <2>1, <3>1, <1>15 DEF CrashServer
  <2>2. ASSUME NEW c \in Crons, CrashCron(c) PROVE TypeOK'
    <3>1. lock' \in [Pods -> [Users -> Locked \cup {Free}]]
      BY <2>2 DEF CrashCron, Types
    <3> QED  BY <2>2, <3>1, <1>15 DEF CrashCron
  <2> QED  BY <1>14, <1>17, <2>1, <2>2 DEF Environment
<1>18. ASSUME NEW w \in Workers, Work(w) PROVE TypeOK'
  BY <1>10, <1>11, <1>12, <1>13, <1>18 DEF Work
<1>19. ASSUME NEW l \in Logins, LoginStep(l) PROVE TypeOK'
  BY <1>2, <1>9, <1>18, <1>19 DEF LoginStep
<1>20. ASSUME NEW b \in Batches, BatchStep(b) PROVE TypeOK'
  BY <1>4, <1>5, <1>6, <1>7, <1>8, <1>9, <1>18, <1>20 DEF BatchStep
<1> QED
  BY <1>1, <1>3, <1>16, <1>17, <1>19, <1>20 DEF Next

(* Type correctness, for every deployment.                                 *)
THEOREM TypeCorrect == Spec => []TypeOK
BY TypeInit, TypeStep, PTL DEF Spec

-----------------------------------------------------------------------------
(* The locks.                                                              *)

(* A step that takes no lock, gives none back, and lets nobody into the    *)
(* critical section.                                                       *)
LEMMA QuietStep ==
    ASSUME LockHeld, lock' = lock,
           \A v \in Locked : pc'[v] \in Critical => pc[v] \in Critical /\ user'[v] = user[v]
    PROVE  LockHeld'
BY DEF LockHeld

LEMMA LockHeldInit == Init => LockHeld
BY DEF Init, LockHeld, Critical

LEMMA LockHeldStep == TypeOK /\ LockHeld /\ [Next]_vars => LockHeld'
<1> SUFFICES ASSUME TypeOK, LockHeld, [Next]_vars PROVE LockHeld'
  OBVIOUS
<1> USE WorkersDisjoint DEF TypeOK, Types, Shape
<1>1. ASSUME NEW l \in Logins, NEW u \in Users, ReceiveLogin(l, u) PROVE LockHeld'
  BY <1>1, QuietStep DEF ReceiveLogin, Goto, Critical
<1>2. ASSUME NEW l \in Logins, ResolveLogin(l) PROVE LockHeld'
  BY <1>2, QuietStep DEF ResolveLogin, Goto, Done, Critical
<1>3. ASSUME NEW b \in Batches, StartBatch(b) PROVE LockHeld'
  BY <1>3, QuietStep DEF StartBatch, Goto, job, Critical
<1>4. ASSUME NEW b \in Batches, ListUsersInOrg(b) PROVE LockHeld'
  BY <1>4, QuietStep DEF ListUsersInOrg, job
<1>5. ASSUME NEW b \in Batches, NEW u \in Users, ResolveInBatch(b, u) PROVE LockHeld'
  BY <1>5, QuietStep DEF ResolveInBatch, job
<1>6. ASSUME NEW b \in Batches, DecideBatch(b) PROVE LockHeld'
  BY <1>6, QuietStep DEF DecideBatch, Goto, job, Critical
<1>7. ASSUME NEW b \in Batches, NEW u \in Users, PickUser(b, u) PROVE LockHeld'
  BY <1>7, QuietStep DEF PickUser, Goto, Critical
<1>8. ASSUME NEW b \in Batches, EndBatch(b) PROVE LockHeld'
  BY <1>8, QuietStep DEF EndBatch, Goto, job, Critical
<1>9. ASSUME NEW w \in Workers, Lock(w) PROVE LockHeld'
  <2>1. CASE w \in Crons
    BY <1>9, <2>1, QuietStep DEF Lock, Goto, job
  <2>2. CASE w \in Locked
    <3>1. user[w] \in Users /\ PodOf[w] \in Pods
      BY <1>9, <2>2, AtWork, ConfigWellFormed DEF Lock
    <3>2. /\ lock[PodOf[w]][user[w]] = Free
          /\ lock' = [lock EXCEPT ![PodOf[w]][user[w]] = w]
      BY <1>9, <2>2 DEF Lock
    <3>3. lock'[PodOf[w]][user[w]] = w
      BY <3>1, <3>2
    <3>4. ASSUME NEW v \in Locked \ {w}, pc'[v] \in Critical
          PROVE  lock'[PodOf[v]][user[v]] = v
      <4>1. pc[v] \in Critical
        BY <1>9, <3>4 DEF Lock, Goto
      <4>2. lock[PodOf[v]][user[v]] = v /\ v # Free
        BY <4>1, SentinelsDistinct DEF LockHeld
      <4>3. user[v] \in Users /\ PodOf[v] \in Pods
        BY <4>1, AtWork, ConfigWellFormed DEF Critical
      <4> QED  BY <3>1, <3>2, <4>2, <4>3
    <3> QED  BY <1>9, <3>3, <3>4 DEF Lock, LockHeld, job
  <2> QED  BY <2>1, <2>2
<1>10. ASSUME NEW w \in Workers, PlanGrants(w) PROVE LockHeld'
  BY <1>10, QuietStep DEF PlanGrants, Goto, Critical
<1>11. ASSUME NEW w \in Workers, ListGrants(w) PROVE LockHeld'
  BY <1>11, QuietStep DEF ListGrants, Goto, Critical
<1>12. ASSUME NEW w \in Workers, NEW p \in Projects,
              AddGrant(w, p) \/ UpdateGrant(w, p) \/ RemoveGrant(w, p)
       PROVE  LockHeld'
  BY <1>12, QuietStep
     DEF AddGrant, UpdateGrant, RemoveGrant, Applied, Refused, Lost, Goto, Critical
<1>13. ASSUME NEW w \in Workers, Unlock(w) PROVE LockHeld'
  <2>1. user[w] \in Users /\ pc[w] \in Critical /\ pc'[w] \notin Critical
    BY <1>13, AtWork DEF Unlock, Done, Critical
  <2>2. \A v \in Workers \ {w} : pc'[v] = pc[v] /\ user'[v] = user[v]
    BY <1>13 DEF Unlock, Done
  <2>3. CASE w \in Locked
    <3>1. lock' = [lock EXCEPT ![PodOf[w]][user[w]] = Free] /\ PodOf[w] \in Pods
      BY <1>13, <2>3, ConfigWellFormed DEF Unlock
    <3>2. ASSUME NEW v \in Locked, pc'[v] \in Critical
          PROVE  lock'[PodOf[v]][user'[v]] = v
      <4>1. v # w
        BY <2>1, <3>2
      <4>2. pc[v] \in Critical /\ user'[v] = user[v] /\ user[v] \in Users /\ PodOf[v] \in Pods
        BY <2>2, <3>2, <4>1, AtWork, ConfigWellFormed DEF Critical
      <4>3. lock[PodOf[v]][user[v]] = v /\ lock[PodOf[w]][user[w]] = w
        BY <2>1, <2>3, <4>2 DEF LockHeld
      <4> QED  BY <2>1, <3>1, <4>1, <4>2, <4>3
    <3> QED  BY <3>2 DEF LockHeld
  <2>4. CASE w \notin Locked
    BY <1>13, <2>2, <2>4, QuietStep DEF Unlock
  <2> QED  BY <2>3, <2>4
<1>14. ASSUME NEW u \in Users, ChangeDirectory(u) PROVE LockHeld'
  BY <1>14, QuietStep DEF ChangeDirectory, job
<1>15. ASSUME NEW pod \in Pods, CrashServer(pod) PROVE LockHeld'
  <2>1. ASSUME NEW v \in Locked, pc'[v] \in Critical
        PROVE  lock'[PodOf[v]][user'[v]] = v
    <3>1. PodOf[v] # pod /\ pc[v] \in Critical /\ user'[v] = user[v]
      BY <1>15, <2>1 DEF CrashServer, Crash, Critical
    <3>2. lock'[PodOf[v]] = lock[PodOf[v]]
      BY <1>15, <3>1, ConfigWellFormed DEF CrashServer
    <3> QED  BY <3>1, <3>2 DEF LockHeld
  <2> QED  BY <2>1 DEF LockHeld
<1>16. ASSUME NEW c \in Crons, CrashCron(c) PROVE LockHeld'
  BY <1>16, QuietStep DEF CrashCron, Crash, Critical
<1>17. CASE UNCHANGED vars
  BY <1>17, QuietStep DEF vars
<1>18. ASSUME NEW w \in Workers, Work(w) PROVE LockHeld'
  BY <1>10, <1>11, <1>12, <1>13, <1>18 DEF Work
<1> QED
  BY <1>1, <1>2, <1>3, <1>4, <1>5, <1>6, <1>7, <1>8, <1>9, <1>14, <1>15, <1>16, <1>17, <1>18
     DEF Next, LoginStep, BatchStep, Environment

(* Two workers of one lock table are never both in the critical section    *)
(* of one user.                                                            *)
LEMMA Exclusion ==
    ASSUME OneLockTable, LockHeld, NEW v \in Workers, NEW w \in Workers,
           pc[v] \in Critical, pc[w] \in Critical, user[v] = user[w]
    PROVE  v = w
BY DEF OneLockTable, LockHeld

-----------------------------------------------------------------------------
(* No lock is left behind.                                                 *)

(* A step that gives no lock back and takes nobody out of the critical     *)
(* section.                                                                *)
LEMMA NobodyLeaves ==
    ASSUME LocksHaveOwners, lock' = lock,
           \A v \in Locked : pc[v] \in Critical => pc'[v] \in Critical /\ user'[v] = user[v]
    PROVE  LocksHaveOwners'
BY DEF LocksHaveOwners

LEMMA OwnersInit == Init => LocksHaveOwners
BY DEF Init, LocksHaveOwners

LEMMA OwnersStep == TypeOK /\ LocksHaveOwners /\ [Next]_vars => LocksHaveOwners'
<1> SUFFICES ASSUME TypeOK, LocksHaveOwners, [Next]_vars PROVE LocksHaveOwners'
  OBVIOUS
<1> USE WorkersDisjoint DEF TypeOK, Types, Shape
<1>1. ASSUME NEW l \in Logins, ResolveLogin(l) \/ \E u \in Users : ReceiveLogin(l, u)
      PROVE  LocksHaveOwners'
  BY <1>1, NobodyLeaves DEF ResolveLogin, ReceiveLogin, Goto, Done, Critical
<1>2. ASSUME NEW b \in Batches,
             \/ StartBatch(b) \/ ListUsersInOrg(b) \/ DecideBatch(b) \/ EndBatch(b)
             \/ \E u \in Users : ResolveInBatch(b, u)
      PROVE  LocksHaveOwners'
  <2>1. /\ UNCHANGED <<lock, user>> /\ pc[b] \notin Critical
        /\ \A v \in Workers \ {b} : pc'[v] = pc[v]
    BY <1>2 DEF StartBatch, ListUsersInOrg, DecideBatch, EndBatch, ResolveInBatch, Goto, job, Critical
  <2> QED  BY <2>1, NobodyLeaves
<1>3. ASSUME NEW b \in Batches, NEW u \in Users, PickUser(b, u) PROVE LocksHaveOwners'
  BY <1>3, NobodyLeaves DEF PickUser, Goto, Critical
<1>4. ASSUME NEW w \in Workers, Lock(w) PROVE LocksHaveOwners'
  <2>1. /\ user[w] \in Users /\ user' = user
        /\ pc' = [pc EXCEPT ![w] = IF answer[w].suspended THEN "list" ELSE "plan"]
        /\ pc[w] \notin Critical
    BY <1>4, AtWork DEF Lock, Goto, job, Critical
  <2>2. CASE lock' = lock
    BY <2>1, <2>2, NobodyLeaves
  <2>3. CASE w \in Locked /\ lock' = [lock EXCEPT ![PodOf[w]][user[w]] = w]
    <3> SUFFICES ASSUME NEW pod \in Pods, NEW u \in Users, lock'[pod][u] # Free
                 PROVE  LET v == lock'[pod][u]
                        IN  v \in Locked /\ PodOf[v] = pod /\ user'[v] = u /\ pc'[v] \in Critical
      BY DEF LocksHaveOwners
    <3>1. PodOf[w] \in Pods
      BY <2>3, ConfigWellFormed
    <3>2. CASE pod = PodOf[w] /\ u = user[w]
      BY <2>1, <2>3, <3>1, <3>2 DEF Critical
    <3>3. CASE ~(pod = PodOf[w] /\ u = user[w])
      <4>1. lock'[pod][u] = lock[pod][u]
        BY <2>1, <2>3, <3>1, <3>3
      <4>2. lock[pod][u] # w
        BY <2>1, <4>1 DEF LocksHaveOwners
      <4> QED  BY <2>1, <4>1, <4>2 DEF LocksHaveOwners
    <3> QED  BY <3>2, <3>3
  <2> QED  BY <1>4, <2>2, <2>3 DEF Lock
<1>5. ASSUME NEW w \in Workers, PlanGrants(w) \/ ListGrants(w) PROVE LocksHaveOwners'
  BY <1>5, NobodyLeaves DEF PlanGrants, ListGrants, Goto, Critical
<1>6. ASSUME NEW w \in Workers, NEW p \in Projects,
             AddGrant(w, p) \/ UpdateGrant(w, p) \/ RemoveGrant(w, p)
      PROVE  LocksHaveOwners'
  BY <1>6, NobodyLeaves
     DEF AddGrant, UpdateGrant, RemoveGrant, Applied, Refused, Lost, Goto, Critical
<1>7. ASSUME NEW w \in Workers, Unlock(w) PROVE LocksHaveOwners'
  <2>1. /\ user[w] \in Users /\ pc[w] \in Critical
        /\ \A v \in Workers \ {w} : pc'[v] = pc[v] /\ user'[v] = user[v]
    BY <1>7, AtWork DEF Unlock, Done, Critical
  <2> SUFFICES ASSUME NEW pod \in Pods, NEW u \in Users, lock'[pod][u] # Free
               PROVE  LET v == lock'[pod][u]
                      IN  v \in Locked /\ PodOf[v] = pod /\ user'[v] = u /\ pc'[v] \in Critical
    BY DEF LocksHaveOwners
  <2>2. CASE w \in Locked
    <3>1. PodOf[w] \in Pods /\ lock' = [lock EXCEPT ![PodOf[w]][user[w]] = Free]
      BY <1>7, <2>2, ConfigWellFormed DEF Unlock
    <3>2. ~(pod = PodOf[w] /\ u = user[w]) /\ lock'[pod][u] = lock[pod][u]
      BY <2>1, <3>1
    <3>3. lock[pod][u] # w
      BY <3>2 DEF LocksHaveOwners
    <3> QED  BY <2>1, <3>2, <3>3 DEF LocksHaveOwners
  <2>3. CASE w \notin Locked
    <3>1. lock' = lock
      BY <1>7, <2>3 DEF Unlock
    <3> QED  BY <2>1, <2>3, <3>1 DEF LocksHaveOwners
  <2> QED  BY <2>2, <2>3
<1>8. ASSUME NEW u \in Users, ChangeDirectory(u) PROVE LocksHaveOwners'
  BY <1>8, NobodyLeaves DEF ChangeDirectory, job
<1>9. ASSUME NEW pod \in Pods, CrashServer(pod) PROVE LocksHaveOwners'
  <2> SUFFICES ASSUME NEW other \in Pods, NEW u \in Users, lock'[other][u] # Free
               PROVE  LET v == lock'[other][u]
                      IN  v \in Locked /\ PodOf[v] = other /\ user'[v] = u /\ pc'[v] \in Critical
    BY DEF LocksHaveOwners
  <2>1. other # pod /\ lock'[other] = lock[other]
    BY <1>9 DEF CrashServer
  <2>2. \A v \in Workers : v \notin {x \in Locked : PodOf[x] = pod} =>
           pc'[v] = pc[v] /\ user'[v] = user[v]
    BY <1>9 DEF CrashServer, Crash
  <2> QED  BY <2>1, <2>2 DEF LocksHaveOwners
<1>10. ASSUME NEW c \in Crons, CrashCron(c) PROVE LocksHaveOwners'
  BY <1>10, NobodyLeaves DEF CrashCron, Crash
<1>11. CASE UNCHANGED vars
  BY <1>11, NobodyLeaves DEF vars
<1>12. ASSUME NEW w \in Workers, Work(w) PROVE LocksHaveOwners'
  BY <1>5, <1>6, <1>7, <1>12 DEF Work
<1> QED
  BY <1>1, <1>2, <1>3, <1>4, <1>8, <1>9, <1>10, <1>11, <1>12
     DEF Next, LoginStep, BatchStep, Environment

(* A lock that is held is held by a worker of the pod, at that user, on its*)
(* way to Unlock, for any number of pods and workers, whatever fails.      *)
THEOREM NoLockLeftBehind == Spec => []LocksHaveOwners
<1>1. Init => TypeOK /\ LocksHaveOwners
  BY TypeInit, OwnersInit
<1>2. TypeOK /\ LocksHaveOwners /\ [Next]_vars => (TypeOK /\ LocksHaveOwners)'
  BY TypeStep, OwnersStep
<1> QED  BY <1>1, <1>2, PTL DEF Spec

-----------------------------------------------------------------------------
(* The decisions of Sync are current.                                      *)

(* The inductive invariant: SnapshotIsCurrent, and what is still to write  *)
(* differs from what was listed.                                           *)
TodoDiffers ==
    \A w \in Workers : pc[w] = "write" =>
        \A p \in todo[w] : p \in Projects /\ listed[w][p] # plan[w].roles[p]

Snapshot == SnapshotIsCurrent /\ TodoDiffers

(* A step that changes no grants, and nothing of a worker that writes.     *)
LEMMA NoWrite ==
    ASSUME Snapshot, grants' = grants,
           \A v \in Workers : pc'[v] = "write" =>
              /\ pc[v] = "write" /\ user'[v] = user[v] /\ plan'[v] = plan[v]
              /\ listed'[v] = listed[v] /\ todo'[v] = todo[v]
    PROVE  Snapshot'
BY DEF Snapshot, SnapshotIsCurrent, TodoDiffers

LEMMA SnapshotInit == Init => Snapshot
BY DEF Init, Snapshot, SnapshotIsCurrent, TodoDiffers

(* What the three writes do, in one place: an applied write brings the     *)
(* project to the plan and goes on; any other ends the sync, and may have  *)
(* been applied.                                                           *)
Written(w, p) == grants' = [grants EXCEPT ![user[w]][p] = plan[w].roles[p]]

LEMMA WriteOutcome ==
    ASSUME NEW w \in Workers, NEW p \in Projects, AddGrant(w, p) \/ UpdateGrant(w, p) \/ RemoveGrant(w, p)
    PROVE  /\ pc[w] = "write" /\ p \in todo[w]
           /\ UNCHANGED <<lock, user, answer, plan, listed, run, everIn>>
           /\ \/ Written(w, p) /\ todo' = [todo EXCEPT ![w] = @ \ {p}] /\ pc' = pc
              \/ /\ Written(w, p) \/ grants' = grants
                 /\ todo' = todo /\ pc' = [pc EXCEPT ![w] = "failed"]
           /\ plan[w].roles[p] = {} => Upserts(w) = {}
BY DEF AddGrant, UpdateGrant, RemoveGrant, Applied, Refused, Lost, Goto, Written, Upserts, env

LEMMA SnapshotStep ==
    OneLockTable /\ TypeOK /\ LockHeld /\ Snapshot /\ [Next]_vars => Snapshot'
<1> SUFFICES ASSUME OneLockTable, TypeOK, LockHeld, Snapshot, [Next]_vars PROVE Snapshot'
  OBVIOUS
<1> USE DEF TypeOK, Types, Shape
<1>1. ASSUME NEW l \in Logins, NEW u \in Users, ReceiveLogin(l, u) PROVE Snapshot'
  BY <1>1, NoWrite DEF ReceiveLogin, Goto
<1>2. ASSUME NEW l \in Logins, ResolveLogin(l) PROVE Snapshot'
  BY <1>2, NoWrite DEF ResolveLogin, Goto, Done
<1>3. ASSUME NEW b \in Batches,
             \/ StartBatch(b) \/ ListUsersInOrg(b) \/ DecideBatch(b) \/ EndBatch(b)
             \/ \E u \in Users : ResolveInBatch(b, u)
      PROVE  Snapshot'
  BY <1>3, NoWrite DEF StartBatch, ListUsersInOrg, DecideBatch, EndBatch, ResolveInBatch, Goto, job
<1>4. ASSUME NEW b \in Batches, NEW u \in Users, PickUser(b, u) PROVE Snapshot'
  BY <1>4, NoWrite DEF PickUser, Goto
<1>5. ASSUME NEW w \in Workers, Lock(w) PROVE Snapshot'
  BY <1>5, NoWrite DEF Lock, Goto, job
<1>6. ASSUME NEW w \in Workers, PlanGrants(w) PROVE Snapshot'
  BY <1>6, NoWrite DEF PlanGrants, Goto
<1>7. ASSUME NEW w \in Workers, ListGrants(w) PROVE Snapshot'
  <2>1. CASE pc' = [pc EXCEPT ![w] = "failed"] /\ UNCHANGED <<listed, todo>>
    BY <1>7, <2>1, NoWrite DEF ListGrants
  <2>2. CASE /\ listed' = [listed EXCEPT ![w] = grants[user[w]]]
             /\ todo' = [todo EXCEPT ![w] =
                   {p \in Projects : grants[user[w]][p] # plan[w].roles[p]}]
    BY <1>7, <2>2 DEF ListGrants, Goto, Snapshot, SnapshotIsCurrent, TodoDiffers
  <2> QED  BY <1>7, <2>1, <2>2 DEF ListGrants, Goto
<1>8. ASSUME NEW w \in Workers, NEW p \in Projects,
             AddGrant(w, p) \/ UpdateGrant(w, p) \/ RemoveGrant(w, p)
      PROVE  Snapshot'
  <2>1. user[w] \in Users /\ pc[w] = "write" /\ p \in todo[w]
    BY <1>8, WriteOutcome, AtWork
  <2>2. ASSUME NEW v \in Workers \ {w}, pc'[v] = "write"
        PROVE  /\ pc[v] = "write" /\ user'[v] = user[v] /\ plan'[v] = plan[v]
               /\ listed'[v] = listed[v] /\ todo'[v] = todo[v]
               /\ grants'[user[v]] = grants[user[v]]
    <3>1. pc[v] = "write"
      BY <1>8, <2>2, WriteOutcome
    <3>2. user[v] # user[w] /\ user[v] \in Users
      BY <2>1, <3>1, Exclusion, AtWork DEF Critical
    <3>3. UNCHANGED <<user, plan, listed>> /\ todo'[v] = todo[v]
      BY <1>8, <2>2, WriteOutcome
    <3>4. grants' = grants \/ Written(w, p)
      BY <1>8, WriteOutcome
    <3>5. grants'[user[v]] = grants[user[v]]
      BY <2>1, <3>2, <3>4 DEF Written
    <3> QED  BY <3>1, <3>3, <3>5
  <2>3. ASSUME pc'[w] = "write"
        PROVE  /\ \A q \in Projects : grants'[user'[w]][q] =
                      IF q \in todo'[w] THEN listed'[w][q] ELSE plan'[w].roles[q]
               /\ \A q \in todo'[w] : q \in Projects /\ listed'[w][q] # plan'[w].roles[q]
    <3>1. /\ Written(w, p) /\ todo' = [todo EXCEPT ![w] = @ \ {p}]
          /\ UNCHANGED <<user, plan, listed>>
      BY <1>8, <2>1, <2>3, WriteOutcome
    <3>2. \A q \in Projects : grants'[user[w]][q] =
             IF q = p THEN plan[w].roles[p] ELSE grants[user[w]][q]
      BY <2>1, <3>1 DEF Written, GrantSets
    <3> QED  BY <2>1, <3>1, <3>2 DEF Snapshot, SnapshotIsCurrent, TodoDiffers
  <2>4. SnapshotIsCurrent'
    <3> SUFFICES ASSUME NEW v \in Workers, pc'[v] = "write", NEW q \in Projects
                 PROVE  grants'[user'[v]][q] =
                           IF q \in todo'[v] THEN listed'[v][q] ELSE plan'[v].roles[q]
      BY DEF SnapshotIsCurrent
    <3>1. CASE v = w
      BY <2>3, <3>1
    <3>2. CASE v # w
      BY <2>2, <3>2 DEF Snapshot, SnapshotIsCurrent
    <3> QED  BY <3>1, <3>2
  <2>5. TodoDiffers'
    BY <2>2, <2>3 DEF Snapshot, TodoDiffers
  <2> QED  BY <2>4, <2>5 DEF Snapshot
<1>9. ASSUME NEW w \in Workers, Unlock(w) PROVE Snapshot'
  BY <1>9, NoWrite DEF Unlock, Done
<1>10. ASSUME NEW u \in Users, ChangeDirectory(u) PROVE Snapshot'
  BY <1>10, NoWrite DEF ChangeDirectory, job
<1>11. ASSUME NEW dead, Crash(dead) PROVE Snapshot'
  BY <1>11, NoWrite DEF Crash
<1>12. CASE UNCHANGED vars
  BY <1>12, NoWrite DEF vars
<1>13. ASSUME NEW w \in Workers, Work(w) PROVE Snapshot'
  BY <1>6, <1>7, <1>8, <1>9, <1>13 DEF Work
<1> QED
  BY <1>1, <1>2, <1>3, <1>4, <1>5, <1>10, <1>11, <1>12, <1>13
     DEF Next, LoginStep, BatchStep, Environment, CrashServer, CrashCron

(* Under one lock table, a sync's decisions are never stale.               *)
THEOREM SnapshotAlwaysCurrent == OneLockTable => (Spec => []SnapshotIsCurrent)
<1> SUFFICES ASSUME OneLockTable PROVE Spec => []SnapshotIsCurrent
  OBVIOUS
<1>1. Init => TypeOK /\ LockHeld /\ Snapshot
  BY TypeInit, LockHeldInit, SnapshotInit
<1>2. TypeOK /\ LockHeld /\ Snapshot /\ [Next]_vars => (TypeOK /\ LockHeld /\ Snapshot)'
  BY TypeStep, LockHeldStep, SnapshotStep
<1>3. Snapshot => SnapshotIsCurrent
  BY DEF Snapshot
<1> QED  BY <1>1, <1>2, <1>3, PTL DEF Spec
=============================================================================
