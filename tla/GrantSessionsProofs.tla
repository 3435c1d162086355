------------------------- MODULE GrantSessionsProofs -------------------------
(***************************************************************************)
(* GrantReconciler implements GrantSessions: while the workers share one   *)
(* lock table, every step of a login or a batch opens a session, writes in *)
(* one, closes some, or is invisible.                                      *)
(***************************************************************************)
EXTENDS GrantReconcilerProofs

SessionMap == [u \in Users |-> SessionOf(u)]

(* A step that changes no grants and no session.                           *)
LEMMA Invisible ==
    ASSUME grants' = grants,
           \A v \in Workers :
              /\ InSession(v)' <=> InSession(v)
              /\ InSession(v) => user'[v] = user[v] /\ plan'[v] = plan[v]
    PROVE  UNCHANGED <<grants, SessionMap>>
<1>1. \A u \in Users : SessionOf(u)' = SessionOf(u)
  BY DEF SessionOf
<1> QED  BY <1>1 DEF SessionMap

(* In a session alone, one worker is the whole of it.                      *)
LEMMA OneOwner ==
    ASSUME OneLockTable, LockHeld, NEW w \in Workers, InSession(w)
    PROVE  SessionOf(user[w]) = {[owner |-> w, target |-> plan[w].roles]}
<1>1. \A v \in Workers : InSession(v) /\ user[v] = user[w] <=> v = w
  BY Exclusion DEF InSession, Critical
<1>2. {v \in Workers : InSession(v) /\ user[v] = user[w]} = {w}
  BY <1>1
<1> QED  BY <1>2 DEF SessionOf

LEMMA MapInit == Init => Promise!Init
BY InitsWellFormed DEF Init, Promise!Init, Promise!GrantSets, GrantSets, SessionOf, InSession

(* Sync's list call opens the session, whether it succeeds or not.         *)
LEMMA Opens ==
    ASSUME OneLockTable, TypeOK, LockHeld, NEW w \in Workers, ListGrants(w)
    PROVE  Promise!Open(user[w])
<1> DEFINE s == [owner |-> w, target |-> plan[w].roles]
<1>1. user[w] \in Users /\ pc[w] = "list"
  BY AtWork DEF ListGrants
<1>2. /\ UNCHANGED <<grants, user, plan>>
      /\ pc' = [pc EXCEPT ![w] = "write"] \/ pc' = [pc EXCEPT ![w] = "failed"]
  BY DEF ListGrants, Goto
<1>3. SessionOf(user[w]) = {}
  BY <1>1, Exclusion DEF SessionOf, InSession, Critical
<1>4. \A v \in Workers : InSession(v)' <=> v = w \/ InSession(v)
  BY <1>2 DEF InSession, TypeOK, Types
<1>5. \A u \in Users : SessionOf(u)' = IF u = user[w] THEN {s} ELSE SessionOf(u)
  <2> SUFFICES ASSUME NEW u \in Users
               PROVE  SessionOf(u)' = IF u = user[w] THEN {s} ELSE SessionOf(u)
    OBVIOUS
  <2>1. CASE u = user[w]
    <3>1. \A v \in Workers : InSession(v)' /\ user'[v] = u <=> v = w
      BY <1>2, <1>3, <1>4, <2>1 DEF SessionOf
    <3>2. {v \in Workers : InSession(v)' /\ user'[v] = u} = {w}
      BY <3>1
    <3> QED  BY <1>2, <2>1, <3>2 DEF SessionOf
  <2>2. CASE u # user[w]
    <3>1. \A v \in Workers : InSession(v)' /\ user'[v] = u <=> InSession(v) /\ user[v] = u
      BY <1>2, <1>4, <2>2
    <3> QED  BY <1>2, <2>2, <3>1 DEF SessionOf
  <2> QED  BY <2>1, <2>2
<1>6. s \in Promise!Sessions
  BY DEF TypeOK, Types, Plans, Promise!Sessions, Promise!GrantSets, GrantSets
<1> QED
  BY <1>1, <1>2, <1>3, <1>5, <1>6 DEF Promise!Open

(* A write is one of the session's, or invisible.                          *)
LEMMA Writes ==
    ASSUME OneLockTable, TypeOK, LockHeld, Snapshot, NEW w \in Workers, NEW p \in Projects,
           AddGrant(w, p) \/ UpdateGrant(w, p) \/ RemoveGrant(w, p)
    PROVE  Promise!Write(user[w], p) \/ UNCHANGED <<grants, SessionMap>>
<1> DEFINE s == [owner |-> w, target |-> plan[w].roles]
<1>1. user[w] \in Users /\ pc[w] = "write" /\ p \in todo[w] /\ InSession(w)
  BY WriteOutcome, AtWork DEF InSession
<1>2. UNCHANGED <<user, plan>> /\ (pc' = pc \/ pc' = [pc EXCEPT ![w] = "failed"])
  BY WriteOutcome
<1>3. \A v \in Workers : InSession(v)' <=> InSession(v)
  BY <1>1, <1>2 DEF InSession, TypeOK, Types
<1>4. CASE grants' = grants
  BY <1>2, <1>3, <1>4, Invisible
<1>5. CASE Written(w, p)
  <2>1. UNCHANGED SessionMap
    BY <1>2, <1>3 DEF SessionMap, SessionOf
  <2>2. s \in SessionMap[user[w]]
    BY <1>1 DEF SessionMap, SessionOf
  <2>3. grants[user[w]][p] # s.target[p]
    BY <1>1 DEF Snapshot, SnapshotIsCurrent, TodoDiffers
  <2>4. ASSUME s.target[p] = {}, NEW q \in Projects, s.target[q] # {}
        PROVE  grants[user[w]][q] = s.target[q]
    <3>1. q \notin todo[w]
      BY <2>4, WriteOutcome DEF Upserts
    <3> QED  BY <1>1, <3>1 DEF Snapshot, SnapshotIsCurrent
  <2> QED
    BY <1>1, <1>5, <2>1, <2>2, <2>3, <2>4 DEF Promise!Write, Written, SessionMap
<1>6. grants' = grants \/ Written(w, p)
  BY WriteOutcome
<1> QED  BY <1>4, <1>5, <1>6

(* A step that lets workers out of their sessions closes those.            *)
LEMMA Closes ==
    ASSUME OneLockTable, TypeOK, LockHeld, NEW dead, grants' = grants,
           \A v \in Workers :
              /\ InSession(v)' <=> InSession(v) /\ v \notin dead
              /\ v \notin dead => user'[v] = user[v] /\ plan'[v] = plan[v]
    PROVE  \E closed \in SUBSET Users : Promise!Close(closed)
<1> DEFINE closed == {user[v] : v \in {w \in Workers : w \in dead /\ InSession(w)}}
<1>1. closed \in SUBSET Users
  BY AtWork DEF InSession
<1>2. ASSUME NEW u \in Users
      PROVE  SessionOf(u)' = IF u \in closed THEN {} ELSE SessionOf(u)
  <2>1. CASE u \in closed
    <3>1. PICK w \in Workers : w \in dead /\ InSession(w) /\ user[w] = u
      BY <2>1
    <3>2. \A v \in Workers : InSession(v) /\ user[v] = u => v = w
      BY <3>1, Exclusion DEF InSession, Critical
    <3>3. \A v \in Workers : ~(InSession(v)' /\ user'[v] = u)
      BY <3>1, <3>2
    <3> QED  BY <2>1, <3>3 DEF SessionOf
  <2>2. CASE u \notin closed
    <3>1. \A v \in Workers : InSession(v)' /\ user'[v] = u <=> InSession(v) /\ user[v] = u
      BY <2>2
    <3>2. \A v \in Workers : InSession(v)' => plan'[v] = plan[v]
      OBVIOUS
    <3> QED  BY <2>2, <3>1, <3>2 DEF SessionOf
  <2> QED  BY <2>1, <2>2
<1> QED  BY <1>1, <1>2 DEF Promise!Close

LEMMA MapStep ==
    OneLockTable /\ TypeOK /\ LockHeld /\ Snapshot /\ [Next]_vars
        => [Promise!Next]_(Promise!vars)
<1> SUFFICES ASSUME OneLockTable, TypeOK, LockHeld, Snapshot, [Next]_vars
             PROVE  Promise!Next \/ UNCHANGED <<grants, SessionMap>>
  BY DEF Promise!vars, SessionMap
<1> DEFINE Goal == Promise!Next \/ UNCHANGED <<grants, SessionMap>>
<1>1. ASSUME NEW l \in Logins, \E u \in Users : ReceiveLogin(l, u) PROVE Goal
  BY <1>1, Invisible DEF ReceiveLogin, Goto, InSession, TypeOK, Types
<1>2. ASSUME NEW l \in Logins, ResolveLogin(l) PROVE Goal
  BY <1>2, Invisible DEF ResolveLogin, Goto, Done, InSession, TypeOK, Types
<1>3. ASSUME NEW b \in Batches,
             \/ StartBatch(b) \/ ListUsersInOrg(b) \/ DecideBatch(b) \/ EndBatch(b)
             \/ \E u \in Users : ResolveInBatch(b, u)
      PROVE  Goal
  BY <1>3, Invisible DEF StartBatch, ListUsersInOrg, DecideBatch, EndBatch, ResolveInBatch,
                         Goto, job, InSession, TypeOK, Types
<1>4. ASSUME NEW b \in Batches, NEW u \in Users, PickUser(b, u) PROVE Goal
  BY <1>4, Invisible DEF PickUser, Goto, InSession, TypeOK, Types
<1>5. ASSUME NEW w \in Workers, Lock(w) PROVE Goal
  BY <1>5, Invisible DEF Lock, Goto, job, InSession, TypeOK, Types
<1>6. ASSUME NEW w \in Workers, PlanGrants(w) PROVE Goal
  BY <1>6, Invisible DEF PlanGrants, Goto, InSession, TypeOK, Types
<1>7. ASSUME NEW w \in Workers, ListGrants(w) PROVE Goal
  <2>1. user[w] \in Users
    BY <1>7, AtWork DEF ListGrants
  <2> QED  BY <1>7, <2>1, Opens DEF Promise!Next
<1>8. ASSUME NEW w \in Workers, NEW p \in Projects,
             AddGrant(w, p) \/ UpdateGrant(w, p) \/ RemoveGrant(w, p)
      PROVE  Goal
  <2>1. user[w] \in Users
    BY <1>8, WriteOutcome, AtWork
  <2> QED  BY <1>8, <2>1, Writes DEF Promise!Next
<1>9. ASSUME NEW w \in Workers, Unlock(w) PROVE Goal
  <2>1. \A v \in Workers :
           /\ InSession(v)' <=> InSession(v) /\ v \notin {w}
           /\ v \notin {w} => user'[v] = user[v] /\ plan'[v] = plan[v]
    BY <1>9 DEF Unlock, Done, InSession, TypeOK, Types
  <2>2. \E closed \in SUBSET Users : Promise!Close(closed)
    BY <1>9, <2>1, Closes DEF Unlock
  <2> QED  BY <2>2 DEF Promise!Next
<1>10. ASSUME NEW u \in Users, ChangeDirectory(u) PROVE Goal
  BY <1>10, Invisible DEF ChangeDirectory, job, InSession
<1>11. ASSUME NEW dead, Crash(dead) PROVE Goal
  <2>1. \A v \in Workers :
           /\ InSession(v)' <=> InSession(v) /\ v \notin dead
           /\ v \notin dead => user'[v] = user[v] /\ plan'[v] = plan[v]
    BY <1>11 DEF Crash, InSession, TypeOK, Types
  <2>2. \E closed \in SUBSET Users : Promise!Close(closed)
    BY <1>11, <2>1, Closes DEF Crash
  <2> QED  BY <2>2 DEF Promise!Next
<1>12. ASSUME UNCHANGED vars PROVE Goal
  BY <1>12, Invisible DEF vars, InSession
<1> HIDE DEF Goal
<1>13. ASSUME NEW w \in Workers, Work(w) PROVE Goal
  BY <1>6, <1>7, <1>8, <1>9, <1>13 DEF Work
<1>14. ASSUME NEW l \in Logins, LoginStep(l) PROVE Goal
  BY <1>2, <1>5, <1>13, <1>14 DEF LoginStep, Workers
<1>15. ASSUME NEW b \in Batches, BatchStep(b) PROVE Goal
  BY <1>3, <1>4, <1>5, <1>13, <1>15 DEF BatchStep, Workers
<1>16. ASSUME Environment PROVE Goal
  BY <1>10, <1>11, <1>16 DEF Environment, CrashServer, CrashCron
<1>17. ASSUME Next PROVE Goal
  BY <1>1, <1>3, <1>14, <1>15, <1>16, <1>17 DEF Next, Workers, Batches
<1>18. Goal
  BY <1>12, <1>17
<1> QED  BY <1>18 DEF Goal

(* Under one lock table, logins and batches do what GrantSessions promises.*)
THEOREM ImplementsSessions == OneLockTable => (Spec => OneSessionAtATime)
<1> SUFFICES ASSUME OneLockTable PROVE Spec => OneSessionAtATime
  OBVIOUS
<1>1. Init => TypeOK /\ LockHeld /\ Snapshot
  BY TypeInit, LockHeldInit, SnapshotInit
<1>2. TypeOK /\ LockHeld /\ Snapshot /\ [Next]_vars => (TypeOK /\ LockHeld /\ Snapshot)'
  BY TypeStep, LockHeldStep, SnapshotStep
<1> QED  BY <1>1, <1>2, MapInit, MapStep, PTL DEF Spec, OneSessionAtATime, Promise!Spec
=============================================================================
