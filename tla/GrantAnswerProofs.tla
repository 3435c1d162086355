--------------------------- MODULE GrantAnswerProofs ---------------------------
(***************************************************************************)
(* What a finished sync leaves behind: the grants the answer it acted on   *)
(* calls for.  The plan is made from one answer and both stay together     *)
(* until the worker is done; that the grants have become the plan by then  *)
(* is the currency of the sync's decisions.                                *)
(***************************************************************************)
EXTENDS GrantAuthorityProofs

(* Desired contains every explicit role of the matching rules, whatever    *)
(* the catalog says or fails to say.                                       *)
LEMMA DesiredOwed ==
    ASSUME NEW u \in Users, NEW groups, NEW failed, NEW p \in Projects
    PROVE  Owed(u, groups, p) \subseteq Desired(u, groups, failed).roles[p]
<1> DEFINE matched == MatchedGrants(RulesFor(u), u, groups)
           mapped  == MapIdentity(RulesFor(u), u, groups)
           info    == Catalog[OrgOf[u]]
<1> SUFFICES ASSUME NEW r \in Owed(u, groups, p)
             PROVE  r \in Desired(u, groups, failed).roles[p]
  OBVIOUS
<1>1. PICK rule \in RulesFor(u) :
         /\ rule.group \in groups \/ u \in rule.users
         /\ \E g \in rule.grants : g.project = p /\ r \in g.roles
  BY DEF Owed
<1>2. PICK g \in rule.grants : g.project = p /\ r \in g.roles
  BY <1>1
<1>3. g \in matched
  BY <1>1, <1>2 DEF MatchedGrants, RuleMatches
<1>4. p \in DOMAIN mapped /\ r \in mapped[p].roles
  BY <1>2, <1>3 DEF MapIdentity
<1>5. r \in ExpandRoles(mapped[p], info[p].roles)
  BY <1>4 DEF ExpandRoles
<1> QED  BY <1>4, <1>5 DEF Desired

(* The plan of w is what its answer calls for.                             *)
Follows(w) ==
    IF answer[w].suspended THEN plan[w].roles = NoGrants
    ELSE \A p \in Projects :
            /\ Owed(user[w], answer[w].groups, p) \subseteq plan[w].roles[p]
            /\ plan[w].roles[p] \subseteq Entitled(user[w], answer[w].groups, p)

(* The inductive invariant.  A suspended user skips planning, so the plan  *)
(* that is followed then is the empty one every request starts with.       *)
PlanFollows ==
    \A w \in Workers :
        /\ pc[w] \in Planned => Follows(w)
        /\ pc[w] \notin Planned => plan[w] = NoPlan
        /\ pc[w] = "plan" => ~answer[w].suspended

LEMMA PlanFollowsInit == Init => PlanFollows
BY DEF Init, PlanFollows, Planned

(* A step that makes no plan, and keeps plan, answer and user together.    *)
Together(w) ==
    \/ pc'[w] \notin Planned \cup {"plan"} /\ plan'[w] = NoPlan
    \/ /\ pc'[w] = pc[w] \/ {pc[w], pc'[w]} \subseteq Planned
       /\ plan'[w] = plan[w] /\ answer'[w] = answer[w] /\ user'[w] = user[w]

LEMMA TogetherKeeps ==
    ASSUME PlanFollows, \A w \in Workers : Together(w) PROVE PlanFollows'
<1> SUFFICES ASSUME NEW w \in Workers
             PROVE  /\ pc'[w] \in Planned => Follows(w)'
                    /\ pc'[w] \notin Planned => plan'[w] = NoPlan
                    /\ pc'[w] = "plan" => ~answer'[w].suspended
  BY DEF PlanFollows
<1>1. CASE pc'[w] \notin Planned \cup {"plan"} /\ plan'[w] = NoPlan
  <2>1. pc'[w] \notin Planned /\ pc'[w] # "plan"
    BY <1>1
  <2> QED  BY <1>1, <2>1
<1>2. CASE /\ pc'[w] = pc[w] \/ {pc[w], pc'[w]} \subseteq Planned
           /\ plan'[w] = plan[w] /\ answer'[w] = answer[w] /\ user'[w] = user[w]
  <2>1. Follows(w)' <=> Follows(w)
    BY <1>2 DEF Follows, Owed, Entitled, RulesFor
  <2>2. /\ pc[w] \in Planned => Follows(w)
        /\ pc[w] \notin Planned => plan[w] = NoPlan
        /\ pc[w] = "plan" => ~answer[w].suspended
    BY DEF PlanFollows
  <2>3. CASE pc'[w] = pc[w]
    BY <1>2, <2>1, <2>2, <2>3
  <2>4. CASE {pc[w], pc'[w]} \subseteq Planned
    <3>1. pc[w] \in Planned /\ pc'[w] \in Planned
      BY <2>4
    <3>2. pc'[w] # "plan"
      BY <3>1 DEF Planned
    <3> QED  BY <2>1, <2>2, <3>1, <3>2
  <2> QED  BY <1>2, <2>3, <2>4
<1> QED  BY <1>1, <1>2 DEF Together

LEMMA PlanFollowsStep == TypeOK /\ PlanFollows /\ [Next]_vars => PlanFollows'
<1> SUFFICES ASSUME TypeOK, PlanFollows, [Next]_vars PROVE PlanFollows'
  OBVIOUS
<1> USE WorkersDisjoint DEF TypeOK, Types, Workers, Batches, Locked
<1>P. \A w \in Workers : pc[w] \notin Planned => plan[w] = NoPlan
  BY DEF PlanFollows
<1>1. ASSUME NEW l \in Logins, NEW u \in Users, ReceiveLogin(l, u) PROVE PlanFollows'
  BY <1>1, <1>P, TogetherKeeps DEF ReceiveLogin, Goto, Together, Planned
<1>2. ASSUME NEW l \in Logins, ResolveLogin(l) PROVE PlanFollows'
  <2>1. CASE Done(l)
    BY <1>2, <2>1, TogetherKeeps DEF Done, Together, Planned
  <2>2. CASE /\ Goto(l, "lock") /\ UNCHANGED <<user, plan>>
             /\ \E a : answer' = [answer EXCEPT ![l] = a]
    BY <1>2, <1>P, <2>2, TogetherKeeps DEF ResolveLogin, Goto, Together, Planned
  <2> QED  BY <1>2, <2>1, <2>2 DEF ResolveLogin
<1>3. ASSUME NEW b \in Batches,
             \/ StartBatch(b) \/ ListUsersInOrg(b) \/ DecideBatch(b) \/ EndBatch(b)
             \/ \E u \in Users : ResolveInBatch(b, u)
      PROVE  PlanFollows'
  <2>1. UNCHANGED job /\ \A w \in Workers \ {b} : pc'[w] = pc[w]
    BY <1>3 DEF StartBatch, ListUsersInOrg, DecideBatch, EndBatch, ResolveInBatch, Goto, job
  <2>2. /\ pc[b] \in {"idle", "collect", "next"}
        /\ pc'[b] \in {"idle", "collect", "next"}
    <3>1. CASE StartBatch(b) \/ DecideBatch(b) \/ EndBatch(b)
      BY <3>1 DEF StartBatch, DecideBatch, EndBatch, Goto
    <3>2. CASE ListUsersInOrg(b) \/ \E u \in Users : ResolveInBatch(b, u)
      BY <3>2 DEF ListUsersInOrg, ResolveInBatch
    <3> QED  BY <1>3, <3>1, <3>2
  <2> QED  BY <1>P, <2>1, <2>2, TogetherKeeps DEF job, Together, Planned
<1>4. ASSUME NEW b \in Batches, NEW u \in Users, PickUser(b, u) PROVE PlanFollows'
  BY <1>4, <1>P, TogetherKeeps DEF PickUser, Goto, Together, Planned
<1>5. ASSUME NEW w \in Workers, Lock(w) PROVE PlanFollows'
  <2>1. UNCHANGED job /\ pc[w] = "lock" /\ plan[w] = NoPlan
    BY <1>5, <1>P DEF Lock, job, Planned
  <2>2. pc' = [pc EXCEPT ![w] = IF answer[w].suspended THEN "list" ELSE "plan"]
    BY <1>5 DEF Lock, Goto
  <2>3. \A v \in Workers : Follows(v)' <=> Follows(v)
    BY <2>1 DEF job, Follows, Owed, Entitled, RulesFor
  <2>4. answer[w].suspended => Follows(w)
    BY <2>1 DEF Follows, NoPlan
  <2> QED  BY <2>1, <2>2, <2>3, <2>4 DEF PlanFollows, Planned, job
<1>6. ASSUME NEW w \in Workers, PlanGrants(w) PROVE PlanFollows'
  <2>1. user[w] \in Users /\ ~answer[w].suspended
    BY <1>6, AtWork DEF PlanGrants, PlanFollows
  <2>2. PICK failed : plan' = [plan EXCEPT ![w] = Desired(user[w], answer[w].groups, failed)]
    BY <1>6 DEF PlanGrants
  <2>3. UNCHANGED <<user, answer>> /\ pc' = [pc EXCEPT ![w] = "list"]
    BY <1>6 DEF PlanGrants, Goto
  <2>4. plan'[w].roles = Desired(user[w], answer[w].groups, failed).roles
    BY <2>2
  <2>5. \A p \in Projects :
           /\ Owed(user[w], answer[w].groups, p) \subseteq plan'[w].roles[p]
           /\ plan'[w].roles[p] \subseteq Entitled(user[w], answer[w].groups, p)
    BY <2>1, <2>4, DesiredOwed, DesiredEntitled
  <2>6. Follows(w)'
    BY <2>1, <2>3, <2>5 DEF Follows, Owed, Entitled, RulesFor
  <2>7. ASSUME NEW v \in Workers \ {w}
        PROVE  pc'[v] = pc[v] /\ plan'[v] = plan[v] /\ (Follows(v)' <=> Follows(v))
    BY <2>2, <2>3 DEF Follows, Owed, Entitled, RulesFor
  <2> QED  BY <2>3, <2>6, <2>7 DEF PlanFollows, Planned
<1>7. ASSUME NEW w \in Workers, ListGrants(w) \/ Unlock(w) PROVE PlanFollows'
  BY <1>7, TogetherKeeps DEF ListGrants, Unlock, Done, Goto, Together, Planned
<1>8. ASSUME NEW w \in Workers, NEW p \in Projects,
             AddGrant(w, p) \/ UpdateGrant(w, p) \/ RemoveGrant(w, p)
      PROVE  PlanFollows'
  <2>1. /\ pc[w] = "write" /\ (pc' = pc \/ pc' = [pc EXCEPT ![w] = "failed"])
        /\ UNCHANGED <<user, answer, plan>>
    BY <1>8, WriteOutcome
  <2>2. \A v \in Workers : pc'[v] = pc[v] \/ {pc[v], pc'[v]} \subseteq Planned
    BY <2>1 DEF Planned
  <2> QED  BY <2>1, <2>2, TogetherKeeps DEF Together
<1>9. ASSUME NEW u \in Users, ChangeDirectory(u) PROVE PlanFollows'
  BY <1>9, TogetherKeeps DEF ChangeDirectory, job, Together
<1>10. ASSUME NEW dead, Crash(dead) PROVE PlanFollows'
  BY <1>10, TogetherKeeps DEF Crash, Together, Planned
<1>11. CASE UNCHANGED vars
  BY <1>11, TogetherKeeps DEF vars, Together
<1>12. ASSUME NEW w \in Workers, Work(w) PROVE PlanFollows'
  BY <1>6, <1>7, <1>8, <1>12 DEF Work
<1> QED
  BY <1>1, <1>2, <1>3, <1>4, <1>5, <1>9, <1>10, <1>11, <1>12
     DEF Next, LoginStep, BatchStep, Environment, CrashServer, CrashCron

(* A sync that has nothing left to write has given the user what its       *)
(* answer calls for, while all workers share one lock table: reconcile.    *)
(* Desired and Syncer.Sync together, under every interleaving.             *)
THEOREM SyncsAsAnswered == OneLockTable => (Spec => []SyncedAsAnswered)
<1> SUFFICES ASSUME OneLockTable PROVE Spec => []SyncedAsAnswered
  OBVIOUS
<1> DEFINE IInv == TypeOK /\ LockHeld /\ Snapshot /\ PlanFollows
<1>1. Init => IInv
  BY TypeInit, LockHeldInit, SnapshotInit, PlanFollowsInit
<1>2. IInv /\ [Next]_vars => IInv'
  BY TypeStep, LockHeldStep, SnapshotStep, PlanFollowsStep
<1>3. IInv => SyncedAsAnswered
  <2> SUFFICES ASSUME IInv, NEW w \in Workers, pc[w] = "write", todo[w] = {}, NEW p \in Projects
               PROVE  IF answer[w].suspended THEN grants[user[w]][p] = {}
                      ELSE /\ Owed(user[w], answer[w].groups, p) \subseteq grants[user[w]][p]
                           /\ grants[user[w]][p] \subseteq Entitled(user[w], answer[w].groups, p)
    BY DEF SyncedAsAnswered
  <2>1. grants[user[w]][p] = plan[w].roles[p]
    BY DEF Snapshot, SnapshotIsCurrent
  <2>2. Follows(w)
    BY DEF PlanFollows, Planned
  <2> QED  BY <2>1, <2>2 DEF Follows, NoGrants
<1> QED  BY <1>1, <1>2, <1>3, PTL DEF Spec

-----------------------------------------------------------------------------
(* On whose word roles are taken away.                                     *)

(* The two ways in which the code prunes without the directory's word, both*)
(* shown by runs, are out: the catalog never fails with nothing cached, and*)
(* resolutions do not fail where rules name users.                         *)
CatalogAnswers == "catalog" \notin Faults

Dependable ==
    /\ CatalogAnswers
    /\ "resolver" \in Faults => \A o \in Orgs : \A rule \in Rules[o] : rule.users = {}

(* A catalog that answers leaves nothing out.                              *)
LEMMA DesiredComplete ==
    ASSUME NEW u \in Users, NEW groups, NEW p \in Projects
    PROVE  Entitled(u, groups, p) \subseteq Desired(u, groups, {}).roles[p]
<1> DEFINE matched == MatchedGrants(RulesFor(u), u, groups)
           mapped  == MapIdentity(RulesFor(u), u, groups)
           info    == Catalog[OrgOf[u]]
<1> SUFFICES ASSUME NEW r \in Entitled(u, groups, p)
             PROVE  r \in Desired(u, groups, {}).roles[p]
  OBVIOUS
<1>1. PICK rule \in RulesFor(u) :
         /\ rule.group \in groups \/ u \in rule.users
         /\ \E g \in rule.grants :
               /\ g.project = p
               /\ \/ r \in g.roles
                  \/ /\ r \in info[p].roles \ Protected
                     /\ \E pattern \in g.patterns : r \in pattern
  BY DEF Entitled
<1>2. PICK g \in rule.grants :
         /\ g.project = p
         /\ \/ r \in g.roles
            \/ /\ r \in info[p].roles \ Protected
               /\ \E pattern \in g.patterns : r \in pattern
  BY <1>1
<1>3. g \in matched
  BY <1>1, <1>2 DEF MatchedGrants, RuleMatches
<1>4. /\ p \in DOMAIN mapped
      /\ g.roles \subseteq mapped[p].roles /\ g.patterns \subseteq mapped[p].patterns
  BY <1>2, <1>3 DEF MapIdentity
<1>5. r \in ExpandRoles(mapped[p], info[p].roles)
  BY <1>2, <1>4 DEF ExpandRoles
<1> QED  BY <1>4, <1>5 DEF Desired

(* The path of the syncer, MapIdentity, ExpandRoles and Desired, computes  *)
(* what the rules say: with a catalog that answers, exactly that; where it *)
(* fails, at most that and at least the explicit roles.                    *)
THEOREM RulesAsWritten ==
    ASSUME NEW u \in Users, NEW groups, NEW failed, NEW p \in Projects
    PROVE  /\ Desired(u, groups, {}).roles[p] = Entitled(u, groups, p)
           /\ Desired(u, groups, failed).roles[p] \subseteq Desired(u, groups, {}).roles[p]
           /\ Owed(u, groups, p) \subseteq Desired(u, groups, failed).roles[p]
<1>1. /\ Desired(u, groups, {}).roles[p] \subseteq Entitled(u, groups, p)
      /\ Desired(u, groups, failed).roles[p] \subseteq Entitled(u, groups, p)
  BY DesiredEntitled
<1>2. Entitled(u, groups, p) \subseteq Desired(u, groups, {}).roles[p]
  BY DesiredComplete
<1>3. Owed(u, groups, p) \subseteq Desired(u, groups, failed).roles[p]
  BY DesiredOwed
<1> QED  BY <1>1, <1>2, <1>3

(* More groups never cost a role: rules only add up.                       *)
THEOREM RulesAddUp ==
    ASSUME NEW u \in Users, NEW groups, NEW more, groups \subseteq more, NEW p \in Projects
    PROVE  Desired(u, groups, {}).roles[p] \subseteq Desired(u, more, {}).roles[p]
<1>1. Entitled(u, groups, p) \subseteq Entitled(u, more, p)
  BY EntitledMonotone
<1> QED  BY <1>1, RulesAsWritten

(* A protected role is desired only where a rule gives it by name, whatever*)
(* patterns the rules have and whatever the catalog answers.               *)
THEOREM ProtectedByNameOnly ==
    ASSUME NEW u \in Users, NEW groups, NEW failed, NEW p \in Projects,
           NEW r \in Protected, r \in Desired(u, groups, failed).roles[p]
    PROVE  r \in Owed(u, groups, p)
<1>1. r \in Entitled(u, groups, p)
  BY DesiredEntitled
<1> QED  BY <1>1 DEF Entitled, Owed

(* The plan of w leaves out nothing its answer entitles the user to.       *)
Complete(w) ==
    \A p \in Projects : Entitled(user[w], answer[w].groups, p) \subseteq plan[w].roles[p]

PlanComplete ==
    \A w \in Workers : pc[w] \in Planned => answer[w].suspended \/ Complete(w)

LEMMA PlanCompleteInit == Init => PlanComplete
BY DEF Init, PlanComplete, Planned

LEMMA PlanCompleteKept ==
    ASSUME PlanComplete,
           \A w \in Workers : pc'[w] \in Planned =>
              pc[w] \in Planned /\ plan'[w] = plan[w] /\ answer'[w] = answer[w] /\ user'[w] = user[w]
    PROVE  PlanComplete'
<1> SUFFICES ASSUME NEW w \in Workers, pc'[w] \in Planned
             PROVE  answer'[w].suspended \/ Complete(w)'
  BY DEF PlanComplete
<1>1. /\ pc[w] \in Planned
      /\ plan'[w] = plan[w] /\ answer'[w] = answer[w] /\ user'[w] = user[w]
  OBVIOUS
<1>2. Complete(w)' <=> Complete(w)
  BY <1>1 DEF Complete, Entitled, RulesFor
<1> QED  BY <1>1, <1>2 DEF PlanComplete

LEMMA PlanCompleteStep ==
    CatalogAnswers /\ TypeOK /\ PlanComplete /\ [Next]_vars => PlanComplete'
<1> SUFFICES ASSUME CatalogAnswers, TypeOK, PlanComplete, [Next]_vars PROVE PlanComplete'
  OBVIOUS
<1> USE WorkersDisjoint DEF TypeOK, Types, Workers, Batches, Locked
<1>1. ASSUME NEW l \in Logins, ResolveLogin(l) \/ \E u \in Users : ReceiveLogin(l, u)
      PROVE  PlanComplete'
  BY <1>1, PlanCompleteKept DEF ResolveLogin, ReceiveLogin, Goto, Done, Planned
<1>2. ASSUME NEW b \in Batches,
             \/ StartBatch(b) \/ ListUsersInOrg(b) \/ DecideBatch(b) \/ EndBatch(b)
             \/ \E u \in Users : ResolveInBatch(b, u)
      PROVE  PlanComplete'
  BY <1>2, PlanCompleteKept
     DEF StartBatch, ListUsersInOrg, DecideBatch, EndBatch, ResolveInBatch, Goto, job, Planned
<1>3. ASSUME NEW b \in Batches, NEW u \in Users, PickUser(b, u) PROVE PlanComplete'
  BY <1>3, PlanCompleteKept DEF PickUser, Goto, Planned
<1>4. ASSUME NEW w \in Workers, Lock(w) PROVE PlanComplete'
  <2>1. UNCHANGED <<user, answer, plan>>
    BY <1>4 DEF Lock, job
  <2>2. CASE answer[w].suspended
    <3>1. \A v \in Workers : Complete(v)' <=> Complete(v)
      BY <2>1 DEF Complete, Entitled, RulesFor
    <3> QED  BY <1>4, <2>1, <2>2, <3>1 DEF Lock, Goto, PlanComplete
  <2>3. CASE ~answer[w].suspended
    BY <1>4, <2>1, <2>3, PlanCompleteKept DEF Lock, Goto, Planned
  <2> QED  BY <2>2, <2>3
<1>5. ASSUME NEW w \in Workers, PlanGrants(w) PROVE PlanComplete'
  <2>1. user[w] \in Users
    BY <1>5, AtWork DEF PlanGrants
  <2>2. plan' = [plan EXCEPT ![w] = Desired(user[w], answer[w].groups, {})]
    BY <1>5 DEF PlanGrants, Fault, CatalogAnswers
  <2>3. UNCHANGED <<user, answer>> /\ pc' = [pc EXCEPT ![w] = "list"]
    BY <1>5 DEF PlanGrants, Goto
  <2>4. \A p \in Projects : Entitled(user[w], answer[w].groups, p) \subseteq plan'[w].roles[p]
    BY <2>1, <2>2, DesiredComplete
  <2>5. Complete(w)'
    BY <2>3, <2>4 DEF Complete, Entitled, RulesFor
  <2>6. \A v \in Workers \ {w} : pc'[v] = pc[v] /\ (Complete(v)' <=> Complete(v))
    BY <2>2, <2>3 DEF Complete, Entitled, RulesFor
  <2> QED  BY <2>3, <2>5, <2>6 DEF PlanComplete
<1>6. ASSUME NEW w \in Workers, ListGrants(w) \/ Unlock(w) PROVE PlanComplete'
  BY <1>6, PlanCompleteKept DEF ListGrants, Unlock, Done, Goto, Planned
<1>7. ASSUME NEW w \in Workers, NEW p \in Projects,
             AddGrant(w, p) \/ UpdateGrant(w, p) \/ RemoveGrant(w, p)
      PROVE  PlanComplete'
  <2>1. /\ pc[w] = "write" /\ (pc' = pc \/ pc' = [pc EXCEPT ![w] = "failed"])
        /\ UNCHANGED <<user, answer, plan>>
    BY <1>7, WriteOutcome
  <2> QED  BY <2>1, PlanCompleteKept DEF Planned
<1>8. ASSUME NEW u \in Users, ChangeDirectory(u) PROVE PlanComplete'
  BY <1>8, PlanCompleteKept DEF ChangeDirectory, job
<1>9. ASSUME NEW dead, Crash(dead) PROVE PlanComplete'
  BY <1>9, PlanCompleteKept DEF Crash, Planned
<1>10. CASE UNCHANGED vars
  BY <1>10, PlanCompleteKept DEF vars
<1>11. ASSUME NEW w \in Workers, Work(w) PROVE PlanComplete'
  BY <1>5, <1>6, <1>7, <1>11 DEF Work
<1> QED
  BY <1>1, <1>2, <1>3, <1>4, <1>8, <1>9, <1>10, <1>11
     DEF Next, LoginStep, BatchStep, Environment, CrashServer, CrashCron

(* The directory's word, a rule's, or an operator's: what lets w at the    *)
(* user's grants (LoginSyncs, BatchSyncs).                                 *)
OnWord(w) ==
    /\ answer[w].ok
    /\ \/ answer[w].suspended
       \/ answer[w].groups # {}
       \/ RulesNameUser(RulesFor(user[w]), user[w])
       \/ w \in Batches /\ run[w].force

OnTheWay == {"lock"} \cup Critical

Phase2 == {"next"} \cup OnTheWay

(* The inductive invariant: everyone on the way to a write goes by such a  *)
(* word; a batch in phase 2 met no directory that answers empty, and what  *)
(* it still has to apply are answers, not failures.                        *)
Authority ==
    /\ \A w \in Workers : pc[w] \in OnTheWay => OnWord(w)
    /\ \A b \in Batches : pc[b] \in Phase2 => run[b].force \/ ~RatioExceeded(run[b])
    /\ \A b \in Batches : \A u \in run[b].left : run[b].answers[u].ok

LEMMA AuthorityInit == Init => Authority
BY DEF Init, Authority, OnTheWay, Phase2, Critical, NoRun, Workers, Batches

(* What a batch has resolved, decided and been told stays as it is.        *)
RunKept(b) ==
    /\ run'[b].force = run[b].force /\ run'[b].resolved = run[b].resolved
    /\ run'[b].answers = run[b].answers /\ run'[b].left \subseteq run[b].left

LEMMA RatioKept ==
    ASSUME NEW b \in Batches, RunKept(b)
    PROVE  RatioExceeded(run[b])' <=> RatioExceeded(run[b])
BY DEF RunKept, RatioExceeded, Empties

(* A step that sets nobody on the way, opens no phase 2 and tells a batch  *)
(* nothing new.                                                            *)
AuthorityGoesOn ==
    /\ \A w \in Workers : pc'[w] \in OnTheWay =>
          pc[w] \in OnTheWay /\ answer'[w] = answer[w] /\ user'[w] = user[w]
    /\ \A b \in Batches :
          \/ RunKept(b) /\ (pc'[b] \in Phase2 => pc[b] \in Phase2)
          \/ run'[b].left = {} /\ pc'[b] \notin Phase2

LEMMA AuthorityKept == ASSUME Authority, AuthorityGoesOn PROVE Authority'
<1>1. ASSUME NEW w \in Workers, pc'[w] \in OnTheWay PROVE OnWord(w)'
  <2>1. pc[w] \in OnTheWay /\ answer'[w] = answer[w] /\ user'[w] = user[w]
    BY <1>1 DEF AuthorityGoesOn
  <2>2. w \in Batches => run'[w].force = run[w].force
    BY <1>1 DEF AuthorityGoesOn, RunKept, Phase2
  <2>3. OnWord(w)
    BY <2>1 DEF Authority
  <2> QED  BY <2>1, <2>2, <2>3 DEF OnWord, RulesNameUser, RulesFor
<1>2. ASSUME NEW b \in Batches, pc'[b] \in Phase2
      PROVE  run'[b].force \/ ~RatioExceeded(run[b])'
  <2>1. RunKept(b) /\ pc[b] \in Phase2
    BY <1>2 DEF AuthorityGoesOn
  <2> QED  BY <2>1, RatioKept DEF Authority, RunKept
<1>3. ASSUME NEW b \in Batches, NEW u \in run'[b].left PROVE run'[b].answers[u].ok
  <2>1. RunKept(b)
    BY <1>3 DEF AuthorityGoesOn
  <2> QED  BY <1>3, <2>1 DEF Authority, RunKept
<1> QED  BY <1>1, <1>2, <1>3 DEF Authority

(* A login goes for the lock on a word only: a failed resolution lets it   *)
(* through for users whom rules name, of whom there are none then.         *)
LEMMA LoginOnWord ==
    ASSUME Dependable, TypeOK, NEW l \in Logins, pc[l] = "resolve",
           NEW a \in {Told(user[l]), NoAnswer}, ~a.ok => "resolver" \in Faults,
           LoginSyncs(user[l], a)
    PROVE  /\ a.ok
           /\ a.suspended \/ a.groups # {} \/ RulesNameUser(RulesFor(user[l]), user[l])
<1>1. user[l] \in Users
  BY AtWork DEF Workers
<1>2. a.suspended \/ a.groups # {} \/ RulesNameUser(RulesFor(user[l]), user[l])
  BY DEF LoginSyncs, RulesApply
<1>3. ASSUME ~a.ok PROVE FALSE
  <2>1. a.groups = {} /\ ~a.suspended
    BY <1>3 DEF Told, NoAnswer
  <2>2. PICK rule \in RulesFor(user[l]) : user[l] \in rule.users
    BY <1>2, <2>1 DEF RulesNameUser
  <2>3. OrgOf[user[l]] \in Orgs
    BY <1>1, ConfigWellFormed
  <2>4. rule.users = {}
    BY <1>3, <2>2, <2>3 DEF Dependable, RulesFor
  <2> QED  BY <2>2, <2>4
<1> QED  BY <1>2, <1>3

LEMMA AuthorityStep ==
    Dependable /\ TypeOK /\ Authority /\ [Next]_vars => Authority'
<1> SUFFICES ASSUME Dependable, TypeOK, Authority, [Next]_vars PROVE Authority'
  OBVIOUS
<1> USE WorkersDisjoint DEF TypeOK, Types, Workers, Batches, Locked
<1>1. ASSUME NEW l \in Logins, NEW u \in Users, ReceiveLogin(l, u) PROVE Authority'
  <2>1. AuthorityGoesOn
    BY <1>1 DEF ReceiveLogin, Goto, AuthorityGoesOn, RunKept, OnTheWay, Phase2, Critical
  <2> QED  BY <2>1, AuthorityKept
<1>2. ASSUME NEW l \in Logins, ResolveLogin(l) PROVE Authority'
  <2>1. run' = run /\ \A b \in Batches : pc'[b] = pc[b]
    BY <1>2 DEF ResolveLogin, Goto, Done
  <2>2. CASE Done(l)
    <3>1. AuthorityGoesOn
      BY <2>1, <2>2 DEF Done, AuthorityGoesOn, RunKept, OnTheWay, Critical
    <3> QED  BY <3>1, AuthorityKept
  <2>3. CASE \E a \in {Told(user[l]), NoAnswer} :
                /\ LoginSyncs(user[l], a) /\ (a.ok \/ Fault("resolver"))
                /\ Goto(l, "lock") /\ answer' = [answer EXCEPT ![l] = a]
                /\ UNCHANGED <<user, plan, listed, todo>>
    <3>1. PICK a \in {Told(user[l]), NoAnswer} :
             /\ LoginSyncs(user[l], a) /\ (a.ok \/ Fault("resolver"))
             /\ Goto(l, "lock") /\ answer' = [answer EXCEPT ![l] = a]
             /\ UNCHANGED user
      BY <2>3
    <3>2. /\ a.ok
          /\ a.suspended \/ a.groups # {} \/ RulesNameUser(RulesFor(user[l]), user[l])
      BY <1>2, <3>1, LoginOnWord DEF ResolveLogin, Fault
    <3>3. OnWord(l)'
      BY <3>1, <3>2 DEF OnWord, RulesNameUser, RulesFor
    <3>4. ASSUME NEW w \in Workers \ {l}, pc'[w] \in OnTheWay PROVE OnWord(w)'
      <4>1. OnWord(w)
        BY <3>1, <3>4 DEF Authority, Goto
      <4>2. answer'[w] = answer[w] /\ user'[w] = user[w] /\ run' = run
        BY <2>1, <3>1, <3>4
      <4> QED  BY <4>1, <4>2 DEF OnWord, RulesNameUser, RulesFor
    <3>5. \A b \in Batches : RatioExceeded(run[b])' <=> RatioExceeded(run[b])
      BY <2>1 DEF RatioExceeded, Empties
    <3> QED  BY <2>1, <3>3, <3>4, <3>5 DEF Authority
  <2> QED  BY <1>2, <2>2, <2>3 DEF ResolveLogin
<1>3. ASSUME NEW b \in Batches, StartBatch(b) \/ EndBatch(b) PROVE Authority'
  <2>1. run'[b].left = {}
    <3>1. CASE StartBatch(b)
      <4>1. PICK force \in BOOLEAN :
               run' = [run EXCEPT ![b] = [NoRun EXCEPT !.force = force,
                                            !.orgs = {o \in Configured : Rules[o] # {}}]]
        BY <3>1 DEF StartBatch
      <4> QED  BY <4>1 DEF NoRun
    <3>2. CASE EndBatch(b)
      BY <3>2 DEF EndBatch, NoRun
    <3> QED  BY <1>3, <3>1, <3>2
  <2>2. AuthorityGoesOn
    BY <1>3, <2>1 DEF StartBatch, EndBatch, Goto, job, AuthorityGoesOn, RunKept, OnTheWay, Phase2, Critical
  <2> QED  BY <2>2, AuthorityKept
<1>4. ASSUME NEW b \in Batches, ListUsersInOrg(b) PROVE Authority'
  <2>1. PICK o \in run[b].orgs :
           \/ run' = [run EXCEPT ![b] =
                 [run[b] EXCEPT !.orgs = run[b].orgs \ {o},
                           !.unresolved = {u \in Users \ Machines : OrgOf[u] = o}]]
           \/ run' = [run EXCEPT ![b] = [run[b] EXCEPT !.orgs = run[b].orgs \ {o}]]
    BY <1>4 DEF ListUsersInOrg
  <2>2. RunKept(b)
    <3> DEFINE us == {u \in Users \ Machines : OrgOf[u] = o}
    <3>1. \/ run'[b] = [run[b] EXCEPT !.orgs = run[b].orgs \ {o}, !.unresolved = us]
          \/ run'[b] = [run[b] EXCEPT !.orgs = run[b].orgs \ {o}]
      BY <2>1
    <3>2. run[b] \in Runs
      OBVIOUS
    <3> HIDE DEF us
    <3> QED  BY ONLY <3>1, <3>2 DEF Runs, RunKept
  <2>3. \A c \in Batches \ {b} : run'[c] = run[c]
    BY <2>1
  <2>4. AuthorityGoesOn
    BY <1>4, <2>2, <2>3 DEF ListUsersInOrg, job, AuthorityGoesOn, RunKept
  <2> QED  BY <2>4, AuthorityKept
<1>5. ASSUME NEW b \in Batches, NEW u \in Users, ResolveInBatch(b, u) PROVE Authority'
  <2>1. UNCHANGED <<pc, user, answer>> /\ pc[b] = "collect"
    BY <1>5 DEF ResolveInBatch, job
  <2>2. \A c \in Batches \ {b} : run'[c] = run[c]
    BY <1>5 DEF ResolveInBatch
  <2>3. \/ run'[b].left = run[b].left /\ run'[b].answers = run[b].answers
        \/ /\ run'[b].left = run[b].left \cup {u}
           /\ run'[b].answers = [run[b].answers EXCEPT ![u] = Told(u)]
    <3> DEFINE s == run'[b]
               r == run[b]
    <3>1. r \in Runs
      OBVIOUS
    <3>2. \/ s = [r EXCEPT !.unresolved = r.unresolved \ {u},
                           !.resolved   = r.resolved \cup {u},
                           !.left       = r.left \cup {u},
                           !.answers    = [r.answers EXCEPT ![u] = Told(u)]]
          \/ s = [r EXCEPT !.unresolved = r.unresolved \ {u}]
      BY <1>5 DEF ResolveInBatch
    <3> HIDE DEF s, r
    <3>3. CASE s = [r EXCEPT !.unresolved = r.unresolved \ {u},
                             !.resolved   = r.resolved \cup {u},
                             !.left       = r.left \cup {u},
                             !.answers    = [r.answers EXCEPT ![u] = Told(u)]]
      <4>1. s.left = r.left \cup {u} /\ s.answers = [r.answers EXCEPT ![u] = Told(u)]
        BY ONLY <3>1, <3>3 DEF Runs
      <4> QED  BY <4>1 DEF s, r
    <3>4. CASE s = [r EXCEPT !.unresolved = r.unresolved \ {u}]
      <4>1. s.left = r.left /\ s.answers = r.answers
        BY ONLY <3>1, <3>4 DEF Runs
      <4> QED  BY <4>1 DEF s, r
    <3> QED  BY <3>2, <3>3, <3>4
  <2>4. Told(u).ok
    BY DEF Told
  <2>5. DOMAIN run[b].answers = Users /\ run[b].left \subseteq Users
    BY DEF Runs
  <2>6. ASSUME NEW v \in run'[b].left PROVE run'[b].answers[v].ok
    BY <2>3, <2>4, <2>5, <2>6 DEF Authority
  <2>7. \A w \in Workers : pc[w] \in OnTheWay => OnWord(w)'
    <3> SUFFICES ASSUME NEW w \in Workers, pc[w] \in OnTheWay PROVE OnWord(w)'
      OBVIOUS
    <3>1. w # b /\ OnWord(w)
      BY <2>1 DEF Authority, OnTheWay, Critical
    <3>2. w \in Batches => run'[w] = run[w]
      BY <2>2, <3>1
    <3> QED  BY <2>1, <3>1, <3>2 DEF OnWord, RulesNameUser, RulesFor
  <2>8. ASSUME NEW c \in Batches, pc[c] \in Phase2
        PROVE  run'[c].force \/ ~RatioExceeded(run[c])'
    <3>1. run'[c] = run[c]
      BY <2>1, <2>2, <2>8 DEF Phase2, OnTheWay, Critical
    <3> QED  BY <2>8, <3>1 DEF Authority, RatioExceeded, Empties
  <2> QED  BY <2>1, <2>2, <2>6, <2>7, <2>8 DEF Authority
<1>6. ASSUME NEW b \in Batches, DecideBatch(b) PROVE Authority'
  <2>1. CASE run' = [run EXCEPT ![b] = NoRun] /\ pc' = [pc EXCEPT ![b] = "idle"]
    <3>1. run'[b].left = {}
      BY <2>1 DEF NoRun
    <3>2. AuthorityGoesOn
      BY <1>6, <2>1, <3>1 DEF DecideBatch, job, AuthorityGoesOn, RunKept, OnTheWay, Phase2, Critical
    <3> QED  BY <3>2, AuthorityKept
  <2>2. CASE /\ run[b].force \/ ~RatioExceeded(run[b])
             /\ run' = run /\ pc' = [pc EXCEPT ![b] = "next"]
    <3>1. UNCHANGED <<user, answer>>
      BY <1>6 DEF DecideBatch, job
    <3>2. \A w \in Workers : OnWord(w)' <=> OnWord(w)
      BY <2>2, <3>1 DEF OnWord, RulesNameUser, RulesFor
    <3>3. \A c \in Batches : RatioExceeded(run[c])' <=> RatioExceeded(run[c])
      BY <2>2 DEF RatioExceeded, Empties
    <3>4. \A w \in Workers : pc'[w] \in OnTheWay => pc[w] \in OnTheWay
      BY <2>2 DEF OnTheWay, Critical
    <3>5. \A c \in Batches : pc'[c] \in Phase2 => pc[c] \in Phase2 \/ c = b
      BY <2>2
    <3> QED  BY <2>2, <3>2, <3>3, <3>4, <3>5 DEF Authority
  <2> QED  BY <1>6, <2>1, <2>2 DEF DecideBatch, Goto
<1>7. ASSUME NEW b \in Batches, NEW u \in Users, PickUser(b, u) PROVE Authority'
  <2>1. \A c \in Batches : RunKept(c)
    <3>1. run[b] \in Runs
      OBVIOUS
    <3>2. RunKept(b)
      BY <1>7, <3>1 DEF PickUser, Runs, RunKept
    <3> QED  BY <1>7, <3>2 DEF PickUser, RunKept
  <2>2. CASE UNCHANGED <<pc, user, answer>>
    <3>1. AuthorityGoesOn
      BY <2>1, <2>2 DEF AuthorityGoesOn
    <3> QED  BY <3>1, AuthorityKept
  <2>3. CASE /\ BatchSyncs(u, run[b].answers[u], run[b].force)
             /\ Goto(b, "lock") /\ user' = [user EXCEPT ![b] = u]
             /\ answer' = [answer EXCEPT ![b] = run[b].answers[u]]
    <3>1. run[b].answers[u].ok /\ pc[b] = "next"
      BY <1>7 DEF PickUser, Authority
    <3>2. OnWord(b)'
      <4>1. answer'[b] = run[b].answers[u] /\ user'[b] = u /\ run'[b].force = run[b].force
        BY <2>1, <2>3 DEF RunKept
      <4> QED  BY <2>3, <3>1, <4>1 DEF BatchSyncs, OnWord, RulesNameUser, RulesFor
    <3>3. ASSUME NEW w \in Workers \ {b}, pc'[w] \in OnTheWay PROVE OnWord(w)'
      <4>1. OnWord(w)
        BY <2>3, <3>3 DEF Authority, Goto
      <4>2. /\ answer'[w] = answer[w] /\ user'[w] = user[w]
            /\ w \in Batches => run'[w].force = run[w].force
        BY <2>1, <2>3, <3>3 DEF RunKept
      <4> QED  BY <4>1, <4>2 DEF OnWord, RulesNameUser, RulesFor
    <3>4. ASSUME NEW c \in Batches, pc'[c] \in Phase2
          PROVE  run'[c].force \/ ~RatioExceeded(run[c])'
      <4>1. pc[c] \in Phase2
        BY <2>3, <3>1, <3>4 DEF Goto, Phase2
      <4> QED  BY <2>1, <4>1, RatioKept DEF Authority, RunKept
    <3>5. \A c \in Batches : \A v \in run'[c].left : run'[c].answers[v].ok
      BY <2>1 DEF Authority, RunKept
    <3> QED  BY <3>2, <3>3, <3>4, <3>5 DEF Authority
  <2> QED  BY <1>7, <2>2, <2>3 DEF PickUser
<1>8. ASSUME NEW w \in Workers, Lock(w) \/ PlanGrants(w) \/ ListGrants(w) PROVE Authority'
  <2>1. AuthorityGoesOn
    BY <1>8 DEF Lock, PlanGrants, ListGrants, Goto, job, AuthorityGoesOn, RunKept,
                OnTheWay, Phase2, Critical
  <2> QED  BY <2>1, AuthorityKept
<1>9. ASSUME NEW w \in Workers, NEW p \in Projects,
             AddGrant(w, p) \/ UpdateGrant(w, p) \/ RemoveGrant(w, p)
      PROVE  Authority'
  <2>1. /\ pc[w] = "write" /\ (pc' = pc \/ pc' = [pc EXCEPT ![w] = "failed"])
        /\ UNCHANGED <<user, answer, run>>
    BY <1>9, WriteOutcome
  <2>2. AuthorityGoesOn
    BY <2>1 DEF AuthorityGoesOn, RunKept, OnTheWay, Phase2, Critical
  <2> QED  BY <2>2, AuthorityKept
<1>10. ASSUME NEW w \in Workers, Unlock(w) PROVE Authority'
  <2>1. AuthorityGoesOn
    BY <1>10 DEF Unlock, Done, AuthorityGoesOn, RunKept, OnTheWay, Phase2, Critical
  <2> QED  BY <2>1, AuthorityKept
<1>11. ASSUME NEW u \in Users, ChangeDirectory(u) PROVE Authority'
  <2>1. AuthorityGoesOn
    BY <1>11 DEF ChangeDirectory, job, AuthorityGoesOn, RunKept
  <2> QED  BY <2>1, AuthorityKept
<1>12. ASSUME NEW dead, Crash(dead) PROVE Authority'
  <2>1. NoRun.left = {}
    BY DEF NoRun
  <2>2. AuthorityGoesOn
    BY <1>12, <2>1 DEF Crash, AuthorityGoesOn, RunKept, OnTheWay, Phase2, Critical
  <2> QED  BY <2>2, AuthorityKept
<1>13. CASE UNCHANGED vars
  <2>1. AuthorityGoesOn
    BY <1>13 DEF vars, AuthorityGoesOn, RunKept
  <2> QED  BY <2>1, AuthorityKept
<1>14. ASSUME NEW w \in Workers, Work(w) PROVE Authority'
  BY <1>8, <1>9, <1>10, <1>14 DEF Work
<1> QED
  BY <1>1, <1>2, <1>3, <1>4, <1>5, <1>6, <1>7, <1>8, <1>11, <1>12, <1>13, <1>14
     DEF Next, LoginStep, BatchStep, Environment, CrashServer, CrashCron

(* Only the three writes touch grants.                                     *)
LEMMA WhoWrites ==
    ASSUME TypeOK, [Next]_vars, NEW u \in Users, NEW p \in Projects, grants'[u][p] # grants[u][p]
    PROVE  \E w \in Workers :
              pc[w] = "write" /\ user[w] = u /\ grants'[u][p] = plan[w].roles[p]
<1> DEFINE Goal == \E w \in Workers :
                      pc[w] = "write" /\ user[w] = u /\ grants'[u][p] = plan[w].roles[p]
<1> HIDE DEF Goal
<1>1. ASSUME NEW w \in Workers, NEW q \in Projects,
             AddGrant(w, q) \/ UpdateGrant(w, q) \/ RemoveGrant(w, q)
      PROVE  Goal
  <2>1. pc[w] = "write" /\ Written(w, q)
    BY <1>1, WriteOutcome
  <2>2. user[w] \in Users
    BY <2>1, AtWork
  <2>3. user[w] = u /\ q = p /\ grants'[u][p] = plan[w].roles[p]
    BY <2>1, <2>2 DEF Written, TypeOK, Types, GrantSets
  <2> QED  BY <2>1, <2>3 DEF Goal
<1>2. ASSUME NEW w \in Workers, Work(w) PROVE Goal
  BY <1>1, <1>2 DEF Work, PlanGrants, ListGrants, Unlock
<1>3. ASSUME NEW l \in Logins, LoginStep(l) \/ \E v \in Users : ReceiveLogin(l, v)
      PROVE  Goal
  BY <1>2, <1>3 DEF LoginStep, ResolveLogin, ReceiveLogin, Lock, Workers
<1>4. ASSUME NEW b \in Batches, BatchStep(b) \/ StartBatch(b) PROVE Goal
  BY <1>2, <1>4 DEF BatchStep, StartBatch, ListUsersInOrg, DecideBatch, EndBatch, Lock,
                    ResolveInBatch, PickUser, Workers
<1>5. ASSUME Environment PROVE Goal
  BY <1>5 DEF Environment, ChangeDirectory, CrashServer, CrashCron, Crash
<1>6. Goal
  BY <1>3, <1>4, <1>5 DEF Next, vars
<1> QED  BY <1>6 DEF Goal

(* Who takes a role away does it by writing a complete plan on authority.  *)
LEMMA PruneOnAuthority ==
    ASSUME TypeOK, PlanComplete, Authority, [Next]_vars,
           NEW u \in Users, NEW p \in Projects, NEW r \in grants[u][p] \ grants'[u][p]
    PROVE  \E w \in Workers :
              /\ pc[w] = "write" /\ user[w] = u
              /\ HasAuthority(w)
              /\ answer[w].suspended \/ r \notin Entitled(u, answer[w].groups, p)
<1>1. PICK w \in Workers : pc[w] = "write" /\ user[w] = u /\ grants'[u][p] = plan[w].roles[p]
  BY WhoWrites
<1>2. answer[w].suspended \/ r \notin Entitled(u, answer[w].groups, p)
  BY <1>1 DEF PlanComplete, Complete, Planned
<1>3. HasAuthority(w)
  BY <1>1 DEF Authority, OnWord, HasAuthority, OnTheWay, Phase2, Critical
<1> QED  BY <1>1, <1>2, <1>3

(* Where the deployment is dependable, no login, batch or CronJob run, in  *)
(* whatever interleaving and with or without shared locks, takes a role    *)
(* away but on the directory's word, a rule's or an operator's, after the  *)
(* empty-ratio decision, and only if the rules no longer give it.          *)
THEOREM PrunesOnAuthority == Dependable => (Spec => PruneNeedsAuthority)
<1> SUFFICES ASSUME Dependable PROVE Spec => PruneNeedsAuthority
  OBVIOUS
<1> DEFINE IInv == TypeOK /\ PlanComplete /\ Authority
           A == \A u \in Users, p \in Projects : \A r \in grants[u][p] \ grants'[u][p] :
                   \E w \in Workers :
                      /\ pc[w] = "write" /\ user[w] = u
                      /\ HasAuthority(w)
                      /\ answer[w].suspended \/ r \notin Entitled(u, answer[w].groups, p)
<1>1. Init => IInv
  BY TypeInit, PlanCompleteInit, AuthorityInit
<1>2. IInv /\ [Next]_vars => IInv'
  BY TypeStep, PlanCompleteStep, AuthorityStep DEF Dependable
<1>3. IInv /\ [Next]_vars => [A]_vars
  BY PruneOnAuthority
<1>4. PruneNeedsAuthority <=> [][A]_vars
  BY DEF PruneNeedsAuthority
<1> QED  BY <1>1, <1>2, <1>3, <1>4, PTL DEF Spec

-----------------------------------------------------------------------------
(* What the directory says comes to be, and stays.                         *)

(* A plan that follows an answer and is complete is that answer, and is    *)
(* what is due if the answer is the directory's present word.              *)
LEMMA PlanIsDue ==
    ASSUME TypeOK, PlanFollows, PlanComplete, NEW w \in Workers, pc[w] \in Planned,
           answer[w] = Told(user[w]), NEW p \in Projects
    PROVE  plan[w].roles[p] = Due(user[w], p)
<1>1. /\ answer[w].suspended = directory[user[w]].suspended
      /\ answer[w].groups = directory[user[w]].groups
  BY DEF Told
<1>2. Follows(w) /\ (answer[w].suspended \/ Complete(w))
  BY DEF PlanFollows, PlanComplete
<1>3. CASE directory[user[w]].suspended
  BY <1>1, <1>2, <1>3 DEF Follows, NoGrants, Due
<1>4. CASE ~directory[user[w]].suspended
  BY <1>1, <1>2, <1>4 DEF Follows, Complete, Due
<1> QED  BY <1>3, <1>4

(* While all workers share one lock table and the catalog answers, a sync  *)
(* that was told the directory's present word leaves its user with exactly *)
(* what is due, whatever it found.                                         *)
THEOREM SyncsSettle == OneLockTable /\ CatalogAnswers => (Spec => []SyncSettles)
<1> SUFFICES ASSUME OneLockTable, CatalogAnswers PROVE Spec => []SyncSettles
  OBVIOUS
<1> DEFINE IInv == TypeOK /\ LockHeld /\ Snapshot /\ PlanFollows /\ PlanComplete
<1>1. Init => IInv
  BY TypeInit, LockHeldInit, SnapshotInit, PlanFollowsInit, PlanCompleteInit
<1>2. IInv /\ [Next]_vars => IInv'
  BY TypeStep, LockHeldStep, SnapshotStep, PlanFollowsStep, PlanCompleteStep
<1>3. IInv => SyncSettles
  <2> SUFFICES ASSUME IInv, NEW w \in Workers, pc[w] = "write", todo[w] = {},
                      answer[w] = Told(user[w]), NEW p \in Projects
               PROVE  grants[user[w]][p] = Due(user[w], p)
    BY DEF SyncSettles, Settled
  <2>1. grants[user[w]][p] = plan[w].roles[p]
    BY DEF Snapshot, SnapshotIsCurrent
  <2> QED  BY <2>1, PlanIsDue DEF Planned
<1> QED  BY <1>1, <1>2, <1>3, PTL DEF Spec

(* Where the catalog answers, no write of a sync that was told the         *)
(* directory's present word leads away from it, sharing locks or not: a    *)
(* settled user stays settled, against every other such sync, lost answer, *)
(* old listing and crash.                                                  *)
THEOREM WritesRepair == CatalogAnswers => (Spec => EveryWriteRepairs)
<1> SUFFICES ASSUME CatalogAnswers PROVE Spec => EveryWriteRepairs
  OBVIOUS
<1> DEFINE IInv == TypeOK /\ PlanFollows /\ PlanComplete
           A == \A u \in Users, p \in Projects :
                   (grants'[u][p] # grants[u][p] /\ ToldOfNow(u)) => grants'[u][p] = Due(u, p)
<1>1. Init => IInv
  BY TypeInit, PlanFollowsInit, PlanCompleteInit
<1>2. IInv /\ [Next]_vars => IInv'
  BY TypeStep, PlanFollowsStep, PlanCompleteStep
<1>3. IInv /\ [Next]_vars => [A]_vars
  <2> SUFFICES ASSUME IInv, [Next]_vars, NEW u \in Users, NEW p \in Projects,
                      grants'[u][p] # grants[u][p], ToldOfNow(u)
               PROVE  grants'[u][p] = Due(u, p)
    OBVIOUS
  <2>1. PICK w \in Workers : pc[w] = "write" /\ user[w] = u /\ grants'[u][p] = plan[w].roles[p]
    BY WhoWrites
  <2>2. answer[w] = Told(user[w])
    BY <2>1 DEF ToldOfNow
  <2> QED  BY <2>1, <2>2, PlanIsDue DEF Planned
<1>4. EveryWriteRepairs <=> [][A]_vars
  BY DEF EveryWriteRepairs
<1> QED  BY <1>1, <1>2, <1>3, <1>4, PTL DEF Spec
=============================================================================
