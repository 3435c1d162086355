---------------------------- MODULE WebhookProofs ----------------------------
(***************************************************************************)
(* Proofs about WebhookRequest, for any number of requests, refreshes,     *)
(* keys and documents: first the verifier's cache and the config document, *)
(* each by itself, then the requests that read both.                       *)
(***************************************************************************)
EXTENDS WebhookRequest, TLAPS

-----------------------------------------------------------------------------
(* The verifier.                                                           *)

\* Whatever happens to the verifier's cache.
KeyAction ==
    \/ \E r \in Requests : BeginVerify(r) \/ ForgetVerdict(r) \/ KeyStep(r)
    \/ KeyEnvironment
    \/ ForgetKeys

LEMMA KeyInitTyped == KeyInit => KeyTypeOK
  BY KeyAssumption DEF KeyInit, KeyTypeOK, Stages, NoKeys

\* A verification that ends, or asks again, leaves well-typed state.
LEMMA ConcludeTyped ==
    ASSUME KeyTypeOK, NEW r \in Requests, NEW set, Conclude(r, set)
    PROVE  stage' \in [Requests -> Stages] /\ keyMu' \in Requests \cup {NoHolder}
  BY DEF KeyTypeOK, Conclude, Stages

LEMMA RefetchTyped ==
    ASSUME KeyTypeOK, NEW r \in Requests, NEW set, NEW age, RefetchOrConclude(r, set, age)
    PROVE  stage' \in [Requests -> Stages] /\ keyMu' \in Requests \cup {NoHolder}
  BY ConcludeTyped DEF KeyTypeOK, RefetchOrConclude, Stages

LEMMA KeyActionTyped ==
    ASSUME KeyTypeOK, KeyAction
    PROVE  KeyTypeOK'
<1>1. ASSUME NEW r \in Requests, BeginVerify(r)
      PROVE  KeyTypeOK'
  BY <1>1 DEF KeyTypeOK, BeginVerify, Stages
<1>2. ASSUME NEW r \in Requests, ForgetVerdict(r)
      PROVE  KeyTypeOK'
  BY <1>2 DEF KeyTypeOK, ForgetVerdict, Stages
<1>3. ASSUME NEW r \in Requests, LockKeys(r)
      PROVE  KeyTypeOK'
  BY <1>3, RefetchTyped DEF KeyTypeOK, LockKeys, Stages
<1>4. ASSUME NEW r \in Requests, PeriodicAnswer(r)
      PROVE  KeyTypeOK'
  BY <1>4, RefetchTyped, KeyAssumption DEF KeyTypeOK, PeriodicAnswer, Refetch
<1>5. ASSUME NEW r \in Requests, PeriodicFailure(r)
      PROVE  KeyTypeOK'
  BY <1>5, RefetchTyped, ConcludeTyped DEF KeyTypeOK, PeriodicFailure
<1>6. ASSUME NEW r \in Requests, UnknownAnswer(r)
      PROVE  KeyTypeOK'
  BY <1>6, ConcludeTyped, KeyAssumption DEF KeyTypeOK, UnknownAnswer, Refetch
<1>7. ASSUME NEW r \in Requests, UnknownFailure(r)
      PROVE  KeyTypeOK'
  BY <1>7, ConcludeTyped DEF KeyTypeOK, UnknownFailure
<1>8. ASSUME RotateKeys
      PROVE  KeyTypeOK'
  BY <1>8 DEF KeyTypeOK, RotateKeys
<1>9. ASSUME TickKeys
      PROVE  KeyTypeOK'
  BY <1>9, KeyAssumption DEF KeyTypeOK, TickKeys
<1>10. ASSUME ForgetKeys
       PROVE  KeyTypeOK'
  BY <1>10, KeyAssumption DEF KeyTypeOK, ForgetKeys, Stages
<1> QED
  BY <1>1, <1>2, <1>3, <1>4, <1>5, <1>6, <1>7, <1>8, <1>9, <1>10
     DEF KeyAction, KeyStep, KeyEnvironment

\* What a verdict says of the set it was reached with.
LEMMA Verdict ==
    ASSUME KeyTypeOK, NEW r \in Requests, NEW q \in Requests, NEW set,
           Conclude(r, set), stage[q] # stage'[q]
    PROVE  /\ q = r
           /\ stage'[q] = "accepted" => set # NoKeys /\ token[q] \in set
           /\ stage'[q] = "refused" => set = NoKeys \/ token[q] \notin set
  BY DEF KeyTypeOK, Conclude

LEMMA RefetchVerdict ==
    ASSUME KeyTypeOK, NEW r \in Requests, NEW q \in Requests, NEW set \in SUBSET Keys, NEW age,
           RefetchOrConclude(r, set, age), stage[q] # stage'[q]
    PROVE  /\ q = r
           /\ stage'[q] = "accepted" => token[q] \in set
           /\ stage'[q] = "refused" => token[q] \notin set /\ ~(age >= MinRefetchInterval)
<1>1. set # NoKeys
  BY KeyAssumption DEF NoKeys
<1> QED
  BY <1>1, Verdict DEF KeyTypeOK, RefetchOrConclude

\* Both properties of the verifier, of any of its steps.
LEMMA KeyActionVerdict ==
    ASSUME KeyTypeOK, KeyAction, NEW q \in Requests
    PROVE  /\ (Concludes(q, "refused") /\ token[q] \in published) =>
                 failing'[q] \/ keyAge < MinRefetchInterval
           /\ (Concludes(q, "accepted") /\ token[q] \notin published) =>
                 failing'[q] \/ keyAge <= RefreshInterval
<1> DEFINE Goal == /\ (Concludes(q, "refused") /\ token[q] \in published) =>
                         failing'[q] \/ keyAge < MinRefetchInterval
                   /\ (Concludes(q, "accepted") /\ token[q] \notin published) =>
                         failing'[q] \/ keyAge <= RefreshInterval
<1> SUFFICES Goal
  OBVIOUS
<1>1. ASSUME NEW r \in Requests, LockKeys(r)
      PROVE  Goal
  <2>1. CASE keySet = NoKeys \/ keyAge > RefreshInterval
    BY <1>1, <2>1 DEF KeyTypeOK, LockKeys, Concludes
  <2>2. CASE ~(keySet = NoKeys \/ keyAge > RefreshInterval)
    <3>1. RefetchOrConclude(r, keySet, keyAge) /\ keySet \in SUBSET Keys
      BY <1>1, <2>2 DEF LockKeys, KeyTypeOK
    <3>2. keyAge \in Nat /\ MinRefetchInterval \in Nat /\ RefreshInterval \in Nat
      BY KeyAssumption DEF KeyTypeOK
    <3>3. Concludes(q, "refused") => keyAge < MinRefetchInterval
      BY <3>1, <3>2, RefetchVerdict DEF Concludes
    <3> QED
      BY <2>2, <3>2, <3>3
  <2> QED
    BY <2>1, <2>2
<1>2. ASSUME NEW r \in Requests, PeriodicAnswer(r)
      PROVE  Goal
  <2>1. RefetchOrConclude(r, published, 0) /\ published \in SUBSET Keys
    BY <1>2 DEF PeriodicAnswer, KeyTypeOK
  <2> QED
    BY <2>1, RefetchVerdict DEF Concludes
<1>3. ASSUME NEW r \in Requests, PeriodicFailure(r)
      PROVE  Goal
  <2>1. failing'[r]
    BY <1>3 DEF PeriodicFailure, KeyTypeOK
  <2>2. stage[q] # stage'[q] => q = r
    BY <1>3 DEF PeriodicFailure, Conclude, RefetchOrConclude, KeyTypeOK
  <2> QED
    BY <2>1, <2>2 DEF Concludes
<1>4. ASSUME NEW r \in Requests, UnknownAnswer(r)
      PROVE  Goal
  <2>1. Conclude(r, published) /\ published \in SUBSET Keys
    BY <1>4 DEF UnknownAnswer, KeyTypeOK
  <2>2. published # NoKeys
    BY <2>1, KeyAssumption DEF NoKeys
  <2> QED
    BY <2>1, <2>2, Verdict DEF Concludes
<1>5. ASSUME NEW r \in Requests, UnknownFailure(r)
      PROVE  Goal
  <2>1. failing'[r]
    BY <1>5 DEF UnknownFailure, KeyTypeOK
  <2>2. stage[q] # stage'[q] => q = r
    BY <1>5 DEF UnknownFailure, Conclude, KeyTypeOK
  <2> QED
    BY <2>1, <2>2 DEF Concludes
<1>6. ASSUME NEW r \in Requests, BeginVerify(r)
      PROVE  Goal
  BY <1>6 DEF BeginVerify, Concludes, KeyTypeOK
<1>7. ASSUME NEW r \in Requests, ForgetVerdict(r)
      PROVE  Goal
  BY <1>7 DEF ForgetVerdict, Concludes, KeyTypeOK
<1>8. ASSUME KeyEnvironment
      PROVE  Goal
  BY <1>8 DEF KeyEnvironment, RotateKeys, TickKeys, Concludes
<1>9. ASSUME ForgetKeys
      PROVE  Goal
  BY <1>9 DEF ForgetKeys, Concludes
<1> QED
  BY KeyAction, <1>1, <1>2, <1>3, <1>4, <1>5, <1>6, <1>7, <1>8, <1>9 DEF KeyAction, KeyStep

-----------------------------------------------------------------------------
(* The config document.                                                    *)

\* A refresh that is to swap has a valid document, and one that has ended
\* without being overtaken has the one in use.
ConfigInv ==
    /\ ConfigTypeOK
    /\ BadDocumentHarmless
    /\ SyncSeesItsRefresh
    /\ \A s \in Syncs : sync[s] # "idle" => content[s] \in Documents
    /\ \A s \in Syncs : sync[s] = "swap" => Valid(content[s])

LEMMA NormalizedTyped ==
    ASSUME NEW doc \in Documents, Valid(doc)
    PROVE  Normalized(doc) \in Configs
  BY DEF Configs

LEMMA InitialTyped ==
    ASSUME NEW doc \in Documents
    PROVE  InitialConfig(doc) \in Configs
  BY NormalizedTyped DEF InitialConfig, Configs

LEMMA ConfigInitInv == ConfigInit => ConfigInv
<1> SUFFICES ASSUME ConfigInit
             PROVE  ConfigInv
  OBVIOUS
<1>1. ConfigTypeOK
  BY InitialTyped DEF ConfigInit, ConfigTypeOK
<1>2. BadDocumentHarmless
  BY DocumentAssumption DEF ConfigInit, BadDocumentHarmless, InitialConfig
<1> QED
  BY <1>1, <1>2 DEF ConfigInit, ConfigInv, SyncSeesItsRefresh

LEMMA ConfigActionInv ==
    ASSUME ConfigInv, ConfigStep \/ RestartConfig
    PROVE  ConfigInv'
<1> USE DEF ConfigInv
<1>1. ASSUME NEW s \in Syncs, ReadDocument(s)
      PROVE  ConfigInv'
  BY <1>1 DEF ReadDocument, ConfigTypeOK, BadDocumentHarmless, SyncSeesItsRefresh
<1>2. ASSUME NEW s \in Syncs, Compare(s)
      PROVE  ConfigInv'
  <2>0. content[s] \in Documents
    BY <1>2 DEF Compare
  <2>1. CASE content[s] # lastHash /\ ~Valid(content[s])
    BY <1>2, <2>1 DEF Compare, EndSync, ConfigTypeOK, BadDocumentHarmless, SyncSeesItsRefresh
  <2>2. CASE content[s] = lastHash
    <3>1. Valid(content[s]) /\ cfg = Normalized(content[s])
      BY <2>0, <2>2, DocumentAssumption DEF BadDocumentHarmless
    <3> QED
      BY <1>2, <2>2, <3>1
         DEF Compare, ConfigTypeOK, BadDocumentHarmless, SyncSeesItsRefresh
  <2>3. CASE content[s] # lastHash /\ Valid(content[s])
    BY <1>2, <2>3 DEF Compare, ConfigTypeOK, BadDocumentHarmless, SyncSeesItsRefresh
  <2> QED
    BY <2>1, <2>2, <2>3
<1>3. ASSUME NEW s \in Syncs, Swap(s)
      PROVE  ConfigInv'
  <2>0. content[s] \in Documents /\ Valid(content[s])
    BY <1>3 DEF Swap
  <2>1. ConfigTypeOK'
    BY <1>3, <2>0, NormalizedTyped DEF Swap, ConfigTypeOK
  <2>2. BadDocumentHarmless'
    BY <1>3, <2>0, DocumentAssumption DEF Swap, BadDocumentHarmless
  <2>3. SyncSeesItsRefresh'
    BY <1>3, <2>0 DEF Swap, ConfigTypeOK, SyncSeesItsRefresh
  <2> QED
    BY <1>3, <2>0, <2>1, <2>2, <2>3 DEF Swap, ConfigTypeOK
<1>4. ASSUME NEW s \in Syncs, RunBatch(s)
      PROVE  ConfigInv'
  BY <1>4 DEF RunBatch, EndSync, ConfigTypeOK, BadDocumentHarmless, SyncSeesItsRefresh
<1>5. ASSUME EditDocument
      PROVE  ConfigInv'
  BY <1>5 DEF EditDocument, ConfigTypeOK, BadDocumentHarmless, SyncSeesItsRefresh
<1>6. ASSUME RestartConfig
      PROVE  ConfigInv'
  <2>1. ConfigTypeOK'
    BY <1>6, InitialTyped DEF RestartConfig, ConfigTypeOK
  <2>2. BadDocumentHarmless'
    BY <1>6, DocumentAssumption DEF RestartConfig, BadDocumentHarmless, InitialConfig, ConfigTypeOK
  <2> QED
    BY <1>6, <2>1, <2>2 DEF RestartConfig, SyncSeesItsRefresh
<1> QED
  BY <1>1, <1>2, <1>3, <1>4, <1>5, <1>6 DEF ConfigStep

-----------------------------------------------------------------------------
(* The requests.                                                           *)

\* What a request knows, stage by stage: as long as no reload comes between,
\* what it saw of the config is what the config still says.
RequestSound(q, c) ==
    /\ q \in Request
    /\ q.outcome # "none" => q.at = "answered"
    /\ q.outcome = "panic" => q.reloaded
    /\ q.at = "employee" => q.claim \in SUBSET ({"group", "emp"} \cup Roles)
    /\ (q.at = "machine" /\ ~q.reloaded) => c.machineUsers
    /\ q.at \notin {"claims", "employee", "answered"} => q.wanted = NoRoles
    /\ q.at \notin {"employee", "answered"} => q.claimed = NoRoles
    /\ (q.at = "claims" /\ q.wanted \notin {NoRoles, {}} /\ ~q.reloaded) =>
          q.wanted = (IF c.protected THEN {"open"} ELSE Roles)
    /\ (q.wanted \notin {NoRoles, {}} /\ q.claimed \notin {NoRoles, {}} /\ ~q.reloaded) =>
          q.claimed = q.wanted

RequestInv(q) == RequestSound(q, cfg)

IInv ==
    /\ KeyTypeOK
    /\ ConfigInv
    /\ \A r \in Requests : RequestInv(req[r])
    /\ DOMAIN req = Requests /\ req = [r \in Requests |-> req[r]]

LEMMA IdleInv == RequestInv(Idle)
  BY DEF RequestInv, RequestSound, Idle, Request, NoRoles, NoClaim, Configs, Outcomes, Running

\* Without a change of the config, a step of one request to a good q is all
\* that has to be shown.
LEMMA GoesInv ==
    ASSUME IInv, NEW r \in Requests, NEW q, Goes(r, q), RequestInv(q), UNCHANGED cfgVars, KeyTypeOK'
    PROVE  IInv'
<1>1. ConfigInv'
  BY DEF IInv, cfgVars, ConfigInv, ConfigTypeOK, BadDocumentHarmless, SyncSeesItsRefresh
<1>2. cfg' = cfg
  BY DEF cfgVars
<1>3. \A t \in Requests : req'[t] = (IF t = r THEN q ELSE req[t])
  BY DEF Goes, IInv
<1>4. DOMAIN req' = Requests /\ req' = [t \in Requests |-> req'[t]]
  BY DEF Goes, IInv
<1>5. ASSUME NEW t \in Requests
      PROVE  RequestInv(req[t])'
  <2>1. RequestInv(req'[t])
    BY <1>3 DEF IInv
  <2> QED
    BY <2>1, <1>2 DEF RequestInv, RequestSound, Planned
<1> QED
  BY <1>1, <1>4, <1>5 DEF IInv

LEMMA RequestFields ==
    ASSUME NEW q \in Request
    PROVE  /\ q.at \in {"idle", "verify", "route", "answered"} \cup Running
           /\ q.org \in Configs
           /\ q.groups \in {{}, {"group"}}
           /\ q.claim \in (SUBSET ({"group", "emp"} \cup Roles)) \cup {NoClaim}
           /\ q.wanted \in (SUBSET Roles) \cup {NoRoles}
           /\ q.claimed \in (SUBSET Roles) \cup {NoRoles}
           /\ q.reloaded \in BOOLEAN
  BY DEF Request

LEMMA AnsweredInv ==
    ASSUME NEW q, RequestInv(q), q.at # "answered", NEW result \in Outcomes,
           NEW entries \in (SUBSET ({"group", "emp"} \cup Roles)) \cup {NoClaim},
           result = "panic" => q.reloaded
    PROVE  RequestInv(Answered(q, result, entries))
<1>1. Answered(q, result, entries) \in Request
  BY DEF RequestInv, RequestSound, Request, Answered, Configs
<1>2. /\ Answered(q, result, entries).at = "answered"
      /\ Answered(q, result, entries).outcome = result
      /\ Answered(q, result, entries).wanted = q.wanted
      /\ Answered(q, result, entries).claimed = q.claimed
      /\ Answered(q, result, entries).reloaded = q.reloaded
  BY DEF RequestInv, RequestSound, Request, Answered
<1> QED
  BY <1>1, <1>2 DEF RequestInv, RequestSound

\* Going on to a stage at which nothing was planned yet.
LEMMA GoesOnInv ==
    ASSUME NEW q, RequestInv(q), q.at \in {"verify", "route", "resolve"},
           NEW where \in {"route", "resolve", "machine", "sync", "claims"},
           NEW org \in Configs, NEW groups \in {{}, {"group"}},
           where = "machine" => cfg.machineUsers
    PROVE  RequestInv([q EXCEPT !.at = where, !.org = org, !.groups = groups])
<1> DEFINE n == [q EXCEPT !.at = where, !.org = org, !.groups = groups]
<1>1. n \in Request
  BY DEF RequestInv, RequestSound, Request, Running
<1>2. /\ n.at = where /\ n.outcome = q.outcome /\ n.wanted = q.wanted
      /\ n.claimed = q.claimed /\ n.reloaded = q.reloaded
  BY DEF RequestInv, RequestSound, Request
<1>3. q.wanted = NoRoles /\ q.claimed = NoRoles /\ q.outcome = "none"
  BY DEF RequestInv, RequestSound
<1> HIDE DEF n
<1>4. RequestInv(n)
  BY <1>1, <1>2, <1>3 DEF RequestInv, RequestSound
<1> QED
  BY <1>4 DEF n

LEMMA GoesToInv ==
    ASSUME NEW q, RequestInv(q), q.at \in {"verify", "route", "resolve"},
           NEW where \in {"route", "resolve", "machine", "sync", "claims"},
           where = "machine" => cfg.machineUsers
    PROVE  RequestInv([q EXCEPT !.at = where])
<1>1. [q EXCEPT !.at = where] = [q EXCEPT !.at = where, !.org = q.org, !.groups = q.groups]
  BY DEF RequestInv, RequestSound, Request
<1>2. q.org \in Configs /\ q.groups \in {{}, {"group"}}
  BY RequestFields DEF RequestInv, RequestSound
<1>3. RequestInv([q EXCEPT !.at = where, !.org = q.org, !.groups = q.groups])
  BY <1>2, GoesOnInv
<1> QED
  BY <1>1, <1>3

LEMMA CheckPayloadInv ==
    ASSUME IInv, NEW r \in Requests, CheckPayload(r)
    PROVE  IInv'
<1> DEFINE q == req[r]
<1>1. KeyTypeOK'
  BY KeyActionTyped DEF IInv, CheckPayload, KeyAction
<1>2. RequestInv(q) /\ q.at = "verify" /\ UNCHANGED cfgVars
  BY DEF IInv, CheckPayload
<1>3. CASE Goes(r, Answered(q, "invalid_jwt", NoClaim))
  BY <1>1, <1>2, <1>3, AnsweredInv, GoesInv DEF Outcomes
<1>4. CASE Goes(r, Answered(q, "bad_payload", NoClaim))
  BY <1>1, <1>2, <1>4, AnsweredInv, GoesInv DEF Outcomes
<1>5. CASE Goes(r, [q EXCEPT !.at = "route"])
  <2>1. RequestInv([q EXCEPT !.at = "route"])
    <3> HIDE DEF q
    <3> QED
      BY <1>2, GoesToInv
  <2> QED
    BY <1>1, <1>2, <1>5, <2>1, GoesInv
<1> QED
  BY <1>3, <1>4, <1>5 DEF CheckPayload

LEMMA LookupOrgInv ==
    ASSUME IInv, NEW r \in Requests, LookupOrg(r)
    PROVE  IInv'
<1>1. KeyTypeOK' /\ UNCHANGED cfgVars
  BY DEF IInv, LookupOrg, keyVars, KeyTypeOK
<1>2. RequestInv(req[r]) /\ req[r].at = "route"
  BY DEF IInv, LookupOrg
<1>3. PICK org \in {cfg, EmptyConfig}, user \in {"human", "ci", "machine"} :
         Goes(r, Routed([req[r] EXCEPT !.org = org], user))
  BY DEF LookupOrg, FoundOrgs
<1> DEFINE q == [req[r] EXCEPT !.org = org]
<1>4. org \in Configs
  BY DEF IInv, ConfigInv, ConfigTypeOK, Configs
<1>5. /\ q \in Request /\ q.at = "route" /\ q.org = org
      /\ q.outcome = req[r].outcome /\ q.wanted = req[r].wanted
      /\ q.claimed = req[r].claimed /\ q.reloaded = req[r].reloaded
  BY <1>2, <1>4 DEF RequestInv, RequestSound, Request
<1>6. RequestInv(q)
  BY <1>2, <1>5 DEF RequestInv, RequestSound
<1>7. q.org.configured /\ q.org.machineUsers => cfg.machineUsers
  BY <1>5 DEF EmptyConfig
<1>8. Goes(r, Routed(q, user))
  BY <1>3
<1> HIDE DEF q
<1>9. ASSUME NEW where \in {"resolve", "machine"}, where = "machine" => cfg.machineUsers,
             Goes(r, [q EXCEPT !.at = where])
      PROVE  IInv'
  <2>1. RequestInv([q EXCEPT !.at = where])
    BY <1>5, <1>6, <1>9, GoesToInv
  <2> QED
    BY <1>1, <1>9, <2>1, GoesInv
<1>10. ASSUME NEW result \in {"unknown_org", "empty", "machine"}, Goes(r, Answered(q, result, {}))
       PROVE  IInv'
  <2>1. RequestInv(Answered(q, result, {}))
    BY <1>5, <1>6, AnsweredInv DEF Outcomes
  <2> QED
    BY <1>1, <1>10, <2>1, GoesInv
<1> QED
  BY <1>7, <1>8, <1>9, <1>10 DEF Routed

LEMMA EnrichMachineInv ==
    ASSUME IInv, NEW r \in Requests, EnrichMachine(r)
    PROVE  IInv'
<1>1. KeyTypeOK' /\ UNCHANGED cfgVars
  BY DEF IInv, EnrichMachine, keyVars, KeyTypeOK
<1>2. RequestInv(req[r]) /\ req[r].at = "machine"
  BY DEF IInv, EnrichMachine
<1>3. CASE cfg.machineUsers
  <2>1. PICK entries \in {{}, {"open"}} :
           Goes(r, Answered(req[r], "machine_enriched", entries))
    BY <1>3 DEF EnrichMachine, GrantEntries
  <2>2. RequestInv(Answered(req[r], "machine_enriched", entries))
    BY <1>2, AnsweredInv DEF Outcomes, Roles
  <2> QED
    BY <1>1, <2>1, <2>2, GoesInv
<1>4. CASE ~cfg.machineUsers
  <2>1. Goes(r, Answered(req[r], "panic", NoClaim))
    BY <1>4 DEF EnrichMachine, GrantEntries
  <2>2. req[r].reloaded
    BY <1>2, <1>4, RequestFields DEF RequestInv, RequestSound
  <2>3. RequestInv(Answered(req[r], "panic", NoClaim))
    BY <1>2, <2>2, AnsweredInv DEF Outcomes
  <2> QED
    BY <1>1, <2>1, <2>3, GoesInv
<1> QED
  BY <1>3, <1>4

LEMMA ResolveInv ==
    ASSUME IInv, NEW r \in Requests, Resolve(r)
    PROVE  IInv'
<1>1. KeyTypeOK' /\ UNCHANGED cfgVars
  BY DEF IInv, Resolve, keyVars, KeyTypeOK
<1>2. RequestInv(req[r]) /\ req[r].at = "resolve"
  BY DEF IInv, Resolve
<1>3. PICK groups \in {{}, {"group"}}, where \in {"sync", "claims"} :
         Goes(r, [[req[r] EXCEPT !.groups = groups] EXCEPT !.at = where])
  BY DEF Resolve
<1>4. [[req[r] EXCEPT !.groups = groups] EXCEPT !.at = where]
         = [req[r] EXCEPT !.at = where, !.org = req[r].org, !.groups = groups]
  BY <1>2 DEF RequestInv, RequestSound, Request
<1>5. req[r].org \in Configs
  BY <1>2, RequestFields DEF RequestInv, RequestSound
<1>6. RequestInv([req[r] EXCEPT !.at = where, !.org = req[r].org, !.groups = groups])
  BY <1>2, <1>5, GoesOnInv
<1> QED
  BY <1>1, <1>3, <1>4, <1>6, GoesInv

LEMMA RespondSuspendedInv ==
    ASSUME IInv, NEW r \in Requests, RespondSuspended(r)
    PROVE  IInv'
<1>1. KeyTypeOK' /\ UNCHANGED cfgVars
  BY DEF IInv, RespondSuspended, keyVars, KeyTypeOK
<1>2. RequestInv(req[r]) /\ req[r].at = "resolve"
  BY DEF IInv, RespondSuspended
<1>3. PICK wanted \in {{}, NoRoles} :
         Goes(r, Answered([req[r] EXCEPT !.wanted = wanted], "suspended", {}))
  BY DEF RespondSuspended
<1> DEFINE q == [req[r] EXCEPT !.wanted = wanted]
           n == Answered(q, "suspended", {})
<1>4. n \in Request
  BY <1>2 DEF RequestInv, RequestSound, Request, Answered, Outcomes, Configs
<1>5. n.at = "answered" /\ n.outcome = "suspended" /\ n.wanted = wanted
  BY <1>2 DEF RequestInv, RequestSound, Request, Answered
<1>6. RequestInv(n)
  BY <1>4, <1>5 DEF RequestInv, RequestSound
<1> QED
  BY <1>1, <1>3, <1>6, GoesInv

LEMMA SyncGrantsInv ==
    ASSUME IInv, NEW r \in Requests, SyncGrants(r)
    PROVE  IInv'
<1>1. KeyTypeOK' /\ UNCHANGED cfgVars
  BY DEF IInv, SyncGrants, keyVars, KeyTypeOK
<1>2. RequestInv(req[r]) /\ req[r].at = "sync"
  BY DEF IInv, SyncGrants
<1>3. PICK roles \in Planned : Goes(r, [req[r] EXCEPT !.at = "claims", !.wanted = roles])
  BY DEF SyncGrants
<1> DEFINE n == [req[r] EXCEPT !.at = "claims", !.wanted = roles]
<1>4. n \in Request
  BY <1>2 DEF RequestInv, RequestSound, Request, Running, Planned, Roles
<1>5. /\ n.at = "claims" /\ n.outcome = req[r].outcome /\ n.wanted = roles
      /\ n.claimed = req[r].claimed
  BY <1>2 DEF RequestInv, RequestSound, Request
<1>6. RequestInv(n)
  BY <1>2, <1>4, <1>5 DEF RequestInv, RequestSound, Planned
<1> QED
  BY <1>1, <1>3, <1>6, GoesInv

\* Two plans that are not empty are the same, by the same settings.
LEMMA RoleClaimsInv ==
    ASSUME IInv, NEW r \in Requests, RoleClaims(r)
    PROVE  IInv'
<1>1. KeyTypeOK' /\ UNCHANGED cfgVars
  BY DEF IInv, RoleClaims, keyVars, KeyTypeOK
<1>2. RequestInv(req[r]) /\ req[r].at = "claims"
  BY DEF IInv, RoleClaims
<1> DEFINE q == [req[r] EXCEPT !.at = "employee"]
<1>3. /\ q \in Request /\ q.at = "employee" /\ q.outcome = req[r].outcome
      /\ q.wanted = req[r].wanted /\ q.claimed = req[r].claimed
      /\ q.reloaded = req[r].reloaded /\ q.groups \in {{}, {"group"}}
  BY <1>2 DEF RequestInv, RequestSound, Request, Running
<1>4. \/ \E roles \in Planned \cup {{}}, base \in {{}, q.groups}, own \in {{}, {"open"}} :
             Goes(r, [q EXCEPT !.claimed = roles, !.claim = base \cup (own \cup roles)])
      \/ Goes(r, [q EXCEPT !.claim = q.groups])
  BY DEF RoleClaims, GrantEntries, Merged
<1> HIDE DEF q
<1>5. ASSUME NEW roles \in Planned \cup {{}}, NEW base \in {{}, q.groups},
             NEW own \in {{}, {"open"}},
             Goes(r, [q EXCEPT !.claimed = roles, !.claim = base \cup (own \cup roles)])
      PROVE  IInv'
  <2> DEFINE n == [q EXCEPT !.claimed = roles, !.claim = base \cup (own \cup roles)]
  <2>1. roles \in SUBSET Roles
    BY DEF Planned, Roles
  <2>2. base \cup (own \cup roles) \in SUBSET ({"group", "emp"} \cup Roles)
    BY <1>3, <2>1 DEF Roles
  <2>3. n \in Request
    BY <1>3, <2>1, <2>2 DEF Request
  <2>4. /\ n.at = "employee" /\ n.outcome = req[r].outcome /\ n.wanted = req[r].wanted
        /\ n.claimed = roles /\ n.reloaded = req[r].reloaded
        /\ n.claim = base \cup (own \cup roles)
    BY <1>3 DEF Request
  <2>5. (req[r].wanted \notin {NoRoles, {}} /\ roles # {} /\ ~req[r].reloaded) =>
           roles = req[r].wanted
    BY <1>2 DEF RequestInv, RequestSound, Planned
  <2> HIDE DEF n
  <2>6. RequestInv(n)
    BY <1>2, <2>2, <2>3, <2>4, <2>5 DEF RequestInv, RequestSound
  <2> QED
    BY <1>1, <1>5, <2>6, GoesInv DEF n
<1>6. ASSUME Goes(r, [q EXCEPT !.claim = q.groups])
      PROVE  IInv'
  <2> DEFINE n == [q EXCEPT !.claim = q.groups]
  <2>1. n \in Request
    BY <1>3 DEF Request
  <2>2. /\ n.at = "employee" /\ n.outcome = req[r].outcome /\ n.wanted = req[r].wanted
        /\ n.claimed = req[r].claimed /\ n.reloaded = req[r].reloaded
        /\ n.claim = q.groups
    BY <1>3 DEF Request
  <2> HIDE DEF n
  <2>3. RequestInv(n)
    BY <1>2, <1>3, <2>1, <2>2 DEF RequestInv, RequestSound
  <2> QED
    BY <1>1, <1>6, <2>3, GoesInv DEF n
<1> QED
  BY <1>4, <1>5, <1>6

LEMMA AddEmployeeInv ==
    ASSUME IInv, NEW r \in Requests, AddEmployee(r)
    PROVE  IInv'
<1>1. KeyTypeOK' /\ UNCHANGED cfgVars
  BY DEF IInv, AddEmployee, keyVars, KeyTypeOK
<1>2. RequestInv(req[r]) /\ req[r].at = "employee"
  BY DEF IInv, AddEmployee
<1>3. PICK result \in {"empty", "enriched"}, entry \in {{}, {"emp"}} :
         Goes(r, Answered(req[r], result, req[r].claim \cup entry))
  BY DEF AddEmployee, Merged
<1> DEFINE n == Answered(req[r], result, req[r].claim \cup entry)
<1>4. /\ n.at = "answered" /\ n.outcome = result /\ n.wanted = req[r].wanted
      /\ n.claimed = req[r].claimed /\ n.reloaded = req[r].reloaded
  BY <1>2 DEF RequestInv, RequestSound, Request, Answered
<1>5. n \in Request
  BY <1>2 DEF RequestInv, RequestSound, Request, Answered, Outcomes, Configs
<1>6. RequestInv(n)
  BY <1>2, <1>4, <1>5 DEF RequestInv, RequestSound
<1> QED
  BY <1>1, <1>3, <1>6, GoesInv

LEMMA RequestStepInv ==
    ASSUME IInv, NEW r \in Requests, RequestStep(r)
    PROVE  IInv'
<1>1. ASSUME Arrive(r)
      PROVE  IInv'
  <2>1. KeyTypeOK' /\ UNCHANGED cfgVars /\ Goes(r, [Idle EXCEPT !.at = "verify"])
    BY <1>1, KeyActionTyped DEF IInv, Arrive, KeyAction
  <2>2. RequestInv([Idle EXCEPT !.at = "verify"])
    BY DEF RequestInv, RequestSound, Idle, Request, NoRoles, NoClaim, Configs, Outcomes, Running
  <2> QED
    BY <2>1, <2>2, GoesInv
<1>2. ASSUME Reject(r)
      PROVE  IInv'
  <2>1. /\ KeyTypeOK' /\ UNCHANGED cfgVars
        /\ Goes(r, Answered(req[r], "invalid_jwt", NoClaim))
    BY <1>2, KeyActionTyped DEF IInv, Reject, KeyAction
  <2>2. RequestInv(req[r]) /\ req[r].at = "verify"
    BY <1>2 DEF IInv, Reject
  <2>3. RequestInv(Answered(req[r], "invalid_jwt", NoClaim))
    BY <2>2, AnsweredInv DEF Outcomes
  <2> QED
    BY <2>1, <2>3, GoesInv
<1>3. ASSUME Forget(r)
      PROVE  IInv'
  <2>1. KeyTypeOK' /\ UNCHANGED cfgVars /\ Goes(r, Idle)
    BY <1>3 DEF IInv, Forget, keyVars, KeyTypeOK
  <2> QED
    BY <2>1, IdleInv, GoesInv
<1> QED
  BY <1>1, <1>2, <1>3, CheckPayloadInv, LookupOrgInv, EnrichMachineInv, ResolveInv,
     RespondSuspendedInv, SyncGrantsInv, RoleClaimsInv, AddEmployeeInv DEF RequestStep

LEMMA ReloadedSound ==
    ASSUME NEW q, NEW c, NEW d, NEW loaded \in BOOLEAN, RequestSound(q, c), q.reloaded => loaded,
           (q.at \in Running /\ ~loaded) => d = c
    PROVE  RequestSound([q EXCEPT !.reloaded = loaded], d)
<1> DEFINE n == [q EXCEPT !.reloaded = loaded]
<1>1. n \in Request
  BY DEF RequestSound, Request
<1>2. /\ n.at = q.at /\ n.outcome = q.outcome /\ n.wanted = q.wanted /\ n.claim = q.claim
      /\ n.claimed = q.claimed /\ n.reloaded = loaded
  BY DEF RequestSound, Request
<1> HIDE DEF n
<1>3. RequestSound(n, d)
  BY <1>1, <1>2 DEF RequestSound, Running
<1> QED
  BY <1>3 DEF n

\* A refresh that swaps the config marks the requests that are running.
LEMMA ConfigureInv ==
    ASSUME IInv, Configure
    PROVE  IInv'
<1>1. KeyTypeOK' /\ ConfigInv'
  BY ConfigActionInv DEF IInv, Configure, keyVars, KeyTypeOK
<1>2. ASSUME NEW r \in Requests
      PROVE  RequestInv(req[r])'
  <2> DEFINE q == req[r]
             loaded == q.reloaded \/ (q.at \in Running /\ cfg' # cfg)
  <2>1. RequestSound(q, cfg) /\ req'[r] = [q EXCEPT !.reloaded = loaded]
    BY DEF IInv, Configure, RequestInv
  <2>2. loaded \in BOOLEAN /\ (q.reloaded => loaded)
    BY <2>1, RequestFields DEF RequestSound
  <2>3. (q.at \in Running /\ ~loaded) => cfg' = cfg
    OBVIOUS
  <2>4. RequestSound(req'[r], cfg')
    <3> HIDE DEF q, loaded
    <3> QED
      BY <2>1, <2>2, <2>3, ReloadedSound
  <2> QED
    BY <2>4 DEF RequestInv
<1>3. DOMAIN req' = Requests /\ req' = [r \in Requests |-> req'[r]]
  BY DEF Configure
<1> QED
  BY <1>1, <1>2, <1>3 DEF IInv

-----------------------------------------------------------------------------
(* The invariant, and what follows from it.                                *)

LEMMA InitInv == Init => IInv
<1> SUFFICES ASSUME Init
             PROVE  IInv
  OBVIOUS
<1>1. \A r \in Requests : req[r] = Idle
  BY DEF Init
<1> QED
  BY <1>1, KeyInitTyped, ConfigInitInv, IdleInv DEF Init, IInv

LEMMA NextInv ==
    ASSUME IInv, [Next]_vars
    PROVE  IInv'
<1>1. ASSUME NEW r \in Requests, Verify(r)
      PROVE  IInv'
  <2>1. KeyTypeOK' /\ UNCHANGED <<cfgVars, req>>
    BY <1>1, KeyActionTyped DEF IInv, Verify, KeyAction
  <2> QED
    BY <2>1 DEF IInv, cfgVars, ConfigInv, ConfigTypeOK, BadDocumentHarmless,
                SyncSeesItsRefresh, RequestInv, RequestSound, Planned
<1>2. ASSUME World
      PROVE  IInv'
  <2>1. KeyTypeOK' /\ UNCHANGED <<cfgVars, req>>
    BY <1>2, KeyActionTyped DEF IInv, World, KeyAction
  <2> QED
    BY <2>1 DEF IInv, cfgVars, ConfigInv, ConfigTypeOK, BadDocumentHarmless,
                SyncSeesItsRefresh, RequestInv, RequestSound, Planned
<1>3. ASSUME Restart
      PROVE  IInv'
  <2>1. KeyTypeOK' /\ ConfigInv'
    BY <1>3, KeyActionTyped, ConfigActionInv DEF IInv, Restart, KeyAction
  <2>2. \A r \in Requests : req'[r] = Idle
    BY <1>3 DEF Restart
  <2>3. RequestInv(Idle)'
    BY IdleInv DEF RequestInv, RequestSound, Idle, NoRoles
  <2>4. \A r \in Requests : RequestInv(req[r])'
    BY <2>2, <2>3 DEF RequestInv, RequestSound
  <2>5. DOMAIN req' = Requests /\ req' = [r \in Requests |-> req'[r]]
    BY <1>3 DEF Restart
  <2> QED
    BY <2>1, <2>4, <2>5 DEF IInv
<1>4. ASSUME UNCHANGED vars
      PROVE  IInv'
  BY <1>4 DEF IInv, vars, cfgVars, keyVars, KeyTypeOK, ConfigInv, ConfigTypeOK,
              BadDocumentHarmless, SyncSeesItsRefresh, RequestInv, RequestSound, Planned
<1> QED
  BY <1>1, <1>2, <1>3, <1>4, RequestStepInv, ConfigureInv DEF Next

\* All of it holds of every reachable state.
THEOREM Invariance == Spec => []IInv
  BY InitInv, NextInv, PTL DEF Spec

\* Every variable keeps its type, whatever is configured and however many
\* requests and refreshes overlap.
THEOREM TypeCorrect == Spec => []TypeOK
<1>1. IInv => TypeOK
  <2> SUFFICES ASSUME IInv
               PROVE  TypeOK
    OBVIOUS
  <2>1. \A r \in Requests : req[r] \in Request
    BY DEF IInv, RequestInv, RequestSound
  <2> QED
    BY <2>1 DEF IInv, TypeOK, ConfigInv
<1> QED
  BY <1>1, Invariance, PTL

\* The config in use is always that of the valid document whose hash is
\* remembered, or empty since the start.
THEOREM ConfigOfHash == Spec => []BadDocumentHarmless
<1>1. IInv => BadDocumentHarmless
  BY DEF IInv, ConfigInv
<1> QED
  BY <1>1, Invariance, PTL

\* A batch run works with the document its own refresh read, or with that of a
\* refresh that overlapped it.
THEOREM BatchOnItsDocument == Spec => []SyncSeesItsRefresh
<1>1. IInv => SyncSeesItsRefresh
  BY DEF IInv, ConfigInv
<1> QED
  BY <1>1, Invariance, PTL

\* The role claims mirror the grant sync, unless a reload or the catalog
\* comes between them.
THEOREM ClaimsAsGrants == Spec => []ClaimsMirrorGrants
<1>1. IInv => ClaimsMirrorGrants
  BY DEF IInv, RequestInv, RequestSound, ClaimsMirrorGrants
<1> QED
  BY <1>1, Invariance, PTL

\* The dereference of machineUsers fails only if a reload came between the
\* two lookups of the organisation.
THEOREM PanicOnlyByReload == Spec => []SecondLookupAgrees
<1>1. IInv => SecondLookupAgrees
  BY DEF IInv, RequestInv, RequestSound, SecondLookupAgrees
<1> QED
  BY <1>1, Invariance, PTL

-----------------------------------------------------------------------------
(* A login that is never failed.                                           *)

\* Whatever document is loaded, it has machineUsers, or none does.
MachineUsersKept ==
    \A d, e \in Documents : (Valid(d) /\ Valid(e)) =>
        Normalized(d).machineUsers = Normalized(e).machineUsers

\* A machine user that was let in finds machineUsers at every later moment.
LetIn(q) == (q.at = "machine" => cfg.machineUsers) /\ q.outcome # "panic"

NoPanic == \A r \in Requests : LetIn(req[r])

LEMMA GoesLetIn ==
    ASSUME IInv, NoPanic, NEW r \in Requests, NEW q, Goes(r, q), LetIn(q), UNCHANGED cfgVars
    PROVE  NoPanic'
<1>1. \A t \in Requests : req'[t] = (IF t = r THEN q ELSE req[t])
  BY DEF Goes, IInv
<1>2. cfg' = cfg
  BY DEF cfgVars
<1> QED
  BY <1>1, <1>2 DEF NoPanic, LetIn

LEMMA AnsweredLetIn ==
    ASSUME NEW q \in Request, NEW result, NEW entries, result # "panic"
    PROVE  LetIn(Answered(q, result, entries))
  BY DEF Request, Answered, LetIn

LEMMA RequestStepLetIn ==
    ASSUME IInv, NoPanic, NEW r \in Requests, RequestStep(r)
    PROVE  NoPanic'
<1>1. req[r] \in Request /\ LetIn(req[r])
  BY DEF IInv, RequestInv, RequestSound, NoPanic
<1>2. CASE Arrive(r) \/ Forget(r)
  <2>1. LetIn(Idle) /\ LetIn([Idle EXCEPT !.at = "verify"])
    BY DEF Idle, LetIn
  <2> QED
    BY <1>2, <2>1, GoesLetIn DEF Arrive, Forget
<1>3. CASE Reject(r) \/ CheckPayload(r)
  <2>1. LetIn([req[r] EXCEPT !.at = "route"])
    BY <1>1 DEF Request, LetIn
  <2>2. CASE Reject(r)
    BY <1>1, <2>2, AnsweredLetIn, GoesLetIn DEF Reject
  <2>3. CASE CheckPayload(r)
    <3>1. PICK q : Goes(r, q) /\ (\/ q = Answered(req[r], "invalid_jwt", NoClaim)
                                  \/ q = Answered(req[r], "bad_payload", NoClaim)
                                  \/ q = [req[r] EXCEPT !.at = "route"])
      BY <2>3 DEF CheckPayload
    <3>2. LetIn(q)
      BY <1>1, <2>1, <3>1, AnsweredLetIn
    <3> QED
      BY <2>3, <3>1, <3>2, GoesLetIn DEF CheckPayload
  <2> QED
    BY <1>3, <2>2, <2>3
<1>4. CASE LookupOrg(r)
  <2>1. PICK org \in FoundOrgs, user \in {"human", "ci", "machine"} :
           Goes(r, Routed([req[r] EXCEPT !.org = org], user))
    BY <1>4 DEF LookupOrg
  <2> DEFINE q == [req[r] EXCEPT !.org = org]
  <2>2. org \in Configs
    BY DEF FoundOrgs, IInv, ConfigInv, ConfigTypeOK, Configs
  <2>3. q \in Request /\ q.org = org /\ q.outcome = req[r].outcome
    BY <1>1, <2>2 DEF Request
  <2>4. org.machineUsers => cfg.machineUsers
    BY DEF FoundOrgs, EmptyConfig
  <2> HIDE DEF q
  <2>5. LetIn([q EXCEPT !.at = "resolve"]) /\ (org.machineUsers => LetIn([q EXCEPT !.at = "machine"]))
    BY <1>1, <2>3, <2>4 DEF Request, LetIn
  <2>6. LetIn(Routed(q, user))
    BY <2>3, <2>5, AnsweredLetIn DEF Routed
  <2> QED
    BY <1>4, <2>1, <2>6, GoesLetIn DEF LookupOrg, q
<1>5. CASE EnrichMachine(r)
  <2>1. cfg.machineUsers
    BY <1>1, <1>5 DEF EnrichMachine, LetIn
  <2>2. PICK entries : Goes(r, Answered(req[r], "machine_enriched", entries))
    BY <1>5, <2>1 DEF EnrichMachine
  <2> QED
    BY <1>1, <1>5, <2>2, AnsweredLetIn, GoesLetIn DEF EnrichMachine
<1>6. CASE Resolve(r)
  <2>1. PICK groups : LET q == [req[r] EXCEPT !.groups = groups] IN
           Goes(r, [q EXCEPT !.at = IF RulesApply(q) THEN "sync" ELSE "claims"])
    BY <1>6 DEF Resolve
  <2> DEFINE q == [req[r] EXCEPT !.groups = groups]
             n == [q EXCEPT !.at = IF RulesApply(q) THEN "sync" ELSE "claims"]
  <2>2. n.at # "machine" /\ n.outcome = req[r].outcome
    BY <1>1 DEF Request
  <2>3. LetIn(n)
    BY <1>1, <2>2 DEF LetIn
  <2> QED
    BY <1>6, <2>1, <2>3, GoesLetIn DEF Resolve
<1>7. CASE RespondSuspended(r)
  <2>1. PICK wanted : Goes(r, Answered([req[r] EXCEPT !.wanted = wanted], "suspended", {}))
    BY <1>7 DEF RespondSuspended
  <2>2. LetIn(Answered([req[r] EXCEPT !.wanted = wanted], "suspended", {}))
    BY <1>1 DEF Request, Answered, LetIn
  <2> QED
    BY <1>7, <2>1, <2>2, GoesLetIn DEF RespondSuspended
<1>8. CASE SyncGrants(r)
  <2>1. PICK roles : Goes(r, [req[r] EXCEPT !.at = "claims", !.wanted = roles])
    BY <1>8 DEF SyncGrants
  <2>2. LetIn([req[r] EXCEPT !.at = "claims", !.wanted = roles])
    BY <1>1 DEF Request, LetIn
  <2> QED
    BY <1>8, <2>1, <2>2, GoesLetIn DEF SyncGrants
<1>9. CASE RoleClaims(r)
  <2> DEFINE q == [req[r] EXCEPT !.at = "employee"]
  <2>1. q \in Request /\ q.at = "employee" /\ q.outcome = req[r].outcome
    BY <1>1 DEF Request, Running
  <2> DEFINE base == IF q.org.roleClaimsOnly THEN {} ELSE q.groups
  <2>2. /\ \A roles, claim : LetIn([q EXCEPT !.claimed = roles, !.claim = claim])
        /\ LetIn([q EXCEPT !.claim = q.groups])
    <3> HIDE DEF q
    <3>1. \A roles, claim : /\ [q EXCEPT !.claimed = roles, !.claim = claim].at = "employee"
                            /\ [q EXCEPT !.claimed = roles, !.claim = claim].outcome = q.outcome
      BY <2>1 DEF Request
    <3>2. [q EXCEPT !.claim = q.groups].at = "employee" /\ [q EXCEPT !.claim = q.groups].outcome = q.outcome
      BY <2>1 DEF Request
    <3> QED
      BY <1>1, <2>1, <3>1, <3>2 DEF LetIn
  <2>3. CASE q.org.appendRoleClaims
    <3>1. PICK roles, own : Goes(r, [q EXCEPT !.claimed = roles, !.claim = Merged(base, own \cup roles)])
      BY <1>9, <2>3 DEF RoleClaims
    <3> QED
      BY <1>9, <2>2, <3>1, GoesLetIn DEF RoleClaims
  <2>4. CASE ~q.org.appendRoleClaims
    <3>1. Goes(r, [q EXCEPT !.claim = q.groups])
      BY <1>9, <2>4 DEF RoleClaims
    <3> QED
      BY <1>9, <2>2, <3>1, GoesLetIn DEF RoleClaims
  <2> QED
    BY <2>3, <2>4
<1>10. CASE AddEmployee(r)
  <2> DEFINE result == IF req[r].groups = {} THEN "empty" ELSE "enriched"
  <2>1. PICK entry : Goes(r, Answered(req[r], result, Merged(req[r].claim, entry)))
    BY <1>10 DEF AddEmployee
  <2>2. LetIn(Answered(req[r], result, Merged(req[r].claim, entry)))
    BY <1>1, AnsweredLetIn
  <2> QED
    BY <1>10, <2>1, <2>2, GoesLetIn DEF AddEmployee
<1> QED
  BY <1>2, <1>3, <1>4, <1>5, <1>6, <1>7, <1>8, <1>9, <1>10 DEF RequestStep

\* A refresh takes machineUsers from nobody.
LEMMA RefreshKeeps ==
    ASSUME MachineUsersKept, IInv, ConfigStep
    PROVE  cfg.machineUsers => cfg'.machineUsers
<1>1. CASE \E s \in Syncs : Swap(s)
  <2>1. PICK s \in Syncs : Swap(s)
    BY <1>1
  <2>2. content[s] \in Documents /\ Valid(content[s]) /\ cfg' = Normalized(content[s])
    BY <2>1 DEF Swap, IInv, ConfigInv
  <2>3. lastHash = NoDocument => ~cfg.machineUsers
    BY DEF IInv, ConfigInv, BadDocumentHarmless, EmptyConfig
  <2>4. lastHash # NoDocument =>
           lastHash \in Documents /\ Valid(lastHash) /\ cfg = Normalized(lastHash)
    BY DEF IInv, ConfigInv, ConfigTypeOK, BadDocumentHarmless
  <2> QED
    BY <2>2, <2>3, <2>4 DEF MachineUsersKept
<1>2. CASE ~\E s \in Syncs : Swap(s)
  <2>1. cfg' = cfg
    BY <1>2 DEF ConfigStep, ReadDocument, Compare, RunBatch, EditDocument
  <2> QED
    BY <2>1
<1> QED
  BY <1>1, <1>2

LEMMA NextLetIn ==
    ASSUME MachineUsersKept, IInv, NoPanic, [Next]_vars
    PROVE  NoPanic'
<1>1. CASE \E r \in Requests : RequestStep(r)
  BY <1>1, RequestStepLetIn
<1>2. CASE Configure
  <2>1. cfg.machineUsers => cfg'.machineUsers
    BY <1>2, RefreshKeeps DEF Configure
  <2>2. \A r \in Requests : req'[r].at = req[r].at /\ req'[r].outcome = req[r].outcome
    BY <1>2 DEF Configure, IInv, RequestInv, RequestSound, Request
  <2> QED
    BY <2>1, <2>2 DEF NoPanic, LetIn
<1>3. CASE Restart
  <2>1. \A r \in Requests : req'[r] = Idle
    BY <1>3 DEF Restart
  <2> QED
    BY <2>1 DEF NoPanic, LetIn, Idle
<1>4. CASE (\E r \in Requests : Verify(r)) \/ World \/ UNCHANGED vars
  BY <1>4 DEF Verify, World, vars, cfgVars, NoPanic, LetIn
<1> QED
  BY <1>1, <1>2, <1>3, <1>4 DEF Next

\* A login is never failed where no edit of the document takes machineUsers
\* away: that edit is the only way to the nil dereference, however many
\* requests and refreshes overlap, and restarts do no harm.
THEOREM NeverFailedByOtherEdits == MachineUsersKept => (Spec => []NeverFailsLogin)
<1> SUFFICES ASSUME MachineUsersKept
             PROVE  Spec => []NeverFailsLogin
  OBVIOUS
<1>1. Init => IInv /\ NoPanic
  BY InitInv DEF Init, NoPanic, LetIn, Idle
<1>2. IInv /\ NoPanic /\ [Next]_vars => (IInv /\ NoPanic)'
  BY NextInv, NextLetIn
<1>3. NoPanic => NeverFailsLogin
  BY DEF NoPanic, LetIn, NeverFailsLogin
<1> QED
  BY <1>1, <1>2, <1>3, PTL DEF Spec

-----------------------------------------------------------------------------
(* The signing keys.                                                       *)

\* Every step of the program is one of the verifier's, or leaves it alone.
LEMMA StepIsKeyAction ==
    ASSUME [Next]_vars
    PROVE  KeyAction \/ UNCHANGED keyVars
  BY DEF Next, RequestStep, Verify, Configure, World, Restart, KeyAction, vars, Arrive, Reject,
         CheckPayload, LookupOrg, EnrichMachine, Resolve, RespondSuspended, SyncGrants,
         RoleClaims, AddEmployee, Forget

\* A key the instance publishes is refused only after a failed fetch or within
\* the minimum interval, with any number of verifications at a time.
THEOREM RotationNeedsNoRestart == Spec => RotatedKeyAccepted
<1>1. IInv /\ [Next]_vars =>
         [\A r \in Requests :
             (Concludes(r, "refused") /\ token[r] \in published) =>
                 failing'[r] \/ keyAge < MinRefetchInterval]_keyVars
  BY StepIsKeyAction, KeyActionVerdict DEF IInv
<1> QED
  BY <1>1, Invariance, PTL DEF Spec, RotatedKeyAccepted

\* A key the instance has withdrawn is accepted only within the refresh
\* interval or after a failed fetch.
THEOREM WithdrawnKeyAges == Spec => WithdrawnKeyRefused
<1>1. IInv /\ [Next]_vars =>
         [\A r \in Requests :
             (Concludes(r, "accepted") /\ token[r] \notin published) =>
                 failing'[r] \/ keyAge <= RefreshInterval]_keyVars
  BY StepIsKeyAction, KeyActionVerdict DEF IInv
<1> QED
  BY <1>1, Invariance, PTL DEF Spec, WithdrawnKeyRefused
=============================================================================
