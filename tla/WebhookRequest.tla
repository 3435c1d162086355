--------------------------- MODULE WebhookRequest ---------------------------
(***************************************************************************)
(* pkg/server/zitadel_handler.go: what a webhook request is answered,      *)
(* composed with the verifier (KeyCache) and the config document it reads  *)
(* (ConfigSource), which may be replaced while the request runs: every     *)
(* access to the source is a step of its own.  The locks and writes of a   *)
(* grant sync are GrantReconciler's; here a sync is the roles it wants.    *)
(*                                                                         *)
(* One organisation, one project whose roles match the organisation's      *)
(* rules by pattern, and of which protectedRoles may hold "guarded".  A    *)
(* claim is the set of its entries; "group" stands for the group emails.   *)
(* What a payload says is chosen where it is first looked at.  A request   *)
(* that was answered is forgotten, so that any number may follow.          *)
(***************************************************************************)
EXTENDS KeyCache, ConfigSource

VARIABLE req \* what a request is about, and its answer

vars == <<keyVars, cfgVars, req>>

Roles == {"open", "guarded"}

NoRoles == {"-"} \* nothing was planned

NoClaim == {"-"} \* no claims: an error status, or no answer yet

\* Where a request goes on reading the source.
Running == {"machine", "resolve", "sync", "claims", "employee"}

Outcomes == {"none", "invalid_jwt", "bad_payload", "unknown_org", "machine", "machine_enriched",
             "empty", "suspended", "enriched", "panic"}

\* org is the OrgConfig looked up.  For the properties: the roles its sync
\* wants and those its claims were given for the rules, and whether the config
\* was swapped since org was looked up.
Request ==
    [at: {"idle", "verify", "route", "answered"} \cup Running, org: Configs,
     groups: {{}, {"group"}}, outcome: Outcomes,
     claim: (SUBSET ({"group", "emp"} \cup Roles)) \cup {NoClaim},
     wanted: (SUBSET Roles) \cup {NoRoles}, claimed: (SUBSET Roles) \cup {NoRoles},
     reloaded: BOOLEAN]

Idle == [at |-> "idle", org |-> EmptyConfig, groups |-> {}, outcome |-> "none",
         claim |-> NoClaim, wanted |-> NoRoles, claimed |-> NoRoles, reloaded |-> FALSE]

TypeOK == KeyTypeOK /\ ConfigTypeOK /\ req \in [Requests -> Request]

-----------------------------------------------------------------------------
Init == KeyInit /\ ConfigInit /\ req = [r \in Requests |-> Idle]

\* The request becomes q.
Goes(r, q) == req' = [req EXCEPT ![r] = q]

\* The handler returns; q is what it knew.
Answered(q, result, entries) ==
    [q EXCEPT !.at = "answered", !.outcome = result, !.claim = entries,
              !.org = EmptyConfig, !.groups = {}]

Arrive(r) ==
    /\ req[r].at = "idle"
    /\ BeginVerify(r)
    /\ Goes(r, [Idle EXCEPT !.at = "verify"])
    /\ UNCHANGED cfgVars

\* VerifyAndExtract fails: 401.
Reject(r) ==
    /\ req[r].at = "verify"
    /\ stage[r] = "refused"
    /\ ForgetVerdict(r)
    /\ Goes(r, Answered(req[r], "invalid_jwt", NoClaim))
    /\ UNCHANGED cfgVars

\* checkExpiry and the parsing of the payload: an expired payload is refused,
\* one without exp, or without one that can be read, only if requireExp says so
\* now; a payload that passes may still not be the handler's.
CheckPayload(r) ==
    /\ req[r].at = "verify"
    /\ stage[r] = "accepted"
    /\ ForgetVerdict(r)
    /\ \E exp \in {"valid", "past", "absent"}, readable \in BOOLEAN :
          Goes(r, IF exp = "past" \/ (exp = "absent" /\ cfg.requireExp)
                  THEN Answered(req[r], "invalid_jwt", NoClaim)
                  ELSE IF readable THEN [req[r] EXCEPT !.at = "route"]
                  ELSE Answered(req[r], "bad_payload", NoClaim))
    /\ UNCHANGED cfgVars

\* Mutant: the machine users of an organisation without machineUsers are let in.
Routed_Mutant(q, user) ==
    CASE ~q.org.configured -> Answered(q, "unknown_org", {})
      [] q.org.configured /\ user = "human" ->
           IF q.org.resolver THEN [q EXCEPT !.at = "resolve"] ELSE Answered(q, "empty", {})
      [] q.org.configured /\ user # "human" ->
           IF user = "ci" THEN [q EXCEPT !.at = "machine"] ELSE Answered(q, "machine", {})

\* machineOrEdgeResponse: a user is a human by an @ in its identifier, a "ci"
\* user by machineUsers' pattern.
Routed(q, user) ==
    CASE ~q.org.configured -> Answered(q, "unknown_org", {})
      [] q.org.configured /\ user = "human" ->
           IF q.org.resolver THEN [q EXCEPT !.at = "resolve"] ELSE Answered(q, "empty", {})
      [] q.org.configured /\ user # "human" ->
           IF user = "ci" /\ q.org.machineUsers
           THEN [q EXCEPT !.at = "machine"] ELSE Answered(q, "machine", {})

\* The organisation is the payload's, or the one UserOrg finds, in its cache or
\* by GetUserByID; if that fails it is taken for one that is not configured.
FoundOrgs == {cfg, EmptyConfig}

LookupOrg(r) ==
    /\ req[r].at = "route"
    /\ \E org \in FoundOrgs, user \in {"human", "ci", "machine"} :
          Goes(r, Routed([req[r] EXCEPT !.org = org], user))
    /\ UNCHANGED <<keyVars, cfgVars>>

\* The entries of the grants a user has: the payload's, or those Zitadel lists.
GrantEntries == {{}, {"open"}}

\* machineEnrichedResponse looks the organisation up again and dereferences
\* its MachineUsers.  The entries are the payload's, or else Zitadel's, or, if
\* asking fails, none.
EnrichMachine(r) ==
    /\ req[r].at = "machine"
    /\ \E entries \in GrantEntries :
          Goes(r, IF cfg.machineUsers
                  THEN Answered(req[r], "machine_enriched", entries)
                  ELSE Answered(req[r], "panic", NoClaim))
    /\ UNCHANGED <<keyVars, cfgVars>>

\* rulesApply: there are rules, and groups or a rule that names the user.
RulesApply(q) == q.org.rules = "user" \/ (q.org.rules = "group" /\ q.groups # {})

\* resolveUserGroups: any answer of the directory; a failure is no groups.
Resolve(r) ==
    /\ req[r].at = "resolve"
    /\ \E groups \in {{}, {"group"}} :
          LET q == [req[r] EXCEPT !.groups = groups] IN
          Goes(r, [q EXCEPT !.at = IF RulesApply(q) THEN "sync" ELSE "claims"])
    /\ UNCHANGED <<keyVars, cfgVars>>

\* respondSuspended: the sync wants nothing, and runs if there are rules.
RespondSuspended(r) ==
    /\ req[r].at = "resolve"
    /\ LET wanted == IF req[r].org.rules # "none" THEN {} ELSE NoRoles IN
       Goes(r, Answered([req[r] EXCEPT !.wanted = wanted], "suspended", {}))
    /\ UNCHANGED <<keyVars, cfgVars>>

\* What planning may give: a protected role is in no pattern, and when the
\* catalog's lookup fails no pattern is expanded.
Planned == {IF cfg.protected THEN {"open"} ELSE Roles, {}}

\* mergeClaimEntries: a list without duplicates.
Merged(base, entries) == base \cup entries

\* syncGrants plans with the settings of now.
SyncGrants(r) ==
    /\ req[r].at = "sync"
    /\ \E roles \in Planned : Goes(r, [req[r] EXCEPT !.at = "claims", !.wanted = roles])
    /\ UNCHANGED <<keyVars, cfgVars>>

\* Mutant: the claims do not know of protected roles.
RoleClaims_Mutant(r) ==
    LET q == [req[r] EXCEPT !.at = "employee"]
        base == IF q.org.roleClaimsOnly THEN {} ELSE q.groups
    IN  /\ req[r].at = "claims"
        /\ IF q.org.appendRoleClaims
           THEN \E roles \in IF RulesApply(q) THEN {Roles, {}} ELSE {{}}, own \in GrantEntries :
                   Goes(r, [q EXCEPT !.claimed = roles, !.claim = Merged(base, own \cup roles)])
           ELSE Goes(r, [q EXCEPT !.claim = q.groups])
        /\ UNCHANGED <<keyVars, cfgVars>>

\* RoleEntries plans again, with the settings and the catalog of now; the
\* payload's own grants are merged in, the groups kept or left out.
RoleClaims(r) ==
    LET q == [req[r] EXCEPT !.at = "employee"]
        base == IF q.org.roleClaimsOnly THEN {} ELSE q.groups
    IN  /\ req[r].at = "claims"
        /\ IF q.org.appendRoleClaims
           THEN \E roles \in IF RulesApply(q) THEN Planned ELSE {{}}, own \in GrantEntries :
                   Goes(r, [q EXCEPT !.claimed = roles, !.claim = Merged(base, own \cup roles)])
           ELSE Goes(r, [q EXCEPT !.claim = q.groups])
        /\ UNCHANGED <<keyVars, cfgVars>>

\* The employee entry, by the settings of now, and the answer.
AddEmployee(r) ==
    /\ req[r].at = "employee"
    /\ \E entry \in {{}, IF cfg.employee THEN {"emp"} ELSE {}} :
          Goes(r, Answered(req[r], IF req[r].groups = {} THEN "empty" ELSE "enriched",
                           Merged(req[r].claim, entry)))
    /\ UNCHANGED <<keyVars, cfgVars>>

Forget(r) ==
    /\ req[r].at = "answered"
    /\ Goes(r, Idle)
    /\ UNCHANGED <<keyVars, cfgVars>>

RequestStep(r) ==
    \/ Arrive(r)
    \/ Reject(r)
    \/ CheckPayload(r)
    \/ LookupOrg(r)
    \/ EnrichMachine(r)
    \/ Resolve(r)
    \/ RespondSuspended(r)
    \/ SyncGrants(r)
    \/ RoleClaims(r)
    \/ AddEmployee(r)
    \/ Forget(r)

Verify(r) == KeyStep(r) /\ UNCHANGED <<cfgVars, req>>

\* A refresh, or an edit, while requests run.
Configure ==
    /\ ConfigStep
    /\ req' = [r \in Requests |->
                  [req[r] EXCEPT !.reloaded = @ \/ (req[r].at \in Running /\ cfg' # cfg)]]
    /\ UNCHANGED keyVars

World == KeyEnvironment /\ UNCHANGED <<cfgVars, req>>

\* The process restarts with nothing cached; its requests are never answered.
Restart ==
    /\ RestartConfig
    /\ ForgetKeys
    /\ req' = [r \in Requests |-> Idle]

Next ==
    \/ \E r \in Requests : RequestStep(r) \/ Verify(r)
    \/ Configure
    \/ World
    \/ Restart

Spec == Init /\ [][Next]_vars

(***************************************************************************)
(* Properties.                                                             *)
(***************************************************************************)

\* The role claims carry exactly the roles the request's sync wants, if the
\* catalog answers both times and no reload comes between: both go by the
\* rules looked up first, and both heed the protected roles.
ClaimsMirrorGrants ==
    \A r \in Requests :
        (/\ req[r].wanted \notin {NoRoles, {}}
         /\ req[r].claimed \notin {NoRoles, {}}
         /\ ~req[r].reloaded) => req[r].claimed = req[r].wanted

\* While the config stays as it is, a machine user that was let in finds its
\* organisation's machineUsers when the organisation is looked up again.
SecondLookupAgrees ==
    \A r \in Requests : req[r].outcome = "panic" => req[r].reloaded

\* A login is never failed once its token was verified and its payload read.
NeverFailsLogin == \A r \in Requests : req[r].outcome # "panic"
=============================================================================
