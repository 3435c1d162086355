----------------------------- MODULE RulesEngine -----------------------------
(***************************************************************************)
(* The rules engine of pkg/mapper: which grants an org's rules give to one *)
(* identity.  Pure operators, used by GrantReconciler under Sync and by    *)
(* the login handler's guards.                                             *)
(*                                                                         *)
(* A rule is a record [group, users, grants]; a rule without a group names *)
(* a value that is no directory group.  A grant is a record [project,      *)
(* roles, patterns].  A role pattern is the set of role keys it matches:   *)
(* path.Match is membership, and ParseConfig has refused every pattern     *)
(* with bad syntax, so Match cannot fail.  Emails are compared up to case, *)
(* so an identity is one value.                                            *)
(***************************************************************************)
EXTENDS FiniteSets

CONSTANT Protected      \* settings.ProtectedRoles: the role keys no pattern gives

(* Mutant: a rule matches everybody who brings any group.                  *)
RuleMatches_AnyGroup(rule, email, groups) == groups # {} \/ email \in rule.users

(* ruleMatches: by membership of the rule's group, or by being named.      *)
RuleMatches(rule, email, groups) ==
    \/ rule.group \in groups
    \/ email \in rule.users

(* RulesNameUser: some rule names the identity directly.                   *)
RulesNameUser(rules, email) == \E rule \in rules : email \in rule.users

(* rulesApply, the login's guard: there are rules, and the identity brings *)
(* groups or is named.                                                     *)
RulesApply(rules, email, groups) ==
    /\ rules # {}
    /\ groups # {} \/ RulesNameUser(rules, email)

(* The grants of the rules that match, as the loop of MapIdentity visits   *)
(* them.                                                                   *)
MatchedGrants(rules, email, groups) ==
    UNION {rule.grants : rule \in {r \in rules : RuleMatches(r, email, groups)}}

(* MapIdentity: per project some matching rule mentions, the union of the  *)
(* roles and of the patterns of the matching grants.                       *)
MapIdentity(rules, email, groups) ==
    LET matched == MatchedGrants(rules, email, groups)
        of(p)   == {g \in matched : g.project = p}
    IN  [p \in {g.project : g \in matched} |->
            [roles    |-> UNION {g.roles : g \in of(p)},
             patterns |-> UNION {g.patterns : g \in of(p)}]]

(* Mutant: protected roles are expanded like any other.                    *)
ExpandRoles_Unprotected(mapped, available) ==
    mapped.roles \cup {r \in available : \E pattern \in mapped.patterns : r \in pattern}

(* ExpandRoles: the explicit roles verbatim, and every available role some *)
(* pattern matches unless it is protected.                                 *)
ExpandRoles(mapped, available) ==
    mapped.roles \cup
    {r \in available \ Protected : \E pattern \in mapped.patterns : r \in pattern}

=============================================================================
