-------------------------- MODULE MCWebhookRequest --------------------------
(***************************************************************************)
(* Documents for WebhookRequest.                                           *)
(***************************************************************************)
EXTENDS WebhookRequest, TLC

\* Rules for groups, machine users, role claims beside the groups.
Full == [known |-> TRUE, configured |-> TRUE, resolver |-> TRUE, machineUsers |-> TRUE,
         rules |-> "group", appendRoleClaims |-> TRUE, roleClaimsOnly |-> FALSE,
         requireExp |-> "unset", protected |-> FALSE, employee |-> TRUE]

\* The same organisation with a protected role, role claims instead of the
\* groups, rules that name users, and without machine users.
Guarded == [Full EXCEPT !.machineUsers = FALSE, !.rules = "user", !.roleClaimsOnly = TRUE,
                        !.requireExp = "no", !.protected = TRUE]

\* Machine users only: no resolver, no rules, no role claims.
MachineOnly == [Full EXCEPT !.resolver = FALSE, !.rules = "none", !.appendRoleClaims = FALSE]

\* The organisation was taken out.
Removed == [Full EXCEPT !.configured = FALSE]

\* validate refuses role claims only without role claims.
Bad == [Full EXCEPT !.appendRoleClaims = FALSE, !.roleClaimsOnly = TRUE]

MCDocuments == {Full, Guarded, Bad}

MCReloads == {Full, MachineOnly, Removed}

\* The keys are alike, and so are the /sync requests.
Symmetry == Permutations(Keys) \cup Permutations(Syncs)
=============================================================================
