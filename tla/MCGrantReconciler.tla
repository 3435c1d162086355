-------------------------- MODULE MCGrantReconciler --------------------------
(***************************************************************************)
(* Small instances of GrantReconciler for TLC: two configurations of the   *)
(* mapper, and the directories and grants a behaviour starts from.         *)
(***************************************************************************)
EXTENDS GrantReconciler, TLC

CONSTANTS ann, bob, zoe, eve, ci, \* users
          acme, zed, out,         \* organisations
          eng, sre, none,         \* directory groups; none: a rule without group
          app, shared,            \* projects: owned, and held through a ProjectGrant
          admin, dev              \* role keys

Rule(group, users, granted) == [group |-> group, users |-> users, grants |-> granted]
Grant(project, roles, patterns) ==
    [project |-> project, roles |-> roles, patterns |-> patterns]

(* Everybody is of acme, the machine ci included, but zoe, whose           *)
(* organisation has no rules, and eve, whose organisation is not configured.*)
OrgOfUser == [u \in Users |-> CASE u = zoe -> zed [] u = eve -> out [] OTHER -> acme]

(* app is owned by acme, shared is granted to it.  The others see neither. *)
Projects2 ==
    [o \in Orgs |->
        [p \in {app, shared} |->
            [roles |-> IF o = acme THEN {admin, dev} ELSE {},
             granted |-> o = acme /\ p = shared]]]

(* Engineers get every unprotected role of app (admin is protected), and   *)
(* SREs admin of app explicitly, and dev of shared.                        *)
GroupRules ==
    [o \in Orgs |->
        IF o = acme
        THEN {Rule(eng, {}, {Grant(app, {}, {{admin, dev}})}),
              Rule(sre, {}, {Grant(app, {admin}, {}), Grant(shared, {dev}, {})})}
        ELSE {}]

(* Engineers as above with an explicit role, and ann named directly.       *)
NamedRules ==
    [o \in Orgs |->
        IF o = acme
        THEN {Rule(eng, {}, {Grant(app, {dev}, {})}),
              Rule(none, {ann}, {Grant(shared, {dev}, {})})}
        ELSE {}]

(* The group rules, and a rule that gives ann a role by name.              *)
NameAndGroupRules ==
    [GroupRules EXCEPT ![acme] = @ \cup {Rule(none, {ann}, {Grant(shared, {dev}, {})})}]

OnePod == [w \in Logins \cup Syncs |-> CHOOSE pod \in Pods : TRUE]

In(groups) == [groups |-> groups, suspended |-> FALSE]

(* Everybody starts as an engineer.                                        *)
AllEngineers == {[u \in Users |-> In({eng})]}

(* What a behaviour starts from: no grants, a grant made by hand, either.  *)
NothingYet == {[u \in Users |-> [p \in Projects |-> {}]]}
HandMade   == {[u \in Users |-> [p \in Projects |-> IF p = shared THEN {admin} ELSE {}]]}
ByHand     == NothingYet \cup HandMade

LoginSymmetry == Permutations(Logins)
=============================================================================
