---------------------------- MODULE GrantSessions ----------------------------
(***************************************************************************)
(* What the reconciliation of grants promises, however logins, batch runs  *)
(* and faults interleave: a user's grants change only in sessions, one at  *)
(* a time per user.  A session has a target.  Each of its writes takes one *)
(* project straight from what it was to what the target says, and no role  *)
(* is taken away outright before everything the target adds is there.  A   *)
(* session may stop at any point; then the next one starts from there.     *)
(***************************************************************************)
CONSTANTS Users, Projects, Roles, Owners

VARIABLES grants,   \* the role keys a user holds, per project
          session   \* per user, the open session if any: its owner and target

vars == <<grants, session>>

GrantSets == [Projects -> SUBSET Roles]
Sessions  == [owner : Owners, target : GrantSets]

TypeOK ==
    /\ grants \in [Users -> GrantSets]
    /\ session \in [Users -> SUBSET Sessions]

Init ==
    /\ grants \in [Users -> GrantSets]
    /\ session = [u \in Users |-> {}]

(* A worker starts to work on a user nobody works on.                      *)
Open(u) ==
    /\ session[u] = {}
    /\ \E s \in Sessions : session' = [session EXCEPT ![u] = {s}]
    /\ UNCHANGED grants

(* One write of u's session, towards its target.                           *)
Write(u, p) ==
    \E s \in session[u] :
        /\ grants[u][p] # s.target[p]
        /\ s.target[p] = {} =>
              \A q \in Projects : s.target[q] # {} => grants[u][q] = s.target[q]
        /\ grants' = [grants EXCEPT ![u][p] = s.target[p]]
        /\ UNCHANGED session

(* Sessions end: one when its sync returns, several when a process dies.   *)
Close(closed) ==
    /\ session' = [u \in Users |-> IF u \in closed THEN {} ELSE session[u]]
    /\ UNCHANGED grants

Next ==
    \/ \E u \in Users : Open(u) \/ \E p \in Projects : Write(u, p)
    \/ \E closed \in SUBSET Users : Close(closed)

Spec == Init /\ [][Next]_vars
=============================================================================
