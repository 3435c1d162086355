------------------------------ MODULE KeyCache ------------------------------
(***************************************************************************)
(* pkg/zitadeljwt: the verifier's cached key set under key rotation and    *)
(* failing fetches.  A verification takes the one mutex, refreshes the set *)
(* when it is old or lacks the key its token names, keeps the mutex while  *)
(* it waits for the instance, and then checks the signature against the    *)
(* set it was given.  Parsing and cryptography are left out: a token is    *)
(* the identity of the key that signed it, a signature verifies if the key *)
(* is in the set.  Tokens of other algorithms are refused before any of    *)
(* this and change nothing.                                                *)
(*                                                                         *)
(* Ages count from fetchedAt, in steps of Tick, and stop at OldKeys.       *)
(***************************************************************************)
EXTENDS Integers, FiniteSets

CONSTANTS
    Requests,           \* goroutines that verify a request
    NoHolder,           \* nobody holds the mutex
    Keys,               \* signing keys
    NoKey,              \* no key: a request without a token
    RefreshInterval,    \* refreshInterval
    MinRefetchInterval, \* minRefetchInterval
    OldKeys             \* bound: the age after which all ages are alike

ASSUME KeyAssumption ==
    /\ RefreshInterval \in Nat /\ MinRefetchInterval \in Nat
    /\ OldKeys \in Nat /\ OldKeys > RefreshInterval /\ OldKeys >= MinRefetchInterval
    /\ NoHolder \notin Requests /\ NoKey \notin Keys

NoKeys == {NoKey} \* no key set was ever fetched

VARIABLES
    published, \* the keys at the instance's JWKS endpoint
    keySet,    \* Verifier.keySet
    keyAge,    \* time.Since(Verifier.fetchedAt)
    keyMu,     \* Verifier.mu: its holder
    stage,     \* where a verification is
    token,     \* the key its token was signed with
    failing    \* whether a fetch of this verification failed (history)

keyVars == <<published, keySet, keyAge, keyMu, stage, token, failing>>

Stages == {"none", "lock", "periodic", "unknown", "accepted", "refused"}

KeyTypeOK ==
    /\ published \in SUBSET Keys
    /\ keySet \in (SUBSET Keys) \cup {NoKeys}
    /\ keyAge \in 0 .. OldKeys
    /\ keyMu \in Requests \cup {NoHolder}
    /\ stage \in [Requests -> Stages]
    /\ token \in [Requests -> Keys \cup {NoKey}]
    /\ failing \in [Requests -> BOOLEAN]

-----------------------------------------------------------------------------
KeyInit ==
    /\ published \in {{k} : k \in Keys}
    /\ keySet = NoKeys
    /\ keyAge = 0
    /\ keyMu = NoHolder
    /\ stage = [r \in Requests |-> "none"]
    /\ token = [r \in Requests |-> NoKey]
    /\ failing = [r \in Requests |-> FALSE]

\* The instance signs with a key it publishes.
BeginVerify(r) ==
    /\ stage[r] = "none"
    /\ \E k \in published : token' = [token EXCEPT ![r] = k]
    /\ stage' = [stage EXCEPT ![r] = "lock"]
    /\ UNCHANGED <<published, keySet, keyAge, keyMu, failing>>

\* keySetFor returns, and jws.Verify uses the set it returned.
Conclude(r, set) ==
    /\ stage' = [stage EXCEPT ![r] =
                    IF set # NoKeys /\ token[r] \in set THEN "accepted" ELSE "refused"]
    /\ keyMu' = NoHolder

\* Mutant: an unknown key is no reason to fetch.
RefetchOrConclude_Mutant(r, set, age) == Conclude(r, set)

\* keySetFor's second half: a key the set lacks, and a set that is not too
\* fresh, mean another fetch.
RefetchOrConclude(r, set, age) ==
    IF token[r] \notin set /\ age >= MinRefetchInterval
    THEN /\ stage' = [stage EXCEPT ![r] = "unknown"]
         /\ keyMu' = r
    ELSE Conclude(r, set)

\* Mutant: a cached set is never refreshed for its age.
LockKeys_Mutant(r) ==
    /\ stage[r] = "lock"
    /\ keyMu = NoHolder
    /\ IF keySet = NoKeys
       THEN /\ stage' = [stage EXCEPT ![r] = "periodic"]
            /\ keyMu' = r
       ELSE RefetchOrConclude(r, keySet, keyAge)
    /\ UNCHANGED <<published, keySet, keyAge, token, failing>>

\* keySetFor takes the mutex; a first or a periodic fetch comes first.
LockKeys(r) ==
    /\ stage[r] = "lock"
    /\ keyMu = NoHolder
    /\ IF keySet = NoKeys \/ keyAge > RefreshInterval
       THEN /\ stage' = [stage EXCEPT ![r] = "periodic"]
            /\ keyMu' = r
       ELSE RefetchOrConclude(r, keySet, keyAge)
    /\ UNCHANGED <<published, keySet, keyAge, token, failing>>

\* refetchLocked: the set and its time are replaced together.
Refetch ==
    /\ keySet' = published
    /\ keyAge' = 0

PeriodicAnswer(r) ==
    /\ stage[r] = "periodic"
    /\ Refetch
    /\ RefetchOrConclude(r, published, 0)
    /\ UNCHANGED <<published, token, failing>>

\* A failed periodic fetch leaves the cached set in use; without one the
\* verification fails.
PeriodicFailure(r) ==
    /\ stage[r] = "periodic"
    /\ failing' = [failing EXCEPT ![r] = TRUE]
    /\ IF keySet = NoKeys THEN Conclude(r, NoKeys) ELSE RefetchOrConclude(r, keySet, keyAge)
    /\ UNCHANGED <<published, keySet, keyAge, token>>

UnknownAnswer(r) ==
    /\ stage[r] = "unknown"
    /\ Refetch
    /\ Conclude(r, published)
    /\ UNCHANGED <<published, token, failing>>

UnknownFailure(r) ==
    /\ stage[r] = "unknown"
    /\ failing' = [failing EXCEPT ![r] = TRUE]
    /\ Conclude(r, keySet)
    /\ UNCHANGED <<published, keySet, keyAge, token>>

\* The verdict is used and the verification is over.
ForgetVerdict(r) ==
    /\ stage' = [stage EXCEPT ![r] = "none"]
    /\ token' = [token EXCEPT ![r] = NoKey]
    /\ failing' = [failing EXCEPT ![r] = FALSE]
    /\ UNCHANGED <<published, keySet, keyAge, keyMu>>

\* The instance publishes a further key, or withdraws one of several.
RotateKeys ==
    /\ \/ \E k \in Keys \ published : published' = published \cup {k}
       \/ \E k \in published : published # {k} /\ published' = published \ {k}
    /\ UNCHANGED <<keySet, keyAge, keyMu, stage, token, failing>>

TickKeys ==
    /\ keySet # NoKeys
    /\ keyAge < OldKeys
    /\ keyAge' = keyAge + 1
    /\ UNCHANGED <<published, keySet, keyMu, stage, token, failing>>

\* A restart loses the cached set and the verifications that run.
ForgetKeys ==
    /\ keySet' = NoKeys
    /\ keyAge' = 0
    /\ keyMu' = NoHolder
    /\ stage' = [r \in Requests |-> "none"]
    /\ token' = [r \in Requests |-> NoKey]
    /\ failing' = [r \in Requests |-> FALSE]
    /\ UNCHANGED <<published>>

KeyStep(r) ==
    \/ LockKeys(r)
    \/ PeriodicAnswer(r)
    \/ PeriodicFailure(r)
    \/ UnknownAnswer(r)
    \/ UnknownFailure(r)

KeyEnvironment == RotateKeys \/ TickKeys

(***************************************************************************)
(* Properties.                                                             *)
(***************************************************************************)

Concludes(r, verdict) == stage[r] # verdict /\ stage'[r] = verdict

\* Rotation needs no restart: a token of a key the instance publishes is
\* refused only if a fetch failed, or if the set was fetched less than the
\* minimum interval before.
RotatedKeyAccepted ==
    [][\A r \in Requests :
          (Concludes(r, "refused") /\ token[r] \in published) =>
              failing'[r] \/ keyAge < MinRefetchInterval]_keyVars

\* A token of a key the instance has withdrawn is accepted only while the set
\* is no older than the refresh interval, or if a fetch failed.
WithdrawnKeyRefused ==
    [][\A r \in Requests :
          (Concludes(r, "accepted") /\ token[r] \notin published) =>
              failing'[r] \/ keyAge <= RefreshInterval]_keyVars
=============================================================================
