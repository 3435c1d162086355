---------------------------- MODULE ConfigSource ----------------------------
(***************************************************************************)
(* pkg/mapper's sources of the config document and the /sync handler that  *)
(* refreshes them.  FileSource and SSMSource differ in how they read: both *)
(* compare the hash of what they read with lastHash under the read lock,   *)
(* parse without it, and swap cfg and lastHash under the write lock, so    *)
(* that refreshes overlap.  A hash is modelled by the document it is of.   *)
(*                                                                         *)
(* A document says what one organisation's webhook requests depend on.     *)
(***************************************************************************)
EXTENDS Integers

CONSTANTS
    Syncs,     \* concurrent /sync requests
    Documents, \* what the document may be edited to
    NoDocument \* no document was loaded

\* What a document may say; known is whether it has only known fields.
Document ==
    [known: BOOLEAN, configured: BOOLEAN, resolver: BOOLEAN, machineUsers: BOOLEAN,
     rules: {"none", "group", "user"}, appendRoleClaims: BOOLEAN, roleClaimsOnly: BOOLEAN,
     requireExp: {"unset", "yes", "no"}, protected: BOOLEAN, employee: BOOLEAN]

ASSUME DocumentAssumption ==
    /\ Documents \subseteq Document
    /\ NoDocument \notin Documents

\* ParseConfig reads all of it, and validate accepts it.
Valid(doc) ==
    /\ doc.known
    /\ doc.configured =>
          /\ doc.resolver \/ (doc.machineUsers /\ doc.rules = "none")
          /\ doc.roleClaimsOnly => doc.appendRoleClaims

\* The Config a source starts with, as Org and Settings give it.
EmptyConfig ==
    [configured |-> FALSE, resolver |-> FALSE, machineUsers |-> FALSE, rules |-> "none",
     appendRoleClaims |-> FALSE, roleClaimsOnly |-> FALSE, requireExp |-> TRUE,
     protected |-> FALSE, employee |-> FALSE]

\* The Config a valid document gives, with the defaults of Settings; Org gives
\* the zero OrgConfig for an organisation that is not configured.
Normalized(doc) ==
    LET settings == [EmptyConfig EXCEPT !.requireExp = (doc.requireExp # "no"),
                                        !.protected = doc.protected, !.employee = doc.employee]
    IN  IF ~doc.configured THEN settings
        ELSE [settings EXCEPT !.configured = TRUE, !.resolver = doc.resolver,
                 !.machineUsers = doc.machineUsers, !.rules = doc.rules,
                 !.appendRoleClaims = doc.appendRoleClaims, !.roleClaimsOnly = doc.roleClaimsOnly]

Configs == {Normalized(doc) : doc \in {d \in Documents : Valid(d)}} \cup {EmptyConfig}

VARIABLES
    document,  \* the mounted file, or the SSM parameter
    cfg,       \* FileSource.cfg, SSMSource.cfg
    lastHash,  \* FileSource.lastHash, SSMSource.lastHash
    sync,      \* where a /sync request is
    content,   \* the document it read
    overtaken  \* another refresh swapped since it read (history)

cfgVars == <<document, cfg, lastHash, sync, content, overtaken>>

ConfigTypeOK ==
    /\ document \in Documents
    /\ cfg \in Configs
    /\ lastHash \in Documents \cup {NoDocument}
    /\ sync \in [Syncs -> {"idle", "compare", "swap", "batch"}]
    /\ content \in [Syncs -> Documents \cup {NoDocument}]
    /\ overtaken \in [Syncs -> BOOLEAN]

-----------------------------------------------------------------------------
\* Mutant: the initial load is not validated.
InitialConfig_Mutant(doc) == Normalized(doc)

\* NewFileSource, NewSSMSource: an initial load that fails leaves it empty.
InitialConfig(doc) == IF Valid(doc) THEN Normalized(doc) ELSE EmptyConfig

ConfigInit ==
    /\ document \in Documents
    /\ cfg = InitialConfig(document)
    /\ lastHash = IF Valid(document) THEN document ELSE NoDocument
    /\ sync = [s \in Syncs |-> "idle"]
    /\ content = [s \in Syncs |-> NoDocument]
    /\ overtaken = [s \in Syncs |-> FALSE]

\* ForceRefresh reads the document.  A read that fails ends the request with
\* 502 and changes nothing, like a request without the key.
ReadDocument(s) ==
    /\ sync[s] = "idle"
    /\ sync' = [sync EXCEPT ![s] = "compare"]
    /\ content' = [content EXCEPT ![s] = document]
    /\ overtaken' = [overtaken EXCEPT ![s] = FALSE]
    /\ UNCHANGED <<document, cfg, lastHash>>

EndSync(s) ==
    /\ sync' = [sync EXCEPT ![s] = "idle"]
    /\ content' = [content EXCEPT ![s] = NoDocument]
    /\ overtaken' = [overtaken EXCEPT ![s] = FALSE]

\* Mutant: a document is remembered as seen before it is parsed.
Compare_Mutant(s) ==
    /\ sync[s] = "compare"
    /\ lastHash' = content[s]
    /\ IF content[s] # lastHash /\ ~Valid(content[s])
       THEN EndSync(s)
       ELSE /\ sync' = [sync EXCEPT ![s] = IF content[s] = lastHash THEN "batch" ELSE "swap"]
            /\ UNCHANGED <<content, overtaken>>
    /\ UNCHANGED <<document, cfg>>

\* The hash is compared, and the document parsed: the same document needs no
\* swap, a bad one ends the request with 502.
Compare(s) ==
    /\ sync[s] = "compare"
    /\ IF content[s] # lastHash /\ ~Valid(content[s])
       THEN EndSync(s)
       ELSE /\ sync' = [sync EXCEPT ![s] = IF content[s] = lastHash THEN "batch" ELSE "swap"]
            /\ UNCHANGED <<content, overtaken>>
    /\ UNCHANGED <<document, cfg, lastHash>>

\* Mutant: the config is swapped and its hash forgotten.
Swap_Mutant(s) ==
    /\ sync[s] = "swap"
    /\ cfg' = Normalized(content[s])
    /\ sync' = [sync EXCEPT ![s] = "batch"]
    /\ overtaken' = [t \in Syncs |-> overtaken[t] \/ (t # s /\ sync[t] # "idle")]
    /\ UNCHANGED <<document, lastHash, content>>

\* Swap atomically.
Swap(s) ==
    /\ sync[s] = "swap"
    /\ cfg' = Normalized(content[s])
    /\ lastHash' = content[s]
    /\ sync' = [sync EXCEPT ![s] = "batch"]
    /\ overtaken' = [t \in Syncs |-> overtaken[t] \/ (t # s /\ sync[t] # "idle")]
    /\ UNCHANGED <<document, content>>

\* reconcile.All reads the config; what it does then is GrantReconciler's.
RunBatch(s) ==
    /\ sync[s] = "batch"
    /\ EndSync(s)
    /\ UNCHANGED <<document, cfg, lastHash>>

EditDocument ==
    /\ document' \in Documents \ {document}
    /\ UNCHANGED <<cfg, lastHash, sync, content, overtaken>>

\* The process restarts: its requests end, and the document is loaded anew.
RestartConfig ==
    /\ cfg' = InitialConfig(document)
    /\ lastHash' = IF Valid(document) THEN document ELSE NoDocument
    /\ sync' = [s \in Syncs |-> "idle"]
    /\ content' = [s \in Syncs |-> NoDocument]
    /\ overtaken' = [s \in Syncs |-> FALSE]
    /\ UNCHANGED document

ConfigStep ==
    \/ \E s \in Syncs : ReadDocument(s) \/ Compare(s) \/ Swap(s) \/ RunBatch(s)
    \/ EditDocument

(***************************************************************************)
(* Properties.                                                             *)
(***************************************************************************)

\* Once a document was loaded, whatever is read later, in whatever order, the
\* config in use is that of the valid document whose hash is remembered; it
\* is empty only after a start on a document that could not be loaded.
BadDocumentHarmless ==
    IF lastHash = NoDocument
    THEN cfg = EmptyConfig
    ELSE Valid(lastHash) /\ cfg = Normalized(lastHash)

\* A batch run works with the document its own request read, unless another
\* request's refresh, of an older or of a newer document, was swapped in since.
SyncSeesItsRefresh ==
    \A s \in Syncs :
        (sync[s] = "batch" /\ ~overtaken[s]) =>
            Valid(content[s]) /\ cfg = Normalized(content[s])
=============================================================================
