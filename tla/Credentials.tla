----------------------------- MODULE Credentials -----------------------------
(***************************************************************************)
(* The credentials of Xen Orchestra on their way into the manifest of a    *)
(* cluster's cloud controller manager (CCM): from the Secret the           *)
(* XOCluster's identityRef names, or from the Secret the manager reads     *)
(* when it starts, completed by its environment.                           *)
(*                                                                         *)
(* One manager process, one XOCluster with its endpoint and CCM enabled    *)
(* (the rest of its reconcile is in ClusterLifecycle), two Secrets.        *)
(***************************************************************************)
EXTENDS Naturals

CONSTANTS
    IdVersions,  \* credentials issued for the cluster's instance over time
    MgrVersions, \* and for the manager's own
    NoKey,       \* a key that is absent
    Env          \* what the environment of the process sets

Versions == IdVersions \cup MgrVersions

\* A URL with a token, as two keys of a Secret or as a configuration.
Pairs == [ url : Versions \cup {NoKey}, token : Versions \cup {NoKey} ]
Of(v) == [ url |-> v, token |-> v ]
None == Of(NoKey)
Whole(p) == p.url # NoKey /\ p.token # NoKey

\* What users store: a version, one without its token, or nothing.
Stored(versions) == {Of(v) : v \in versions} \cup {[Of(v) EXCEPT !.token = NoKey] : v \in versions} \cup {None}

ASSUME CredentialsAssumption ==
    IdVersions \cap MgrVersions = {} /\ NoKey \notin Versions /\ Env \in Pairs

VARIABLES
    identity,  \* the Secret identityRef names
    cidentity, \* and its copy in the informer cache
    manager,   \* the Secret --xoa-secret-name names
    ref,       \* spec.identityRef of the XOCluster is set
    cref,      \* and in the cached copy
    up,        \* the manager process runs
    global,    \* the credentials it has loaded
    queued,    \* the XOCluster is in the work queue
    pc,        \* the call the worker is about to make
    mref,      \* identityRef in the XOCluster it holds
    creds,     \* the credentials it has resolved
    cm         \* the credentials in the CCM manifest

secretVars == <<identity, cidentity, manager, ref, cref>>
workerVars == <<pc, mref, creds>>
vars == <<identity, cidentity, manager, ref, cref, up, global, queued, pc, mref, creds, cm>>

Calls == {"idle", "resolve", "ccm"}

Drop == pc' = "idle" /\ mref' = FALSE /\ creds' = None
Retry == Drop /\ queued' = TRUE /\ UNCHANGED <<secretVars, up, global, cm>>

----------------------------------------------------------------------------
(* The process.                                                            *)

\* What a start loads: the keys of the Secret over those of the environment.
Loaded(secret) == [k \in {"url", "token"} |-> IF secret[k] # NoKey THEN secret[k] ELSE Env[k]]

\* A Secret that cannot be read leaves the environment. Without a URL and a
\* token the process exits, to be started again.
Start ==
    /\ ~up
    /\ \E p \in {Loaded(manager), Loaded(None)} :
          /\ Whole(p)
          /\ global' = p
    /\ up' = TRUE /\ queued' = TRUE
    /\ cref' = ref /\ cidentity' = identity
    /\ UNCHANGED <<identity, manager, ref, workerVars, cm>>

Stop ==
    /\ up
    /\ up' = FALSE /\ queued' = FALSE /\ global' = None
    /\ Drop
    /\ UNCHANGED <<secretVars, cm>>

----------------------------------------------------------------------------
(* reconcileNormal from the credentials on.                                *)

\* Variant: nothing is done for a cluster that has its manifest.
ReconcileOnce ==
    /\ up /\ queued /\ pc = "idle" /\ cm = None
    /\ pc' = "resolve" /\ mref' = cref /\ queued' = FALSE
    /\ UNCHANGED <<secretVars, up, global, creds, cm>>

Reconcile ==
    /\ up /\ queued /\ pc = "idle"
    /\ pc' = "resolve" /\ mref' = cref /\ queued' = FALSE
    /\ UNCHANGED <<secretVars, up, global, creds, cm>>

\* Variant: keys the Secret lacks are taken from the manager's credentials.
FilledUp ==
    IF ~mref THEN global
    ELSE [k \in {"url", "token"} |-> IF cidentity[k] # NoKey THEN cidentity[k] ELSE global[k]]

\* Variant: a Secret that is not there is no identity.
FallBack == IF mref /\ cidentity # None THEN cidentity ELSE global

\* The identity's credentials if there is an identityRef, the manager's if not.
ResolveXOConfig == IF mref THEN cidentity ELSE global

\* An error, a missing key included, is retried. The condition that says so is
\* set on a copy nobody stores.
Resolve ==
    /\ pc = "resolve"
    /\ \/ /\ Whole(ResolveXOConfig)
          /\ creds' = ResolveXOConfig
          /\ pc' = "ccm"
          /\ UNCHANGED <<secretVars, up, global, queued, mref, cm>>
       \/ Retry

\* The data the CCM manifest is rendered from.
CCMData == [url |-> creds.url, token |-> creds.token]

\* The manifest is rendered and stored, the answer perhaps lost, or not.
EnsureCCM ==
    /\ pc = "ccm"
    /\ \/ /\ cm' = CCMData
          /\ Drop
          /\ queued' \in {queued, TRUE}
          /\ UNCHANGED <<secretVars, up, global>>
       \/ Retry

Worker == Reconcile \/ Resolve \/ EnsureCCM

----------------------------------------------------------------------------
(* Users, informers, resync.                                               *)

RotateIdentity ==
    /\ identity' \in Stored(IdVersions) \ {identity}
    /\ UNCHANGED <<cidentity, manager, ref, cref, up, global, queued, workerVars, cm>>

RotateManager ==
    /\ manager' \in Stored(MgrVersions) \ {manager}
    /\ UNCHANGED <<identity, cidentity, ref, cref, up, global, queued, workerVars, cm>>

EditRef ==
    /\ ref' = ~ref
    /\ UNCHANGED <<identity, cidentity, manager, cref, up, global, queued, workerVars, cm>>

\* An event of the XOCluster queues it.
RefSync ==
    /\ up /\ cref # ref
    /\ cref' = ref /\ queued' = TRUE
    /\ UNCHANGED <<identity, cidentity, manager, ref, up, global, workerVars, cm>>

\* No Secret event reaches the XOCluster controller: the cache moves, and nobody
\* is queued.
IdentitySync ==
    /\ up /\ cidentity # identity
    /\ cidentity' = identity
    /\ UNCHANGED <<identity, manager, ref, cref, up, global, queued, workerVars, cm>>

\* The resync of the informers, every ten hours, and events of others.
Enqueue ==
    /\ up /\ ~queued
    /\ queued' = TRUE
    /\ UNCHANGED <<secretVars, up, global, workerVars, cm>>

Next ==
    \/ Start \/ Stop \/ Worker \/ RotateIdentity \/ RotateManager \/ EditRef
    \/ RefSync \/ IdentitySync \/ Enqueue

Init ==
    /\ identity \in Stored(IdVersions) /\ cidentity = identity
    /\ manager \in Stored(MgrVersions)
    /\ ref \in BOOLEAN /\ cref = ref
    /\ up = FALSE /\ global = None /\ queued = FALSE
    /\ pc = "idle" /\ mref = FALSE /\ creds = None
    /\ cm = None

Spec == Init /\ [][Next]_vars

\* A step in which no call fails; a Secret that lacks a key is no failed call.
NoCallFails ==
    /\ pc = "resolve" /\ Whole(ResolveXOConfig) => pc' # "idle"
    /\ pc = "ccm" /\ pc' = "idle" => cm' = creds

\* The resync is needed: without WF_vars(Enqueue) a rotated Secret may never reach
\* the manifest.
Fairness ==
    /\ WF_vars(Worker) /\ WF_vars(RefSync) /\ WF_vars(IdentitySync) /\ WF_vars(Enqueue)
    /\ <>[][NoCallFails]_vars

LiveSpec == Spec /\ Fairness

----------------------------------------------------------------------------
(* Properties.                                                             *)

\* Type correctness of every variable.
TypeOK ==
    /\ identity \in Pairs /\ cidentity \in Pairs /\ manager \in Pairs
    /\ ref \in BOOLEAN /\ cref \in BOOLEAN /\ mref \in BOOLEAN
    /\ up \in BOOLEAN /\ queued \in BOOLEAN
    /\ global \in Pairs /\ creds \in Pairs /\ cm \in Pairs
    /\ pc \in Calls

\* ResolveXOConfig, main: the manifest never joins the URL of one set of
\* credentials with the token of another, whatever Secrets lack a key at the
\* moment they are read.
OneSource == cm.url = cm.token

\* ResolveXOConfig: a cluster that always had an identityRef never gets the
\* manager's credentials into its manifest, however broken its Secret is.
OwnInstance == []ref => [](cm.url \notin MgrVersions /\ cm.token \notin MgrVersions)

\* reconcileAddons ("the CCM and CSI are reconciled so the credentials and endpoint
\* stay current"): the manifest ends up with the credentials in force, those of
\* the Secret or those the process loaded, whichever change came last.
CredentialsFollow ==
    \A p \in Pairs :
       <>[](up /\ Whole(p) /\ p = IF ref THEN identity ELSE global) => <>[](cm = p)

=============================================================================
