-------------------------- MODULE ClusterLifecycle --------------------------
(***************************************************************************)
(* The life of one XOCluster: finalizer, label on the owner Cluster,       *)
(* control plane endpoint, status, and the addons handed to Cluster API as *)
(* a ConfigMap with the manifest and a ClusterResourceSet (CRS) naming it. *)
(*                                                                         *)
(* One worker reconciles the XOCluster; every call that leaves the process *)
(* is a step.  Reads of the XOCluster, the Cluster, the ConfigMaps and the *)
(* CRSs are served by informer caches, each with a lag of its own.         *)
(***************************************************************************)
EXTENDS Naturals, Sequences

CONSTANTS
    AddonOrder, \* the addons in the order of reconcileAddons: ccm, csi, cni
    Manifests,  \* what an enabled addon can be rendered to
    Off,        \* an addon that is disabled; also an absent ConfigMap
    Addresses,  \* those of control plane machines
    VIPs,       \* what a user may give as spec.controlPlaneEndpoint
    NoEp,       \* no endpoint
    Faults      \* which of AllFaults the environment may produce

AllFaults ==
    { "crash",   \* the controller process dies and restarts
      "unlabel", \* somebody removes the label of the Cluster
      "edit",    \* somebody sets spec.controlPlaneEndpoint later
      "lag" }    \* the caches of ConfigMaps and CRSs may lag behind

Addons == {AddonOrder[i] : i \in 1..Len(AddonOrder)}
Endpoints == Addresses \cup VIPs

ASSUME OrderAssumption ==
    /\ AddonOrder \in Seq(Addons)
    /\ \A i, j \in 1..Len(AddonOrder) : AddonOrder[i] = AddonOrder[j] => i = j

ASSUME ClusterAssumption ==
    Off \notin Manifests /\ NoEp \notin Endpoints /\ Faults \subseteq AllFaults

VARIABLES
    srv,       \* the XOCluster the API server stores
    cache,     \* the copy in the informer cache
    fresh,     \* that copy is the stored version
    queued,    \* the XOCluster is in the work queue
    cluster,   \* the owner Cluster, stored
    ccluster,  \* and cached
    cfresh,    \* the cached Cluster is the stored version
    reachable, \* addresses of the Ready control plane machines
    cm, cmCache,   \* ConfigMaps, stored and cached
    crs, crsCache, \* ClusterResourceSets, stored and cached
    leaving,   \* deleted ones that Cluster API's finalizer still keeps
    pc,        \* the call the worker is about to make
    mem,       \* the XOCluster the worker holds
    base,      \* the copy of it the status patch is computed against
    synced,    \* mem is the stored version
    at         \* the addon the worker is at

objectVars == <<srv, cache, fresh>>
otherVars == <<cluster, ccluster, cfresh, reachable>>
addonVars == <<cm, cmCache, crs, leaving, crsCache>>
workerVars == <<pc, mem, base, synced, at>>
vars == <<srv, cache, fresh, queued, cluster, ccluster, cfresh, reachable, cm, cmCache,
          crs, leaving, crsCache, pc, mem, base, synced, at>>

XOCluster ==
    [ life  : {"new", "active", "deleting", "gone"},
      want  : [Addons -> Manifests \cup {Off}],
      spec  : Endpoints \cup {NoEp},
      ep    : Endpoints \cup {NoEp},
      ready : {"no", "yes"},
      cond  : {"unset", "False", "True"} ]

Calls == { "idle", "finalizer", "owner", "label", "endpoint", "patch", "creds",
           "ensureCM", "ensureCRS", "removeCRS", "removeCM", "unfinalize" }

Blank == [ life |-> "new", want |-> [a \in Addons |-> Off], spec |-> NoEp, ep |-> NoEp,
           ready |-> "no", cond |-> "unset" ]

----------------------------------------------------------------------------

Goto(call) == pc' = call
Drop == pc' = "idle" /\ mem' = Blank /\ base' = Blank /\ synced' = FALSE /\ at' = 1
Done == Drop /\ UNCHANGED queued

\* An error, or RequeueAfter.
Retry == Drop /\ queued' = TRUE
Failed == Retry /\ UNCHANGED <<objectVars, otherVars, addonVars>>

Proceed(call) ==
    /\ Goto(call)
    /\ UNCHANGED <<objectVars, queued, otherVars, addonVars, mem, base, synced, at>>

Reconcile ==
    /\ pc = "idle" /\ queued
    /\ queued' = FALSE
    /\ IF cache.life = "gone"
       THEN UNCHANGED workerVars
       ELSE /\ mem' = cache /\ base' = cache /\ synced' = fresh
            /\ Goto(CASE cache.life = "deleting" -> "unfinalize"
                      [] cache.life = "new"      -> "finalizer"
                      [] cache.life = "active"   -> "owner")
            /\ UNCHANGED at
    /\ UNCHANGED <<objectVars, otherVars, addonVars>>

\* r.Update: accepted only with the current resourceVersion.
Accept(obj) == synced /\ srv' = obj /\ fresh' = FALSE /\ UNCHANGED <<cache, otherVars, addonVars>>

AddFinalizer ==
    /\ pc = "finalizer"
    /\ LET obj == [mem EXCEPT !.life = "active"]
       IN \/ /\ Accept(obj)
             /\ mem' = obj /\ base' = obj
             /\ Goto("owner")
             /\ UNCHANGED <<queued, synced, at>>
          \/ Accept(obj) /\ Retry
          \/ Failed

\* Variant: the label of the Cluster is not looked at.
OwnerClusterAsItIs ==
    /\ pc = "owner"
    /\ \/ /\ ccluster = "none"
          /\ Done
          /\ UNCHANGED <<objectVars, otherVars, addonVars>>
       \/ ccluster # "none" /\ Proceed("endpoint")

\* No owner Cluster yet: its event will bring the worker back.
GetOwnerCluster ==
    /\ pc = "owner"
    /\ \/ /\ ccluster = "none"
          /\ Done
          /\ UNCHANGED <<objectVars, otherVars, addonVars>>
       \/ ccluster = "plain" /\ Proceed("label")
       \/ ccluster = "labelled" /\ Proceed("endpoint")
       \/ Failed

\* A merge patch, without a resourceVersion.
EnsureClusterNameLabel ==
    /\ pc = "label"
    /\ \/ /\ cluster' = "labelled"
          /\ cfresh' = (cfresh /\ cluster = "labelled")
          /\ \/ Goto("endpoint") /\ UNCHANGED <<queued, mem, base, synced, at>>
             \/ Retry
          /\ UNCHANGED <<objectVars, ccluster, reachable, addonVars>>
       \/ Failed

\* The address of any Ready control plane machine, or none.
Discovered == IF reachable # {} THEN reachable ELSE {NoEp}

\* Variant: a Ready machine is asked first.
DiscoveredFirst ==
    IF mem.ep # NoEp THEN {mem.ep}
    ELSE IF reachable # {} THEN reachable ELSE {mem.spec}

\* What status.controlPlaneEndpoint becomes: an endpoint once set stays, the
\* user's comes next, then a discovered one.
ControlPlaneEndpoint ==
    IF mem.ep # NoEp THEN {mem.ep}
    ELSE IF mem.spec # NoEp THEN {mem.spec}
    ELSE Discovered

SetStatus ==
    /\ pc = "endpoint"
    /\ \/ /\ \E e \in ControlPlaneEndpoint :
                mem' = IF e # NoEp
                       THEN [mem EXCEPT !.ep = e, !.ready = "yes", !.cond = "True"]
                       ELSE [mem EXCEPT !.cond = "False"]
          /\ Goto("patch")
          /\ UNCHANGED <<objectVars, queued, otherVars, addonVars, base, synced, at>>
       \/ Failed

\* Variant: the whole status is sent.
PatchedWhole == [srv EXCEPT !.ep = mem.ep, !.ready = mem.ready, !.cond = mem.cond]

\* Only what the reconcile changed is sent, and nothing checks what it meets.
Patched ==
    [srv EXCEPT !.ep    = IF mem.ep # base.ep THEN mem.ep ELSE srv.ep,
                !.ready = IF mem.ready # base.ready THEN mem.ready ELSE srv.ready,
                !.cond  = IF mem.cond # base.cond THEN mem.cond ELSE srv.cond]

\* Variant: a cluster without endpoint waits for the next event.
RequeueNever == Done

\* ctrl.Result{RequeueAfter: 10 * time.Second}
RequeueForEndpoint == Retry

\* The answer replaces the object in hand, the spec included.
PatchStatus ==
    /\ pc = "patch"
    /\ \/ /\ srv.life # "gone"
          /\ srv' = Patched
          /\ fresh' = (fresh /\ Patched = srv)
          /\ \/ /\ mem.ep = NoEp
                /\ RequeueForEndpoint
             \/ /\ mem.ep # NoEp
                /\ mem' = Patched
                /\ Goto("creds")
                /\ UNCHANGED <<queued, base, synced, at>>
             \/ Retry
          /\ UNCHANGED <<cache, otherVars, addonVars>>
       \/ Failed

----------------------------------------------------------------------------
(* Addons.                                                                 *)

Addon == AddonOrder[at]

\* On to addon i, or the end of the reconcile.
Begin(i) ==
    IF i > Len(AddonOrder) THEN Done
    ELSE /\ at' = i
         /\ Goto(IF mem.want[AddonOrder[i]] = Off THEN "removeCRS" ELSE "ensureCM")
         /\ UNCHANGED <<queued, mem, base, synced>>

ResolveCredentials ==
    /\ pc = "creds"
    /\ \/ Begin(1) /\ UNCHANGED <<objectVars, otherVars, addonVars>>
       \/ Failed

\* A cache without lag shows the write at once; a deleted CRS is shown as long
\* as the API server keeps it.
CMStored(f) == cm' = f /\ cmCache' = (IF "lag" \in Faults THEN cmCache ELSE f)
CRSStored(s, l) ==
    /\ crs' = s /\ leaving' = l
    /\ crsCache' = (IF "lag" \in Faults THEN crsCache ELSE s \cup l)

\* ctrl.CreateOrUpdate: create what the cache does not have, update what it
\* has in another form, leave alone what it has in this one.
EnsureCM ==
    /\ pc = "ensureCM"
    /\ LET wanted == mem.want[Addon]
       IN \/ /\ cmCache[Addon] = wanted
             /\ Proceed("ensureCRS")
          \/ /\ cmCache[Addon] # wanted
             /\ cm[Addon] = cmCache[Addon]
             /\ CMStored([cm EXCEPT ![Addon] = wanted])
             /\ \/ Goto("ensureCRS") /\ UNCHANGED <<queued, mem, base, synced, at>>
                \/ Retry
             /\ UNCHANGED <<objectVars, otherVars, crs, leaving, crsCache>>
          \/ Failed

\* One that is being deleted is found as well, and left alone.
EnsureCRS ==
    /\ pc = "ensureCRS"
    /\ \/ /\ Addon \in crsCache
          /\ Begin(at + 1)
          /\ UNCHANGED <<objectVars, otherVars, addonVars>>
       \/ /\ Addon \notin crsCache \cup crs \cup leaving
          /\ CRSStored(crs \cup {Addon}, leaving)
          /\ Begin(at + 1) \/ Retry
          /\ UNCHANGED <<objectVars, otherVars, cm, cmCache>>
       \/ Failed

\* Variant: the manifest goes before the CRS that names it.
RemoveCMFirst ==
    /\ pc = "removeCRS"
    /\ \/ /\ CMStored([cm EXCEPT ![Addon] = Off])
          /\ \/ Goto("removeCM") /\ UNCHANGED <<queued, mem, base, synced, at>>
             \/ Retry
          /\ UNCHANGED <<objectVars, otherVars, crs, leaving, crsCache>>
       \/ Failed

\* Gone at once, or kept for the finalizer Cluster API may have put on it.
DeleteCRS ==
    /\ \E l \in SUBSET (crs \cap {Addon}) : CRSStored(crs \ {Addon}, leaving \cup l)
    /\ \/ Goto("removeCM") /\ UNCHANGED <<queued, mem, base, synced, at>>
       \/ Retry
    /\ UNCHANGED <<objectVars, otherVars, cm, cmCache>>

\* Variant: a CRS that is not there ends the removal.
RemoveCRSOnce ==
    /\ pc = "removeCRS"
    /\ \/ Addon \in crs \cup leaving /\ DeleteCRS
       \/ /\ Addon \notin crs \cup leaving
          /\ Begin(at + 1)
          /\ UNCHANGED <<objectVars, otherVars, addonVars>>
       \/ Failed

\* r.Delete, where NotFound is success.
RemoveCRS ==
    /\ pc = "removeCRS"
    /\ DeleteCRS \/ Failed

RemoveCM ==
    /\ pc = "removeCM"
    /\ \/ /\ CMStored([cm EXCEPT ![Addon] = Off])
          /\ Begin(at + 1) \/ Retry
          /\ UNCHANGED <<objectVars, otherVars, crs, leaving, crsCache>>
       \/ Failed

\* Variant: a failed addon is logged and the reconcile ends.
AddonFailureDropped ==
    \/ EnsureCM \/ EnsureCRS \/ RemoveCRS \/ RemoveCM
    \/ /\ pc \in {"ensureCM", "ensureCRS", "removeCRS", "removeCM"}
       /\ Done
       /\ UNCHANGED <<objectVars, otherVars, addonVars>>

ReconcileAddons == EnsureCM \/ EnsureCRS \/ RemoveCRS \/ RemoveCM

----------------------------------------------------------------------------

\* Variant: a refused update ends the reconcile.
DeleteFailureDropped ==
    /\ pc = "unfinalize"
    /\ \/ Accept([mem EXCEPT !.life = "gone"]) /\ Done
       \/ Done /\ UNCHANGED <<objectVars, otherVars, addonVars>>

ReconcileDelete ==
    /\ pc = "unfinalize"
    /\ \/ Accept([mem EXCEPT !.life = "gone"]) /\ (Done \/ Retry)
       \/ Failed

Worker ==
    \/ Reconcile \/ AddFinalizer \/ GetOwnerCluster \/ EnsureClusterNameLabel
    \/ SetStatus \/ PatchStatus \/ ResolveCredentials \/ ReconcileAddons \/ ReconcileDelete

\* Another client's write of the XOCluster.
Overwrite(obj) ==
    /\ srv' = obj
    /\ fresh' = FALSE
    /\ synced' = FALSE
    /\ UNCHANGED <<cache, queued, otherVars, addonVars, pc, mem, base, at>>

UserDelete ==
    \/ srv.life = "active" /\ Overwrite([srv EXCEPT !.life = "deleting"])
    \/ srv.life = "new" /\ Overwrite([srv EXCEPT !.life = "gone"])

EditAddons ==
    /\ srv.life # "gone"
    /\ \E a \in Addons, w \in Manifests \cup {Off} :
          srv.want[a] # w /\ Overwrite([srv EXCEPT !.want[a] = w])

EditEndpoint ==
    /\ "edit" \in Faults
    /\ srv.life # "gone" /\ srv.spec = NoEp
    /\ \E e \in VIPs : Overwrite([srv EXCEPT !.spec = e])

\* A delivered event queues the XOCluster: its own, or one of its Cluster.
InformerSync ==
    /\ ~fresh
    /\ cache' = srv /\ fresh' = TRUE /\ queued' = TRUE
    /\ UNCHANGED <<srv, otherVars, addonVars, workerVars>>

ClusterSync ==
    /\ ~cfresh
    /\ ccluster' = cluster /\ cfresh' = TRUE /\ queued' = TRUE
    /\ UNCHANGED <<objectVars, cluster, reachable, addonVars, workerVars>>

\* Events of control plane Machines, and the periodic resync.
Enqueue ==
    /\ ~queued
    /\ queued' = TRUE
    /\ UNCHANGED <<objectVars, otherVars, addonVars, workerVars>>

OwnerChanges ==
    /\ \/ cluster = "none" /\ cluster' = "plain"
       \/ "unlabel" \in Faults /\ cluster = "labelled" /\ cluster' = "plain"
    /\ cfresh' = FALSE
    /\ UNCHANGED <<objectVars, queued, ccluster, reachable, addonVars, workerVars>>

MachineChanges ==
    /\ \E e \in Addresses : reachable' \in {reachable \cup {e}, reachable \ {e}}
    /\ reachable' # reachable
    /\ UNCHANGED <<objectVars, queued, cluster, ccluster, cfresh, addonVars, workerVars>>

\* Nothing watches ConfigMaps and CRSs: their caches move, nobody is queued.
AddonCacheSync ==
    /\ \/ cmCache # cm /\ cmCache' = cm /\ UNCHANGED crsCache
       \/ crsCache # crs \cup leaving /\ crsCache' = crs \cup leaving /\ UNCHANGED cmCache
    /\ UNCHANGED <<objectVars, queued, otherVars, cm, crs, leaving, workerVars>>

\* Cluster API takes its finalizer off a deleted CRS.
CRSFinalized ==
    /\ \E a \in leaving : CRSStored(crs, leaving \ {a})
    /\ UNCHANGED <<objectVars, queued, otherVars, cm, cmCache, workerVars>>

Crash ==
    /\ "crash" \in Faults
    /\ cache' = srv /\ fresh' = TRUE /\ queued' = TRUE
    /\ ccluster' = cluster /\ cfresh' = TRUE /\ cmCache' = cm /\ crsCache' = crs \cup leaving
    /\ Drop
    /\ UNCHANGED <<srv, cluster, reachable, cm, crs, leaving>>

Environment ==
    \/ UserDelete \/ EditAddons \/ EditEndpoint \/ InformerSync \/ ClusterSync \/ Enqueue
    \/ OwnerChanges \/ MachineChanges \/ AddonCacheSync \/ CRSFinalized \/ Crash

Init ==
    /\ \E w \in [Addons -> Manifests \cup {Off}], e \in VIPs \cup {NoEp} :
          srv = [Blank EXCEPT !.want = w, !.spec = e]
    /\ cache = srv /\ fresh = TRUE /\ queued = TRUE
    /\ cluster \in {"none", "plain", "labelled"} /\ ccluster = cluster /\ cfresh = TRUE
    /\ reachable = {}
    /\ cm = [a \in Addons |-> Off] /\ cmCache = cm
    /\ crs = {} /\ leaving = {} /\ crsCache = {}
    /\ pc = "idle" /\ mem = Blank /\ base = Blank /\ synced = FALSE /\ at = 1

Next == Worker \/ Environment

Spec == Init /\ [][Next]_vars

\* A step of the worker in which no call fails; what is written from a stale
\* copy is refused through no fault of the call.
NoCallFails ==
    \/ pc' = pc
    \/ pc = "idle"
    \/ pc' # "idle"
    \/ ~queued'
    \/ pc = "owner" /\ ccluster = "none"
    \/ pc \in {"finalizer", "unfinalize"} /\ (~synced \/ srv'.life = "gone")
    \/ pc = "patch" /\ (srv.life = "gone" \/ mem.ep = NoEp)
    \/ pc = "ensureCM" /\ cmCache[Addon] \notin {cm[Addon], mem.want[Addon]}
    \/ pc = "ensureCRS" /\ at = Len(AddonOrder) /\ Addon \in crs' \cup crsCache
    \/ pc = "ensureCRS" /\ Addon \in (crs \cup leaving) \ crsCache
    \/ pc = "removeCM" /\ at = Len(AddonOrder) /\ cm'[Addon] = Off
    \/ pc = "creds" /\ AddonOrder = <<>>

\* The worker, the watches and Cluster API keep going, and calls stop failing
\* some day.  No Machine event and no resync is counted on.
Fairness ==
    /\ WF_vars(Worker) /\ WF_vars(InformerSync) /\ WF_vars(ClusterSync)
    /\ WF_vars(AddonCacheSync) /\ WF_vars(CRSFinalized)
    /\ <>[][NoCallFails]_vars

LiveSpec == Spec /\ Fairness

\* The resync of the informers queues the XOCluster from time to time.
Resync == WF_vars(Enqueue)

----------------------------------------------------------------------------
(* Properties.                                                             *)

CopiesOK == srv \in XOCluster /\ cache \in XOCluster /\ mem \in XOCluster /\ base \in XOCluster
FlagsOK == fresh \in BOOLEAN /\ queued \in BOOLEAN /\ synced \in BOOLEAN /\ cfresh \in BOOLEAN
OthersOK ==
    /\ cluster \in {"none", "plain", "labelled"}
    /\ ccluster \in {"none", "plain", "labelled"}
    /\ reachable \subseteq Addresses
    /\ cm \in [Addons -> Manifests \cup {Off}]
    /\ cmCache \in [Addons -> Manifests \cup {Off}]
    /\ crs \subseteq Addons /\ leaving \subseteq Addons /\ crsCache \subseteq Addons
    /\ pc \in Calls
    /\ at \in Nat

\* Type correctness of every variable.
TypeOK == CopiesOK /\ FlagsOK /\ OthersOK

\* ensureAddon, removeAddon: a CRS never names a ConfigMap that is not there,
\* whichever call failed half way and however often the addon is switched, as
\* long as the caches of ConfigMaps and CRSs show every write at once; a cached
\* ConfigMap that removeAddon has just deleted breaks it.
CRSHasManifest == \A a \in crs : cm[a] # Off

\* reconcileNormal: no addon is handed to Cluster API before the Cluster has
\* the label the CRS selects it by and the XOCluster has published its endpoint.
AddonsComeLast ==
    \A a \in Addons : cm[a] # Off \/ a \in crs =>
       srv.ready = "yes" /\ srv.ep # NoEp /\ cluster = "labelled"

\* "Priority order": the endpoint the user gave when the cluster was created is
\* the only one ever published, whatever machines are there.
UsersEndpointWins ==
    [][srv.spec # NoEp /\ srv.ep = NoEp => srv'.ep \in {NoEp, srv.spec}]_vars

\* Status().Patch with a copy that may be stale: a Ready XOCluster stays Ready
\* and has an endpoint.  Its condition may be turned False by such a patch, until
\* the next reconcile.
ReadyStays ==
    [][srv.ready = "yes" => srv'.ready = "yes" /\ srv'.ep # NoEp]_vars

\* reconcileNormal: with a Ready control plane machine the endpoint is found,
\* without any event to announce the machine.
EndpointPublished ==
    <>[](srv.life = "active" /\ cluster # "none" /\ reachable # {}) => <>(srv.ep # NoEp)

Serving == srv.life = "active" /\ srv.ready = "yes" /\ cluster # "none"
Delivered(a, w) == cm[a] = w /\ (a \in crs <=> w # Off)

\* reconcileAddons: what is written to spec.addons is what Cluster API is given
\* in the end, if the spec and the owner stay as they are.  That an addon
\* switched off and on again comes back is owed to the resync: the first
\* reconcile may find the objects it deleted, in a cache or kept by a finalizer,
\* and leave it at that.
AddonsFollowSpec ==
    Resync =>
       \A a \in Addons : \A w \in Manifests \cup {Off} :
          <>[](Serving /\ srv.want[a] = w) => <>[]Delivered(a, w)

\* Without any resync: an addon switched off for good is removed, and one never
\* edited is installed, through lagging caches and calls that fail half way.
AddonsDelivered ==
    \A a \in Addons : \A w \in Manifests \cup {Off} :
       <>[](Serving /\ srv.want[a] = w) /\ (w = Off \/ [](srv.want[a] = w))
          => <>[]Delivered(a, w)

\* ensureClusterNameLabel: a label somebody removed comes back.
LabelRestored ==
    <>[](srv.life = "active" /\ cluster # "none") => []<>(cluster = "labelled")

\* reconcileDelete: a deleted XOCluster nobody keeps editing is let go.
ClusterEventuallyGone ==
    \A w \in [Addons -> Manifests \cup {Off}] : ~<>[](srv.life = "deleting" /\ srv.want = w)

=============================================================================
