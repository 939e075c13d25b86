----------------------- MODULE ClusterLifecycleProofs -----------------------
(***************************************************************************)
(* Proofs about ClusterLifecycle, for any list of addons, any manifests    *)
(* and any endpoints.                                                      *)
(***************************************************************************)
EXTENDS ClusterLifecycle, TLAPS

AddonCalls == {"ensureCM", "ensureCRS", "removeCRS", "removeCM"}

\* In an addon step the worker is at one of the addons.
AtInv == pc \in AddonCalls => at \in 1..Len(AddonOrder)

LEMMA AddonsIndexed ==
    /\ Len(AddonOrder) \in Nat
    /\ \A i \in 1..Len(AddonOrder) : AddonOrder[i] \in Addons
BY OrderAssumption DEF Addons

LEMMA BlankType == Blank \in XOCluster
BY DEF Blank, XOCluster

\* Every variable keeps its type through each call of the XOCluster reconciler
\* and each step of its environment.
THEOREM ClusterTypeCorrect == Spec => [](TypeOK /\ AtInv)
<1> USE DEF AtInv, AddonCalls
<1>1. Init => TypeOK /\ AtInv
  <2> SUFFICES ASSUME Init PROVE TypeOK /\ AtInv
    OBVIOUS
  <2>1. srv \in XOCluster /\ cache \in XOCluster
    BY DEF Init, Blank, XOCluster, Endpoints
  <2>2. QED
    BY <2>1, BlankType DEF Init, TypeOK, CopiesOK, FlagsOK, OthersOK, Calls
<1>2. TypeOK /\ AtInv /\ [Next]_vars => TypeOK' /\ AtInv'
  <2> SUFFICES ASSUME TypeOK, AtInv, [Next]_vars PROVE TypeOK' /\ AtInv'
    OBVIOUS
  <2> USE BlankType DEF TypeOK, CopiesOK, FlagsOK, OthersOK, Calls, Goto, Drop, Done, Retry, Failed, Proceed, objectVars,
              otherVars, addonVars, workerVars
  <2>1. CASE Reconcile
    <3>1. cache.life \in {"new", "active", "deleting", "gone"}
      BY DEF XOCluster
    <3>2. QED
      BY <2>1, <3>1 DEF Reconcile
  <2>2. CASE AddFinalizer \/ ReconcileDelete
    <3>1. [mem EXCEPT !.life = "active"] \in XOCluster /\ [mem EXCEPT !.life = "gone"] \in XOCluster
      BY DEF XOCluster
    <3>a. CopiesOK'
      BY <2>2, <3>1 DEF AddFinalizer, ReconcileDelete, Accept
    <3>b. FlagsOK'
      BY <2>2, <3>1 DEF AddFinalizer, ReconcileDelete, Accept
    <3>c. OthersOK' /\ AtInv'
      BY <2>2, <3>1 DEF AddFinalizer, ReconcileDelete, Accept
    <3>d. QED
      BY <3>a, <3>b, <3>c
  <2>3. CASE GetOwnerCluster \/ EnsureClusterNameLabel
    <3>a. CopiesOK'
      BY <2>3 DEF GetOwnerCluster, EnsureClusterNameLabel
    <3>b. FlagsOK'
      BY <2>3 DEF GetOwnerCluster, EnsureClusterNameLabel
    <3>c. OthersOK' /\ AtInv'
      BY <2>3 DEF GetOwnerCluster, EnsureClusterNameLabel
    <3>d. QED
      BY <3>a, <3>b, <3>c
  <2>4. CASE SetStatus
    <3>1. ControlPlaneEndpoint \subseteq Endpoints \cup {NoEp}
      BY DEF ControlPlaneEndpoint, Discovered, XOCluster, OthersOK, Endpoints
    <3>2. \A e \in Endpoints \cup {NoEp} :
             [mem EXCEPT !.ep = e, !.ready = "yes", !.cond = "True"] \in XOCluster
      BY DEF XOCluster
    <3>3. [mem EXCEPT !.cond = "False"] \in XOCluster
      BY DEF XOCluster
    <3>4. CASE Failed
      BY <3>4
    <3>5. CASE ~Failed
      <4>1. mem' \in XOCluster
        BY <2>4, <3>1, <3>2, <3>3, <3>5 DEF SetStatus
      <4>2. QED
        BY <2>4, <3>5, <4>1 DEF SetStatus
    <3>6. QED
      BY <3>4, <3>5
  <2>5. CASE PatchStatus
    <3>1. Patched \in XOCluster
      <4>1. \A e \in Endpoints \cup {NoEp}, r \in {"no", "yes"}, c \in {"unset", "False", "True"} :
               [srv EXCEPT !.ep = e, !.ready = r, !.cond = c] \in XOCluster
        BY DEF XOCluster
      <4>2. \A o \in XOCluster : /\ o.ep \in Endpoints \cup {NoEp}
                                 /\ o.ready \in {"no", "yes"}
                                 /\ o.cond \in {"unset", "False", "True"}
        BY DEF XOCluster
      <4>3. QED
        BY <4>1, <4>2 DEF Patched
    <3>a. CopiesOK'
      BY <2>5, <3>1 DEF PatchStatus, RequeueForEndpoint
    <3>b. FlagsOK'
      BY <2>5, <3>1 DEF PatchStatus, RequeueForEndpoint
    <3>c. OthersOK' /\ AtInv'
      BY <2>5, <3>1 DEF PatchStatus, RequeueForEndpoint
    <3>d. QED
      BY <3>a, <3>b, <3>c
  <2>6. ASSUME NEW i \in Nat \ {0}, Begin(i)
        PROVE  /\ mem' \in XOCluster /\ base' \in XOCluster
               /\ queued' = queued /\ synced' \in BOOLEAN
               /\ pc' \in Calls /\ at' \in Nat /\ AtInv'
    <3>1. mem' \in XOCluster /\ base' \in XOCluster
      BY <2>6 DEF Begin
    <3>2. queued' = queued /\ synced' \in BOOLEAN
      BY <2>6 DEF Begin
    <3>3. pc' \in Calls /\ at' \in Nat /\ AtInv'
      BY <2>6, AddonsIndexed DEF Begin
    <3>4. QED
      BY <3>1, <3>2, <3>3
  <2>7. CASE ResolveCredentials
    <3>a. CopiesOK'
      BY <2>7, <2>6 DEF ResolveCredentials
    <3>b. FlagsOK'
      <4>1. CASE Failed
        BY <4>1
      <4>2. CASE Begin(1) /\ UNCHANGED <<objectVars, otherVars, addonVars>>
        BY <4>2, <2>6
      <4>3. QED
        BY <2>7, <4>1, <4>2, Zenon DEF ResolveCredentials
    <3>c. OthersOK' /\ AtInv'
      BY <2>7, <2>6 DEF ResolveCredentials
    <3>d. QED
      BY <3>a, <3>b, <3>c
  <2>8. ASSUME pc \in AddonCalls PROVE Addon \in Addons /\ at + 1 \in Nat \ {0}
    BY <2>8, AddonsIndexed DEF Addon
  <2>9. CASE EnsureCM
    <3>1. mem.want[Addon] \in Manifests \cup {Off}
      BY <2>8, <2>9 DEF EnsureCM, XOCluster
    <3>a. CopiesOK'
      BY <2>8, <2>9, <3>1 DEF EnsureCM, CMStored
    <3>b. FlagsOK'
      BY <2>8, <2>9, <3>1 DEF EnsureCM, CMStored
    <3>c. OthersOK' /\ AtInv'
      BY <2>8, <2>9, <3>1 DEF EnsureCM, CMStored
    <3>d. QED
      BY <3>a, <3>b, <3>c
  <2>10. CASE EnsureCRS
    <3>a. CopiesOK'
      BY <2>6, <2>8, <2>10 DEF EnsureCRS, CRSStored
    <3>b. FlagsOK'
      BY <2>6, <2>8, <2>10 DEF EnsureCRS, CRSStored
    <3>c. OthersOK' /\ AtInv'
      BY <2>6, <2>8, <2>10 DEF EnsureCRS, CRSStored
    <3>d. QED
      BY <3>a, <3>b, <3>c
  <2>11. CASE RemoveCRS
    <3>a. CopiesOK'
      BY <2>8, <2>11 DEF RemoveCRS, DeleteCRS, CRSStored
    <3>b. FlagsOK'
      BY <2>8, <2>11 DEF RemoveCRS, DeleteCRS, CRSStored
    <3>c. OthersOK' /\ AtInv'
      BY <2>8, <2>11 DEF RemoveCRS, DeleteCRS, CRSStored
    <3>d. QED
      BY <3>a, <3>b, <3>c
  <2>12. CASE RemoveCM
    <3>a. CopiesOK'
      BY <2>6, <2>8, <2>12 DEF RemoveCM, CMStored
    <3>b. FlagsOK'
      BY <2>6, <2>8, <2>12 DEF RemoveCM, CMStored
    <3>c. OthersOK' /\ AtInv'
      BY <2>6, <2>8, <2>12 DEF RemoveCM, CMStored
    <3>d. QED
      BY <3>a, <3>b, <3>c
  <2>13. CASE UserDelete \/ EditAddons \/ EditEndpoint
    <3>1. ASSUME NEW obj \in XOCluster, Overwrite(obj) PROVE TypeOK' /\ AtInv'
      BY <3>1 DEF Overwrite
    <3>2. \A l \in {"deleting", "gone"} : [srv EXCEPT !.life = l] \in XOCluster
      BY DEF XOCluster
    <3>3. \A a \in Addons, w \in Manifests \cup {Off} : [srv EXCEPT !.want[a] = w] \in XOCluster
      BY DEF XOCluster
    <3>4. \A e \in VIPs : [srv EXCEPT !.spec = e] \in XOCluster
      BY DEF XOCluster, Endpoints
    <3>5. QED
      BY <2>13, <3>1, <3>2, <3>3, <3>4, Zenon DEF UserDelete, EditAddons, EditEndpoint
  <2>14. CASE InformerSync \/ ClusterSync \/ Enqueue \/ OwnerChanges
    <3>a. CopiesOK'
      BY <2>14 DEF InformerSync, ClusterSync, Enqueue, OwnerChanges
    <3>b. FlagsOK'
      <4>1. CASE InformerSync
        BY <4>1 DEF InformerSync
      <4>2. CASE ClusterSync
        BY <4>2 DEF ClusterSync
      <4>3. CASE Enqueue
        BY <4>3 DEF Enqueue
      <4>4. CASE OwnerChanges
        BY <4>4 DEF OwnerChanges
      <4>5. QED
        BY <2>14, <4>1, <4>2, <4>3, <4>4, Zenon
    <3>c. OthersOK' /\ AtInv'
      <4>1. CASE InformerSync
        BY <4>1 DEF InformerSync
      <4>2. CASE ClusterSync
        BY <4>2 DEF ClusterSync
      <4>3. CASE Enqueue
        BY <4>3 DEF Enqueue
      <4>4. CASE OwnerChanges
        BY <4>4 DEF OwnerChanges
      <4>5. QED
        BY <2>14, <4>1, <4>2, <4>3, <4>4, Zenon
    <3>d. QED
      BY <3>a, <3>b, <3>c, Zenon
  <2>15. CASE MachineChanges \/ AddonCacheSync \/ CRSFinalized
    <3>a. CopiesOK' /\ FlagsOK'
      BY <2>15 DEF MachineChanges, AddonCacheSync, CRSFinalized, CRSStored
    <3>b. OthersOK' /\ AtInv'
      BY <2>15 DEF MachineChanges, AddonCacheSync, CRSFinalized, CRSStored
    <3>c. QED
      BY <3>a, <3>b
  <2>16. CASE Crash
    <3>a. CopiesOK' /\ FlagsOK'
      BY <2>16 DEF Crash
    <3>b. OthersOK' /\ AtInv'
      BY <2>16 DEF Crash
    <3>c. QED
      BY <3>a, <3>b
  <2>17. CASE UNCHANGED vars
    BY <2>17 DEF vars
  <2>18. QED
    BY <2>1, <2>2, <2>3, <2>4, <2>5, <2>7, <2>9, <2>10, <2>11, <2>12, <2>13, <2>14,
       <2>15, <2>16, <2>17 DEF Next, Worker, ReconcileAddons, Environment
<1>3. QED
  BY <1>1, <1>2, PTL DEF Spec

----------------------------------------------------------------------------
(* ConfigMap and ClusterResourceSet.                                       *)

\* What is known before each of the four calls: the addon to ensure is enabled,
\* its manifest is stored before the CRS is, and the CRS is removed before the
\* manifest is.
ManifestInv ==
    /\ cmCache = cm /\ crsCache = crs \cup leaving
    /\ pc = "ensureCM" => mem.want[Addon] # Off
    /\ pc = "ensureCRS" => cm[Addon] # Off
    /\ pc = "removeCM" => Addon \notin crs

\* The reconcile moves on to another addon, or ends.
LEMMA BeginManifest ==
    ASSUME OthersOK, AtInv, ManifestInv, NEW i \in Nat \ {0}, Begin(i),
           cmCache' = cm', crsCache' = crs' \cup leaving'
    PROVE  ManifestInv'
BY DEF Begin, Done, Drop, Goto, ManifestInv, Addon

\* ensureAddon and removeAddon keep every CRS next to the manifest it names,
\* for any number of addons, switches of them, failed calls and restarts, as
\* long as reads of ConfigMaps and CRSs show the latest writes.
THEOREM ManifestFirst == "lag" \notin Faults /\ Spec => []CRSHasManifest
<1> SUFFICES ASSUME "lag" \notin Faults PROVE Spec => []CRSHasManifest
  OBVIOUS
<1> DEFINE Inv == CRSHasManifest /\ ManifestInv
<1>1. Init => Inv
  BY DEF Init, CRSHasManifest, ManifestInv
<1>2. TypeOK /\ AtInv /\ Inv /\ [Next]_vars => Inv'
  <2> SUFFICES ASSUME CopiesOK, OthersOK, AtInv, CRSHasManifest, ManifestInv, [Next]_vars
               PROVE  CRSHasManifest' /\ ManifestInv'
    BY DEF TypeOK
  <2> USE DEF CRSHasManifest, Goto, Drop, Done, Retry, Failed, Proceed, objectVars,
              otherVars, addonVars, workerVars, CMStored, CRSStored
  <2>1. ASSUME pc \in AddonCalls
        PROVE  Addon \in Addons /\ at + 1 \in Nat \ {0} /\ (at' = at => Addon' = Addon)
    BY <2>1, AddonsIndexed DEF Addon, AtInv
  <2>2. ASSUME Failed PROVE CRSHasManifest' /\ ManifestInv'
    BY <2>2 DEF ManifestInv
  <2>3. CASE EnsureCM /\ ~Failed
    BY <2>1, <2>3 DEF EnsureCM, ManifestInv, AddonCalls, OthersOK
  <2>4. CASE EnsureCRS /\ ~Failed
    <3>1. CRSHasManifest'
      BY <2>1, <2>4 DEF EnsureCRS, ManifestInv, AddonCalls, OthersOK
    <3>2. CASE Begin(at + 1)
      BY <2>1, <2>4, <3>1, <3>2, BeginManifest DEF EnsureCRS, ManifestInv, AddonCalls
    <3>3. CASE Retry
      BY <2>4, <3>1, <3>3 DEF EnsureCRS, ManifestInv
    <3>4. QED
      BY <2>4, <3>2, <3>3 DEF EnsureCRS
  <2>5. CASE RemoveCRS /\ ~Failed
    BY <2>1, <2>5 DEF RemoveCRS, DeleteCRS, ManifestInv, AddonCalls, OthersOK
  <2>6. CASE RemoveCM /\ ~Failed
    <3>1. CRSHasManifest'
      BY <2>1, <2>6 DEF RemoveCM, ManifestInv, AddonCalls, OthersOK
    <3>2. CASE Begin(at + 1)
      BY <2>1, <2>6, <3>1, <3>2, BeginManifest DEF RemoveCM, ManifestInv, AddonCalls
    <3>3. CASE Retry
      BY <2>6, <3>1, <3>3 DEF RemoveCM, ManifestInv
    <3>4. QED
      BY <2>6, <3>2, <3>3 DEF RemoveCM
  <2>7. CASE ResolveCredentials /\ ~Failed
    BY <2>7, BeginManifest DEF ResolveCredentials, ManifestInv
  <2>8. CASE Reconcile \/ AddFinalizer \/ ReconcileDelete
    <3>1. CASE Reconcile /\ cache.life = "gone"
      BY <3>1 DEF Reconcile, ManifestInv, Addon
    <3>2. CASE Reconcile /\ cache.life # "gone"
      <4>1. pc' \in {"unfinalize", "finalizer", "owner"}
        BY <3>2 DEF Reconcile, CopiesOK, XOCluster
      <4>2. UNCHANGED addonVars
        BY <3>2 DEF Reconcile
      <4>3. QED
        BY <4>1, <4>2 DEF ManifestInv
    <3>3. CASE AddFinalizer
      BY <3>3 DEF AddFinalizer, Accept, ManifestInv
    <3>4. CASE ReconcileDelete
      BY <3>4 DEF ReconcileDelete, Accept, ManifestInv
    <3>5. QED
      BY <2>8, <3>1, <3>2, <3>3, <3>4
  <2>9. CASE GetOwnerCluster \/ EnsureClusterNameLabel \/ SetStatus
    BY <2>9 DEF GetOwnerCluster, EnsureClusterNameLabel, SetStatus, ManifestInv, Addon
  <2>10. CASE PatchStatus
    BY <2>10 DEF PatchStatus, RequeueForEndpoint, ManifestInv, Addon
  <2>11. CASE UserDelete \/ EditAddons \/ EditEndpoint
    <3>1. PICK obj : Overwrite(obj)
      BY <2>11 DEF UserDelete, EditAddons, EditEndpoint
    <3>2. QED
      BY <3>1 DEF Overwrite, ManifestInv, Addon
  <2>12. CASE InformerSync \/ ClusterSync \/ Enqueue \/ OwnerChanges \/ MachineChanges
    BY <2>12 DEF InformerSync, ClusterSync, Enqueue, OwnerChanges, MachineChanges, ManifestInv, Addon
  <2>13. CASE AddonCacheSync \/ CRSFinalized \/ Crash
    BY <2>13 DEF AddonCacheSync, CRSFinalized, CRSStored, Crash, ManifestInv, Addon
  <2>14. CASE UNCHANGED vars
    BY <2>14 DEF vars, ManifestInv, Addon
  <2>15. QED
    <3> HIDE DEF CRSHasManifest, Failed
    <3> QED
      BY <2>2, <2>3, <2>4, <2>5, <2>6, <2>7, <2>8, <2>9, <2>10, <2>11, <2>12, <2>13, <2>14,
         Zenon DEF Next, Worker, ReconcileAddons, Environment
<1>3. QED
  BY <1>1, <1>2, ClusterTypeCorrect, PTL DEF Spec

----------------------------------------------------------------------------
(* The published endpoint.                                                 *)

\* The stored object has an endpoint if the copy o has one, and is Ready if o is.
Ahead(o) == (o.ep # NoEp => srv.ep # NoEp) /\ (o.ready = "yes" => srv.ready = "yes")

\* No copy is ahead of the stored object, except the one that is about to be
\* patched in: that one has an endpoint and is Ready, or changes neither.
PublishInv ==
    /\ srv.ready = "yes" => srv.ep # NoEp
    /\ Ahead(cache) /\ Ahead(base)
    /\ pc # "patch" => Ahead(mem)
    /\ pc \in {"finalizer", "owner", "label", "endpoint"} =>
          mem.ep = base.ep /\ mem.ready = base.ready
    /\ pc = "patch" =>
          \/ mem.ep = NoEp /\ base.ep = NoEp /\ mem.ready = base.ready
          \/ mem.ep # NoEp /\ mem.ready = "yes" /\ base.ep \in {NoEp, mem.ep}
    /\ pc \in {"finalizer", "unfinalize"} /\ synced => mem = srv
    /\ fresh => cache = srv

Published == srv.ready = "yes" /\ srv.ep # NoEp
StaysPublished ==
    /\ srv.ep # NoEp => srv'.ep # NoEp
    /\ srv.ready = "yes" => srv'.ready = "yes"

LEMMA BlankAhead == Ahead(Blank)
BY DEF Ahead, Blank

\* What the status patch leaves in the API server.
LEMMA PatchPublishes ==
    ASSUME TypeOK, PublishInv, pc = "patch"
    PROVE  /\ Patched.life = srv.life /\ Patched.spec = srv.spec /\ Patched.want = srv.want
           /\ srv.ep # NoEp => Patched.ep # NoEp
           /\ srv.ready = "yes" => Patched.ready = "yes"
           /\ Patched.ready = "yes" => Patched.ep # NoEp
           /\ mem.ep # NoEp => Patched.ready = "yes"
<1>1. /\ Patched.life = srv.life /\ Patched.spec = srv.spec /\ Patched.want = srv.want
      /\ Patched.ep = IF mem.ep # base.ep THEN mem.ep ELSE srv.ep
      /\ Patched.ready = IF mem.ready # base.ready THEN mem.ready ELSE srv.ready
  BY DEF Patched, TypeOK, CopiesOK, XOCluster
<1>2. Ahead(base) /\ (srv.ready = "yes" => srv.ep # NoEp)
  BY DEF PublishInv
<1>3. CASE mem.ep = NoEp /\ base.ep = NoEp /\ mem.ready = base.ready
  BY <1>1, <1>2, <1>3
<1>4. CASE mem.ep # NoEp /\ mem.ready = "yes" /\ base.ep \in {NoEp, mem.ep}
  BY <1>1, <1>2, <1>4 DEF Ahead
<1>5. QED
  BY <1>3, <1>4 DEF PublishInv

\* A step that leaves the stored object or publishes more of it keeps every copy
\* behind it.
LEMMA StillAhead ==
    ASSUME StaysPublished, NEW o, Ahead(o)
    PROVE  (o.ep # NoEp => srv'.ep # NoEp) /\ (o.ready = "yes" => srv'.ready = "yes")
BY DEF StaysPublished, Ahead

\* A step that leaves the stored object alone, and the worker with its copies or
\* without any.
LEMMA QuietPublish ==
    ASSUME PublishInv, srv' = srv, cache' \in {cache, srv}, fresh' => cache' = srv,
           \/ Drop
           \/ UNCHANGED <<pc, mem, base, synced>>
           \/ /\ UNCHANGED <<mem, base>>
              /\ \/ pc \in {"owner", "label"} /\ pc' \in {"label", "endpoint"}
                 \/ pc \in AddonCalls \cup {"creds"} /\ pc' \in AddonCalls
    PROVE  StaysPublished /\ PublishInv'
<1>1. StaysPublished
  BY DEF StaysPublished
<1>2. Ahead(srv)
  BY DEF Ahead
<1>3. CASE Drop
  BY <1>2, <1>3, <1>1, BlankAhead DEF Drop, PublishInv, Ahead
<1>4. CASE ~Drop
  BY <1>1, <1>2, <1>4 DEF PublishInv, Ahead, AddonCalls
<1>5. QED
  BY <1>3, <1>4

LEMMA PublishStep ==
    ASSUME TypeOK, AtInv, PublishInv, [Next]_vars
    PROVE  StaysPublished /\ PublishInv'
<1> USE DEF Goto, Done, Retry, Proceed, objectVars, otherVars, addonVars, workerVars
<1>1. ASSUME Failed PROVE StaysPublished /\ PublishInv'
  BY <1>1, QuietPublish DEF Failed, PublishInv
<1>2. CASE Reconcile
  <2>1. CASE cache.life = "gone"
    BY <1>2, <2>1, QuietPublish DEF Reconcile, PublishInv
  <2>2. CASE cache.life # "gone"
    <3>1. pc' \in {"unfinalize", "finalizer", "owner"}
      BY <1>2, <2>2 DEF Reconcile, TypeOK, CopiesOK, XOCluster
    <3>2. /\ mem' = cache /\ base' = cache /\ synced' = fresh
          /\ UNCHANGED <<srv, cache, fresh>>
      BY <1>2, <2>2 DEF Reconcile
    <3>3. QED
      BY <3>1, <3>2 DEF PublishInv, Ahead, StaysPublished
  <2>3. QED
    BY <2>1, <2>2
<1>3. CASE (AddFinalizer \/ ReconcileDelete) /\ ~Failed
  <2>1. PICK l \in {"active", "gone"} : srv' = [mem EXCEPT !.life = l]
    BY <1>3 DEF AddFinalizer, ReconcileDelete, Accept
  <2>2. synced /\ fresh' = FALSE /\ cache' = cache /\ pc \in {"finalizer", "unfinalize"}
    BY <1>3 DEF AddFinalizer, ReconcileDelete, Accept
  <2>3. mem = srv
    BY <2>2 DEF PublishInv
  <2>4. srv'.ep = srv.ep /\ srv'.ready = srv.ready
    BY <2>1, <2>3 DEF TypeOK, CopiesOK, XOCluster
  <2>5. \/ Drop
        \/ mem' = srv' /\ base' = srv' /\ pc' = "owner"
    BY <1>3 DEF AddFinalizer, ReconcileDelete, Accept
  <2>6. CASE Drop
    BY <2>2, <2>4, <2>6, BlankAhead DEF Drop, PublishInv, Ahead, StaysPublished
  <2>7. CASE mem' = srv' /\ base' = srv' /\ pc' = "owner"
    BY <2>2, <2>4, <2>7 DEF PublishInv, Ahead, StaysPublished
  <2>8. QED
    BY <2>5, <2>6, <2>7
<1>4. CASE GetOwnerCluster /\ ~Failed
  BY <1>4, QuietPublish DEF GetOwnerCluster, PublishInv
<1>5. CASE EnsureClusterNameLabel /\ ~Failed
  BY <1>5, QuietPublish DEF EnsureClusterNameLabel, PublishInv
<1>6. CASE SetStatus /\ ~Failed
  <2>1. /\ UNCHANGED <<srv, cache, fresh, base>>
        /\ pc = "endpoint" /\ pc' = "patch"
    BY <1>6 DEF SetStatus
  <2>2. PICK e \in ControlPlaneEndpoint :
           mem' = IF e # NoEp
                  THEN [mem EXCEPT !.ep = e, !.ready = "yes", !.cond = "True"]
                  ELSE [mem EXCEPT !.cond = "False"]
    BY <1>6 DEF SetStatus
  <2>3. mem.ep # NoEp => e = mem.ep
    BY DEF ControlPlaneEndpoint, Discovered
  <2>4. CASE e # NoEp
    <3>1. mem'.ep = e /\ mem'.ready = "yes"
      BY <2>2, <2>4 DEF TypeOK, CopiesOK, XOCluster
    <3>2. QED
      BY <2>1, <2>3, <2>4, <3>1 DEF PublishInv, Ahead, StaysPublished
  <2>5. CASE e = NoEp
    <3>1. mem'.ep = mem.ep /\ mem'.ready = mem.ready
      BY <2>2, <2>5 DEF TypeOK, CopiesOK, XOCluster
    <3>2. QED
      BY <2>1, <2>3, <2>5, <3>1 DEF PublishInv, Ahead, StaysPublished
  <2>6. QED
    BY <2>4, <2>5
<1>7. CASE PatchStatus /\ ~Failed
  <2>1. pc = "patch" /\ srv' = Patched /\ cache' = cache /\ fresh' = (fresh /\ Patched = srv)
    BY <1>7 DEF PatchStatus
  <2>2. StaysPublished /\ (srv'.ready = "yes" => srv'.ep # NoEp)
    BY <2>1, PatchPublishes DEF StaysPublished
  <2>3. Drop \/ (mem' = srv' /\ base' = base /\ pc' = "creds")
    BY <1>7, <2>1 DEF PatchStatus, RequeueForEndpoint
  <2>4. fresh' => cache' = srv'
    BY <2>1 DEF PublishInv
  <2>5. CASE Drop
    BY <2>1, <2>2, <2>4, <2>5, BlankAhead DEF Drop, PublishInv, Ahead, StaysPublished
  <2>6. CASE mem' = srv' /\ base' = base /\ pc' = "creds"
    BY <2>1, <2>2, <2>4, <2>6 DEF PublishInv, Ahead, StaysPublished
  <2>7. QED
    BY <2>3, <2>5, <2>6
<1>8. ASSUME NEW j \in Nat \ {0}, Begin(j), pc \in AddonCalls \cup {"creds"},
             UNCHANGED <<srv, cache, fresh>>
      PROVE  StaysPublished /\ PublishInv'
  <2>1. Drop \/ (UNCHANGED <<mem, base>> /\ pc' \in AddonCalls)
    BY <1>8 DEF Begin, AddonCalls
  <2>2. QED
    BY <1>8, <2>1, QuietPublish DEF PublishInv
<1>9. CASE ResolveCredentials /\ ~Failed
  BY <1>8, <1>9 DEF ResolveCredentials
<1>10. ASSUME ReconcileAddons, ~Failed PROVE StaysPublished /\ PublishInv'
  <2>1. pc \in AddonCalls /\ UNCHANGED <<srv, cache, fresh>>
    BY <1>10 DEF ReconcileAddons, EnsureCM, EnsureCRS, RemoveCRS, DeleteCRS, RemoveCM, AddonCalls
  <2>2. at + 1 \in Nat \ {0}
    BY <2>1, AddonsIndexed DEF AtInv
  <2>3. CASE Begin(at + 1)
    BY <1>8, <2>1, <2>2, <2>3
  <2>4. CASE ~Begin(at + 1)
    <3>1. Drop \/ (UNCHANGED <<mem, base>> /\ pc' \in AddonCalls)
      BY <1>10, <2>4 DEF ReconcileAddons, EnsureCM, EnsureCRS, RemoveCRS, DeleteCRS, RemoveCM, AddonCalls
    <3>2. QED
      BY <2>1, <3>1, QuietPublish DEF PublishInv
  <2>5. QED
    BY <2>3, <2>4
<1>11. CASE UserDelete \/ EditAddons \/ EditEndpoint
  <2>1. PICK obj : /\ Overwrite(obj)
                   /\ obj.ep = srv.ep /\ obj.ready = srv.ready
    <3>1. CASE UserDelete
      BY <3>1 DEF UserDelete, TypeOK, CopiesOK, XOCluster
    <3>2. CASE EditAddons
      BY <3>2 DEF EditAddons, TypeOK, CopiesOK, XOCluster
    <3>3. CASE EditEndpoint
      BY <3>3 DEF EditEndpoint, TypeOK, CopiesOK, XOCluster
    <3>4. QED
      BY <1>11, <3>1, <3>2, <3>3
  <2>2. QED
    BY <2>1 DEF Overwrite, PublishInv, Ahead, StaysPublished
<1>12. CASE InformerSync \/ ClusterSync \/ Enqueue \/ OwnerChanges \/ MachineChanges
            \/ AddonCacheSync \/ CRSFinalized \/ Crash
  <2>1. srv' = srv /\ cache' \in {cache, srv} /\ (fresh' => cache' = srv)
    BY <1>12 DEF InformerSync, ClusterSync, Enqueue, OwnerChanges, MachineChanges,
                 AddonCacheSync, CRSFinalized, CRSStored, Crash, PublishInv
  <2>2. Drop \/ UNCHANGED <<pc, mem, base, synced>>
    BY <1>12 DEF InformerSync, ClusterSync, Enqueue, OwnerChanges, MachineChanges,
                 AddonCacheSync, CRSFinalized, CRSStored, Crash
  <2>3. QED
    BY <2>1, <2>2, QuietPublish
<1>13. CASE UNCHANGED vars
  BY <1>13, QuietPublish DEF vars, PublishInv
<1>14. QED
  <2> HIDE DEF StaysPublished, PublishInv, Failed
  <2> QED
    BY <1>1, <1>2, <1>3, <1>4, <1>5, <1>6, <1>7, <1>9, <1>10, <1>11, <1>12, <1>13, Zenon
       DEF Next, Worker, Environment

LEMMA PublishedInvariant == Spec => []PublishInv
<1>1. Init => PublishInv
  BY DEF Init, PublishInv, Ahead, Blank
<1>2. TypeOK /\ AtInv /\ PublishInv /\ [Next]_vars => PublishInv'
  BY PublishStep
<1>3. QED
  BY <1>1, <1>2, ClusterTypeCorrect, PTL DEF Spec

\* Status().Patch: whatever copy a reconcile starts from and whatever the patch
\* meets, a Ready XOCluster stays Ready and keeps an endpoint.
THEOREM ReadyXOClusterStays == Spec => ReadyStays
<1> DEFINE Stays == srv.ready = "yes" => srv'.ready = "yes" /\ srv'.ep # NoEp
<1>1. TypeOK /\ AtInv /\ PublishInv /\ [Next]_vars => [Stays]_vars
  BY PublishStep DEF StaysPublished, PublishInv
<1>2. QED
  BY <1>1, ClusterTypeCorrect, PublishedInvariant, PTL DEF Spec, ReadyStays

----------------------------------------------------------------------------
(* Endpoint and label before the addons, and whose endpoint it is.         *)

\* The label has been seen before the endpoint is looked for, the endpoint is
\* stored before the first addon is.
AddonsInv ==
    /\ ccluster = "labelled" => cluster = "labelled"
    /\ pc \in AddonCalls \cup {"endpoint", "patch", "creds"} => cluster = "labelled"
    /\ pc \in AddonCalls \cup {"creds"} => Published

\* ensureAddon runs last: with nobody removing the label, a ConfigMap or a CRS
\* is only ever there when the Cluster is labelled and the endpoint published,
\* for any number of addons and whatever the caches show.
THEOREM AddonsAreLast == "unlabel" \notin Faults /\ Spec => []AddonsComeLast
<1> SUFFICES ASSUME "unlabel" \notin Faults PROVE Spec => []AddonsComeLast
  OBVIOUS
<1> DEFINE Inv == AddonsComeLast /\ AddonsInv
<1>1. Init => Inv
  BY DEF Init, AddonsComeLast, AddonsInv, AddonCalls
<1>2. TypeOK /\ AtInv /\ PublishInv /\ Inv /\ [Next]_vars => Inv'
  <2> SUFFICES ASSUME TypeOK, AtInv, PublishInv, AddonsComeLast, AddonsInv, [Next]_vars
               PROVE  AddonsComeLast' /\ AddonsInv'
    OBVIOUS
  <2> USE DEF Goto, Drop, Done, Retry, Proceed, objectVars, otherVars, addonVars, workerVars
  <2>p. Published => Published'
    BY PublishStep DEF StaysPublished, PublishInv, Published
  <2>l. /\ cluster = "labelled" => cluster' = "labelled"
        /\ ccluster' \in {cluster, ccluster}
    <3>1. CASE Worker
      <4>1. CASE EnsureClusterNameLabel
        BY <4>1 DEF EnsureClusterNameLabel, Failed
      <4>2. CASE ReconcileAddons
        BY <4>2 DEF ReconcileAddons, EnsureCM, EnsureCRS, RemoveCRS, DeleteCRS, RemoveCM, Failed
      <4>3. CASE ~EnsureClusterNameLabel /\ ~ReconcileAddons
        BY <3>1, <4>3 DEF Worker, Reconcile, AddFinalizer, GetOwnerCluster, SetStatus, PatchStatus,
           ResolveCredentials, ReconcileDelete, Accept, Failed
      <4>4. QED
        BY <4>1, <4>2, <4>3
    <3>2. CASE Environment
      <4>1. CASE UserDelete \/ EditAddons \/ EditEndpoint
        BY <4>1 DEF UserDelete, EditAddons, EditEndpoint, Overwrite
      <4>2. CASE OwnerChanges
        BY <4>2 DEF OwnerChanges
      <4>3. CASE ~OwnerChanges /\ ~(UserDelete \/ EditAddons \/ EditEndpoint)
        BY <3>2, <4>3 DEF Environment, InformerSync, ClusterSync, Enqueue, MachineChanges,
           AddonCacheSync, CRSFinalized, CRSStored, Crash
      <4>4. QED
        BY <4>1, <4>2, <4>3
    <3>3. CASE UNCHANGED vars
      BY <3>3 DEF vars
    <3>4. QED
      BY <3>1, <3>2, <3>3 DEF Next
  \* What is stored for the addons changes only in their own steps.
  <2>a. (pc \in AddonCalls \/ UNCHANGED <<cm, crs>>)
    <3>1. CASE Worker
      BY <3>1 DEF Worker, Reconcile, AddFinalizer, GetOwnerCluster, EnsureClusterNameLabel,
         SetStatus, PatchStatus, ResolveCredentials, ReconcileDelete, ReconcileAddons, EnsureCM,
         EnsureCRS, RemoveCRS, DeleteCRS, RemoveCM, Accept, Failed, AddonCalls
    <3>2. CASE Environment
      <4>1. CASE UserDelete \/ EditAddons \/ EditEndpoint
        BY <4>1 DEF UserDelete, EditAddons, EditEndpoint, Overwrite
      <4>2. CASE ~(UserDelete \/ EditAddons \/ EditEndpoint)
        BY <3>2, <4>2 DEF Environment, InformerSync, ClusterSync, Enqueue, OwnerChanges,
           MachineChanges, AddonCacheSync, CRSFinalized, CRSStored, Crash
      <4>3. QED
        BY <4>1, <4>2
    <3>3. CASE UNCHANGED vars
      BY <3>3 DEF vars
    <3>4. QED
      BY <3>1, <3>2, <3>3 DEF Next
  <2>1. AddonsComeLast'
    <3>1. CASE pc \in AddonCalls
      BY <2>p, <2>l, <3>1 DEF AddonsInv, AddonsComeLast, Published
    <3>2. CASE pc \notin AddonCalls
      BY <2>p, <2>l, <2>a, <3>2 DEF AddonsComeLast, Published
    <3>3. QED
      BY <3>1, <3>2
  \* How the worker gets to the calls the invariant is about.
  <2>2. /\ pc' \in {"endpoint"} => pc' = pc \/ cluster' = "labelled"
        /\ pc' = "patch" => pc \in {"endpoint", "patch"}
        /\ pc' = "creds" => pc = "creds" \/ (pc = "patch" /\ mem.ep # NoEp /\ srv' = Patched)
        /\ pc' \in AddonCalls => pc \in AddonCalls \cup {"creds"}
    <3> USE DEF AddonCalls
    <3>1. CASE Failed \/ Crash
      BY <3>1 DEF Failed, Crash
    <3>2. CASE Reconcile
      <4>1. cache.life # "gone" => pc' \in {"unfinalize", "finalizer", "owner"}
        BY <3>2 DEF Reconcile, TypeOK, CopiesOK, XOCluster
      <4>2. cache.life = "gone" => pc' = pc
        BY <3>2 DEF Reconcile
      <4>3. QED
        BY <4>1, <4>2
    <3>3. CASE (AddFinalizer \/ ReconcileDelete) /\ ~Failed
      BY <3>3 DEF AddFinalizer, ReconcileDelete
    <3>4. CASE GetOwnerCluster /\ ~Failed
      BY <3>4, <2>l DEF GetOwnerCluster, AddonsInv
    <3>5. CASE EnsureClusterNameLabel /\ ~Failed
      BY <3>5 DEF EnsureClusterNameLabel
    <3>6. CASE SetStatus /\ ~Failed
      BY <3>6 DEF SetStatus
    <3>7. CASE PatchStatus /\ ~Failed
      BY <3>7 DEF PatchStatus, RequeueForEndpoint
    <3>8. CASE ResolveCredentials /\ ~Failed
      BY <3>8 DEF ResolveCredentials, Begin
    <3>9. CASE ReconcileAddons /\ ~Failed
      <4>1. pc \in AddonCalls
        BY <3>9 DEF ReconcileAddons, EnsureCM, EnsureCRS, RemoveCRS, DeleteCRS, RemoveCM
      <4>2. pc' \in AddonCalls \cup {"idle"}
        BY <3>9 DEF ReconcileAddons, EnsureCM, EnsureCRS, RemoveCRS, DeleteCRS, RemoveCM, Begin
      <4>3. QED
        BY <4>1, <4>2
    <3>10. CASE UserDelete \/ EditAddons \/ EditEndpoint
      BY <3>10 DEF UserDelete, EditAddons, EditEndpoint, Overwrite
    <3>11. CASE InformerSync \/ ClusterSync \/ Enqueue \/ OwnerChanges \/ MachineChanges
                \/ AddonCacheSync \/ CRSFinalized
      BY <3>11 DEF InformerSync, ClusterSync, Enqueue, OwnerChanges, MachineChanges, AddonCacheSync,
             CRSFinalized
    <3>12. CASE UNCHANGED vars
      BY <3>12 DEF vars
    <3>13. QED
      <4> HIDE DEF Failed, AddonCalls
      <4> QED
        BY <3>1, <3>2, <3>3, <3>4, <3>5, <3>6, <3>7, <3>8, <3>9, <3>10, <3>11, <3>12, Zenon
           DEF Next, Worker, Environment
  <2>3. AddonsInv'
    <3>1. (ccluster = "labelled" => cluster = "labelled")'
      BY <2>l DEF AddonsInv
    <3>2. (pc \in AddonCalls \cup {"endpoint", "patch", "creds"} => cluster = "labelled")'
      BY <2>l, <2>2 DEF AddonsInv, AddonCalls
    <3>3. (pc \in AddonCalls \cup {"creds"} => Published)'
      <4>1. CASE pc \in AddonCalls \cup {"creds"}
        BY <2>p, <4>1 DEF AddonsInv
      <4>2. CASE pc = "patch" /\ mem.ep # NoEp /\ srv' = Patched
        BY <4>2, PatchPublishes DEF Published
      <4>3. QED
        BY <2>2, <4>1, <4>2 DEF AddonCalls
    <3>4. QED
      BY <3>1, <3>2, <3>3 DEF AddonsInv
  <2>4. QED
    BY <2>1, <2>3
<1>3. QED
  BY <1>1, <1>2, ClusterTypeCorrect, PublishedInvariant, PTL DEF Spec

\* No copy carries another endpoint than the user's, if the user gave one.
Loyal(o) == srv.spec # NoEp => o.ep \in {NoEp, srv.spec}

UserInv ==
    /\ cache.spec = srv.spec
    /\ pc # "idle" => mem.spec = srv.spec
    /\ Loyal(srv) /\ Loyal(cache) /\ Loyal(mem)

LEMMA UserStep ==
    ASSUME "edit" \notin Faults, TypeOK, UserInv, [Next]_vars
    PROVE  srv'.spec = srv.spec /\ UserInv'
<1> USE DEF Goto, Drop, Done, Retry, Proceed, objectVars, otherVars, addonVars, workerVars
<1>b. Loyal(Blank)
  BY DEF Loyal, Blank
<1>d. ASSUME pc' = "idle" \/ pc # "idle", mem' \in {mem, Blank},
             mem' = mem \/ pc' = "idle", srv' = srv, cache' \in {cache, srv}
      PROVE  srv'.spec = srv.spec /\ UserInv'
  BY <1>b, <1>d DEF UserInv, Loyal
<1>1. CASE Failed
  BY <1>1, <1>d DEF Failed
<1>2. CASE Reconcile
  <2>1. CASE cache.life = "gone"
    BY <1>2, <2>1, <1>d DEF Reconcile
  <2>2. CASE cache.life # "gone"
    BY <1>2, <2>2 DEF Reconcile, UserInv, Loyal
  <2>3. QED
    BY <2>1, <2>2
<1>3. CASE (AddFinalizer \/ ReconcileDelete) /\ ~Failed
  <2>1. PICK l \in {"active", "gone"} : srv' = [mem EXCEPT !.life = l]
    BY <1>3 DEF AddFinalizer, ReconcileDelete, Accept
  <2>2. cache' = cache /\ pc # "idle"
    BY <1>3 DEF AddFinalizer, ReconcileDelete, Accept
  <2>3. srv'.ep = mem.ep /\ srv'.spec = mem.spec
    BY <2>1 DEF TypeOK, CopiesOK, XOCluster
  <2>4. mem' \in {srv', Blank} /\ (mem' = srv' \/ pc' = "idle")
    BY <1>3 DEF AddFinalizer, ReconcileDelete, Accept
  <2>5. QED
    BY <2>2, <2>3, <2>4, <1>b DEF UserInv, Loyal
<1>4. CASE GetOwnerCluster /\ ~Failed
  BY <1>4, <1>d DEF GetOwnerCluster
<1>5. CASE EnsureClusterNameLabel /\ ~Failed
  BY <1>5, <1>d DEF EnsureClusterNameLabel
<1>6. CASE SetStatus /\ ~Failed
  <2>1. srv' = srv /\ cache' = cache /\ pc = "endpoint"
    BY <1>6 DEF SetStatus
  <2>2. PICK e \in ControlPlaneEndpoint :
           mem' = IF e # NoEp
                  THEN [mem EXCEPT !.ep = e, !.ready = "yes", !.cond = "True"]
                  ELSE [mem EXCEPT !.cond = "False"]
    BY <1>6 DEF SetStatus
  <2>3. mem'.spec = mem.spec /\ mem'.ep \in {e, mem.ep}
    BY <2>2 DEF TypeOK, CopiesOK, XOCluster
  <2>4. srv.spec # NoEp => e \in {NoEp, srv.spec}
    BY <2>1 DEF ControlPlaneEndpoint, Discovered, UserInv, Loyal
  <2>5. QED
    BY <2>1, <2>3, <2>4 DEF UserInv, Loyal
<1>7. CASE PatchStatus /\ ~Failed
  <2>1. pc = "patch" /\ srv' = Patched /\ cache' = cache
    BY <1>7 DEF PatchStatus
  <2>2. srv'.spec = srv.spec /\ srv'.ep \in {mem.ep, srv.ep}
    BY <2>1 DEF Patched, TypeOK, CopiesOK, XOCluster
  <2>3. mem' \in {srv', Blank} /\ (mem' = srv' \/ pc' = "idle")
    BY <1>7, <2>1 DEF PatchStatus, RequeueForEndpoint
  <2>4. QED
    BY <2>1, <2>2, <2>3, <1>b DEF UserInv, Loyal
<1>8. CASE ResolveCredentials /\ ~Failed
  BY <1>8, <1>d DEF ResolveCredentials, Begin
<1>9. CASE ReconcileAddons /\ ~Failed
  <2>1. pc \in AddonCalls /\ srv' = srv /\ cache' = cache
    BY <1>9 DEF ReconcileAddons, EnsureCM, EnsureCRS, RemoveCRS, DeleteCRS, RemoveCM, AddonCalls
  <2>2. mem' \in {mem, Blank} /\ (mem' = mem \/ pc' = "idle")
    BY <1>9 DEF ReconcileAddons, EnsureCM, EnsureCRS, RemoveCRS, DeleteCRS, RemoveCM, Begin
  <2>3. QED
    BY <2>1, <2>2, <1>d DEF AddonCalls
<1>10. CASE UserDelete \/ EditAddons
  <2>1. PICK obj : Overwrite(obj) /\ obj.ep = srv.ep /\ obj.spec = srv.spec
    <3>1. CASE UserDelete
      BY <3>1 DEF UserDelete, TypeOK, CopiesOK, XOCluster
    <3>2. CASE EditAddons
      BY <3>2 DEF EditAddons, TypeOK, CopiesOK, XOCluster
    <3>3. QED
      BY <1>10, <3>1, <3>2
  <2>2. QED
    BY <2>1 DEF Overwrite, UserInv, Loyal
<1>11. CASE InformerSync \/ ClusterSync \/ Enqueue \/ OwnerChanges \/ MachineChanges
            \/ AddonCacheSync \/ CRSFinalized \/ Crash
  <2>1. srv' = srv /\ cache' \in {cache, srv}
    BY <1>11 DEF InformerSync, ClusterSync, Enqueue, OwnerChanges, MachineChanges,
                 AddonCacheSync, CRSFinalized, CRSStored, Crash
  <2>2. (mem' = Blank /\ pc' = "idle") \/ (mem' = mem /\ pc' = pc)
    BY <1>11 DEF InformerSync, ClusterSync, Enqueue, OwnerChanges, MachineChanges,
                 AddonCacheSync, CRSFinalized, CRSStored, Crash
  <2>3. QED
    BY <2>1, <2>2, <1>d
<1>12. CASE UNCHANGED vars
  BY <1>12, <1>d DEF vars
<1>13. ~EditEndpoint
  BY DEF EditEndpoint
<1>14. QED
  <2> HIDE DEF UserInv, Failed
  <2> QED
    BY <1>1, <1>2, <1>3, <1>4, <1>5, <1>6, <1>7, <1>8, <1>9, <1>10, <1>11, <1>12, <1>13, Zenon
       DEF Next, Worker, Environment

\* "Priority order" of reconcileNormal: an endpoint given at the
\* creation is the only one ever published, through stale copies and patches.
THEOREM UserWins == "edit" \notin Faults /\ Spec => UsersEndpointWins
<1> SUFFICES ASSUME "edit" \notin Faults PROVE Spec => UsersEndpointWins
  OBVIOUS
<1> DEFINE Wins == srv.spec # NoEp /\ srv.ep = NoEp => srv'.ep \in {NoEp, srv.spec}
<1>1. Init => UserInv
  BY DEF Init, UserInv, Loyal, Blank
<1>2. TypeOK /\ UserInv /\ [Next]_vars => UserInv'
  BY UserStep
<1>3. TypeOK /\ UserInv /\ [Next]_vars => [Wins]_vars
  BY UserStep DEF UserInv, Loyal
<1>4. QED
  BY <1>1, <1>2, <1>3, ClusterTypeCorrect, PTL DEF Spec, UsersEndpointWins

=============================================================================
