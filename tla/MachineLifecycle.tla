-------------------------- MODULE MachineLifecycle --------------------------
(***************************************************************************)
(* The life of an XOMachine, from the moment the object exists to the      *)
(* moment the API server lets it go, and of the virtual machines created   *)
(* for it in Xen Orchestra (XO).                                           *)
(*                                                                         *)
(* One worker reconciles one XOMachine at a time (the work queue hands a   *)
(* key to a single worker); workers of different machines interleave.      *)
(* Every call that leaves the process is a step of its own: a write to the *)
(* Kubernetes API, a call to XO.  Between two steps the informer cache may *)
(* catch up or lag, another client may write or delete the object, a VM    *)
(* may appear late, the process may crash.                                 *)
(*                                                                         *)
(* resourceVersion is kept without counters: "fresh" holds the machines    *)
(* whose cached copy is the server's current version, "synced" the ones    *)
(* whose worker holds the current version in memory.  A write is accepted  *)
(* exactly when the worker is synced, otherwise it is a Conflict.          *)
(***************************************************************************)
EXTENDS Naturals, FiniteSets

CONSTANTS
    Machines,   \* the XOMachine objects, each standing for its own UID
    Vms,        \* the identities XO can give to VMs
    Names,      \* the names the naming configuration can yield
    NoVm,       \* an unset providerID
    NoName,     \* an empty status.vmName
    Foreign,    \* the description of a VM no XOMachine created
    ForeignVms, \* the VMs that exist before the provider does anything
    Upgraded,   \* machines an earlier release may have left Ready
    Faults      \* which of AllFaults the environment may produce

AllFaults ==
    { "crash",    \* the controller process dies and restarts
      "touch",    \* another client updates the object
      "lookup",   \* the VM list used by the adoption lookup fails
      "late",     \* XO creates a VM after it has answered with an error
      "rename",   \* somebody renames a VM in XO
      "admin",    \* somebody deletes a VM in XO
      "nocreds" } \* no XO credentials are configured

ASSUME SentinelAssumption ==
    NoVm \notin Vms /\ NoName \notin Names /\ Foreign \notin Machines

ASSUME ScopeAssumption ==
    Upgraded \subseteq Machines /\ ForeignVms \subseteq Vms /\ Faults \subseteq AllFaults

VARIABLES
    srv,    \* the XOMachine the API server stores
    cache,  \* the copy the manager's informer cache holds
    fresh,  \* machines whose cached copy is the stored version
    queue,  \* the work queue
    pc,     \* the call the machine's worker is about to make
    mem,    \* the XOMachine the worker holds in memory
    synced, \* machines whose worker holds the stored version
    wvm,    \* the VM the worker has in hand
    vms     \* the VMs of Xen Orchestra

objectVars == <<srv, cache, fresh, queue>>
workerVars == <<pc, mem, synced, wvm>>
vars == <<srv, cache, fresh, queue, pc, mem, synced, wvm, vms>>

\* life: finalizer and deletionTimestamp together. An object without the
\* provider's finalizer is "new", with it "active"; a deleted object that still
\* carries it is "deleting"; without it nothing holds the object back: "gone".
XOMachine ==
    [ life    : {"new", "active", "deleting", "gone"},
      specPid : Vms \cup {NoVm},
      statPid : Vms \cup {NoVm},
      name    : Names \cup {NoName},
      ready   : {"no", "yes"},
      cond    : {"unset", "False", "True"} ]

VM == [ st     : {"free", "pending", "halted", "running", "destroyed"},
        marker : Machines \cup {Foreign},
        name   : Names \cup {NoName} ]

Calls ==
    { "idle", "finalizer", "finalizerGet", "finalizer2", "fast", "condTrue",
      "refresh", "prepare", "vipCond", "resolve", "lookup", "name", "find", "create",
      "relook", "saveSpec", "saveSpecGet", "saveSpec2", "saveStatus",
      "saveStatusGet", "saveStatus2", "start", "waitIP", "markReady",
      "condFalse", "delete", "teardown", "destroy", "unfinalize" }

Blank == [ life |-> "new", specPid |-> NoVm, statPid |-> NoVm, name |-> NoName,
           ready |-> "no", cond |-> "unset" ]

FreeVM == [ st |-> "free", marker |-> Foreign, name |-> NoName ]

\* The VMs that exist in XO and answer a lookup; a pending one will.
Visible(v) == vms[v].st \in {"halted", "running"}
Owned(m) == {v \in Vms : vms[v].marker = m}
LiveVMs(m) == {v \in Owned(m) : vms[v].st \in {"pending", "halted", "running"}}

----------------------------------------------------------------------------
(* Ends of a reconcile, reads through the cache, writes to the API server. *)

Goto(m, call) == pc' = [pc EXCEPT ![m] = call]

Drop(m) ==
    /\ Goto(m, "idle")
    /\ mem' = [mem EXCEPT ![m] = Blank]
    /\ wvm' = [wvm EXCEPT ![m] = NoVm]
    /\ synced' = synced \ {m}

\* ctrl.Result{}, nil: nothing happens to this machine before the next event.
Done(m) == Drop(m) /\ UNCHANGED queue

\* An error or RequeueAfter: the key goes back to the work queue.
Retry(m) == Drop(m) /\ queue' = queue \cup {m}

\* client.Get, served by the informer cache.
Read(m) ==
    /\ mem' = [mem EXCEPT ![m] = cache[m]]
    /\ synced' = IF m \in fresh THEN synced \cup {m} ELSE synced \ {m}

\* The API server accepts obj: only with the current resourceVersion.
Accept(m, obj) ==
    /\ m \in synced
    /\ srv' = [srv EXCEPT ![m] = obj]
    /\ fresh' = fresh \ {m}
    /\ UNCHANGED <<cache, vms>>

WriteOk(m, obj, next) ==
    /\ Accept(m, obj)
    /\ mem' = [mem EXCEPT ![m] = obj]
    /\ Goto(m, next)
    /\ UNCHANGED <<synced, wvm, queue>>

\* The write is stored and the answer is lost: the reconcile sees an error.
WriteLost(m, obj) == Accept(m, obj) /\ Retry(m)

\* An error that is not retried in place; also a Conflict or NotFound then.
WriteRefused(m) == Retry(m) /\ UNCHANGED <<srv, cache, fresh, vms>>

Write(m, obj, next) == WriteOk(m, obj, next) \/ WriteLost(m, obj) \/ WriteRefused(m)

\* A Conflict the code answers by reading the object again and writing once more.
WriteConflict(m, next) ==
    /\ m \notin synced
    /\ srv[m].life # "gone"
    /\ Goto(m, next)
    /\ UNCHANGED <<objectVars, mem, synced, wvm, vms>>

\* That second read: the cached copy may still be the old one, or be gone.
ReRead(m, next) ==
    \/ /\ cache[m].life = "gone"
       /\ WriteRefused(m)
    \/ /\ cache[m].life # "gone"
       /\ Read(m)
       /\ Goto(m, next)
       /\ UNCHANGED <<objectVars, wvm, vms>>

\* A step that changes nothing but what the worker does next.
Proceed(m, next) == Goto(m, next) /\ UNCHANGED <<objectVars, mem, synced, wvm, vms>>
Give(m, v, next) ==
    /\ wvm' = [wvm EXCEPT ![m] = v]
    /\ Goto(m, next)
    /\ UNCHANGED <<objectVars, mem, synced>>
Abandon(m) == WriteRefused(m)

----------------------------------------------------------------------------
(* Reconcile and the finalizer.                                            *)

Reconcile(m) ==
    /\ pc[m] = "idle"
    /\ m \in queue
    /\ queue' = queue \ {m}
    /\ IF cache[m].life = "gone"
       THEN UNCHANGED workerVars
       ELSE /\ Read(m)
            /\ Goto(m, CASE cache[m].life = "deleting" -> "delete"
                         [] cache[m].life = "new"      -> "finalizer"
                         [] cache[m].life = "active"   -> "fast")
            /\ UNCHANGED wvm
    /\ UNCHANGED <<srv, cache, fresh, vms>>

WithFinalizer(m) == [mem[m] EXCEPT !.life = "active"]

EnsureFinalizer(m) ==
    \/ /\ pc[m] = "finalizer"
       /\ \/ Write(m, WithFinalizer(m), "fast")
          \/ WriteConflict(m, "finalizerGet")
    \/ /\ pc[m] = "finalizerGet"
       /\ ReRead(m, IF cache[m].life = "new" THEN "finalizer2" ELSE "fast")
    \/ /\ pc[m] = "finalizer2"
       /\ Write(m, WithFinalizer(m), "fast")

----------------------------------------------------------------------------
(* A machine that already has its VM.                                      *)

TryFastPath(m) ==
    /\ pc[m] = "fast"
    /\ \/ /\ mem[m].statPid = NoVm
          /\ Proceed(m, "prepare")
       \/ /\ mem[m].statPid # NoVm
          /\ mem[m].ready = "yes"
          /\ Proceed(m, IF mem[m].cond = "True" THEN "refresh" ELSE "condTrue")
       \/ /\ mem[m].statPid # NoVm
          /\ mem[m].ready = "no"
          /\ \/ /\ Visible(mem[m].statPid)
                /\ Give(m, mem[m].statPid, "start")
                /\ UNCHANGED vms
             \/ Proceed(m, "prepare")

\* A Ready machine whose condition does not say so.
RepairCondition(m) ==
    /\ pc[m] = "condTrue"
    /\ Write(m, [mem[m] EXCEPT !.cond = "True"], "refresh")

\* The address XO reports is not the recorded one; no field kept here changes.
AddressRecorded(m) == Accept(m, mem[m])

\* Tags and address of a Ready machine: best effort, every outcome ends the
\* reconcile without a requeue. A changed address is one status write.
RefreshReadyMachine(m) ==
    /\ pc[m] = "refresh"
    /\ Done(m)
    /\ \/ AddressRecorded(m)
       \/ UNCHANGED <<srv, cache, fresh, vms>>

----------------------------------------------------------------------------
(* From bootstrap data to a VM in hand.                                    *)

\* Bootstrap data: not there yet (a requeue), or unreadable.
BootstrapMissing(m) == Abandon(m)

\* No XO client: credentials or connection failed, a condition; or none are
\* configured, and the reconcile ends.
ClientMissing(m) ==
    \/ Proceed(m, "condFalse")
    \/ "nocreds" \in Faults /\ Done(m) /\ UNCHANGED <<srv, cache, fresh, vms>>

\* The payload is built, built but for kube-vip, or a condition.
BuildPayload(m) == \E call \in {"resolve", "vipCond", "condFalse"} : Proceed(m, call)

Prepare(m) ==
    /\ pc[m] = "prepare"
    /\ BootstrapMissing(m) \/ ClientMissing(m) \/ BuildPayload(m)

\* InjectKubeVIP answers a failed injection with a condition; when the
\* condition is stored the payload goes on without kube-vip.
KubeVIPNotInjected(m) ==
    /\ pc[m] = "vipCond"
    /\ LET obj == [mem[m] EXCEPT !.cond = "False"]
       IN \/ WriteOk(m, obj, "resolve")
          \/ /\ Accept(m, obj)
             /\ Goto(m, "condFalse")
             /\ synced' = synced \ {m}
             /\ UNCHANGED <<mem, wvm, queue>>
          \/ Proceed(m, "condFalse")

\* The pool has not answered the claim, or the claim failed: a condition.
AddressMissing(m) == Proceed(m, "condFalse")

\* Template or pool not found: a condition.
ResolutionFailed(m) == Proceed(m, "condFalse")

\* IPAM address, template and pool; then the VM is looked up or created.
Resolve(m) ==
    /\ pc[m] = "resolve"
    /\ \/ AddressMissing(m)
       \/ ResolutionFailed(m)
       \/ Proceed(m, IF mem[m].statPid = NoVm THEN "name" ELSE "lookup")

LookupExistingVM(m) ==
    /\ pc[m] = "lookup"
    /\ \/ /\ Visible(mem[m].statPid)
          /\ Give(m, mem[m].statPid, "start")
          /\ UNCHANGED vms
       \/ Proceed(m, "condFalse")

\* Variant: the name is computed anew at every attempt.
ResolveVMNameEachTime(m) ==
    /\ pc[m] = "name"
    /\ \E n \in Names : Write(m, [mem[m] EXCEPT !.name = n], "find")

\* Variant: a name that could not be stored is used all the same.
ResolveVMNameUnstored(m) ==
    /\ pc[m] = "name"
    /\ \/ mem[m].name # NoName /\ Proceed(m, "find")
       \/ /\ mem[m].name = NoName
          /\ \E n \in Names :
                /\ mem' = [mem EXCEPT ![m].name = n]
                /\ Goto(m, "find")
                /\ UNCHANGED <<objectVars, synced, wvm, vms>>

\* The name is computed from a configuration that may change at any time,
\* and stored before the VM exists; a stored name is used as it is.
ResolveVMName(m) ==
    /\ pc[m] = "name"
    /\ \/ /\ mem[m].name # NoName
          /\ Proceed(m, "find")
       \/ /\ mem[m].name = NoName
          /\ \/ \E n \in Names : Write(m, [mem[m] EXCEPT !.name = n], "find")
             \/ Proceed(m, "condFalse")

\* Variant: a VM of that name is taken for ours.
AdoptableByName(m) == {v \in Vms : Visible(v) /\ vms[v].name = mem[m].name}

\* The name narrows the list, the marker decides.
AdoptableVMs(m) ==
    {v \in Vms : Visible(v) /\ vms[v].marker = m /\ vms[v].name = mem[m].name}

\* Variant: no lookup, the create is simply issued again.
NoAdoption(m, found, otherwise) == Proceed(m, otherwise)

FindAdoptableVM(m, found, otherwise) ==
    \/ /\ \E v \in AdoptableVMs(m) : Give(m, v, found)
       /\ UNCHANGED vms
    \/ /\ AdoptableVMs(m) = {} \/ "lookup" \in Faults
       /\ Proceed(m, otherwise)

\* The marker is part of the create call: no VM of ours is without it.
NewVM(m, v, state) ==
    /\ vms[v].st = "free"
    /\ vms' = [vms EXCEPT ![v] = [st |-> state, marker |-> m, name |-> mem[m].name]]

\* A memory quantity that cannot be parsed is a condition; otherwise adopt, or
\* create, or look once more for what a failed create left behind.
CreateVM(m) ==
    \/ /\ pc[m] = "find"
       /\ FindAdoptableVM(m, "saveSpec", "create") \/ Proceed(m, "condFalse")
    \/ /\ pc[m] = "create"
       /\ \/ \E v \in Vms : NewVM(m, v, "halted") /\ Give(m, v, "saveSpec")
          \/ /\ \E v \in Vms :
                   \/ NewVM(m, v, "halted")
                   \/ "late" \in Faults /\ NewVM(m, v, "pending")
             /\ Goto(m, "relook")
             /\ UNCHANGED <<objectVars, mem, synced, wvm>>
          \/ Proceed(m, "relook")
    \/ /\ pc[m] = "relook"
       /\ FindAdoptableVM(m, "saveSpec", "condFalse")

\* Variant: the status is written first.
StatusSavedFirst(m) == [mem[m] EXCEPT !.statPid = wvm[m]]

SpecSaved(m) == [mem[m] EXCEPT !.specPid = wvm[m]]

StatusSaved(m) == [mem[m] EXCEPT !.statPid = wvm[m]]

\* Variant: every machine is started and waited for.
WriteStatusPidAndWait(m) == Write(m, StatusSaved(m), "start")

\* A machine that turns out to be Ready needs no waiting: the reconcile ends.
WriteStatusPid(m) ==
    \/ /\ mem[m].ready = "no"
       /\ Write(m, StatusSaved(m), "start")
    \/ /\ mem[m].ready = "yes"
       /\ \/ Accept(m, StatusSaved(m)) /\ (Done(m) \/ Retry(m))
          \/ WriteRefused(m)

SaveProviderID(m) ==
    \/ /\ pc[m] = "saveSpec"
       /\ \/ Write(m, SpecSaved(m), "saveStatus")
          \/ WriteConflict(m, "saveSpecGet")
    \/ /\ pc[m] = "saveSpecGet"
       /\ ReRead(m, "saveSpec2")
    \/ /\ pc[m] = "saveSpec2"
       /\ Write(m, SpecSaved(m), "saveStatus")
    \/ /\ pc[m] = "saveStatus"
       /\ \/ WriteStatusPid(m)
          \/ WriteConflict(m, "saveStatusGet")
    \/ /\ pc[m] = "saveStatusGet"
       /\ ReRead(m, "saveStatus2")
    \/ /\ pc[m] = "saveStatus2"
       /\ WriteStatusPid(m)

----------------------------------------------------------------------------
(* From a VM in hand to a Ready machine.                                   *)

\* Variant: a VM that cannot be started is deleted, to be created anew.
StartOrDelete(m) ==
    /\ pc[m] = "start"
    /\ \/ /\ Visible(wvm[m])
          /\ \/ vms' = [vms EXCEPT ![wvm[m]].st = "running"] /\ Goto(m, "waitIP")
             \/ vms' = [vms EXCEPT ![wvm[m]].st = "destroyed"] /\ Goto(m, "condFalse")
          /\ UNCHANGED <<objectVars, mem, synced, wvm>>
       \/ Abandon(m)

\* The start task succeeded, or it did and the wait for it failed; an old API
\* answered without a task and the VM may not run yet; a failed start is a
\* condition; a failed re-read ends the reconcile with an error (the handler
\* panics and is recovered).
StartVM(m) ==
    /\ pc[m] = "start"
    /\ \/ /\ Visible(wvm[m])
          /\ vms' = [vms EXCEPT ![wvm[m]].st = "running"]
          /\ Goto(m, "waitIP") \/ Goto(m, "condFalse")
          /\ UNCHANGED <<objectVars, mem, synced, wvm>>
       \/ Visible(wvm[m]) /\ Proceed(m, "waitIP")
       \/ Proceed(m, "condFalse")
       \/ Abandon(m)

\* Only the tools in a running guest report an address.
AddressReported(m) == vms[wvm[m]].st = "running"

MadeReady(m) == [mem[m] EXCEPT !.ready = "yes", !.cond = "True"]

\* Variant: the machine is marked Ready without waiting for the guest.
MarkReadyAtOnce(m) ==
    \/ pc[m] = "waitIP" /\ Proceed(m, "markReady")
    \/ pc[m] = "markReady" /\ Accept(m, MadeReady(m)) /\ Done(m)

\* No address within the deadline, or a VIF that cannot be connected, is a
\* condition and a requeue.
WaitForVMReady(m) ==
    \/ /\ pc[m] = "waitIP"
       /\ \/ AddressReported(m) /\ Proceed(m, "markReady")
          \/ Proceed(m, "condFalse")
    \/ /\ pc[m] = "markReady"
       /\ \/ Accept(m, MadeReady(m)) /\ (Done(m) \/ Retry(m))
          \/ WriteRefused(m)

\* Variant: a failed reconcile returns no error once it reported the failure.
ReportWithoutRetry(m) ==
    /\ pc[m] = "condFalse"
    /\ Done(m)
    /\ \/ Accept(m, [mem[m] EXCEPT !.cond = "False"])
       \/ UNCHANGED <<srv, cache, fresh, vms>>

\* UpdateCondition(ConditionFalse, ...) on the way out of a failed reconcile.
ReportFailure(m) ==
    /\ pc[m] = "condFalse"
    /\ Retry(m)
    /\ \/ Accept(m, [mem[m] EXCEPT !.cond = "False"])
       \/ UNCHANGED <<srv, cache, fresh, vms>>

----------------------------------------------------------------------------
(* Deletion.                                                               *)

\* Variant: unreadable credentials end the reconcile without an error.
ReconcileDeleteSilently(m) ==
    /\ pc[m] = "delete"
    /\ \/ mem[m].statPid = NoVm /\ Proceed(m, "unfinalize")
       \/ mem[m].statPid # NoVm /\ Proceed(m, "teardown")
       \/ Done(m) /\ UNCHANGED <<srv, cache, fresh, vms>>

ReconcileDelete(m) ==
    /\ pc[m] = "delete"
    /\ \/ mem[m].statPid = NoVm /\ Proceed(m, "unfinalize")
       \/ mem[m].statPid # NoVm /\ (Proceed(m, "teardown") \/ Abandon(m))
       \/ "nocreds" \in Faults /\ Proceed(m, "unfinalize")

\* StopVMIfNotDetachable and DetachPersistentVolumes, see VMDeletion.
Teardown(m) ==
    /\ pc[m] = "teardown"
    /\ Proceed(m, "destroy") \/ Abandon(m)

\* HardShutdownVM, whose failure is ignored, then VM().Delete: done, done
\* with the answer lost, already gone (404), or failed.  The instance asked is
\* taken to be the right one here, and its answers true: see VMDeletion.
Destroy(m) ==
    LET v == mem[m].statPid IN
    /\ pc[m] = "destroy"
    /\ \/ /\ vms' = [vms EXCEPT ![v].st = "destroyed"]
          /\ Goto(m, "unfinalize")
          /\ UNCHANGED <<objectVars, mem, synced, wvm>>
       \/ /\ Visible(v)
          /\ \E s \in {"halted", "destroyed", vms[v].st} :
                vms' = [vms EXCEPT ![v].st = s]
          /\ Retry(m)
          /\ UNCHANGED <<srv, cache, fresh>>

\* Variant: the finalizer is removed by a patch without a resourceVersion.
PatchFinalizer(m) ==
    /\ pc[m] = "unfinalize"
    /\ srv' = [srv EXCEPT ![m].life = "gone"]
    /\ fresh' = fresh \ {m}
    /\ Done(m)
    /\ UNCHANGED <<cache, vms>>

\* The last finalizer goes and the API server drops the object.  NotFound is
\* success; a Conflict is an error like any other.
RemoveFinalizer(m) ==
    /\ pc[m] = "unfinalize"
    /\ \/ Accept(m, [mem[m] EXCEPT !.life = "gone"]) /\ (Done(m) \/ Retry(m))
       \/ WriteRefused(m)
       \/ /\ srv[m].life = "gone"
          /\ Done(m)
          /\ UNCHANGED <<srv, cache, fresh, vms>>

----------------------------------------------------------------------------
(* The API server's other clients, the informers, the process and XO.      *)

\* Another client's write: the stored version changes under every copy.
Overwrite(m, obj) ==
    /\ srv' = [srv EXCEPT ![m] = obj]
    /\ fresh' = fresh \ {m}
    /\ synced' = synced \ {m}
    /\ UNCHANGED <<cache, queue, pc, mem, wvm, vms>>

UserDelete(m) ==
    \/ /\ srv[m].life = "active"
       /\ Overwrite(m, [srv[m] EXCEPT !.life = "deleting"])
    \/ /\ srv[m].life = "new"
       /\ Overwrite(m, [srv[m] EXCEPT !.life = "gone"])

Touch(m) ==
    /\ "touch" \in Faults
    /\ srv[m].life # "gone"
    /\ Overwrite(m, srv[m])

\* The watch delivers the stored version, and the event queues the machine.
InformerSync(m) ==
    /\ m \notin fresh
    /\ cache' = [cache EXCEPT ![m] = srv[m]]
    /\ fresh' = fresh \cup {m}
    /\ queue' = queue \cup {m}
    /\ UNCHANGED <<srv, workerVars, vms>>

\* Machine and Secret events, and the periodic resync.
Enqueue(m) ==
    /\ m \notin queue
    /\ queue' = queue \cup {m}
    /\ UNCHANGED <<srv, cache, fresh, workerVars, vms>>

\* Every worker dies; the new process lists the objects and queues them all.
Crash ==
    /\ "crash" \in Faults
    /\ pc' = [m \in Machines |-> "idle"]
    /\ mem' = [m \in Machines |-> Blank]
    /\ wvm' = [m \in Machines |-> NoVm]
    /\ synced' = {}
    /\ cache' = srv
    /\ fresh' = Machines
    /\ queue' = Machines
    /\ UNCHANGED <<srv, vms>>

VMAppears(v) ==
    /\ vms[v].st = "pending"
    /\ vms' = [vms EXCEPT ![v].st = "halted"]
    /\ UNCHANGED <<objectVars, workerVars>>

VMRenamed(v) ==
    /\ "rename" \in Faults
    /\ Visible(v)
    /\ \E n \in Names : vms' = [vms EXCEPT ![v].name = n]
    /\ UNCHANGED <<objectVars, workerVars>>

VMRemovedInXO(v) ==
    /\ "admin" \in Faults
    /\ Visible(v)
    /\ vms' = [vms EXCEPT ![v].st = "destroyed"]
    /\ UNCHANGED <<objectVars, workerVars>>

----------------------------------------------------------------------------

\* An earlier release's machine: Ready, its condition not yet written.
UpgradedObject(v, n) ==
    [ life |-> "active", specPid |-> v, statPid |-> v, name |-> n,
      ready |-> "yes", cond |-> "unset" ]

\* The machines in old already have their VM home[m]; label names the VMs.
InitWith(old, home, label) ==
    /\ srv = [m \in Machines |-> IF m \in old THEN UpgradedObject(home[m], label[m]) ELSE Blank]
    /\ vms = [v \in Vms |->
                IF v \in ForeignVms
                THEN [st |-> "running", marker |-> Foreign, name |-> label[v]]
                ELSE IF \E m \in old : home[m] = v
                     THEN LET m == CHOOSE m \in old : home[m] = v
                          IN [st |-> "running", marker |-> m, name |-> label[m]]
                     ELSE FreeVM]
    /\ cache = srv
    /\ fresh = Machines
    /\ queue = Machines
    /\ pc = [m \in Machines |-> "idle"]
    /\ mem = [m \in Machines |-> Blank]
    /\ synced = {}
    /\ wvm = [m \in Machines |-> NoVm]

Init ==
    \E old \in SUBSET Upgraded :
    \E home \in [old -> Vms \ ForeignVms], label \in [old \cup ForeignVms -> Names] :
       /\ \A m, o \in old : home[m] = home[o] => m = o
       /\ InitWith(old, home, label)

Worker(m) ==
    \/ Reconcile(m) \/ EnsureFinalizer(m)
    \/ TryFastPath(m) \/ RepairCondition(m) \/ RefreshReadyMachine(m)
    \/ Prepare(m) \/ KubeVIPNotInjected(m) \/ Resolve(m) \/ LookupExistingVM(m)
    \/ ResolveVMName(m) \/ CreateVM(m) \/ SaveProviderID(m)
    \/ StartVM(m) \/ WaitForVMReady(m) \/ ReportFailure(m)
    \/ ReconcileDelete(m) \/ Teardown(m) \/ Destroy(m) \/ RemoveFinalizer(m)

Cluster(m) == UserDelete(m) \/ Touch(m) \/ InformerSync(m) \/ Enqueue(m)

XenOrchestra(v) == VMAppears(v) \/ VMRenamed(v) \/ VMRemovedInXO(v)

Next ==
    \/ \E m \in Machines : Worker(m) \/ Cluster(m)
    \/ \E v \in Vms : XenOrchestra(v)
    \/ Crash

Spec == Init /\ [][Next]_vars

\* A step of m's worker in which no call fails, except that a write from a
\* stale copy is refused.  The copy is at fault there, not the call.
NoCallFails(m) ==
    \/ pc'[m] = pc[m]
    \/ pc[m] \in {"idle", "condFalse", "refresh"}
    \/ pc'[m] \notin {"idle", "condFalse", "vipCond", "relook"}
       /\ (pc[m] = "start" => vms'[wvm[m]].st = "running")
    \/ pc'[m] = "idle" /\ srv'[m] # srv[m]
    \/ pc[m] \notin {"destroy", "teardown", "delete", "prepare", "resolve", "start"} /\ m \notin synced

\* Workers and watches keep going; some day calls stop failing and the other
\* clients stop updating the objects.  Nothing is assumed of the other triggers:
\* a machine that needs another reconcile must have queued it itself or have an
\* informer event coming.
Fairness ==
    /\ \A m \in Machines : WF_vars(Worker(m)) /\ WF_vars(InformerSync(m))
    /\ <>[][\A m \in Machines : NoCallFails(m) /\ ~Touch(m)]_vars

LiveSpec == Spec /\ Fairness

----------------------------------------------------------------------------
(* Properties.                                                             *)

\* Type correctness of every variable.
TypeOK ==
    /\ srv \in [Machines -> XOMachine]
    /\ cache \in [Machines -> XOMachine]
    /\ fresh \subseteq Machines
    /\ queue \subseteq Machines
    /\ pc \in [Machines -> Calls]
    /\ mem \in [Machines -> XOMachine]
    /\ synced \subseteq Machines
    /\ wvm \in [Machines -> Vms \cup {NoVm}]
    /\ vms \in [Vms -> VM]

\* CreateVM, findAdoptableVM: a VM a machine records was created for that very
\* machine, whatever other VMs carry the same name, whatever call failed and
\* however stale the copy the worker started from.  So no two machines share a
\* VM, and deletion never reaches a VM of somebody else.
RecordedVMIsOwn ==
    \A m \in Machines : \A v \in Vms :
       v \in {srv[m].specPid, srv[m].statPid} => vms[v].marker = m

\* CreateVM, resolveVMName: at any time a machine has at most one VM in XO,
\* counting one that has not appeared yet.
AtMostOneVM ==
    \A m \in Machines : \A v, w \in LiveVMs(m) : v = w

\* reconcileDelete, removeFinalizer: the API server lets a machine go only when
\* the VM status.providerID names is destroyed, although the decision is taken
\* on a copy that may be stale and the worker may have died half way.
RecordedVMDestroyed ==
    \A m \in Machines :
       srv[m].life = "gone" /\ srv[m].statPid # NoVm => vms[srv[m].statPid].st = "destroyed"

\* saveProviderID: status.providerID is never ahead of or different from
\* spec.providerID, which Cluster API reads.
StatusFollowsSpec ==
    \A m \in Machines : srv[m].statPid \in {NoVm, srv[m].specPid}

\* WaitForVMReady, reconcileExistingVM: a Ready machine has a recorded VM that
\* was started for it, unless somebody destroyed that VM in XO.  Whether it keeps
\* running is not asked: no step halts a VM that is not being deleted.
ReadyMachineRuns ==
    \A m \in Machines :
       srv[m].ready = "yes" /\ srv[m].life = "active" =>
          /\ srv[m].statPid # NoVm
          /\ vms[srv[m].statPid].st \in {"running", "destroyed"}

\* resolveVMName: the recorded name never changes, whatever becomes of the
\* naming configuration.
NameNeverChanges ==
    [][\A m \in Machines : srv[m].name # NoName => srv'[m].name = srv[m].name]_vars

\* saveProviderID: a recorded providerID is never replaced by another one.
ProviderIDNeverChanges ==
    [][\A m \in Machines :
          /\ srv[m].specPid # NoVm => srv'[m].specPid = srv[m].specPid
          /\ srv[m].statPid # NoVm => srv'[m].statPid = srv[m].statPid]_vars

\* tryFastPath, UpdateCondition: a Ready machine is never made unready, and no
\* late or stale failure report turns its condition False.
ReadyIsStable ==
    [][\A m \in Machines : srv[m].ready = "yes" =>
          /\ srv'[m].ready = "yes"
          /\ srv'[m].cond \in {srv[m].cond, "True"}]_vars

\* docs/concept/how-they-link.md, "Ownership and cleanup": the VMs of a machine
\* are removed before its object goes.
GoneLeavesNoVM ==
    \A m \in Machines : srv[m].life = "gone" => LiveVMs(m) = {}

\* reconcileNormal: a machine nobody deletes becomes Ready.
EventuallyReady ==
    \A m \in Machines :
       srv[m].life \in {"new", "active"} ~> srv[m].ready = "yes" \/ srv[m].life \in {"deleting", "gone"}

\* reconcileDelete: a deleted machine is let go.
EventuallyGone ==
    \A m \in Machines : srv[m].life = "deleting" ~> srv[m].life = "gone"

\* The whole of it, with VM lists that can be trusted: MachinePromise, where the
\* VMs made for a machine are those that carry its marker.
Promise == INSTANCE MachinePromise WITH
    phase <- [m \in Machines |-> IF srv[m].life \in {"new", "active"} THEN "wanted" ELSE srv[m].life],
    made  <- [m \in Machines |-> Owned(m)],
    alive <- [m \in Machines |-> LiveVMs(m)],
    told  <- [m \in Machines |-> srv[m].statPid],
    ready <- [m \in Machines |-> srv[m].ready]

\* reconcileNormal, reconcileDelete: the machine keeps the promise step by step.
KeepsPromise == Promise!Spec

=============================================================================
