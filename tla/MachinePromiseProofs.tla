------------------------ MODULE MachinePromiseProofs ------------------------
(***************************************************************************)
(* MachineLifecycle keeps MachinePromise, for any number of machines, VMs  *)
(* and names.  Two inductive invariants carry the argument: LifeOf says    *)
(* what each copy of an object tells of its life, whichever calls failed;  *)
(* RecordOf what it tells of its VM, when VM lists can be trusted.         *)
(***************************************************************************)
EXTENDS MachineLifecycleProofs

----------------------------------------------------------------------------
(* Where a worker is.                                                      *)

Finalizing == {"finalizer", "finalizerGet", "finalizer2"}
Deleting == {"delete", "teardown", "destroy", "unfinalize"}
Work == Calls \ (Finalizing \cup Deleting \cup {"idle"})

\* Every machine has its credentials, or the controller has.
Configured == "nocreds" \notin Faults

Destroyed(v) == vms[v].st = "destroyed"

\* What the copies of an object say of its life.  The cache lags, but a deletion
\* it has seen is real; a worker past the finalizer works for an object that
\* is still there; and a worker in deletion has seen it in the cache.
LifeOf(m) ==
    /\ srv[m].life = "new" => cache[m].life = "new" /\ srv[m].statPid = NoVm
    /\ cache[m].life = "active" => srv[m].life \in {"active", "deleting"}
    /\ cache[m].life = "deleting" => srv[m].life \in {"deleting", "gone"}
    /\ cache[m].life = "gone" => srv[m].life = "gone"
    /\ pc[m] \in {"finalizer", "finalizer2"} => mem[m].life = "new"
    /\ pc[m] \in Finalizing /\ cache[m].life = "deleting" => srv[m].life = "deleting"
    /\ pc[m] \in Work => srv[m].life \in {"active", "deleting"}
    /\ pc[m] \in Deleting => mem[m].life = "deleting" /\ cache[m].life \in {"deleting", "gone"}
    /\ pc[m] \in {"teardown", "destroy"} => mem[m].statPid # NoVm
    /\ pc[m] = "unfinalize" => mem[m].statPid = NoVm \/ Destroyed(mem[m].statPid)
    /\ srv[m].life = "gone" => srv[m].statPid = NoVm \/ Destroyed(srv[m].statPid)

LifeInv == \A m \in Machines : LifeOf(m)

\* VM lists can be trusted, and nobody deletes VMs behind the provider's back.
Reliable == Faults \cap {"lookup", "late", "rename", "admin", "nocreds"} = {}

Saving == {"saveStatus", "saveStatusGet", "saveStatus2"}
Running == {"start", "waitIP", "markReady"}
Handling == {"saveSpec", "saveSpecGet", "saveSpec2"} \cup Saving \cup Running

\* A machine has one VM in all its life, and none before the finalizer; once it
\* is destroyed, the worker and the cache know that the machine is being deleted.
VmOf(m) ==
    /\ srv[m].life = "new" => Owned(m) = {}
    /\ \A v, w \in Owned(m) : v = w
    /\ \A v \in Owned(m) : Destroyed(v) =>
          pc[m] \in Deleting \cup {"idle"} /\ cache[m].life \in {"deleting", "gone"}

\* So the copies of an object lag, but never contradict each other.
CopyOf(m) ==
    /\ srv[m].statPid \in {NoVm, srv[m].specPid}
    /\ \A o \in {cache[m], mem[m]} :
          o.specPid \in {NoVm, srv[m].specPid} /\ o.statPid \in {NoVm, srv[m].statPid}
    /\ srv[m].ready = "yes" => srv[m].statPid # NoVm

\* And the VM in the worker's hand is the one stored, once it is stored.
HandOf(m) ==
    /\ pc[m] = "lookup" => mem[m].statPid # NoVm
    /\ pc[m] \in Handling => wvm[m] # NoVm
    /\ pc[m] \in Saving \cup Running => srv[m].specPid = wvm[m]
    /\ pc[m] \in Running => srv[m].statPid = wvm[m]

RecordOf(m) == VmOf(m) /\ CopyOf(m) /\ HandOf(m)

RecordInv == \A m \in Machines : RecordOf(m)

----------------------------------------------------------------------------
(* What a machine's worker can do to what the copies say of its life.      *)

\* A destroyed VM stays destroyed.
DestroyedStay == \A v \in Vms \cup {NoVm} : v \in Vms /\ Destroyed(v) => Destroyed(v)'

\* Only the copies of one machine are touched, and its cached copy is not.
OnlyOf(m) ==
    /\ cache' = cache
    /\ \A k \in Machines \ {m} : srv'[k] = srv[k] /\ mem'[k] = mem[k] /\ pc'[k] = pc[k]

\* A call between the finalizer and the end of the reconcile.
WorkStep(m) ==
    /\ OnlyOf(m) /\ DestroyedStay
    /\ pc[m] \in Work /\ pc'[m] \in Work \cup {"idle"}
    /\ srv'[m] # srv[m] => m \in synced /\ srv'[m].life = mem[m].life

LEMMA QuietWork ==
    ASSUME TypeOK, NEW m \in Machines, NEW obj \in XOMachine, NEW next \in Work, pc[m] \in Work,
           obj.life = mem[m].life,
           \/ Write(m, obj, next)
           \/ Accept(m, obj) /\ (Done(m) \/ Retry(m))
    PROVE  WorkStep(m)
<1>1. (srv' = [srv EXCEPT ![m] = obj] /\ m \in synced) \/ srv' = srv
  BY DEF Write, WriteOk, WriteLost, WriteRefused, Accept
<1>2. vms' = vms /\ cache' = cache
  BY DEF Write, WriteOk, WriteLost, WriteRefused, Accept
<1>3. Goto(m, next) \/ Goto(m, "idle")
  BY DEF Write, WriteOk, WriteLost, WriteRefused, Done, Retry, Drop
<1>4. mem' = [mem EXCEPT ![m] = obj] \/ mem' = [mem EXCEPT ![m] = Blank]
  BY DEF Write, WriteOk, WriteLost, WriteRefused, Done, Retry, Drop
<1> QED
  BY <1>1, <1>2, <1>3, <1>4 DEF WorkStep, OnlyOf, DestroyedStay, Destroyed, Goto, TypeOK

LEMMA ReadWork ==
    ASSUME TypeOK, NEW m \in Machines, NEW next \in Work, pc[m] \in Work,
           \/ WriteRefused(m)
           \/ WriteConflict(m, next)
           \/ ReRead(m, next)
           \/ Proceed(m, next)
           \/ Done(m) /\ UNCHANGED <<srv, cache, fresh, vms>>
           \/ (\E v : Give(m, v, next)) /\ vms' = vms
    PROVE  WorkStep(m)
<1>1. srv' = srv /\ vms' = vms /\ cache' = cache
  BY DEF WriteRefused, WriteConflict, ReRead, Proceed, Give, objectVars
<1>2. Goto(m, next) \/ Goto(m, "idle")
  BY DEF WriteRefused, WriteConflict, ReRead, Proceed, Give, Done, Retry, Drop
<1>3. mem' = mem \/ mem' = [mem EXCEPT ![m] = Blank] \/ mem' = [mem EXCEPT ![m] = cache[m]]
  BY DEF WriteRefused, WriteConflict, ReRead, Proceed, Give, Done, Retry, Drop, Read
<1> QED
  BY <1>1, <1>2, <1>3 DEF WorkStep, OnlyOf, DestroyedStay, Destroyed, Goto, TypeOK

\* A create or a start: the VM it touches is no destroyed one.
LEMMA CallWork ==
    ASSUME TypeOK, NEW m \in Machines, NEW next \in Work, pc[m] \in Work, Goto(m, next),
           UNCHANGED <<objectVars, mem>>,
           NEW v \in Vms \cup {NoVm},
           \/ v \in Vms /\ \E st \in {"halted", "pending"} : NewVM(m, v, st)
           \/ Visible(v) /\ vms' = [vms EXCEPT ![v].st = "running"]
    PROVE  WorkStep(m)
<1>1. vms[v].st # "destroyed" \/ v \notin Vms
  BY DEF NewVM, Visible
<1>2. \A u \in Vms \ {v} : vms'[u] = vms[u]
  BY DEF NewVM, TypeOK
<1>3. DestroyedStay
  BY <1>1, <1>2 DEF DestroyedStay, Destroyed
<1> QED
  BY <1>3 DEF WorkStep, OnlyOf, Goto, TypeOK, objectVars

\* Every call of the worker between the finalizer and the end of the reconcile.
LEMMA WorkerInWork ==
    ASSUME TypeOK, NEW m \in Machines, Worker(m), pc[m] \in Work
    PROVE  WorkStep(m)
<1>w. /\ "fast" \in Work /\ "condTrue" \in Work /\ "refresh" \in Work /\ "prepare" \in Work /\ "vipCond" \in Work
      /\ "resolve" \in Work /\ "lookup" \in Work /\ "name" \in Work /\ "find" \in Work /\ "create" \in Work
      /\ "relook" \in Work /\ "saveSpec" \in Work /\ "saveSpecGet" \in Work /\ "saveSpec2" \in Work /\ "saveStatus" \in Work
      /\ "saveStatusGet" \in Work /\ "saveStatus2" \in Work /\ "start" \in Work /\ "waitIP" \in Work /\ "markReady" \in Work
      /\ "condFalse" \in Work
  BY DEF Work, Calls, Finalizing, Deleting
<1>m. mem[m] \in XOMachine /\ wvm[m] \in Vms \cup {NoVm} /\ mem[m].statPid \in Vms \cup {NoVm}
  BY DEF TypeOK, XOMachine
<1>1. CASE TryFastPath(m)
  BY <1>w, <1>1, ReadWork DEF TryFastPath
<1>2. CASE RepairCondition(m)
  BY <1>w, <1>2, WrittenObjects, QuietWork DEF RepairCondition
<1>3. CASE RefreshReadyMachine(m)
  BY <1>w, <1>3, <1>m, QuietWork, ReadWork DEF RefreshReadyMachine, AddressRecorded
<1>4. CASE Prepare(m) \/ Resolve(m)
  BY <1>w, <1>4, ReadWork DEF Prepare, Resolve, BootstrapMissing, ClientMissing, BuildPayload,
     AddressMissing, ResolutionFailed, Abandon
<1>5. CASE KubeVIPNotInjected(m)
  <2> DEFINE obj == [mem[m] EXCEPT !.cond = "False"]
  <2>o. obj \in XOMachine /\ obj.life = mem[m].life
    BY WrittenObjects
  <2>p. \/ WriteOk(m, obj, "resolve")
        \/ /\ Accept(m, obj)
           /\ Goto(m, "condFalse")
           /\ synced' = synced \ {m}
           /\ UNCHANGED <<mem, wvm, queue>>
        \/ Proceed(m, "condFalse")
    BY <1>5, Zenon DEF KubeVIPNotInjected
  <2> HIDE DEF obj
  <2>1. CASE WriteOk(m, obj, "resolve")
    BY <1>w, <1>5, <2>o, <2>1, QuietWork DEF KubeVIPNotInjected, Write
  <2>2. CASE /\ Accept(m, obj)
             /\ Goto(m, "condFalse")
             /\ synced' = synced \ {m}
             /\ UNCHANGED <<mem, wvm, queue>>
    BY <1>w, <1>5, <2>o, <2>2
       DEF KubeVIPNotInjected, Accept, Goto, WorkStep, OnlyOf, DestroyedStay, Destroyed, TypeOK
  <2>3. CASE Proceed(m, "condFalse")
    BY <1>w, <1>5, <2>3, ReadWork DEF KubeVIPNotInjected
  <2> QED
    BY <2>p, <2>1, <2>2, <2>3, Zenon
<1>6. CASE LookupExistingVM(m)
  BY <1>w, <1>6, ReadWork DEF LookupExistingVM
<1>7. CASE ResolveVMName(m)
  BY <1>w, <1>7, WrittenObjects, QuietWork, ReadWork DEF ResolveVMName
<1>8. CASE CreateVM(m)
  <2>1. ASSUME NEW otherwise \in {"create", "condFalse"}, FindAdoptableVM(m, "saveSpec", otherwise)
        PROVE  WorkStep(m)
    BY <1>w, <2>1, ReadWork DEF FindAdoptableVM
  <2>2. ASSUME NEW v \in Vms, NewVM(m, v, "halted"), Give(m, v, "saveSpec") PROVE WorkStep(m)
    BY <1>w, <2>2, CallWork DEF Give
  <2>c. ASSUME NEW v \in Vms, NewVM(m, v, "halted") \/ NewVM(m, v, "pending"), Goto(m, "relook"),
               UNCHANGED <<objectVars, mem>>
        PROVE  WorkStep(m)
    BY <1>w, <2>c, CallWork
  <2>3. ASSUME NEW next \in {"relook", "condFalse"}, Proceed(m, next) PROVE WorkStep(m)
    BY <1>w, <2>3, ReadWork
  <2>4. CASE pc[m] = "find"
    BY <1>8, <2>1, <2>3, <2>4 DEF CreateVM
  <2>5. CASE pc[m] = "create"
    <3>1. CASE \E v \in Vms : NewVM(m, v, "halted") /\ Give(m, v, "saveSpec")
      BY <3>1, <2>2
    <3>2. CASE /\ \E v \in Vms : NewVM(m, v, "halted") \/ NewVM(m, v, "pending")
               /\ Goto(m, "relook") /\ UNCHANGED <<objectVars, mem>>
      BY <3>2, <2>c
    <3> QED
      BY <1>8, <2>3, <2>5, <3>1, <3>2 DEF CreateVM
  <2>6. CASE pc[m] = "relook"
    BY <1>8, <2>1, <2>6 DEF CreateVM
  <2> QED
    BY <1>8, <2>4, <2>5, <2>6 DEF CreateVM
<1>9. CASE SaveProviderID(m)
  <2>1. ASSUME WriteStatusPid(m) PROVE WorkStep(m)
    BY <1>w, <2>1, <1>9, WrittenObjects, QuietWork, ReadWork DEF WriteStatusPid, SaveProviderID
  <2> QED
    BY <1>w, <1>9, <2>1, WrittenObjects, QuietWork, ReadWork DEF SaveProviderID
<1>10. CASE StartVM(m)
  <2>1. ASSUME NEW call \in {"waitIP", "condFalse"}, Goto(m, call), Visible(wvm[m]),
               vms' = [vms EXCEPT ![wvm[m]].st = "running"], UNCHANGED <<objectVars, mem>>
        PROVE  WorkStep(m)
    BY <1>w, <2>1, <1>10, <1>m, CallWork DEF StartVM
  <2> QED
    BY <1>w, <1>10, <2>1, ReadWork DEF StartVM, Abandon
<1>11. CASE WaitForVMReady(m)
  <2>1. MadeReady(m) \in XOMachine /\ MadeReady(m).life = mem[m].life
    BY <1>m DEF MadeReady, XOMachine
  <2> QED
    BY <1>w, <1>11, <2>1, QuietWork, ReadWork DEF WaitForVMReady
<1>12. CASE ReportFailure(m)
  BY <1>w, <1>12, WrittenObjects, QuietWork, ReadWork DEF ReportFailure, WriteRefused
<1>13. ~(Reconcile(m) \/ EnsureFinalizer(m) \/ ReconcileDelete(m) \/ Teardown(m) \/ Destroy(m)
          \/ RemoveFinalizer(m))
  BY DEF Reconcile, EnsureFinalizer, ReconcileDelete, Teardown, Destroy, RemoveFinalizer,
     Work, Finalizing, Deleting
<1> QED
  BY <1>1, <1>2, <1>3, <1>4, <1>5, <1>6, <1>7, <1>8, <1>9, <1>10, <1>11, <1>12, <1>13 DEF Worker

LEMMA OtherLife ==
    ASSUME TypeOK, LifeInv, NEW m \in Machines, OnlyOf(m), DestroyedStay,
           NEW k \in Machines \ {m}
    PROVE  LifeOf(k)'
<1>1. srv'[k] = srv[k] /\ mem'[k] = mem[k] /\ pc'[k] = pc[k] /\ cache'[k] = cache[k]
  BY DEF OnlyOf
<1>2. srv[k].statPid \in Vms \cup {NoVm} /\ mem[k].statPid \in Vms \cup {NoVm}
  BY DEF TypeOK, XOMachine
<1>3. LifeOf(k)
  BY DEF LifeInv
<1> QED
  BY <1>1, <1>2, <1>3 DEF LifeOf, DestroyedStay

\* Between the finalizer and the end of the reconcile.
LEMMA WorkLife ==
    ASSUME TypeOK, CopiesInv, LifeInv, NEW m \in Machines, WorkStep(m)
    PROVE  LifeOf(m)'
<1>1. LifeOf(m) /\ pc[m] \in Work /\ pc'[m] \in Work \cup {"idle"} /\ cache'[m] = cache[m]
  BY DEF LifeInv, WorkStep, OnlyOf
<1>2. srv[m].life \in {"active", "deleting"}
  BY <1>1 DEF LifeOf
<1>3. srv'[m].life = srv[m].life
  BY DEF WorkStep, CopiesInv
<1>4. pc'[m] \notin Finalizing /\ pc'[m] \notin Deleting /\ pc'[m] \notin {"finalizer", "finalizer2"}
      /\ pc'[m] \notin {"teardown", "destroy"} /\ pc'[m] # "unfinalize"
  BY <1>1 DEF Work, Finalizing, Deleting
<1> QED
  BY <1>1, <1>2, <1>3, <1>4 DEF LifeOf

\* The calls before it and those of a deletion.
LEMMA FinalizerLife ==
    ASSUME TypeOK, CopiesInv, LifeInv, NEW m \in Machines, EnsureFinalizer(m)
    PROVE  OnlyOf(m) /\ DestroyedStay /\ LifeOf(m)'
<1>1. LifeOf(m) /\ cache' = cache /\ vms' = vms
  BY DEF LifeInv, EnsureFinalizer, Write, WriteOk, WriteLost, WriteRefused, WriteConflict, ReRead,
     Accept, objectVars
<1>m. mem[m] \in XOMachine /\ srv[m] \in XOMachine /\ cache[m] \in XOMachine
  BY DEF TypeOK
<1>k. ASSUME cache[m].life = "deleting" \/ cache[m].life = "active",
             cache[m].life = "deleting" => srv[m].life = "deleting"
      PROVE  srv[m].life \in {"active", "deleting"}
  BY <1>1, <1>k DEF LifeOf
<1>2. CASE /\ pc[m] \in {"finalizer", "finalizer2"}
           /\ WriteOk(m, WithFinalizer(m), "fast") \/ WriteLost(m, WithFinalizer(m))
  <2>1. srv[m] = mem[m] /\ mem[m].life = "new" /\ cache[m].life = "new"
    BY <1>1, <1>2 DEF LifeOf, CopiesInv, WriteOk, WriteLost, Accept
  <2>2. srv' = [srv EXCEPT ![m] = WithFinalizer(m)] /\ WithFinalizer(m).life = "active"
    BY <1>2, <1>m DEF WithFinalizer, XOMachine, WriteOk, WriteLost, Accept
  <2>3. srv'[m].life = "active"
    BY <2>2 DEF TypeOK
  <2>4. Goto(m, "fast") \/ Goto(m, "idle")
    BY <1>2 DEF WriteOk, WriteLost, Retry, Drop
  <2>5. pc'[m] \in {"fast", "idle"}
    BY <2>4 DEF Goto, TypeOK
  <2>6. OnlyOf(m) /\ DestroyedStay
    BY <1>1, <1>2, <2>2, <2>4
       DEF OnlyOf, DestroyedStay, Destroyed, WriteOk, WriteLost, Retry, Drop, Goto, TypeOK
  <2> QED
    BY <1>1, <2>1, <2>3, <2>5, <2>6 DEF LifeOf, Work, Finalizing, Deleting
<1>3. CASE WriteRefused(m)
  <2>1. srv' = srv /\ pc'[m] = "idle"
    BY <1>3 DEF WriteRefused, Retry, Drop, Goto, TypeOK
  <2>2. OnlyOf(m) /\ DestroyedStay
    BY <1>1, <1>3, <2>1 DEF OnlyOf, DestroyedStay, Destroyed, WriteRefused, Retry, Drop, Goto, TypeOK
  <2> QED
    BY <1>1, <2>1, <2>2 DEF LifeOf, Destroyed, Work, Finalizing, Deleting
<1>4. CASE pc[m] = "finalizer" /\ WriteConflict(m, "finalizerGet")
  <2>1. srv' = srv /\ pc'[m] = "finalizerGet" /\ mem' = mem
    BY <1>4 DEF WriteConflict, Goto, TypeOK, objectVars
  <2>2. OnlyOf(m) /\ DestroyedStay
    BY <1>1, <1>4, <2>1 DEF OnlyOf, DestroyedStay, Destroyed, WriteConflict, Goto, TypeOK
  <2> QED
    BY <1>1, <1>4, <2>1, <2>2 DEF LifeOf, Destroyed, Work, Finalizing, Deleting
<1>5. CASE /\ pc[m] = "finalizerGet" /\ cache[m].life # "gone"
           /\ Read(m) /\ Goto(m, IF cache[m].life = "new" THEN "finalizer2" ELSE "fast")
           /\ UNCHANGED <<objectVars, wvm, vms>>
  <2>1. srv' = srv /\ mem'[m] = cache[m]
    BY <1>5 DEF Read, TypeOK, objectVars
  <2>2. pc'[m] = IF cache[m].life = "new" THEN "finalizer2" ELSE "fast"
    BY <1>5 DEF Goto, TypeOK
  <2>3. OnlyOf(m) /\ DestroyedStay
    BY <1>1, <1>5, <2>1 DEF OnlyOf, DestroyedStay, Destroyed, Read, Goto, TypeOK
  <2>4. cache[m].life = "deleting" => srv[m].life = "deleting"
    BY <1>1, <1>5 DEF LifeOf, Finalizing
  <2>5. CASE cache[m].life = "new"
    BY <1>1, <2>1, <2>2, <2>3, <2>4, <2>5 DEF LifeOf, Destroyed, Work, Finalizing, Deleting
  <2>6. CASE cache[m].life # "new"
    <3>1. srv[m].life \in {"active", "deleting"}
      BY <1>k, <1>m, <1>5, <2>4, <2>6 DEF XOMachine
    <3> QED
      BY <1>1, <2>1, <2>2, <2>3, <2>6, <3>1 DEF LifeOf, Destroyed, Work, Finalizing, Deleting
  <2> QED
    BY <2>5, <2>6
<1> QED
  BY <1>2, <1>3, <1>4, <1>5 DEF EnsureFinalizer, Write, ReRead

LEMMA ReconcileLife ==
    ASSUME TypeOK, LifeInv, NEW m \in Machines, Reconcile(m)
    PROVE  OnlyOf(m) /\ DestroyedStay /\ LifeOf(m)'
<1>1. LifeOf(m) /\ srv' = srv /\ cache' = cache /\ vms' = vms /\ pc[m] = "idle"
  BY DEF LifeInv, Reconcile
<1>2. OnlyOf(m) /\ DestroyedStay
  BY <1>1 DEF OnlyOf, DestroyedStay, Destroyed, Reconcile, Read, Goto, TypeOK, workerVars
<1>3. CASE cache[m].life = "gone"
  <2>1. pc'[m] = "idle"
    BY <1>1, <1>3 DEF Reconcile, workerVars
  <2> QED
    BY <1>1, <1>2, <1>3, <2>1 DEF LifeOf, Destroyed, Finalizing, Deleting, Work
<1>4. ASSUME cache[m].life # "gone" PROVE mem'[m] = cache[m]
  BY <1>4 DEF Reconcile, Read, TypeOK
<1>5. CASE cache[m].life = "deleting"
  <2>1. pc'[m] = "delete"
    BY <1>5 DEF Reconcile, Goto, TypeOK
  <2> QED
    BY <1>1, <1>2, <1>4, <1>5, <2>1 DEF LifeOf, Destroyed, Finalizing, Deleting, Work
<1>6. CASE cache[m].life = "new"
  <2>1. pc'[m] = "finalizer"
    BY <1>6 DEF Reconcile, Goto, TypeOK
  <2> QED
    BY <1>1, <1>2, <1>4, <1>6, <2>1 DEF LifeOf, Destroyed, Finalizing, Deleting, Work
<1>7. CASE cache[m].life = "active"
  <2>1. pc'[m] = "fast"
    BY <1>7 DEF Reconcile, Goto, TypeOK
  <2> QED
    BY <1>1, <1>2, <1>4, <1>7, <2>1 DEF LifeOf, Destroyed, Finalizing, Deleting, Work
<1> QED
  BY <1>2, <1>3, <1>5, <1>6, <1>7 DEF TypeOK, XOMachine

LEMMA DeletionLife ==
    ASSUME Configured, TypeOK, CopiesInv, LifeInv, NEW m \in Machines,
           ReconcileDelete(m) \/ Teardown(m) \/ Destroy(m) \/ RemoveFinalizer(m)
    PROVE  OnlyOf(m) /\ DestroyedStay /\ LifeOf(m)'
<1>1. LifeOf(m) /\ pc[m] \in Deleting /\ cache' = cache
  BY DEF LifeInv, Deleting, ReconcileDelete, Teardown, Destroy, RemoveFinalizer, Proceed, Abandon,
     WriteRefused, Accept, objectVars
<1>m. mem[m] \in XOMachine /\ srv[m] \in XOMachine /\ cache[m] \in XOMachine
  BY DEF TypeOK
<1>2. ASSUME srv' = srv, pc'[m] = "idle", DestroyedStay PROVE LifeOf(m)'
  BY <1>1, <1>2, <1>m DEF LifeOf, DestroyedStay, Work, Finalizing, Deleting, XOMachine
<1>3. ASSUME srv' = srv, mem' = mem, pc'[m] \in Deleting, DestroyedStay,
             pc'[m] \in {"teardown", "destroy"} => mem[m].statPid # NoVm,
             pc'[m] = "unfinalize" => mem[m].statPid = NoVm \/ Destroyed(mem[m].statPid)'
      PROVE  LifeOf(m)'
  BY <1>1, <1>3, <1>m DEF LifeOf, DestroyedStay, Work, Finalizing, Deleting, XOMachine
<1>4. ASSUME NEW next \in Deleting, Proceed(m, next),
             next \in {"teardown", "destroy"} => mem[m].statPid # NoVm,
             next = "unfinalize" => mem[m].statPid = NoVm
      PROVE  OnlyOf(m) /\ DestroyedStay /\ LifeOf(m)'
  <2>1. srv' = srv /\ mem' = mem /\ vms' = vms /\ pc'[m] = next
    BY <1>4 DEF Proceed, Goto, TypeOK, objectVars
  <2>2. OnlyOf(m) /\ DestroyedStay
    BY <1>1, <1>4, <2>1 DEF OnlyOf, DestroyedStay, Destroyed, Proceed, Goto, TypeOK
  <2> QED
    BY <1>3, <1>4, <2>1, <2>2
<1>5. ASSUME WriteRefused(m) PROVE OnlyOf(m) /\ DestroyedStay /\ LifeOf(m)'
  <2>1. srv' = srv /\ pc'[m] = "idle"
    BY <1>5 DEF WriteRefused, Retry, Drop, Goto, TypeOK
  <2>2. OnlyOf(m) /\ DestroyedStay
    BY <1>1, <1>5, <2>1 DEF OnlyOf, DestroyedStay, Destroyed, WriteRefused, Retry, Drop, Goto, TypeOK
  <2> QED
    BY <1>2, <2>1, <2>2
<1>6. CASE ReconcileDelete(m)
  BY <1>4, <1>5, <1>6 DEF ReconcileDelete, Abandon, Configured, Deleting
<1>7. CASE Teardown(m)
  BY <1>1, <1>4, <1>5, <1>7 DEF Teardown, Abandon, Deleting, LifeOf
<1>8. CASE Destroy(m)
  <2> DEFINE v == mem[m].statPid
  <2>1. pc[m] = "destroy" /\ v \in Vms
    BY <1>1, <1>8, <1>m DEF Destroy, LifeOf, XOMachine
  <2>2. CASE /\ vms' = [vms EXCEPT ![v].st = "destroyed"]
             /\ Goto(m, "unfinalize")
             /\ UNCHANGED <<objectVars, mem, synced, wvm>>
    <3>1. srv' = srv /\ mem' = mem /\ pc'[m] = "unfinalize"
      BY <2>2 DEF Goto, TypeOK, objectVars
    <3>2. Destroyed(v)' /\ DestroyedStay
      BY <2>1, <2>2, <3>1 DEF DestroyedStay, Destroyed, TypeOK, VM
    <3>3. OnlyOf(m)
      BY <1>1, <2>2, <3>1 DEF OnlyOf, Goto, TypeOK
    <3> QED
      BY <1>3, <3>1, <3>2, <3>3 DEF Deleting
  <2>3. CASE Visible(v) /\ (\E s \in {"halted", "destroyed", vms[v].st} : vms' = [vms EXCEPT ![v].st = s])
             /\ Retry(m) /\ UNCHANGED <<srv, cache, fresh>>
    <3>1. srv' = srv /\ pc'[m] = "idle"
      BY <2>3 DEF Retry, Drop, Goto, TypeOK
    <3>2. DestroyedStay
      <4>1. \A u \in Vms \ {v} : vms'[u] = vms[u]
        BY <2>3 DEF TypeOK
      <4> QED
        BY <2>3, <4>1 DEF DestroyedStay, Destroyed, Visible
    <3>3. OnlyOf(m)
      BY <1>1, <2>3, <3>1 DEF OnlyOf, Retry, Drop, Goto, TypeOK
    <3> QED
      BY <1>2, <3>1, <3>2, <3>3
  <2> QED
    BY <1>8, <2>2, <2>3 DEF Destroy
<1>9. CASE RemoveFinalizer(m)
  <2>1. CASE Accept(m, [mem[m] EXCEPT !.life = "gone"]) /\ (Done(m) \/ Retry(m))
    <3>1. srv[m] = mem[m] /\ srv' = [srv EXCEPT ![m] = [mem[m] EXCEPT !.life = "gone"]] /\ vms' = vms
      BY <2>1 DEF Accept, CopiesInv
    <3>2. srv'[m].life = "gone" /\ srv'[m].statPid = mem[m].statPid
      BY <3>1, <1>m DEF TypeOK, XOMachine
    <3>3. pc'[m] = "idle"
      BY <2>1 DEF Done, Retry, Drop, Goto, TypeOK
    <3>4. OnlyOf(m) /\ DestroyedStay
      BY <1>1, <2>1, <3>1 DEF OnlyOf, DestroyedStay, Destroyed, Done, Retry, Drop, Goto, TypeOK
    <3>5. mem[m].statPid = NoVm \/ Destroyed(mem[m].statPid)
      BY <1>1, <1>9 DEF RemoveFinalizer, LifeOf
    <3>6. cache'[m].life \in {"deleting", "gone"} /\ (srv'[m].statPid = NoVm \/ Destroyed(srv[m].statPid)')
      BY <1>1, <3>1, <3>2, <3>5 DEF LifeOf, Destroyed
    <3> QED
      BY <3>1, <3>2, <3>3, <3>4, <3>6 DEF LifeOf, Destroyed, Work, Finalizing, Deleting
  <2>2. CASE Done(m) /\ UNCHANGED <<srv, cache, fresh, vms>>
    <3>1. pc'[m] = "idle" /\ srv' = srv
      BY <2>2 DEF Done, Drop, Goto, TypeOK
    <3>2. OnlyOf(m) /\ DestroyedStay
      BY <1>1, <2>2, <3>1 DEF OnlyOf, DestroyedStay, Destroyed, Done, Drop, Goto, TypeOK
    <3> QED
      BY <1>2, <3>1, <3>2
  <2> QED
    BY <1>5, <1>9, <2>1, <2>2 DEF RemoveFinalizer
<1> QED
  BY <1>6, <1>7, <1>8, <1>9

LEMMA WorkerLife ==
    ASSUME Configured, TypeOK, CopiesInv, LifeInv, NEW m \in Machines, Worker(m)
    PROVE  LifeInv' /\ DestroyedStay /\ OnlyOf(m)
<1>1. LifeOf(m)' /\ OnlyOf(m) /\ DestroyedStay
  <2>1. CASE pc[m] \in Work
    BY <2>1, WorkerInWork, WorkLife DEF WorkStep
  <2>2. CASE pc[m] \notin Work
    <3>1. pc[m] \in Finalizing \cup Deleting \cup {"idle"}
      BY <2>2 DEF Work, TypeOK
    <3>2. \/ Reconcile(m) \/ EnsureFinalizer(m) \/ ReconcileDelete(m) \/ Teardown(m) \/ Destroy(m)
          \/ RemoveFinalizer(m)
      BY <3>1 DEF Worker, Finalizing, Deleting, TryFastPath, RepairCondition, RefreshReadyMachine,
         Prepare, KubeVIPNotInjected, Resolve, LookupExistingVM, ResolveVMName, CreateVM,
         SaveProviderID, StartVM, WaitForVMReady, ReportFailure
    <3> QED
      BY <3>2, ReconcileLife, FinalizerLife, DeletionLife
  <2> QED
    BY <2>1, <2>2
<1> QED
  BY <1>1, OtherLife DEF LifeInv

LEMMA EnvironmentLife ==
    ASSUME TypeOK, CopiesInv, LifeInv,
           \/ \E m \in Machines : Cluster(m)
           \/ \E v \in Vms : XenOrchestra(v)
           \/ Crash
    PROVE  LifeInv' /\ DestroyedStay
<1>0. \A k \in Machines : mem[k] \in XOMachine /\ srv[k] \in XOMachine /\ cache[k] \in XOMachine
  BY DEF TypeOK
<1>1. ASSUME NEW m \in Machines, UserDelete(m) \/ Touch(m) PROVE LifeInv' /\ DestroyedStay
  <2>1. PICK obj \in XOMachine : /\ Overwrite(m, obj)
                                 /\ obj.statPid = srv[m].statPid
                                 /\ \/ srv[m].life = "active" /\ obj.life = "deleting"
                                    \/ srv[m].life = "new" /\ obj.life = "gone"
                                    \/ obj.life = srv[m].life
    <3>1. \A l \in {"deleting", "gone"} : [srv[m] EXCEPT !.life = l] \in XOMachine
      BY <1>0, FieldTypes
    <3>2. \A l \in {"deleting", "gone"} :
             [srv[m] EXCEPT !.life = l].life = l /\ [srv[m] EXCEPT !.life = l].statPid = srv[m].statPid
      BY <1>0 DEF XOMachine
    <3>3. CASE Touch(m)
      BY <1>0, <3>3 DEF Touch
    <3>4. CASE srv[m].life = "active" /\ Overwrite(m, [srv[m] EXCEPT !.life = "deleting"])
      BY <3>1, <3>2, <3>4
    <3>5. CASE srv[m].life = "new" /\ Overwrite(m, [srv[m] EXCEPT !.life = "gone"])
      BY <3>1, <3>2, <3>5
    <3> QED
      BY <1>1, <3>3, <3>4, <3>5 DEF UserDelete
  <2>2. /\ \A k \in Machines \ {m} : srv'[k] = srv[k]
        /\ srv'[m] = obj
        /\ UNCHANGED <<cache, pc, mem, vms>>
    BY <2>1 DEF Overwrite, TypeOK
  <2>3. \A k \in Machines : LifeOf(k)
    BY DEF LifeInv
  <2>4. LifeOf(m)'
    BY <2>1, <2>2, <2>3 DEF LifeOf, Destroyed, Work, Finalizing, Deleting
  <2>5. \A k \in Machines \ {m} : LifeOf(k)'
    BY <2>2, <2>3 DEF LifeOf, Destroyed
  <2> QED
    BY <2>2, <2>4, <2>5 DEF LifeInv, DestroyedStay, Destroyed
<1>2. ASSUME NEW m \in Machines, InformerSync(m) \/ Enqueue(m) PROVE LifeInv' /\ DestroyedStay
  <2>1. /\ \A k \in Machines \ {m} : cache'[k] = cache[k]
        /\ cache'[m] \in {cache[m], srv[m]}
        /\ UNCHANGED <<srv, pc, mem, vms>>
    BY <1>2 DEF InformerSync, Enqueue, workerVars, TypeOK
  <2>2. \A k \in Machines : LifeOf(k)
    BY DEF LifeInv
  <2>3. LifeOf(m)'
    BY <1>0, <2>1, <2>2 DEF LifeOf, Destroyed, XOMachine
  <2>4. \A k \in Machines \ {m} : LifeOf(k)'
    BY <2>1, <2>2 DEF LifeOf, Destroyed
  <2> QED
    BY <2>1, <2>3, <2>4 DEF LifeInv, DestroyedStay, Destroyed
<1>3. ASSUME NEW v \in Vms, XenOrchestra(v) PROVE LifeInv' /\ DestroyedStay
  <2>1. UNCHANGED <<srv, cache, pc, mem>>
    BY <1>3 DEF XenOrchestra, VMAppears, VMRenamed, VMRemovedInXO, objectVars, workerVars
  <2>2. DestroyedStay
    <3>1. \A u \in Vms \ {v} : vms'[u] = vms[u]
      BY <1>3 DEF XenOrchestra, VMAppears, VMRenamed, VMRemovedInXO, TypeOK
    <3>2. vms[v].st # "destroyed"
      BY <1>3 DEF XenOrchestra, VMAppears, VMRenamed, VMRemovedInXO, Visible
    <3> QED
      BY <3>1, <3>2 DEF DestroyedStay, Destroyed
  <2>3. ASSUME NEW k \in Machines PROVE LifeOf(k)'
    <3>1. LifeOf(k) /\ srv[k].statPid \in Vms \cup {NoVm} /\ mem[k].statPid \in Vms \cup {NoVm}
      BY <1>0 DEF LifeInv, XOMachine
    <3> QED
      BY <2>1, <2>2, <3>1 DEF LifeOf, DestroyedStay
  <2> QED
    BY <2>2, <2>3 DEF LifeInv
<1>4. ASSUME Crash PROVE LifeInv' /\ DestroyedStay
  BY <1>0, <1>4 DEF LifeInv, LifeOf, DestroyedStay, Destroyed, Crash, Work, Finalizing, Deleting, XOMachine
<1> QED
  BY <1>1, <1>2, <1>3, <1>4 DEF Cluster

LEMMA InitLife == Init => LifeInv
<1> SUFFICES ASSUME Init, NEW m \in Machines PROVE LifeOf(m)
  BY DEF LifeInv
<1>1. cache = srv /\ pc[m] = "idle" /\ srv[m].life \in {"new", "active"}
  BY DEF Init, InitWith, Blank, UpgradedObject
<1>2. srv[m].life = "new" => srv[m].statPid = NoVm
  BY DEF Init, InitWith, Blank, UpgradedObject
<1> QED
  BY <1>1, <1>2 DEF LifeOf, Work, Finalizing, Deleting

LEMMA LifeInvariant == Configured /\ Spec => []LifeInv
<1> SUFFICES ASSUME Configured PROVE Spec => []LifeInv
  OBVIOUS
<1>1. TypeOK /\ CopiesInv /\ LifeInv /\ [Next]_vars => LifeInv'
  <2> SUFFICES ASSUME TypeOK, CopiesInv, LifeInv, [Next]_vars PROVE LifeInv'
    OBVIOUS
  <2>1. CASE UNCHANGED vars
    BY <2>1 DEF LifeInv, LifeOf, Destroyed, vars
  <2> QED
    BY <2>1, WorkerLife, EnvironmentLife DEF Next
<1> QED
  BY <1>1, InitLife, TypeCorrect, CopiesInvariant, PTL DEF Spec

\* reconcileDelete, removeFinalizer: under every other fault a machine goes only
\* when the VM its status names is destroyed: the deletion the worker has seen
\* is real, and the finalizer goes only from the copy it decided on.
THEOREM RecordedDestroyed == Configured /\ Spec => []RecordedVMDestroyed
<1>1. LifeInv => RecordedVMDestroyed
  BY DEF LifeInv, LifeOf, RecordedVMDestroyed, Destroyed
<1> QED
  BY <1>1, LifeInvariant, PTL

----------------------------------------------------------------------------
(* What a machine's worker can do to what the copies say of its VM.        *)

\* Which providerIDs a step writes.
PidStep(m) ==
    \/ srv' = srv
    \/ \E obj \in XOMachine :
          /\ m \in synced /\ srv' = [srv EXCEPT ![m] = obj]
          /\ obj.specPid = mem[m].specPid \/ (pc[m] \in {"saveSpec", "saveSpec2"} /\ obj.specPid = wvm[m])
          /\ obj.statPid = mem[m].statPid \/ (pc[m] \in {"saveStatus", "saveStatus2"} /\ obj.statPid = wvm[m])
          /\ obj.ready = mem[m].ready \/ (pc[m] = "markReady" /\ obj.ready = "yes")

LEMMA WritePids ==
    ASSUME NEW m \in Machines, NEW obj \in XOMachine, NEW next,
           Write(m, obj, next) \/ Accept(m, obj),
           obj.specPid = mem[m].specPid \/ (pc[m] \in {"saveSpec", "saveSpec2"} /\ obj.specPid = wvm[m]),
           obj.statPid = mem[m].statPid \/ (pc[m] \in {"saveStatus", "saveStatus2"} /\ obj.statPid = wvm[m]),
           obj.ready = mem[m].ready \/ (pc[m] = "markReady" /\ obj.ready = "yes")
    PROVE  PidStep(m)
BY DEF Write, WriteOk, WriteLost, WriteRefused, Accept, PidStep

LEMMA ReadPids ==
    ASSUME NEW m \in Machines, NEW next,
           \/ WriteRefused(m)
           \/ WriteConflict(m, next)
           \/ ReRead(m, next)
           \/ Proceed(m, next)
           \/ UNCHANGED <<srv, cache, fresh, vms>>
           \/ \E v : Give(m, v, next)
           \/ UNCHANGED <<objectVars, mem, synced, wvm>>
    PROVE  PidStep(m)
BY DEF WriteRefused, WriteConflict, ReRead, Proceed, Give, PidStep, objectVars

\* The objects the worker writes, but for the providerIDs.
LEMMA KeptPids ==
    ASSUME TypeOK, NEW m \in Machines
    PROVE  /\ \A c \in {"False", "True"} :
                 /\ [mem[m] EXCEPT !.cond = c] \in XOMachine
                 /\ [mem[m] EXCEPT !.cond = c].specPid = mem[m].specPid
                 /\ [mem[m] EXCEPT !.cond = c].statPid = mem[m].statPid
                 /\ [mem[m] EXCEPT !.cond = c].ready = mem[m].ready
           /\ \A l \in {"active", "gone"} :
                 /\ [mem[m] EXCEPT !.life = l] \in XOMachine
                 /\ [mem[m] EXCEPT !.life = l].specPid = mem[m].specPid
                 /\ [mem[m] EXCEPT !.life = l].statPid = mem[m].statPid
                 /\ [mem[m] EXCEPT !.life = l].ready = mem[m].ready
           /\ \A n \in Names :
                 /\ [mem[m] EXCEPT !.name = n] \in XOMachine
                 /\ [mem[m] EXCEPT !.name = n].specPid = mem[m].specPid
                 /\ [mem[m] EXCEPT !.name = n].statPid = mem[m].statPid
                 /\ [mem[m] EXCEPT !.name = n].ready = mem[m].ready
<1>1. mem[m] \in XOMachine
  BY DEF TypeOK
<1>2. \A c \in {"False", "True"} :
         /\ [mem[m] EXCEPT !.cond = c] \in XOMachine
         /\ [mem[m] EXCEPT !.cond = c].specPid = mem[m].specPid
         /\ [mem[m] EXCEPT !.cond = c].statPid = mem[m].statPid
         /\ [mem[m] EXCEPT !.cond = c].ready = mem[m].ready
  BY <1>1 DEF XOMachine
<1>3. \A l \in {"active", "gone"} :
         /\ [mem[m] EXCEPT !.life = l] \in XOMachine
         /\ [mem[m] EXCEPT !.life = l].specPid = mem[m].specPid
         /\ [mem[m] EXCEPT !.life = l].statPid = mem[m].statPid
         /\ [mem[m] EXCEPT !.life = l].ready = mem[m].ready
  BY <1>1 DEF XOMachine
<1>4. \A n \in Names :
         /\ [mem[m] EXCEPT !.name = n] \in XOMachine
         /\ [mem[m] EXCEPT !.name = n].specPid = mem[m].specPid
         /\ [mem[m] EXCEPT !.name = n].statPid = mem[m].statPid
         /\ [mem[m] EXCEPT !.name = n].ready = mem[m].ready
  BY <1>1 DEF XOMachine
<1> QED
  BY <1>2, <1>3, <1>4

\* spec.providerID is written by the first half of saveProviderID only,
\* status.providerID by the second, ready by WaitForVMReady.
LEMMA WorkerPids ==
    ASSUME TypeOK, NEW m \in Machines, Worker(m)
    PROVE  PidStep(m)
<1>m. mem[m] \in XOMachine /\ wvm[m] \in Vms \cup {NoVm}
  BY DEF TypeOK
<1>1. CASE Reconcile(m) \/ TryFastPath(m) \/ LookupExistingVM(m) \/ StartVM(m)
  BY <1>1, ReadPids DEF Reconcile, TryFastPath, LookupExistingVM, StartVM, Abandon
<1>2. CASE EnsureFinalizer(m)
  BY <1>2, KeptPids, WritePids, ReadPids DEF EnsureFinalizer, WithFinalizer
<1>3. CASE RepairCondition(m)
  BY <1>3, KeptPids, WritePids DEF RepairCondition
<1>4. CASE RefreshReadyMachine(m)
  BY <1>4, <1>m, WritePids, ReadPids DEF RefreshReadyMachine, AddressRecorded
<1>5. CASE Prepare(m) \/ Resolve(m) \/ ReconcileDelete(m) \/ Teardown(m)
  BY <1>5, ReadPids DEF Prepare, Resolve, ReconcileDelete, Teardown, BootstrapMissing, ClientMissing,
     BuildPayload, AddressMissing, ResolutionFailed, Abandon
<1>6. CASE KubeVIPNotInjected(m)
  <2> DEFINE obj == [mem[m] EXCEPT !.cond = "False"]
  <2>1. Accept(m, obj) \/ Proceed(m, "condFalse")
    BY <1>6, Zenon DEF KubeVIPNotInjected, WriteOk
  <2> QED
    BY <2>1, KeptPids, WritePids, ReadPids
<1>7. CASE ResolveVMName(m)
  BY <1>7, KeptPids, WritePids, ReadPids DEF ResolveVMName
<1>8. CASE CreateVM(m)
  BY <1>8, ReadPids DEF CreateVM, FindAdoptableVM
<1>9. CASE SaveProviderID(m)
  <2>1. /\ SpecSaved(m) \in XOMachine /\ SpecSaved(m).specPid = wvm[m]
        /\ SpecSaved(m).statPid = mem[m].statPid /\ SpecSaved(m).ready = mem[m].ready
    BY <1>m DEF SpecSaved, XOMachine
  <2>2. /\ StatusSaved(m) \in XOMachine /\ StatusSaved(m).specPid = mem[m].specPid
        /\ StatusSaved(m).statPid = wvm[m] /\ StatusSaved(m).ready = mem[m].ready
    BY <1>m DEF StatusSaved, XOMachine
  <2>3. ASSUME pc[m] \in {"saveStatus", "saveStatus2"}, WriteStatusPid(m) PROVE PidStep(m)
    BY <2>2, <2>3, WritePids, ReadPids DEF WriteStatusPid
  <2> QED
    BY <1>9, <2>1, <2>3, WritePids, ReadPids DEF SaveProviderID
<1>10. CASE WaitForVMReady(m)
  <2>1. /\ MadeReady(m) \in XOMachine /\ MadeReady(m).specPid = mem[m].specPid
        /\ MadeReady(m).statPid = mem[m].statPid /\ MadeReady(m).ready = "yes"
    BY <1>m DEF MadeReady, XOMachine
  <2> QED
    BY <1>10, <2>1, WritePids, ReadPids DEF WaitForVMReady
<1>11. CASE ReportFailure(m)
  BY <1>11, KeptPids, WritePids, ReadPids DEF ReportFailure
<1>12. CASE Destroy(m)
  BY <1>12 DEF Destroy, PidStep, objectVars
<1>13. CASE RemoveFinalizer(m)
  BY <1>13, KeptPids, WritePids, ReadPids DEF RemoveFinalizer
<1> QED
  BY <1>1, <1>2, <1>3, <1>4, <1>5, <1>6, <1>7, <1>8, <1>9, <1>10, <1>11, <1>12, <1>13 DEF Worker

\* How a worker comes to have a VM in hand.
HandStep(m) ==
    /\ \A k \in Machines \ {m} : wvm'[k] = wvm[k]
    /\ pc'[m] = "lookup" => mem'[m] = mem[m] /\ mem[m].statPid # NoVm
    /\ pc'[m] \in {"saveSpec", "saveSpecGet", "saveSpec2"} =>
          \/ pc[m] \in {"find", "create", "relook"} /\ wvm'[m] \in Vms
          \/ pc[m] \in {"saveSpec", "saveSpecGet", "saveSpec2"} /\ wvm' = wvm
    /\ pc'[m] \in Saving =>
          /\ wvm' = wvm
          /\ \/ pc[m] \in Saving
             \/ pc[m] \in {"saveSpec", "saveSpec2"} /\ srv'[m].specPid = wvm[m]
    /\ pc'[m] = "start" =>
          \/ pc[m] \in {"saveStatus", "saveStatus2"} /\ wvm' = wvm /\ srv'[m].statPid = wvm[m]
          \/ /\ (pc[m] = "fast" /\ mem[m].statPid # NoVm) \/ pc[m] = "lookup"
             /\ wvm'[m] = mem[m].statPid /\ srv' = srv
    /\ pc'[m] \in {"waitIP", "markReady"} => pc[m] \in {"start", "waitIP"} /\ wvm' = wvm /\ srv' = srv

\* Calls that have no VM in hand lead on to others like them.
LEMMA EmptyHand ==
    ASSUME TypeOK, NEW m \in Machines, NEW obj, NEW next \in Calls \ (Handling \cup {"lookup"}),
           \/ Write(m, obj, next)
           \/ Done(m) \/ Retry(m)
           \/ WriteRefused(m)
           \/ WriteConflict(m, next)
           \/ ReRead(m, next)
           \/ Proceed(m, next)
    PROVE  HandStep(m)
<1>1. pc'[m] \in {next, "idle"}
  BY DEF Write, WriteOk, WriteLost, WriteRefused, WriteConflict, ReRead, Proceed, Done, Retry, Drop,
     Goto, TypeOK
<1>2. \A k \in Machines \ {m} : wvm'[k] = wvm[k]
  BY DEF Write, WriteOk, WriteLost, WriteRefused, WriteConflict, ReRead, Proceed, Done, Retry, Drop,
     TypeOK
<1> QED
  BY <1>1, <1>2 DEF HandStep, Handling, Saving, Running

LEMMA GivenHand ==
    ASSUME TypeOK, NEW m \in Machines, NEW v \in Vms \cup {NoVm}, NEW next \in Calls, Give(m, v, next)
    PROVE  /\ pc'[m] = next /\ wvm'[m] = v /\ srv' = srv
           /\ \A k \in Machines \ {m} : wvm'[k] = wvm[k]
BY DEF Give, Goto, TypeOK, objectVars

LEMMA WorkerHands ==
    ASSUME TypeOK, NEW m \in Machines, Worker(m)
    PROVE  HandStep(m)
<1>c. \A c \in {"idle", "finalizer", "finalizerGet", "finalizer2", "fast", "condTrue", "refresh",
                "prepare", "vipCond", "resolve", "name", "find", "create", "relook", "condFalse",
                "delete", "teardown", "destroy", "unfinalize"} :
         c \in Calls \ (Handling \cup {"lookup"})
  BY DEF Calls, Handling, Saving, Running
<1>m. mem[m] \in XOMachine /\ wvm[m] \in Vms \cup {NoVm} /\ mem[m].statPid \in Vms \cup {NoVm}
  BY DEF TypeOK, XOMachine
<1> DEFINE Empty == Calls \ (Handling \cup {"lookup"})
<1>w. ASSUME WriteRefused(m) PROVE HandStep(m)
  BY <1>c, <1>w, EmptyHand
<1>p. ASSUME NEW next \in Empty, Proceed(m, next) PROVE HandStep(m)
  BY <1>p, EmptyHand
<1>1. CASE Reconcile(m)
  <2>1. cache[m].life \in {"new", "active", "deleting", "gone"}
    BY DEF TypeOK, XOMachine
  <2>2. pc' = pc \/ \E next \in {"delete", "finalizer", "fast"} : Goto(m, next)
    BY <1>1, <2>1 DEF Reconcile, workerVars
  <2>3. pc'[m] \in {"idle", "delete", "finalizer", "fast"} /\ wvm' = wvm
    BY <1>1, <2>2 DEF Reconcile, Goto, TypeOK, workerVars
  <2> QED
    BY <2>3 DEF HandStep, Saving
<1>2. CASE EnsureFinalizer(m)
  BY <1>2, <1>c, EmptyHand DEF EnsureFinalizer
<1>3. CASE TryFastPath(m)
  <2>1. CASE mem[m].statPid # NoVm /\ Give(m, mem[m].statPid, "start")
    <3>1. pc'[m] = "start" /\ wvm'[m] = mem[m].statPid /\ srv' = srv
          /\ \A k \in Machines \ {m} : wvm'[k] = wvm[k]
      BY <1>m, <2>1, GivenHand DEF Calls
    <3> QED
      BY <1>3, <2>1, <3>1 DEF HandStep, Saving, TryFastPath
  <2> QED
    BY <1>3, <1>c, <2>1, EmptyHand DEF TryFastPath
<1>4. CASE RepairCondition(m) \/ RefreshReadyMachine(m) \/ ReportFailure(m)
  BY <1>4, <1>c, EmptyHand DEF RepairCondition, RefreshReadyMachine, ReportFailure
<1>5. CASE Prepare(m) \/ ReconcileDelete(m) \/ Teardown(m)
  BY <1>5, <1>c, EmptyHand DEF Prepare, ReconcileDelete, Teardown, BootstrapMissing, ClientMissing,
     BuildPayload, Abandon
<1>6. CASE KubeVIPNotInjected(m)
  <2>1. wvm' = wvm /\ (Goto(m, "resolve") \/ Goto(m, "condFalse"))
    BY <1>6 DEF KubeVIPNotInjected, WriteOk, Proceed
  <2>2. pc'[m] \in {"resolve", "condFalse"}
    BY <2>1 DEF Goto, TypeOK
  <2> QED
    BY <2>1, <2>2 DEF HandStep, Saving
<1>7. CASE Resolve(m)
  <2>1. CASE mem[m].statPid # NoVm /\ Proceed(m, "lookup")
    <3>1. pc'[m] = "lookup" /\ mem' = mem /\ wvm' = wvm
      BY <2>1 DEF Proceed, Goto, TypeOK
    <3> QED
      BY <2>1, <3>1 DEF HandStep, Saving
  <2> QED
    BY <1>7, <1>c, <2>1, EmptyHand DEF Resolve, AddressMissing, ResolutionFailed
<1>8. CASE LookupExistingVM(m)
  <2>1. CASE Give(m, mem[m].statPid, "start")
    <3>1. pc'[m] = "start" /\ wvm'[m] = mem[m].statPid /\ srv' = srv
          /\ \A k \in Machines \ {m} : wvm'[k] = wvm[k]
      BY <1>m, <2>1, GivenHand DEF Calls
    <3> QED
      BY <1>8, <2>1, <3>1 DEF HandStep, Saving, LookupExistingVM
  <2> QED
    BY <1>8, <1>c, <2>1, EmptyHand DEF LookupExistingVM
<1>9. CASE ResolveVMName(m)
  BY <1>9, <1>c, EmptyHand DEF ResolveVMName
<1>10. CASE CreateVM(m)
  <2>1. ASSUME NEW v \in Vms, Give(m, v, "saveSpec") PROVE HandStep(m)
    <3>1. pc'[m] = "saveSpec" /\ wvm'[m] \in Vms /\ \A k \in Machines \ {m} : wvm'[k] = wvm[k]
      BY <2>1, GivenHand DEF Calls
    <3>2. pc[m] \in {"find", "create", "relook"}
      BY <1>10 DEF CreateVM
    <3> QED
      BY <3>1, <3>2 DEF HandStep, Saving
  <2>2. ASSUME NEW otherwise \in Empty, FindAdoptableVM(m, "saveSpec", otherwise) PROVE HandStep(m)
    BY <2>1, <2>2, <1>p DEF FindAdoptableVM, AdoptableVMs
  <2>3. CASE Goto(m, "relook") /\ UNCHANGED <<objectVars, mem, synced, wvm>>
    BY <2>3 DEF HandStep, Saving, Goto, TypeOK
  <2>4. CASE pc[m] = "find"
    BY <1>10, <1>c, <1>p, <2>2, <2>4 DEF CreateVM
  <2>5. CASE pc[m] = "create"
    BY <1>10, <1>c, <1>p, <2>1, <2>3, <2>5 DEF CreateVM
  <2>6. CASE pc[m] = "relook"
    BY <1>10, <1>c, <2>2, <2>6 DEF CreateVM
  <2> QED
    BY <1>10, <2>4, <2>5, <2>6 DEF CreateVM
<1>11. CASE SaveProviderID(m)
  <2>e. ASSUME Done(m) \/ Retry(m) PROVE HandStep(m)
    BY <1>c, <2>e, EmptyHand
  <2>w. ASSUME NEW obj, NEW next, Write(m, obj, next)
        PROVE  WriteOk(m, obj, next) \/ HandStep(m)
    BY <2>w, <2>e, <1>w DEF Write, WriteLost
  <2>s. SpecSaved(m).specPid = wvm[m] /\ StatusSaved(m).statPid = wvm[m]
    BY <1>m DEF SpecSaved, StatusSaved, XOMachine
  <2>1. ASSUME pc[m] \in {"saveSpec", "saveSpec2"}, WriteOk(m, SpecSaved(m), "saveStatus")
        PROVE  HandStep(m)
    <3>1. pc'[m] = "saveStatus" /\ wvm' = wvm /\ srv'[m] = SpecSaved(m)
      BY <2>1 DEF WriteOk, Accept, Goto, TypeOK
    <3> QED
      BY <2>1, <2>s, <3>1 DEF HandStep, Saving
  <2>2. ASSUME pc[m] \in {"saveStatus", "saveStatus2"}, WriteStatusPid(m) PROVE HandStep(m)
    <3>1. CASE WriteOk(m, StatusSaved(m), "start")
      <4>1. pc'[m] = "start" /\ wvm' = wvm /\ srv'[m] = StatusSaved(m)
        BY <3>1 DEF WriteOk, Accept, Goto, TypeOK
      <4> QED
        BY <2>2, <2>s, <4>1 DEF HandStep, Saving
    <3> QED
      BY <2>2, <2>e, <2>w, <1>w, <3>1 DEF WriteStatusPid
  <2>3. ASSUME NEW next \in {"saveSpecGet", "saveStatusGet"},
               WriteConflict(m, next),
               next = "saveSpecGet" => pc[m] = "saveSpec",
               next = "saveStatusGet" => pc[m] = "saveStatus"
        PROVE  HandStep(m)
    <3>1. pc'[m] = next /\ wvm' = wvm
      BY <2>3 DEF WriteConflict, Goto, TypeOK, Calls
    <3> QED
      BY <2>3, <3>1 DEF HandStep, Saving
  <2>4. ASSUME NEW next \in {"saveSpec2", "saveStatus2"}, ReRead(m, next),
               next = "saveSpec2" => pc[m] = "saveSpecGet",
               next = "saveStatus2" => pc[m] = "saveStatusGet"
        PROVE  HandStep(m)
    <3>1. WriteRefused(m) \/ (pc'[m] = next /\ wvm' = wvm)
      BY <2>4 DEF ReRead, Goto, TypeOK, Calls
    <3> QED
      BY <2>4, <1>w, <3>1 DEF HandStep, Saving
  <2> QED
    BY <1>11, <2>1, <2>2, <2>3, <2>4, <2>w DEF SaveProviderID
<1>12. CASE StartVM(m) \/ WaitForVMReady(m)
  <2>1. ASSUME NEW next \in {"waitIP", "markReady"}, Goto(m, next), pc[m] \in {"start", "waitIP"},
               wvm' = wvm, srv' = srv
        PROVE  HandStep(m)
    BY <2>1 DEF HandStep, Saving, Goto, TypeOK
  <2>2. ASSUME Goto(m, "condFalse"), wvm' = wvm PROVE HandStep(m)
    BY <2>2 DEF HandStep, Saving, Goto, TypeOK
  <2>3. CASE Done(m) \/ Retry(m) \/ Abandon(m)
    BY <1>c, <2>3, EmptyHand DEF Abandon
  <2>4. CASE StartVM(m)
    BY <2>1, <2>2, <2>3, <2>4 DEF StartVM, Proceed, objectVars
  <2>5. CASE WaitForVMReady(m)
    BY <2>1, <2>2, <2>3, <2>5 DEF WaitForVMReady, Proceed, WriteRefused, objectVars
  <2> QED
    BY <1>12, <2>4, <2>5
<1>13. CASE Destroy(m)
  <2>1. Retry(m) \/ (Goto(m, "unfinalize") /\ wvm' = wvm)
    BY <1>13 DEF Destroy
  <2> QED
    BY <1>c, <2>1, EmptyHand DEF HandStep, Saving, Goto, TypeOK
<1>14. CASE RemoveFinalizer(m)
  BY <1>14, <1>c, EmptyHand DEF RemoveFinalizer
<1> QED
  BY <1>1, <1>2, <1>3, <1>4, <1>5, <1>6, <1>7, <1>8, <1>9, <1>10, <1>11, <1>12, <1>13,
     <1>14 DEF Worker

\* What a worker does to the VMs: nothing, or one create, start or destroy.
VMStep(m) ==
    \/ vms' = vms
    \/ \E v \in Vms : NewVM(m, v, "halted") /\ pc[m] = "create"
    \/ Visible(wvm[m]) /\ vms' = [vms EXCEPT ![wvm[m]].st = "running"]
    \/ Destroy(m)

LEMMA QuietVMs ==
    ASSUME NEW m, NEW obj, NEW next,
           \/ Write(m, obj, next)
           \/ Accept(m, obj)
           \/ WriteRefused(m)
           \/ WriteConflict(m, next)
           \/ ReRead(m, next)
           \/ Proceed(m, next)
           \/ UNCHANGED <<srv, cache, fresh, vms>>
    PROVE  VMStep(m)
BY DEF Write, WriteOk, WriteLost, WriteRefused, WriteConflict, ReRead, Proceed, Accept, VMStep

LEMMA WorkerVMs ==
    ASSUME Reliable, NEW m \in Machines, Worker(m)
    PROVE  VMStep(m)
<1>1. CASE Reconcile(m)
  BY <1>1 DEF Reconcile, VMStep
<1>2. CASE EnsureFinalizer(m) \/ ResolveVMName(m)
  BY <1>2, QuietVMs DEF EnsureFinalizer, ResolveVMName
<1>3. CASE TryFastPath(m) \/ LookupExistingVM(m)
  BY <1>3, QuietVMs DEF TryFastPath, LookupExistingVM, VMStep
<1>4. CASE RepairCondition(m) \/ RefreshReadyMachine(m) \/ ReportFailure(m)
  BY <1>4, QuietVMs DEF RepairCondition, RefreshReadyMachine, ReportFailure, AddressRecorded
<1>5. CASE Prepare(m) \/ Resolve(m) \/ ReconcileDelete(m) \/ Teardown(m)
  BY <1>5, QuietVMs DEF Prepare, Resolve, ReconcileDelete, Teardown, BootstrapMissing, ClientMissing,
     BuildPayload, AddressMissing, ResolutionFailed, Abandon
<1>6. CASE KubeVIPNotInjected(m)
  BY <1>6 DEF KubeVIPNotInjected, WriteOk, Accept, Proceed, VMStep
<1>7. CASE CreateVM(m)
  <2>1. "late" \notin Faults
    BY DEF Reliable
  <2> QED
    BY <1>7, <2>1, QuietVMs DEF CreateVM, FindAdoptableVM, VMStep
<1>8. CASE SaveProviderID(m)
  BY <1>8, QuietVMs DEF SaveProviderID, WriteStatusPid
<1>9. CASE StartVM(m)
  BY <1>9, QuietVMs DEF StartVM, VMStep, Abandon
<1>10. CASE WaitForVMReady(m) \/ RemoveFinalizer(m)
  BY <1>10, QuietVMs DEF WaitForVMReady, RemoveFinalizer
<1>11. CASE Destroy(m)
  BY <1>11 DEF VMStep
<1> QED
  BY <1>1, <1>2, <1>3, <1>4, <1>5, <1>6, <1>7, <1>8, <1>9, <1>10, <1>11 DEF Worker

----------------------------------------------------------------------------
(* The record of a machine's VM, step by step.                             *)

\* The identities a machine holds are all its one VM.
LEMMA OneIdentity ==
    ASSUME TypeOK, OwnInv, RecordInv, NEW m \in Machines,
           NEW v \in {srv[m].specPid, srv[m].statPid, mem[m].specPid, mem[m].statPid, wvm[m]},
           NEW w \in {srv[m].specPid, srv[m].statPid, mem[m].specPid, mem[m].statPid, wvm[m]},
           v # NoVm, w # NoVm
    PROVE  v = w /\ v \in Owned(m)
<1>1. \A u \in {srv[m].specPid, srv[m].statPid, mem[m].specPid, mem[m].statPid, wvm[m]} :
         u \in Vms \cup {NoVm} /\ OwnVM(m, u)
  BY DEF TypeOK, XOMachine, OwnInv, OwnObject
<1>2. v \in Owned(m) /\ w \in Owned(m)
  BY <1>1 DEF OwnVM, Owned
<1> QED
  BY <1>2 DEF RecordInv, RecordOf, VmOf

\* A create finds no VM of the machine, destroyed ones included.
LEMMA FirstVM ==
    ASSUME TypeOK, OwnInv, SingleInv, RecordInv, NEW m \in Machines, pc[m] = "create"
    PROVE  Owned(m) = {}
<1> SUFFICES ASSUME NEW v \in Owned(m) PROVE FALSE
  OBVIOUS
<1>1. v \in Vms /\ vms[v].marker = m /\ vms[v] \in VM
  BY DEF Owned, TypeOK
<1>2. vms[v].st # "free"
  BY <1>1, SentinelAssumption DEF OwnInv
<1>3. vms[v].st # "destroyed"
  BY <1>1 DEF RecordInv, RecordOf, VmOf, Destroyed, Deleting, Owned
<1>4. v \in LiveVMs(m)
  BY <1>1, <1>2, <1>3 DEF LiveVMs, VM
<1> QED
  BY <1>4 DEF SingleInv

\* A step of m's worker leaves the VMs of the others as they are, and gives m its
\* first VM or destroys it.
VMsOf(m) ==
    /\ \A k \in Machines \ {m} : Owned(k)' = Owned(k) /\ \A v \in Owned(k) : Destroyed(v)' <=> Destroyed(v)
    /\ \/ Owned(m)' = Owned(m)
       \/ pc[m] = "create" /\ \E v \in Vms : Owned(m)' = {v} /\ vms'[v].st = "halted"
    /\ \A v \in Owned(m)' : Destroyed(v)' => Destroyed(v) \/ Destroy(m)

LEMMA StateOf ==
    ASSUME TypeOK, NEW v \in Vms, NEW st, vms' = [vms EXCEPT ![v].st = st]
    PROVE  /\ \A u \in Vms : vms'[u].marker = vms[u].marker
           /\ \A u \in Vms \ {v} : vms'[u] = vms[u]
           /\ vms'[v].st = st
<1>1. vms[v] \in VM /\ vms'[v] = [vms[v] EXCEPT !.st = st]
  BY DEF TypeOK
<1>2. vms'[v].marker = vms[v].marker /\ vms'[v].st = st
  BY <1>1 DEF VM
<1> QED
  BY <1>2 DEF TypeOK

LEMMA WorkerVMsOf ==
    ASSUME Reliable, TypeOK, CopiesInv, OwnInv, SingleInv, LifeInv, RecordInv, NEW m \in Machines, Worker(m)
    PROVE  VMsOf(m)
<1>1. CASE vms' = vms
  BY <1>1 DEF VMsOf, Owned, Destroyed
<1>2. CASE pc[m] = "create" /\ \E v \in Vms : NewVM(m, v, "halted")
  <2>1. PICK v \in Vms : NewVM(m, v, "halted")
    BY <1>2
  <2>2. /\ vms[v].st = "free" /\ vms[v].marker = Foreign
        /\ vms'[v].marker = m /\ vms'[v].st = "halted"
        /\ \A u \in Vms \ {v} : vms'[u] = vms[u]
    BY <2>1 DEF NewVM, OwnInv, TypeOK
  <2>3. Owned(m)' = {v}
    BY <1>2, <2>2, FirstVM DEF Owned
  <2> QED
    BY <1>2, <2>2, <2>3, SentinelAssumption DEF VMsOf, Owned, Destroyed
<1>3. CASE Visible(wvm[m]) /\ vms' = [vms EXCEPT ![wvm[m]].st = "running"]
  <2>1. CASE wvm[m] \in Vms
    BY <1>3, <2>1, StateOf DEF VMsOf, Owned, Destroyed, Visible
  <2>2. CASE wvm[m] \notin Vms
    <3>1. vms' = vms
      BY <1>3, <2>2 DEF TypeOK
    <3> QED
      BY <3>1, <1>1
  <2> QED
    BY <2>1, <2>2
<1>4. CASE Destroy(m)
  <2> DEFINE v == mem[m].statPid
  <2>1. v \in Owned(m) /\ v \in Vms
    <3>1. v # NoVm
      BY <1>4 DEF Destroy, LifeInv, LifeOf
    <3> QED
      BY <3>1, OneIdentity DEF Owned
  <2>2. PICK st : vms' = [vms EXCEPT ![v].st = st]
    BY <1>4 DEF Destroy
  <2>3. /\ \A u \in Vms : vms'[u].marker = vms[u].marker
        /\ \A u \in Vms \ {v} : vms'[u] = vms[u]
    BY <2>1, <2>2, StateOf
  <2> QED
    BY <1>4, <2>1, <2>3 DEF VMsOf, Owned, Destroyed
<1> QED
  BY <1>1, <1>2, <1>3, <1>4, WorkerVMs DEF VMStep

\* What a recorded identity becomes: nothing, unless there was none.
PidsOf(m) ==
    /\ srv[m].specPid # NoVm => srv'[m].specPid = srv[m].specPid
    /\ srv[m].statPid # NoVm => srv'[m].statPid = srv[m].statPid
    /\ srv'[m].statPid \in {NoVm, srv'[m].specPid}
    /\ srv'[m].ready = "yes" => srv'[m].statPid # NoVm

LEMMA WorkerPidsOf ==
    ASSUME TypeOK, CopiesInv, OwnInv, RecordInv, NEW m \in Machines, Worker(m)
    PROVE  PidsOf(m)
<1>1. CopyOf(m) /\ HandOf(m)
  BY DEF RecordInv, RecordOf
<1>2. CASE srv' = srv
  BY <1>1, <1>2 DEF PidsOf, CopyOf
<1>3. CASE srv' # srv
  <2>1. PICK obj \in XOMachine :
          /\ m \in synced /\ srv' = [srv EXCEPT ![m] = obj]
          /\ obj.specPid = mem[m].specPid \/ (pc[m] \in {"saveSpec", "saveSpec2"} /\ obj.specPid = wvm[m])
          /\ obj.statPid = mem[m].statPid \/ (pc[m] \in {"saveStatus", "saveStatus2"} /\ obj.statPid = wvm[m])
          /\ obj.ready = mem[m].ready \/ (pc[m] = "markReady" /\ obj.ready = "yes")
    BY <1>3, WorkerPids DEF PidStep
  <2>2. srv'[m] = obj /\ mem[m] = srv[m]
    BY <2>1 DEF CopiesInv, TypeOK
  <2>3. obj.specPid = srv[m].specPid \/ (pc[m] \in {"saveSpec", "saveSpec2"} /\ obj.specPid = wvm[m])
    BY <2>1, <2>2
  <2>4. obj.statPid = srv[m].statPid \/ (pc[m] \in {"saveStatus", "saveStatus2"} /\ obj.statPid = wvm[m])
    BY <2>1, <2>2
  <2>5. obj.ready = srv[m].ready \/ pc[m] = "markReady"
    BY <2>1, <2>2
  <2>6. srv[m].specPid # NoVm => obj.specPid = srv[m].specPid
    <3>1. ASSUME pc[m] \in {"saveSpec", "saveSpec2"}, srv[m].specPid # NoVm PROVE wvm[m] = srv[m].specPid
      <4>1. wvm[m] # NoVm
        BY <1>1, <3>1 DEF HandOf, Handling
      <4> QED
        BY <3>1, <4>1, OneIdentity
    <3> QED
      BY <2>3, <3>1
  <2>7. pc[m] \in {"saveStatus", "saveStatus2"} => wvm[m] # NoVm /\ srv[m].specPid = wvm[m]
    BY <1>1 DEF HandOf, Handling, Saving
  <2>8. srv[m].statPid # NoVm => obj.statPid = srv[m].statPid
    BY <1>1, <2>4, <2>7 DEF CopyOf
  <2>9. obj.statPid \in {NoVm, obj.specPid}
    BY <1>1, <2>4, <2>6, <2>7 DEF CopyOf
  <2>10. pc[m] = "markReady" => srv[m].statPid # NoVm
    BY <1>1 DEF HandOf, Handling, Running
  <2>11. obj.ready = "yes" => obj.statPid # NoVm
    BY <1>1, <2>5, <2>8, <2>10 DEF CopyOf
  <2> QED
    BY <2>2, <2>6, <2>8, <2>9, <2>11 DEF PidsOf
<1> QED
  BY <1>2, <1>3

LEMMA WorkerCopyOf ==
    ASSUME TypeOK, CopiesInv, OwnInv, RecordInv, NEW m \in Machines, Worker(m)
    PROVE  CopyOf(m)'
<1>1. CopyOf(m) /\ PidsOf(m) /\ ObjectEffect(m)
  BY WorkerPidsOf, WorkerEffect DEF RecordInv, RecordOf
<1>2. cache' = cache
  BY <1>1 DEF ObjectEffect
<1>3. mem'[m] \in {mem[m], cache[m], Blank, srv'[m]}
  BY <1>1 DEF ObjectEffect, Stores, Forgets, Read, TypeOK
<1>4. \A o \in {mem[m], cache[m], Blank, srv'[m]} :
         o.specPid \in {NoVm, srv'[m].specPid} /\ o.statPid \in {NoVm, srv'[m].statPid}
  BY <1>1 DEF CopyOf, PidsOf, Blank
<1> QED
  BY <1>1, <1>2, <1>3, <1>4 DEF CopyOf, PidsOf

LEMMA WorkerHandOf ==
    ASSUME TypeOK, CopiesInv, OwnInv, RecordInv, NEW m \in Machines, Worker(m)
    PROVE  HandOf(m)'
<1>1. CopyOf(m) /\ HandOf(m) /\ PidsOf(m) /\ HandStep(m)
  BY WorkerPidsOf, WorkerHands DEF RecordInv, RecordOf
<1>2. pc'[m] = "lookup" => mem'[m].statPid # NoVm
  BY <1>1 DEF HandStep
<1>3. CASE pc'[m] \in {"saveSpec", "saveSpecGet", "saveSpec2"}
  <2>1. wvm'[m] # NoVm
    BY <1>1, <1>3, SentinelAssumption DEF HandStep, HandOf, Handling
  <2> QED
    BY <1>3, <2>1 DEF HandOf, Saving, Running
<1>4. CASE pc'[m] \in Saving
  <2>1. wvm' = wvm /\ wvm[m] # NoVm
    BY <1>1, <1>4 DEF HandStep, HandOf, Handling
  <2>2. srv'[m].specPid = wvm[m]
    BY <1>1, <1>4, <2>1 DEF HandStep, HandOf, PidsOf
  <2> QED
    BY <1>4, <2>1, <2>2 DEF HandOf, Saving, Running
<1>5. CASE pc'[m] = "start"
  <2>1. CASE pc[m] \in {"saveStatus", "saveStatus2"} /\ wvm' = wvm /\ srv'[m].statPid = wvm[m]
    <3>1. wvm[m] # NoVm
      BY <1>1, <2>1 DEF HandOf, Handling, Saving
    <3> QED
      BY <1>1, <1>5, <2>1, <3>1 DEF HandOf, PidsOf
  <2>2. CASE mem[m].statPid # NoVm /\ wvm'[m] = mem[m].statPid /\ srv' = srv
    BY <1>1, <1>5, <2>2 DEF HandOf, CopyOf
  <2> QED
    BY <1>1, <1>5, <2>1, <2>2 DEF HandStep, HandOf
<1>6. CASE pc'[m] \in {"waitIP", "markReady"}
  <2>1. pc[m] \in Running /\ wvm' = wvm /\ srv' = srv
    BY <1>1, <1>6 DEF HandStep, Running
  <2> QED
    BY <1>1, <1>6, <2>1 DEF HandOf, Handling
<1> QED
  BY <1>2, <1>3, <1>4, <1>5, <1>6 DEF HandOf, Handling, Saving, Running

\* What a worker makes of the life of its object.
LifeStep(m) ==
    \/ srv' = srv
    \/ pc[m] \in Work /\ srv'[m].life = srv[m].life
    \/ pc[m] \in Finalizing /\ srv[m].life = "new" /\ srv'[m].life = "active"
    \/ pc[m] = "unfinalize" /\ srv[m].life = "deleting" /\ srv'[m].life = "gone"

LEMMA WorkerLifeStep ==
    ASSUME TypeOK, CopiesInv, LifeInv, NEW m \in Machines, Worker(m)
    PROVE  LifeStep(m)
<1>0. LifeOf(m) /\ mem[m] \in XOMachine
  BY DEF LifeInv, TypeOK
<1>1. CASE pc[m] \in Work
  <2>1. WorkStep(m)
    BY <1>1, WorkerInWork
  <2>2. srv'[m] = srv[m] => srv'[m].life = srv[m].life
    OBVIOUS
  <2> QED
    BY <1>1, <2>1, <2>2 DEF WorkStep, LifeStep, CopiesInv
<1>2. CASE EnsureFinalizer(m)
  <2>1. CASE pc[m] \in {"finalizer", "finalizer2"} /\ Accept(m, WithFinalizer(m))
    <3>1. srv'[m] = WithFinalizer(m) /\ srv[m] = mem[m]
      BY <2>1 DEF Accept, CopiesInv, TypeOK
    <3>2. WithFinalizer(m).life = "active"
      BY <1>0 DEF WithFinalizer, XOMachine
    <3> QED
      BY <1>0, <2>1, <3>1, <3>2 DEF LifeStep, LifeOf, Finalizing
  <2>2. CASE srv' = srv
    BY <2>2 DEF LifeStep
  <2> QED
    BY <1>2, <2>1, <2>2 DEF EnsureFinalizer, Write, WriteOk, WriteLost, WriteRefused, WriteConflict,
       ReRead, objectVars
<1>3. CASE RemoveFinalizer(m)
  <2>1. CASE Accept(m, [mem[m] EXCEPT !.life = "gone"])
    <3>1. srv'[m] = [mem[m] EXCEPT !.life = "gone"] /\ srv[m] = mem[m]
      BY <2>1 DEF Accept, CopiesInv, TypeOK
    <3>2. srv'[m].life = "gone"
      BY <1>0, <3>1 DEF XOMachine
    <3>3. pc[m] = "unfinalize"
      BY <1>3 DEF RemoveFinalizer
    <3> QED
      BY <1>0, <3>1, <3>2, <3>3 DEF LifeStep, LifeOf, Deleting
  <2> QED
    BY <1>3, <2>1 DEF RemoveFinalizer, WriteRefused, LifeStep
<1>4. CASE Reconcile(m) \/ ReconcileDelete(m) \/ Teardown(m) \/ Destroy(m)
  BY <1>4 DEF Reconcile, ReconcileDelete, Teardown, Destroy, Proceed, Abandon, Done, WriteRefused,
     objectVars, LifeStep
<1>5. CASE pc[m] \notin Work
  <2>1. pc[m] \in Finalizing \cup Deleting \cup {"idle"}
    BY <1>5 DEF Work, TypeOK
  <2>2. \/ Reconcile(m) \/ EnsureFinalizer(m) \/ ReconcileDelete(m) \/ Teardown(m) \/ Destroy(m)
        \/ RemoveFinalizer(m)
    BY <2>1 DEF Worker, Finalizing, Deleting, TryFastPath, RepairCondition, RefreshReadyMachine,
       Prepare, KubeVIPNotInjected, Resolve, LookupExistingVM, ResolveVMName, CreateVM,
       SaveProviderID, StartVM, WaitForVMReady, ReportFailure
  <2> QED
    BY <1>2, <1>3, <1>4, <2>2
<1> QED
  BY <1>1, <1>5

\* A worker that knows of the deletion goes on with it or ends its reconcile.
LEMMA DeletionGoesOn ==
    ASSUME TypeOK, NEW m \in Machines, Worker(m), pc[m] \in Deleting \cup {"idle"},
           cache[m].life \in {"deleting", "gone"}
    PROVE  pc'[m] \in Deleting \cup {"idle"}
<1>1. CASE Reconcile(m)
  BY <1>1 DEF Reconcile, Goto, TypeOK, workerVars, Deleting
<1>2. ASSUME NEW next \in Deleting, Goto(m, next) PROVE pc'[m] \in Deleting
  BY <1>2 DEF Goto, TypeOK
<1>3. ASSUME Done(m) \/ Retry(m) PROVE pc'[m] = "idle"
  BY <1>3 DEF Done, Retry, Drop, Goto, TypeOK
<1>d. "teardown" \in Deleting /\ "destroy" \in Deleting /\ "unfinalize" \in Deleting
  BY DEF Deleting
<1>4. CASE ReconcileDelete(m) \/ Teardown(m)
  BY <1>d, <1>2, <1>3, <1>4 DEF ReconcileDelete, Teardown, Proceed, Abandon, WriteRefused
<1>5. CASE Destroy(m) \/ RemoveFinalizer(m)
  BY <1>d, <1>2, <1>3, <1>5 DEF Destroy, RemoveFinalizer, WriteRefused
<1>6. \/ Reconcile(m) \/ ReconcileDelete(m) \/ Teardown(m) \/ Destroy(m) \/ RemoveFinalizer(m)
  BY DEF Worker, Deleting, EnsureFinalizer, TryFastPath, RepairCondition, RefreshReadyMachine,
     Prepare, KubeVIPNotInjected, Resolve, LookupExistingVM, ResolveVMName, CreateVM,
     SaveProviderID, StartVM, WaitForVMReady, ReportFailure
<1> QED
  BY <1>1, <1>4, <1>5, <1>6

LEMMA WorkerVmOf ==
    ASSUME Reliable, TypeOK, CopiesInv, OwnInv, SingleInv, LifeInv, RecordInv, NEW m \in Machines, Worker(m)
    PROVE  VmOf(m)'
<1>1. VmOf(m) /\ VMsOf(m)
  BY WorkerVMsOf DEF RecordInv, RecordOf
<1>2. cache' = cache
  BY WorkerEffect DEF ObjectEffect
<1>3. \A v, w \in Owned(m)' : v = w
  BY <1>1 DEF VmOf, VMsOf
<1>4. ASSUME NEW v \in Owned(m)', Destroyed(v)'
      PROVE  pc'[m] \in Deleting \cup {"idle"} /\ cache[m].life \in {"deleting", "gone"}
  <2>1. CASE Destroy(m)
    <3>1. pc[m] \in Deleting \cup {"idle"} /\ cache[m].life \in {"deleting", "gone"}
      BY <2>1 DEF LifeInv, LifeOf, Destroy, Deleting
    <3> QED
      BY <3>1, DeletionGoesOn
  <2>2. CASE ~Destroy(m)
    <3>1. Destroyed(v)
      BY <1>1, <1>4, <2>2 DEF VMsOf
    <3>2. v \in Owned(m)
      BY <1>1, <1>4 DEF VMsOf, Destroyed
    <3>3. pc[m] \in Deleting \cup {"idle"} /\ cache[m].life \in {"deleting", "gone"}
      BY <1>1, <3>1, <3>2 DEF VmOf
    <3> QED
      BY <3>3, DeletionGoesOn
  <2> QED
    BY <2>1, <2>2
<1>5. srv'[m].life = "new" => Owned(m)' = {}
  <2>1. LifeStep(m) /\ LifeOf(m)
    BY WorkerLifeStep DEF LifeInv
  <2>2. srv'[m].life = "new" => srv[m].life = "new" /\ pc[m] # "create"
    BY <2>1 DEF LifeStep, LifeOf, Work, Calls, Finalizing, Deleting
  <2> QED
    BY <1>1, <2>2 DEF VmOf, VMsOf
<1> QED
  BY <1>2, <1>3, <1>4, <1>5 DEF VmOf

LEMMA WorkerRecord ==
    ASSUME Reliable, TypeOK, CopiesInv, OwnInv, SingleInv, LifeInv, RecordInv, NEW m \in Machines, Worker(m)
    PROVE  RecordInv'
<1>1. RecordOf(m)'
  BY WorkerVmOf, WorkerCopyOf, WorkerHandOf DEF RecordOf
<1>2. ASSUME NEW k \in Machines \ {m} PROVE RecordOf(k)'
  <2>1. OnlyOf(m) /\ HandStep(m) /\ VMsOf(m)
    BY WorkerLife, WorkerHands, WorkerVMsOf DEF Configured, Reliable
  <2>2. /\ srv'[k] = srv[k] /\ mem'[k] = mem[k] /\ pc'[k] = pc[k] /\ cache'[k] = cache[k]
        /\ wvm'[k] = wvm[k]
    BY <2>1 DEF OnlyOf, HandStep
  <2>3. Owned(k)' = Owned(k) /\ \A v \in Owned(k) : Destroyed(v)' <=> Destroyed(v)
    BY <2>1 DEF VMsOf
  <2>4. VmOf(k) /\ CopyOf(k) /\ HandOf(k)
    BY DEF RecordInv, RecordOf
  <2>5. VmOf(k)'
    BY <2>2, <2>3, <2>4 DEF VmOf
  <2>6. CopyOf(k)' /\ HandOf(k)'
    BY <2>2, <2>4 DEF CopyOf, HandOf
  <2> QED
    BY <2>5, <2>6 DEF RecordOf
<1> QED
  BY <1>1, <1>2 DEF RecordInv

LEMMA EnvironmentRecord ==
    ASSUME Reliable, TypeOK, SingleInv, LifeInv, RecordInv,
           \/ \E m \in Machines : Cluster(m)
           \/ \E v \in Vms : XenOrchestra(v)
           \/ Crash
    PROVE  RecordInv'
<1>0. \A k \in Machines : VmOf(k) /\ CopyOf(k) /\ HandOf(k) /\ LifeOf(k)
  BY DEF RecordInv, RecordOf, LifeInv
<1>k. ASSUME NEW k \in Machines, vms' = vms, srv'[k] = srv[k], cache'[k] = cache[k],
             UNCHANGED <<pc, mem, wvm>>
      PROVE  RecordOf(k)'
  BY <1>0, <1>k DEF RecordOf, VmOf, CopyOf, HandOf, Owned, Destroyed
<1>1. ASSUME NEW m \in Machines, UserDelete(m) \/ Touch(m) PROVE RecordInv'
  <2>0. srv[m] \in XOMachine
    BY DEF TypeOK
  <2>1. PICK obj : /\ Overwrite(m, obj)
                   /\ obj.life = "new" => srv[m].life = "new"
                   /\ obj.specPid = srv[m].specPid /\ obj.statPid = srv[m].statPid
                   /\ obj.ready = srv[m].ready
    <3>1. \A l \in {"deleting", "gone"} :
             /\ [srv[m] EXCEPT !.life = l].life # "new"
             /\ [srv[m] EXCEPT !.life = l].specPid = srv[m].specPid
             /\ [srv[m] EXCEPT !.life = l].statPid = srv[m].statPid
             /\ [srv[m] EXCEPT !.life = l].ready = srv[m].ready
      BY <2>0 DEF XOMachine
    <3>2. CASE UserDelete(m)
      BY <3>1, <3>2 DEF UserDelete
    <3>3. CASE Touch(m)
      BY <3>3 DEF Touch
    <3> QED
      BY <1>1, <3>2, <3>3
  <2>2. /\ srv'[m] = obj /\ \A k \in Machines \ {m} : srv'[k] = srv[k]
        /\ UNCHANGED <<cache, pc, mem, wvm, vms>>
    BY <2>1 DEF Overwrite, TypeOK
  <2>3. VmOf(m)'
    BY <1>0, <2>1, <2>2 DEF VmOf, Owned, Destroyed
  <2>4. CopyOf(m)' /\ HandOf(m)'
    BY <1>0, <2>1, <2>2 DEF CopyOf, HandOf
  <2>5. \A k \in Machines \ {m} : RecordOf(k)'
    BY <1>k, <2>2
  <2> QED
    BY <2>3, <2>4, <2>5 DEF RecordInv, RecordOf
<1>2. ASSUME NEW m \in Machines, InformerSync(m) \/ Enqueue(m) PROVE RecordInv'
  <2>1. /\ \A k \in Machines \ {m} : cache'[k] = cache[k]
        /\ cache'[m] \in {cache[m], srv[m]}
        /\ UNCHANGED <<srv, pc, mem, wvm, vms>>
    BY <1>2 DEF InformerSync, Enqueue, workerVars, TypeOK
  <2>2. cache[m].life \in {"deleting", "gone"} => srv[m].life \in {"deleting", "gone"}
    BY <1>0 DEF LifeOf
  <2>3. VmOf(m)'
    BY <1>0, <2>1, <2>2 DEF VmOf, Owned, Destroyed
  <2>4. CopyOf(m)' /\ HandOf(m)'
    BY <1>0, <2>1 DEF CopyOf, HandOf
  <2>5. \A k \in Machines \ {m} : RecordOf(k)'
    BY <1>k, <2>1
  <2> QED
    BY <2>3, <2>4, <2>5 DEF RecordInv, RecordOf
<1>3. ASSUME NEW v \in Vms PROVE ~XenOrchestra(v)
  BY DEF XenOrchestra, VMAppears, VMRenamed, VMRemovedInXO, SingleInv, Reliable
<1>4. ASSUME Crash, NEW m \in Machines PROVE RecordOf(m)'
  <2>1. pc'[m] = "idle" /\ mem'[m] = Blank /\ cache' = srv /\ srv' = srv /\ vms' = vms
    BY <1>4 DEF Crash
  <2>2. cache[m].life \in {"deleting", "gone"} => srv[m].life \in {"deleting", "gone"}
    BY <1>0 DEF LifeOf
  <2>3. VmOf(m)'
    BY <1>0, <2>1, <2>2 DEF VmOf, Owned, Destroyed
  <2>4. CopyOf(m)'
    BY <1>0, <2>1 DEF CopyOf, Blank
  <2>5. HandOf(m)'
    BY <2>1 DEF HandOf, Handling, Saving, Running
  <2> QED
    BY <2>3, <2>4, <2>5 DEF RecordOf
<1> QED
  BY <1>1, <1>2, <1>3, <1>4 DEF Cluster, RecordInv

LEMMA InitRecord == Init => RecordInv
<1> SUFFICES ASSUME Init, NEW m \in Machines PROVE RecordOf(m)
  BY DEF RecordInv
<1>0. PICK old \in SUBSET Upgraded :
         \E home \in [old -> Vms \ ForeignVms], label \in [old \cup ForeignVms -> Names] :
            (\A k, o \in old : home[k] = home[o] => k = o) /\ InitWith(old, home, label)
  BY DEF Init
<1>1. PICK home \in [old -> Vms \ ForeignVms], label \in [old \cup ForeignVms -> Names] :
         (\A k, o \in old : home[k] = home[o] => k = o) /\ InitWith(old, home, label)
  BY <1>0
<1>2. \A v \in Vms : vms[v].marker = m => home[m] = v
  BY <1>1, SentinelAssumption DEF InitWith, FreeVM
<1>3. \A v \in Vms : vms[v].st # "destroyed"
  BY <1>1 DEF InitWith, FreeVM
<1>4. cache = srv /\ mem[m] = Blank /\ pc[m] = "idle"
  BY <1>1 DEF InitWith
<1>5. srv[m].statPid = srv[m].specPid /\ (srv[m].ready = "yes" => srv[m].statPid # NoVm)
  BY <1>1, SentinelAssumption DEF InitWith, UpgradedObject, Blank
<1>6. VmOf(m)
  <2>1. ASSUME NEW v \in Vms, vms[v].marker = m PROVE m \in old
    BY <1>1, <2>1, SentinelAssumption DEF InitWith, FreeVM
  <2>2. srv[m].life = "new" => m \notin old
    BY <1>1 DEF InitWith, UpgradedObject
  <2> QED
    BY <1>2, <1>3, <2>1, <2>2 DEF VmOf, Owned, Destroyed
<1>7. CopyOf(m)
  BY <1>4, <1>5 DEF CopyOf, Blank
<1>8. HandOf(m)
  BY <1>4 DEF HandOf, Handling, Saving, Running
<1> QED
  BY <1>6, <1>7, <1>8 DEF RecordOf

LEMMA RecordInvariant == Reliable /\ Spec => []RecordInv
<1> SUFFICES ASSUME Reliable PROVE Spec => []RecordInv
  OBVIOUS
<1>0. Trusted /\ Configured
  BY DEF Reliable, Trusted, Configured
<1>1. /\ TypeOK /\ CopiesInv /\ OwnInv /\ SingleInv /\ LifeInv
      /\ RecordInv /\ [Next]_vars
      => RecordInv'
  <2> SUFFICES ASSUME TypeOK, CopiesInv, OwnInv, SingleInv, LifeInv, RecordInv, [Next]_vars
               PROVE  RecordInv'
    OBVIOUS
  <2>1. CASE UNCHANGED vars
    BY <2>1 DEF RecordInv, RecordOf, VmOf, CopyOf, HandOf, Owned, Destroyed, vars
  <2> QED
    BY <2>1, WorkerRecord, EnvironmentRecord DEF Next
<1>2. Spec => [](NameInv /\ SingleInv)
  BY <1>0, SingleInvariant
<1>3. Spec => []LifeInv
  BY <1>0, LifeInvariant
<1> QED
  BY <1>1, <1>2, <1>3, InitRecord, TypeCorrect, CopiesInvariant, OwnInvariant, PTL DEF Spec

\* saveProviderID: the two writes of a providerID stay in step, whatever
\* conflicts, lost answers, crashes and stale copies come between them.
THEOREM StatusAfterSpec == Reliable /\ Spec => []StatusFollowsSpec
<1>1. RecordInv => StatusFollowsSpec
  BY DEF RecordInv, RecordOf, CopyOf, StatusFollowsSpec
<1> QED
  BY <1>1, RecordInvariant, PTL

\* What the other clients do to the objects.
LEMMA ClusterObjects ==
    ASSUME TypeOK, NEW m \in Machines, Cluster(m)
    PROVE  /\ vms' = vms /\ \A k \in Machines \ {m} : srv'[k] = srv[k]
           /\ srv'[m].specPid = srv[m].specPid /\ srv'[m].statPid = srv[m].statPid
           /\ srv'[m].ready = srv[m].ready
           /\ \/ srv'[m].life = srv[m].life
              \/ srv[m].life = "active" /\ srv'[m].life = "deleting"
              \/ srv[m].life = "new" /\ srv'[m].life = "gone"
<1>0. srv[m] \in XOMachine
  BY DEF TypeOK
<1>1. \A l \in {"deleting", "gone"} :
         /\ [srv[m] EXCEPT !.life = l].life = l
         /\ [srv[m] EXCEPT !.life = l].specPid = srv[m].specPid
         /\ [srv[m] EXCEPT !.life = l].statPid = srv[m].statPid
         /\ [srv[m] EXCEPT !.life = l].ready = srv[m].ready
  BY <1>0 DEF XOMachine
<1>2. ASSUME NEW obj, Overwrite(m, obj)
      PROVE  vms' = vms /\ srv'[m] = obj /\ \A k \in Machines \ {m} : srv'[k] = srv[k]
  BY <1>2 DEF Overwrite, TypeOK
<1>3. CASE UserDelete(m)
  BY <1>1, <1>2, <1>3 DEF UserDelete
<1>4. CASE Touch(m)
  BY <1>2, <1>4 DEF Touch
<1>5. CASE InformerSync(m) \/ Enqueue(m)
  BY <1>5 DEF InformerSync, Enqueue
<1> QED
  BY <1>3, <1>4, <1>5 DEF Cluster

\* saveProviderID: a recorded identity is never replaced: the adopted VM, the one
\* in hand after a conflict and the one already stored are all the same VM.
THEOREM IdentityStable == Reliable /\ Spec => ProviderIDNeverChanges
<1> SUFFICES ASSUME Reliable PROVE Spec => ProviderIDNeverChanges
  OBVIOUS
<1> DEFINE Stable ==
      \A m \in Machines :
         /\ srv[m].specPid # NoVm => srv'[m].specPid = srv[m].specPid
         /\ srv[m].statPid # NoVm => srv'[m].statPid = srv[m].statPid
<1>1. TypeOK /\ CopiesInv /\ OwnInv /\ LifeInv /\ RecordInv /\ [Next]_vars => [Stable]_vars
  <2> SUFFICES ASSUME TypeOK, CopiesInv, OwnInv, LifeInv, RecordInv, Next PROVE Stable
    OBVIOUS
  <2>1. ASSUME NEW m \in Machines, Worker(m) PROVE Stable
    <3>1. PidsOf(m) /\ OnlyOf(m)
      BY <2>1, WorkerPidsOf, WorkerLife DEF Configured, Reliable
    <3> QED
      BY <3>1 DEF PidsOf, OnlyOf
  <2>2. ASSUME NEW m \in Machines, Cluster(m) PROVE Stable
    BY <2>2, ClusterObjects
  <2>3. ASSUME NEW v \in Vms, XenOrchestra(v) PROVE Stable
    BY <2>3 DEF XenOrchestra, VMAppears, VMRenamed, VMRemovedInXO, objectVars
  <2>4. CASE Crash
    BY <2>4 DEF Crash
  <2> QED
    BY <2>1, <2>2, <2>3, <2>4 DEF Next
<1>2. Spec => []LifeInv
  BY LifeInvariant DEF Configured, Reliable
<1> QED
  BY <1>1, <1>2, TypeCorrect, CopiesInvariant, OwnInvariant, RecordInvariant, PTL
     DEF Spec, ProviderIDNeverChanges

----------------------------------------------------------------------------
(* Every step is one of the promise, or none.                              *)

\* The invariants of Reliable, taken together.
Kept == TypeOK /\ CopiesInv /\ OwnInv /\ SingleInv /\ LifeInv /\ RecordInv

LEMMA KeptInvariant == Reliable /\ Spec => []Kept
<1> SUFFICES ASSUME Reliable PROVE Spec => []Kept
  OBVIOUS
<1>1. Spec => [](NameInv /\ SingleInv)
  BY SingleInvariant DEF Reliable, Trusted
<1>2. Spec => []LifeInv
  BY LifeInvariant DEF Reliable, Configured
<1> QED
  BY <1>1, <1>2, TypeCorrect, CopiesInvariant, OwnInvariant, RecordInvariant, PTL DEF Kept

PhaseOf(o) == IF o.life \in {"new", "active"} THEN "wanted" ELSE o.life

\* What the promise sees of a machine.
SameFace(k) ==
    /\ PhaseOf(srv'[k]) = PhaseOf(srv[k])
    /\ Owned(k)' = Owned(k) /\ LiveVMs(k)' = LiveVMs(k)
    /\ srv'[k].statPid = srv[k].statPid /\ srv'[k].ready = srv[k].ready

LEMMA SameFaces ==
    ASSUME \A k \in Machines : SameFace(k)
    PROVE  UNCHANGED Promise!vars
BY DEF SameFace, PhaseOf, Promise!vars

\* The VMs of a machine that exist are those nobody destroyed.
LEMMA LiveOf ==
    ASSUME Kept, Kept', NEW k \in Machines
    PROVE  /\ LiveVMs(k) = {v \in Owned(k) : ~Destroyed(v)}
           /\ LiveVMs(k)' = {v \in Owned(k)' : ~Destroyed(v)'}
<1>1. \A v \in Owned(k) : v \in Vms /\ vms[v] \in VM /\ vms[v].st # "free" /\ vms[v].st # "pending"
  BY SentinelAssumption DEF Kept, TypeOK, OwnInv, SingleInv, Owned
<1>2. \A v \in Owned(k)' : v \in Vms /\ vms'[v] \in VM /\ vms'[v].st # "free" /\ vms'[v].st # "pending"
  BY SentinelAssumption DEF Kept, TypeOK, OwnInv, SingleInv, Owned
<1>3. LiveVMs(k) = {v \in Owned(k) : ~Destroyed(v)}
  BY <1>1 DEF LiveVMs, Destroyed, VM
<1>4. LiveVMs(k)' = {v \in Owned(k)' : ~Destroyed(v)'}
  BY <1>2 DEF LiveVMs, Destroyed, VM
<1> QED
  BY <1>3, <1>4

\* A worker's step, seen by the promise: the other machines stand still.
LEMMA OtherFaces ==
    ASSUME Reliable, Kept, Kept', NEW m \in Machines, Worker(m)
    PROVE  \A k \in Machines \ {m} : srv'[k] = srv[k] /\ SameFace(k)
<1> SUFFICES ASSUME NEW k \in Machines \ {m} PROVE srv'[k] = srv[k] /\ SameFace(k)
  OBVIOUS
<1>1. OnlyOf(m) /\ VMsOf(m)
  BY WorkerLife, WorkerVMsOf DEF Kept, Reliable, Configured
<1>2. srv'[k] = srv[k] /\ Owned(k)' = Owned(k) /\ \A v \in Owned(k) : Destroyed(v)' <=> Destroyed(v)
  BY <1>1 DEF OnlyOf, VMsOf
<1>3. LiveVMs(k)' = LiveVMs(k)
  BY <1>2, LiveOf
<1> QED
  BY <1>2, <1>3 DEF SameFace

\* A machine whose VM was not destroyed has the VM it holds.
LEMMA HeldVM ==
    ASSUME Kept, Kept', NEW m \in Machines, pc[m] \in Work, NEW v \in Owned(m)
    PROVE  LiveVMs(m) = {v}
<1>1. ~Destroyed(v) /\ \A w \in Owned(m) : w = v
  BY DEF Kept, RecordInv, RecordOf, VmOf, Work, Deleting
<1> QED
  BY <1>1, LiveOf

LEMMA CreateSimulates ==
    ASSUME Reliable, Kept, Kept', NEW m \in Machines, CreateVM(m)
    PROVE  UNCHANGED Promise!vars \/ Promise!Next
<1>1. pc[m] \in Work /\ Worker(m) /\ ~Destroy(m)
  BY DEF CreateVM, Work, Calls, Finalizing, Deleting, Worker, Destroy
<1>2. srv' = srv
  BY DEF CreateVM, FindAdoptableVM, Give, Proceed, objectVars
<1>3. VMsOf(m) /\ DestroyedStay
  BY <1>1, WorkerVMsOf, WorkerLife DEF Kept, Reliable, Configured
<1>4. \A k \in Machines \ {m} : SameFace(k)
  BY <1>1, OtherFaces
<1>5. CASE Owned(m)' = Owned(m)
  <2>1. \A v \in Owned(m) : Destroyed(v)' <=> Destroyed(v)
    BY <1>1, <1>3, <1>5 DEF VMsOf, DestroyedStay, Owned
  <2>2. LiveVMs(m)' = LiveVMs(m)
    BY <1>5, <2>1, LiveOf
  <2>3. SameFace(m)
    BY <1>2, <1>5, <2>2 DEF SameFace
  <2> QED
    BY <1>4, <2>3, SameFaces
<1>6. CASE pc[m] = "create" /\ \E v \in Vms : Owned(m)' = {v} /\ vms'[v].st = "halted"
  <2>1. PICK v \in Vms : Owned(m)' = {v} /\ vms'[v].st = "halted"
    BY <1>6
  <2>2. LiveVMs(m)' = {v}
    BY <2>1, LiveOf DEF Destroyed
  <2>3. Owned(m) = {}
    BY <1>6, FirstVM DEF Kept
  <2>4. \A o \in Machines : v \notin Owned(o)
    <3> SUFFICES ASSUME NEW o \in Machines, v \in Owned(o) PROVE FALSE
      OBVIOUS
    <3>1. o # m /\ Owned(o)' = Owned(o)
      BY <1>3, <2>3 DEF VMsOf
    <3>2. vms'[v].marker = o /\ vms'[v].marker = m
      BY <2>1, <3>1 DEF Owned
    <3> QED
      BY <3>1, <3>2
  <2>5. srv[m].life \in {"active", "deleting"}
    BY <1>1 DEF Kept, LifeInv, LifeOf
  <2>6. Promise!Make(m, v)
    BY <1>2, <1>4, <2>1, <2>2, <2>3, <2>4, <2>5 DEF Promise!Make, SameFace
  <2> QED
    BY <2>6 DEF Promise!Next
<1> QED
  BY <1>3, <1>5, <1>6 DEF VMsOf

LEMMA DestroySimulates ==
    ASSUME Reliable, Kept, Kept', NEW m \in Machines, Destroy(m)
    PROVE  UNCHANGED Promise!vars \/ Promise!Next
<1>1. Worker(m) /\ srv' = srv /\ pc[m] = "destroy"
  BY DEF Worker, Destroy, objectVars
<1>2. VMsOf(m) /\ DestroyedStay
  BY <1>1, WorkerVMsOf, WorkerLife DEF Kept, Reliable, Configured
<1>3. \A k \in Machines \ {m} : SameFace(k)
  BY <1>1, OtherFaces
<1>4. Owned(m)' = Owned(m)
  BY <1>1, <1>2 DEF VMsOf
<1>5. CASE LiveVMs(m)' = LiveVMs(m)
  <2>1. SameFace(m)
    BY <1>1, <1>4, <1>5 DEF SameFace
  <2> QED
    BY <1>3, <2>1, SameFaces
<1>6. CASE LiveVMs(m)' # LiveVMs(m)
  <2>1. PICK v \in Owned(m) : ~Destroyed(v) /\ Destroyed(v)'
    <3>1. \A v \in Owned(m) : Destroyed(v) => Destroyed(v)'
      BY <1>2 DEF DestroyedStay, Owned
    <3> QED
      BY <1>4, <1>6, <3>1, LiveOf
  <2>2. \A w \in Owned(m) : w = v
    BY DEF Kept, RecordInv, RecordOf, VmOf
  <2>3. LiveVMs(m)' = {}
    BY <1>4, <2>1, <2>2, LiveOf
  <2>4. LifeOf(m) /\ CopyOf(m)
    BY DEF Kept, LifeInv, RecordInv, RecordOf
  <2>5. mem[m].statPid # NoVm /\ cache[m].life \in {"deleting", "gone"}
    BY <1>1, <2>4 DEF LifeOf, Deleting
  <2>6. srv[m].life \in {"deleting", "gone"} /\ srv[m].statPid # NoVm
    BY <2>4, <2>5 DEF LifeOf, CopyOf
  <2>7. srv[m].statPid \in Owned(m)
    BY <2>6, OneIdentity DEF Kept
  <2>8. srv[m].life = "deleting"
    BY <2>1, <2>2, <2>4, <2>6, <2>7 DEF LifeOf
  <2>9. Promise!Destroy(m)
    BY <1>1, <1>3, <1>4, <2>3, <2>6, <2>8 DEF Promise!Destroy, SameFace
  <2> QED
    BY <2>9 DEF Promise!Next
<1> QED
  BY <1>5, <1>6

\* Any other step of a worker leaves the VMs to the promise as they are.
LEMMA SameVMsOf ==
    ASSUME Reliable, Kept, Kept', NEW m \in Machines, Worker(m), ~CreateVM(m), ~Destroy(m)
    PROVE  Owned(m)' = Owned(m) /\ LiveVMs(m)' = LiveVMs(m)
<1>1. VMsOf(m) /\ DestroyedStay
  BY WorkerVMsOf, WorkerLife DEF Kept, Reliable, Configured
<1>2. pc[m] # "create"
  BY DEF Worker, CreateVM, Reconcile, EnsureFinalizer, TryFastPath, RepairCondition,
     RefreshReadyMachine, Prepare, KubeVIPNotInjected, Resolve, LookupExistingVM, ResolveVMName,
     SaveProviderID, StartVM, WaitForVMReady, ReportFailure, ReconcileDelete, Teardown, RemoveFinalizer
<1>3. Owned(m)' = Owned(m)
  BY <1>1, <1>2 DEF VMsOf
<1>4. \A v \in Owned(m) : Destroyed(v)' <=> Destroyed(v)
  BY <1>1, <1>3 DEF VMsOf, DestroyedStay, Owned
<1> QED
  BY <1>3, <1>4, LiveOf

LEMMA StoreSimulates ==
    ASSUME Reliable, Kept, Kept', NEW m \in Machines, Worker(m), ~CreateVM(m), ~Destroy(m)
    PROVE  UNCHANGED Promise!vars \/ Promise!Next
<1>1. Owned(m)' = Owned(m) /\ LiveVMs(m)' = LiveVMs(m)
  BY SameVMsOf
<1>2. \A k \in Machines \ {m} : srv'[k] = srv[k] /\ SameFace(k)
  BY OtherFaces
<1>3. LifeOf(m) /\ VmOf(m) /\ CopyOf(m) /\ HandOf(m) /\ PidsOf(m) /\ LifeStep(m)
  BY WorkerPidsOf, WorkerLifeStep DEF Kept, LifeInv, RecordInv, RecordOf
<1>4. CASE srv' = srv
  <2>1. SameFace(m)
    BY <1>1, <1>4 DEF SameFace
  <2> QED
    BY <1>2, <2>1, SameFaces
<1>5. CASE srv' # srv
  <2>1. PICK obj \in XOMachine :
          /\ m \in synced /\ srv' = [srv EXCEPT ![m] = obj]
          /\ obj.specPid = mem[m].specPid \/ (pc[m] \in {"saveSpec", "saveSpec2"} /\ obj.specPid = wvm[m])
          /\ obj.statPid = mem[m].statPid \/ (pc[m] \in {"saveStatus", "saveStatus2"} /\ obj.statPid = wvm[m])
          /\ obj.ready = mem[m].ready \/ (pc[m] = "markReady" /\ obj.ready = "yes")
    BY <1>5, WorkerPids DEF PidStep, Kept
  <2>2. srv'[m] = obj /\ mem[m] = srv[m] /\ srv[m].life # "gone"
    BY <2>1 DEF Kept, CopiesInv, TypeOK
  <2>3. obj.statPid = srv[m].statPid \/ (pc[m] \in {"saveStatus", "saveStatus2"} /\ obj.statPid = wvm[m])
    BY <2>1, <2>2
  <2>4. obj.ready = srv[m].ready \/ (pc[m] = "markReady" /\ obj.ready = "yes")
    BY <2>1, <2>2
  <2>5. CASE pc[m] \in Work /\ obj.life = srv[m].life
    <3>1. CASE obj.statPid = srv[m].statPid /\ obj.ready = srv[m].ready
      <4>1. SameFace(m)
        BY <1>1, <2>2, <2>5, <3>1 DEF SameFace, PhaseOf
      <4> QED
        BY <1>2, <4>1, SameFaces
    <3>2. CASE obj.statPid # srv[m].statPid
      <4>1. pc[m] \in {"saveStatus", "saveStatus2"} /\ obj.statPid = wvm[m] /\ obj.ready = srv[m].ready
        BY <2>3, <2>4, <3>2
      <4>2. wvm[m] # NoVm /\ srv[m].statPid = NoVm
        BY <1>3, <2>2, <3>2, <4>1 DEF HandOf, Handling, Saving, PidsOf
      <4>3. wvm[m] \in Owned(m)
        BY <4>2, OneIdentity DEF Kept
      <4>4. LiveVMs(m) = {wvm[m]} /\ wvm[m] \in Vms
        BY <2>5, <4>3, HeldVM DEF Owned
      <4>5. PICK v \in Vms : v = wvm[m]
        BY <4>4
      <4>6. Promise!Record(m, v)
        BY <1>1, <1>2, <2>2, <2>5, <4>1, <4>2, <4>4, <4>5 DEF Promise!Record, SameFace
      <4> QED
        BY <4>6 DEF Promise!Next
    <3>3. CASE obj.statPid = srv[m].statPid /\ obj.ready # srv[m].ready
      <4>1. pc[m] = "markReady" /\ obj.ready = "yes"
        BY <2>4, <3>3
      <4>2. srv[m].statPid # NoVm
        BY <1>3, <4>1 DEF HandOf, Handling, Running
      <4>3. srv[m].statPid \in Owned(m)
        BY <4>2, OneIdentity DEF Kept
      <4>4. LiveVMs(m) = {srv[m].statPid}
        BY <2>5, <4>3, HeldVM
      <4>5. Promise!MakeReady(m)
        BY <1>1, <1>2, <2>2, <2>5, <3>3, <4>1, <4>4 DEF Promise!MakeReady, SameFace
      <4> QED
        BY <4>5 DEF Promise!Next
    <3> QED
      BY <3>1, <3>2, <3>3
  <2>6. CASE pc[m] \in Finalizing /\ srv[m].life = "new" /\ obj.life = "active"
    <3>1. obj.statPid = srv[m].statPid /\ obj.ready = srv[m].ready
      BY <2>3, <2>4, <2>6 DEF Finalizing
    <3>2. SameFace(m)
      BY <1>1, <2>2, <2>6, <3>1 DEF SameFace, PhaseOf
    <3> QED
      BY <1>2, <3>2, SameFaces
  <2>7. CASE pc[m] = "unfinalize" /\ srv[m].life = "deleting" /\ obj.life = "gone"
    <3>1. obj.statPid = srv[m].statPid /\ obj.ready = srv[m].ready
      BY <2>3, <2>4, <2>7
    <3>2. srv[m].statPid = NoVm \/ LiveVMs(m) = {}
      <4>1. ASSUME srv[m].statPid # NoVm PROVE LiveVMs(m) = {}
        <5>1. srv[m].statPid \in Owned(m) /\ Destroyed(srv[m].statPid)
          BY <1>3, <2>2, <2>7, <4>1, OneIdentity DEF Kept, LifeOf
        <5>2. \A w \in Owned(m) : w = srv[m].statPid
          BY <1>3, <5>1 DEF VmOf
        <5> QED
          BY <5>1, <5>2, LiveOf
      <4> QED
        BY <4>1
    <3>3. Promise!Release(m)
      BY <1>1, <1>2, <2>2, <2>7, <3>1, <3>2 DEF Promise!Release, SameFace
    <3> QED
      BY <3>3 DEF Promise!Next
  <2> QED
    BY <1>3, <1>5, <2>2, <2>5, <2>6, <2>7 DEF LifeStep
<1> QED
  BY <1>4, <1>5

LEMMA ClusterSimulates ==
    ASSUME Kept, Kept', NEW m \in Machines, Cluster(m)
    PROVE  UNCHANGED Promise!vars \/ Promise!Next
<1>1. /\ vms' = vms /\ \A k \in Machines \ {m} : srv'[k] = srv[k]
      /\ srv'[m].statPid = srv[m].statPid /\ srv'[m].ready = srv[m].ready
      /\ \/ srv'[m].life = srv[m].life
         \/ srv[m].life = "active" /\ srv'[m].life = "deleting"
         \/ srv[m].life = "new" /\ srv'[m].life = "gone"
  BY ClusterObjects DEF Kept
<1>2. \A k \in Machines : Owned(k)' = Owned(k) /\ LiveVMs(k)' = LiveVMs(k)
  BY <1>1 DEF LiveVMs, Owned
<1>3. \A k \in Machines \ {m} : SameFace(k)
  BY <1>1, <1>2 DEF SameFace
<1>4. CASE srv'[m].life = srv[m].life
  <2>1. SameFace(m)
    BY <1>1, <1>2, <1>4 DEF SameFace, PhaseOf
  <2> QED
    BY <1>3, <2>1, SameFaces
<1>5. CASE srv[m].life = "active" /\ srv'[m].life = "deleting"
  <2>1. Promise!RequestDelete(m)
    BY <1>1, <1>2, <1>3, <1>5 DEF Promise!RequestDelete, SameFace
  <2> QED
    BY <2>1 DEF Promise!Next
<1>6. CASE srv[m].life = "new" /\ srv'[m].life = "gone"
  <2>1. Owned(m) = {}
    BY <1>6 DEF Kept, RecordInv, RecordOf, VmOf
  <2>2. Promise!RequestDelete(m)
    BY <1>1, <1>2, <1>3, <1>6, <2>1 DEF Promise!RequestDelete, SameFace
  <2> QED
    BY <2>2 DEF Promise!Next
<1> QED
  BY <1>1, <1>4, <1>5, <1>6

LEMMA InitPromise == Init => Promise!Init
<1> SUFFICES ASSUME Init PROVE Promise!Init
  OBVIOUS
<1>0. PICK old \in SUBSET Upgraded :
         \E home \in [old -> Vms \ ForeignVms], label \in [old \cup ForeignVms -> Names] :
            (\A k, o \in old : home[k] = home[o] => k = o) /\ InitWith(old, home, label)
  BY DEF Init
<1>1. PICK home \in [old -> Vms \ ForeignVms], label \in [old \cup ForeignVms -> Names] :
         (\A k, o \in old : home[k] = home[o] => k = o) /\ InitWith(old, home, label)
  BY <1>0
<1> DEFINE Starts(m) ==
      /\ srv[m].life \in {"new", "active"}
      /\ srv[m].statPid \in Vms \cup {NoVm} /\ srv[m].ready \in {"no", "yes"}
      /\ Owned(m) = IF srv[m].statPid = NoVm THEN {} ELSE {srv[m].statPid}
      /\ LiveVMs(m) = Owned(m)
      /\ srv[m].ready = "yes" => srv[m].statPid # NoVm
<1>2. ASSUME NEW m \in Machines \ old PROVE Starts(m)
  <2>1. srv[m] = Blank
    BY <1>1, <1>2 DEF InitWith
  <2>2. \A v \in Vms : vms[v].marker # m
    BY <1>1, <1>2, SentinelAssumption DEF InitWith, FreeVM
  <2>3. Owned(m) = {} /\ LiveVMs(m) = {}
    BY <2>2 DEF Owned, LiveVMs
  <2> QED
    BY <2>1, <2>3 DEF Blank
<1>3. ASSUME NEW m \in old PROVE Starts(m)
  <2>1. srv[m] = UpgradedObject(home[m], label[m]) /\ home[m] \in Vms \ ForeignVms
    BY <1>1, ScopeAssumption DEF InitWith
  <2>2. vms[home[m]].marker = m /\ vms[home[m]].st = "running"
    BY <1>1, <2>1 DEF InitWith
  <2>3. \A v \in Vms : vms[v].marker = m => v = home[m]
    BY <1>1, ScopeAssumption, SentinelAssumption DEF InitWith, FreeVM
  <2>4. Owned(m) = {home[m]} /\ LiveVMs(m) = {home[m]}
    BY <2>1, <2>2, <2>3 DEF Owned, LiveVMs
  <2>5. /\ srv[m].life = "active" /\ srv[m].statPid = home[m] /\ srv[m].ready = "yes"
        /\ home[m] # NoVm
    BY <2>1, SentinelAssumption DEF UpgradedObject
  <2> QED
    BY <2>1, <2>4, <2>5
<1>4. \A m \in Machines : Starts(m)
  BY <1>2, <1>3
<1>5. \A m \in Machines : Owned(m) \in {{}} \cup {{v} : v \in Vms}
  BY <1>4
<1> QED
  BY <1>4, <1>5 DEF Promise!Init

\* Reconcile and every call it makes, with the informers, other clients and
\* crashes between them, take no other steps than those of the promise: one VM
\* is made for a machine, recorded once and destroyed only in a deletion, and
\* the machine is let go when the recorded VM is gone.
THEOREM LifecycleKeepsPromise == Reliable /\ Spec => KeepsPromise
<1> SUFFICES ASSUME Reliable PROVE Spec => KeepsPromise
  OBVIOUS
<1>1. Kept /\ Kept' /\ [Next]_vars => [Promise!Next]_(Promise!vars)
  <2> SUFFICES ASSUME Kept, Kept', [Next]_vars PROVE UNCHANGED Promise!vars \/ Promise!Next
    OBVIOUS
  <2>s. ASSUME srv' = srv, vms' = vms PROVE UNCHANGED Promise!vars
    BY <2>s DEF Promise!vars, Owned, LiveVMs
  <2>1. ASSUME NEW m \in Machines, Worker(m) PROVE UNCHANGED Promise!vars \/ Promise!Next
    BY <2>1, CreateSimulates, DestroySimulates, StoreSimulates
  <2>2. ASSUME NEW m \in Machines, Cluster(m) PROVE UNCHANGED Promise!vars \/ Promise!Next
    BY <2>2, ClusterSimulates
  <2>3. ASSUME NEW v \in Vms PROVE ~XenOrchestra(v)
    BY DEF XenOrchestra, VMAppears, VMRenamed, VMRemovedInXO, Kept, SingleInv, Reliable
  <2>4. CASE Crash
    BY <2>4, <2>s DEF Crash
  <2>5. CASE UNCHANGED vars
    BY <2>5, <2>s DEF vars
  <2> QED
    BY <2>1, <2>2, <2>3, <2>4, <2>5 DEF Next
<1> QED
  BY <1>1, InitPromise, KeptInvariant, PTL DEF Spec, KeepsPromise, Promise!Spec

----------------------------------------------------------------------------
(* A Ready machine has a VM that was started.                              *)

Started(v) == vms[v].st \in {"running", "destroyed"}

ReadyOf(m) ==
    /\ srv[m].ready = "yes" /\ srv[m].life = "active" => Started(srv[m].statPid)
    /\ pc[m] = "markReady" => Started(wvm[m])

ReadyInv == \A m \in Machines : ReadyOf(m)

\* Only the deletion of its own machine stops a VM.
LEMMA StartedStay ==
    ASSUME Reliable, Kept, NEW m \in Machines, Worker(m), NEW k \in Machines, NEW v \in Owned(k),
           Started(v), k = m => ~Destroy(m)
    PROVE  Started(v)'
<1>0. v \in Vms /\ vms[v].marker = k
  BY DEF Owned
<1>1. CASE vms' = vms
  BY <1>1 DEF Started
<1>2. CASE \E u \in Vms : NewVM(m, u, "halted")
  <2>1. PICK u \in Vms : vms[u].st = "free" /\ \A w \in Vms \ {u} : vms'[w] = vms[w]
    BY <1>2 DEF NewVM, Kept, TypeOK
  <2> QED
    BY <1>0, <2>1 DEF Started
<1>3. CASE vms' = [vms EXCEPT ![wvm[m]].st = "running"]
  <2>1. CASE wvm[m] = v
    BY <1>0, <1>3, <2>1, StateOf DEF Started, Kept
  <2>2. CASE wvm[m] # v
    BY <1>0, <1>3, <2>2 DEF Started, Kept, TypeOK
  <2> QED
    BY <2>1, <2>2
<1>4. CASE Destroy(m)
  <2>1. mem[m].statPid # NoVm
    BY <1>4 DEF Destroy, Kept, LifeInv, LifeOf
  <2>2. mem[m].statPid \in Owned(m)
    BY <2>1, OneIdentity DEF Kept
  <2>3. mem[m].statPid # v
    BY <1>0, <1>4, <2>2 DEF Owned
  <2>4. vms'[v] = vms[v]
    BY <1>0, <1>4, <2>3 DEF Destroy, Kept, TypeOK
  <2> QED
    BY <2>4 DEF Started
<1> QED
  BY <1>1, <1>2, <1>3, <1>4, WorkerVMs DEF VMStep

\* WaitForVMReady goes on to the last write only with a running guest.
LEMMA GuestAnswers ==
    ASSUME Kept, NEW m \in Machines, Worker(m), pc'[m] = "markReady"
    PROVE  vms[wvm[m]].st = "running" /\ vms' = vms /\ wvm' = wvm
<1>1. pc[m] \in {"start", "waitIP"}
  BY WorkerHands DEF Kept, HandStep
<1>2. StartVM(m) \/ WaitForVMReady(m)
  BY <1>1 DEF Worker, Reconcile, EnsureFinalizer, TryFastPath, RepairCondition, RefreshReadyMachine,
     Prepare, KubeVIPNotInjected, Resolve, LookupExistingVM, ResolveVMName, CreateVM,
     SaveProviderID, ReportFailure, ReconcileDelete, Teardown, Destroy, RemoveFinalizer
<1>3. ~(Done(m) \/ Retry(m))
  BY DEF Done, Retry, Drop, Goto, Kept, TypeOK
<1>4. ~Goto(m, "waitIP") /\ ~Goto(m, "condFalse")
  BY DEF Goto, Kept, TypeOK
<1>5. ~StartVM(m)
  BY <1>3, <1>4 DEF StartVM, Proceed, Abandon, WriteRefused
<1> QED
  BY <1>2, <1>3, <1>4, <1>5 DEF WaitForVMReady, Proceed, WriteRefused, AddressReported

LEMMA WorkerReady ==
    ASSUME Reliable, Kept, ReadyInv, NEW m \in Machines, Worker(m)
    PROVE  ReadyInv'
<1>0. /\ LifeOf(m) /\ CopyOf(m) /\ HandOf(m) /\ ReadyOf(m)
      /\ PidsOf(m) /\ LifeStep(m) /\ OnlyOf(m) /\ HandStep(m)
  BY WorkerPidsOf, WorkerLifeStep, WorkerLife, WorkerHands
     DEF Kept, LifeInv, RecordInv, RecordOf, ReadyInv, Reliable, Configured
<1>1. ASSUME srv'[m].ready = "yes", srv'[m].life = "active" PROVE Started(srv[m].statPid)'
  <2>1. ASSUME srv[m].statPid # NoVm, Started(srv[m].statPid), ~Destroy(m) PROVE Started(srv[m].statPid)'
    <3>1. srv[m].statPid \in Owned(m) /\ srv'[m].statPid = srv[m].statPid
      BY <1>0, <2>1, OneIdentity DEF Kept, PidsOf
    <3> QED
      BY <2>1, <3>1, StartedStay DEF Started
  <2>2. CASE pc[m] = "markReady"
    <3>1. srv[m].statPid = wvm[m] /\ wvm[m] # NoVm /\ Started(wvm[m])
      BY <1>0, <2>2 DEF HandOf, Handling, Running, ReadyOf
    <3> QED
      BY <2>1, <2>2, <3>1 DEF Destroy
  <2>3. CASE pc[m] # "markReady"
    <3>1. srv[m].ready = "yes"
      <4>1. CASE srv' = srv
        BY <1>1, <4>1
      <4>2. CASE srv' # srv
        <5>1. PICK obj \in XOMachine :
                m \in synced /\ srv' = [srv EXCEPT ![m] = obj] /\ obj.ready = mem[m].ready
          BY <2>3, <4>2, WorkerPids DEF PidStep, Kept
        <5>2. srv'[m] = obj /\ mem[m] = srv[m]
          BY <5>1 DEF Kept, CopiesInv, TypeOK
        <5> QED
          BY <1>1, <5>1, <5>2
      <4> QED
        BY <4>1, <4>2
    <3>2. srv[m].statPid # NoVm /\ srv[m].life # "new"
      BY <1>0, <3>1 DEF CopyOf, LifeOf
    <3>3. srv[m].life = "active"
      BY <1>0, <1>1, <3>2 DEF LifeStep
    <3>4. ~Destroy(m)
      BY <1>0, <3>3 DEF Destroy, LifeOf, Deleting
    <3> QED
      BY <1>0, <2>1, <3>1, <3>2, <3>3, <3>4 DEF ReadyOf
  <2> QED
    BY <2>2, <2>3
<1>2. pc'[m] = "markReady" => Started(wvm[m])'
  BY GuestAnswers DEF Started
<1>3. ASSUME NEW k \in Machines \ {m} PROVE ReadyOf(k)'
  <2>1. srv'[k] = srv[k] /\ pc'[k] = pc[k] /\ wvm'[k] = wvm[k] /\ ReadyOf(k) /\ CopyOf(k) /\ HandOf(k)
    BY <1>0 DEF OnlyOf, HandStep, ReadyInv, Kept, RecordInv, RecordOf
  <2>2. ASSUME srv[k].ready = "yes", srv[k].life = "active" PROVE Started(srv[k].statPid)'
    <3>1. srv[k].statPid \in Owned(k)
      BY <2>1, <2>2, OneIdentity DEF CopyOf, Kept
    <3> QED
      BY <2>1, <2>2, <3>1, StartedStay DEF ReadyOf, Started
  <2>3. ASSUME pc[k] = "markReady" PROVE Started(wvm[k])'
    <3>1. wvm[k] \in Owned(k)
      BY <2>1, <2>3, OneIdentity DEF HandOf, Handling, Running, Kept
    <3> QED
      BY <2>1, <2>3, <3>1, StartedStay DEF ReadyOf, Started
  <2> QED
    BY <2>1, <2>2, <2>3 DEF ReadyOf, Started
<1> QED
  BY <1>1, <1>2, <1>3 DEF ReadyInv, ReadyOf

\* WaitForVMReady, tryFastPath: a machine is Ready only when its recorded VM was
\* started and its guest answered, whichever reconcile, stale or not, says so.
THEOREM ReadyRuns == Reliable /\ Spec => []ReadyMachineRuns
<1> SUFFICES ASSUME Reliable PROVE Spec => []ReadyMachineRuns
  OBVIOUS
<1>1. Init => ReadyInv
  <2> SUFFICES ASSUME Init, NEW m \in Machines PROVE ReadyOf(m)
    BY DEF ReadyInv
  <2>1. pc[m] = "idle" /\ (srv[m].ready = "yes" => vms[srv[m].statPid].st = "running")
    BY DEF Init, InitWith, Blank, UpgradedObject
  <2> QED
    BY <2>1 DEF ReadyOf, Started
<1>2. Kept /\ ReadyInv /\ [Next]_vars => ReadyInv'
  <2> SUFFICES ASSUME Kept, ReadyInv, [Next]_vars PROVE ReadyInv'
    OBVIOUS
  <2>1. ASSUME NEW m \in Machines, Cluster(m) PROVE ReadyInv'
    <3>1. pc' = pc /\ wvm' = wvm
      BY <2>1 DEF Cluster, UserDelete, Touch, Overwrite, InformerSync, Enqueue, workerVars
    <3>2. /\ vms' = vms /\ \A k \in Machines \ {m} : srv'[k] = srv[k]
          /\ srv'[m].statPid = srv[m].statPid /\ srv'[m].ready = srv[m].ready
          /\ srv'[m].life = "active" => srv[m].life = "active"
      BY <2>1, ClusterObjects DEF Kept
    <3> QED
      BY <3>1, <3>2 DEF ReadyInv, ReadyOf, Started
  <2>2. ASSUME NEW v \in Vms PROVE ~XenOrchestra(v)
    BY DEF XenOrchestra, VMAppears, VMRenamed, VMRemovedInXO, Kept, SingleInv, Reliable
  <2>3. CASE Crash
    BY <2>3 DEF Crash, ReadyInv, ReadyOf, Started
  <2>4. CASE UNCHANGED vars
    BY <2>4 DEF vars, ReadyInv, ReadyOf, Started
  <2> QED
    BY <2>1, <2>2, <2>3, <2>4, WorkerReady DEF Next
<1>3. Kept /\ ReadyInv => ReadyMachineRuns
  BY DEF Kept, RecordInv, RecordOf, CopyOf, ReadyInv, ReadyOf, Started, ReadyMachineRuns
<1> QED
  BY <1>1, <1>2, <1>3, KeptInvariant, PTL DEF Spec

=============================================================================
