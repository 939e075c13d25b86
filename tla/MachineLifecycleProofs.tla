----------------------- MODULE MachineLifecycleProofs -----------------------
(***************************************************************************)
(* What holds of MachineLifecycle for any number of machines, VMs and      *)
(* names and for any combination of faults the theorem does not exclude.   *)
(***************************************************************************)
EXTENDS MachineLifecycle, TLAPS

----------------------------------------------------------------------------
(* Writes and reads preserve the types.                                    *)

\* Objects and VMs stay objects and VMs when one field is replaced.
LEMMA FieldTypes ==
    ASSUME NEW o \in XOMachine
    PROVE  /\ \A l \in {"new", "active", "deleting", "gone"} : [o EXCEPT !.life = l] \in XOMachine
           /\ \A v \in Vms \cup {NoVm} : /\ [o EXCEPT !.specPid = v] \in XOMachine
                                         /\ [o EXCEPT !.statPid = v] \in XOMachine
           /\ \A n \in Names : [o EXCEPT !.name = n] \in XOMachine
           /\ \A c \in {"False", "True"} : [o EXCEPT !.cond = c] \in XOMachine
           /\ [o EXCEPT !.ready = "yes", !.cond = "True"] \in XOMachine
BY DEF XOMachine

LEMMA BlankType == Blank \in XOMachine
BY DEF Blank, XOMachine

\* Every way a write can end keeps the types, given a well-typed object.
LEMMA WriteTypes ==
    ASSUME TypeOK, NEW m \in Machines, NEW obj \in XOMachine, NEW next \in Calls,
           \/ Write(m, obj, next)
           \/ Accept(m, obj) /\ (Done(m) \/ Retry(m))
           \/ WriteRefused(m)
           \/ WriteConflict(m, next)
           \/ ReRead(m, next)
           \/ Proceed(m, next)
           \/ Done(m) /\ UNCHANGED <<srv, cache, fresh, vms>>
    PROVE  TypeOK'
BY BlankType DEF TypeOK, Write, WriteOk, WriteLost, WriteRefused, WriteConflict, ReRead,
   Proceed, Accept, Done, Retry, Drop, Read, Goto, objectVars, Calls

\* A VM gets a new identity, marker and name, or another state.
LEMMA VMTypes ==
    ASSUME TypeOK
    PROVE  /\ \A m \in Machines, v \in Vms, state \in {"halted", "pending"} :
                 NewVM(m, v, state) => vms' \in [Vms -> VM]
           /\ \A v \in Vms, n \in Names :
                 [vms EXCEPT ![v].name = n] \in [Vms -> VM]
           /\ \A v \in Vms \cup {NoVm}, st \in {"halted", "running", "destroyed"} :
                 [vms EXCEPT ![v].st = st] \in [Vms -> VM]
           /\ \A v \in Vms \cup {NoVm} : [vms EXCEPT ![v].st = vms[v].st] \in [Vms -> VM]
<1>1. ASSUME NEW m \in Machines, NEW v \in Vms, NEW state \in {"halted", "pending"}, NewVM(m, v, state)
      PROVE  vms' \in [Vms -> VM]
  <2>1. [st |-> state, marker |-> m, name |-> mem[m].name] \in VM
    BY DEF TypeOK, VM, XOMachine
  <2> QED
    BY <1>1, <2>1 DEF TypeOK, NewVM
<1>2. ASSUME NEW v \in Vms, NEW n \in Names
      PROVE  [vms EXCEPT ![v].name = n] \in [Vms -> VM]
  BY DEF TypeOK, VM
<1>3. ASSUME NEW v \in Vms \cup {NoVm}, NEW st \in {"halted", "running", "destroyed"}
      PROVE  [vms EXCEPT ![v].st = st] \in [Vms -> VM]
  BY DEF TypeOK, VM
<1>4. ASSUME NEW v \in Vms \cup {NoVm}
      PROVE  [vms EXCEPT ![v].st = vms[v].st] \in [Vms -> VM]
  BY DEF TypeOK, VM
<1> QED
  BY <1>1, <1>2, <1>3, <1>4

\* The same for the step that hands the worker a VM.
LEMMA GiveTypes ==
    ASSUME TypeOK, NEW m \in Machines, NEW v \in Vms \cup {NoVm}, NEW next \in Calls,
           Give(m, v, next), vms' \in [Vms -> VM]
    PROVE  TypeOK'
BY DEF TypeOK, Give, Goto, objectVars

----------------------------------------------------------------------------
(* The type invariant.                                                     *)

LEMMA InitTypes == Init => TypeOK
<1> SUFFICES ASSUME Init PROVE TypeOK
  OBVIOUS
<1>0. PICK old \in SUBSET Upgraded :
         \E home \in [old -> Vms \ ForeignVms], label \in [old \cup ForeignVms -> Names] :
            InitWith(old, home, label)
  BY DEF Init
<1>1. PICK home \in [old -> Vms \ ForeignVms], label \in [old \cup ForeignVms -> Names] :
         InitWith(old, home, label)
  BY <1>0
<1>2. \A m \in old : UpgradedObject(home[m], label[m]) \in XOMachine
  BY DEF UpgradedObject, XOMachine
<1>3. srv \in [Machines -> XOMachine]
  BY <1>1, <1>2, BlankType DEF InitWith
<1>4. vms \in [Vms -> VM]
  BY <1>1, ScopeAssumption DEF InitWith, VM, FreeVM
<1> QED
  BY <1>1, <1>3, <1>4, BlankType DEF InitWith, TypeOK, Calls

LEMMA WorkerTypes ==
    ASSUME TypeOK, NEW m \in Machines, Worker(m)
    PROVE  TypeOK'
<1> USE DEF Calls
<1>m. mem[m] \in XOMachine /\ wvm[m] \in Vms \cup {NoVm} /\ mem[m].statPid \in Vms \cup {NoVm}
  BY DEF TypeOK, XOMachine
<1>1. CASE Reconcile(m)
  <2>1. cache[m].life \in {"new", "active", "deleting", "gone"}
    BY DEF TypeOK, XOMachine
  <2>2. cache[m].life # "gone" => \E next \in Calls : Goto(m, next)
    BY <1>1, <2>1 DEF Reconcile
  <2> QED
    BY <1>1, <2>2 DEF TypeOK, Reconcile, Read, Goto, workerVars
<1>2. CASE EnsureFinalizer(m)
  BY <1>2, <1>m, FieldTypes, WriteTypes DEF EnsureFinalizer, WithFinalizer, Write
<1>3. CASE TryFastPath(m)
  BY <1>3, <1>m, WriteTypes, GiveTypes DEF TryFastPath, TypeOK
<1>4. CASE RepairCondition(m)
  BY <1>4, <1>m, FieldTypes, WriteTypes DEF RepairCondition
<1>5. CASE RefreshReadyMachine(m)
  BY <1>5, <1>m, WriteTypes DEF RefreshReadyMachine, AddressRecorded
<1>6. CASE Prepare(m)
  BY <1>6, <1>m, WriteTypes DEF Prepare, BootstrapMissing, ClientMissing, BuildPayload, Abandon
<1>7. CASE KubeVIPNotInjected(m)
  <2> DEFINE obj == [mem[m] EXCEPT !.cond = "False"]
  <2>1. obj \in XOMachine
    BY <1>m, FieldTypes
  <2>2. CASE WriteOk(m, obj, "resolve")
    BY <2>1, <2>2, WriteTypes DEF Write
  <2>3. CASE /\ Accept(m, obj)
             /\ Goto(m, "condFalse")
             /\ synced' = synced \ {m}
             /\ UNCHANGED <<mem, wvm, queue>>
    BY <2>1, <2>3 DEF Accept, Goto, TypeOK
  <2>4. CASE Proceed(m, "condFalse")
    BY <2>1, <2>4, WriteTypes
  <2>5. \/ WriteOk(m, obj, "resolve")
        \/ /\ Accept(m, obj)
           /\ Goto(m, "condFalse")
           /\ synced' = synced \ {m}
           /\ UNCHANGED <<mem, wvm, queue>>
        \/ Proceed(m, "condFalse")
    BY <1>7, Zenon DEF KubeVIPNotInjected
  <2> QED
    BY <2>2, <2>3, <2>4, <2>5, Zenon
<1>8. CASE Resolve(m)
  BY <1>8, <1>m, WriteTypes DEF Resolve, AddressMissing, ResolutionFailed
<1>9. CASE LookupExistingVM(m)
  BY <1>9, <1>m, WriteTypes, GiveTypes DEF LookupExistingVM, TypeOK
<1>10. CASE ResolveVMName(m)
  BY <1>10, <1>m, FieldTypes, WriteTypes DEF ResolveVMName
<1>11. CASE CreateVM(m)
  <2>1. ASSUME NEW found \in Calls, NEW otherwise \in Calls, FindAdoptableVM(m, found, otherwise)
        PROVE  TypeOK'
    <3>1. ASSUME NEW v \in Vms, Give(m, v, found), UNCHANGED vms
          PROVE  TypeOK'
      <4>1. vms' \in [Vms -> VM]
        BY <3>1 DEF TypeOK
      <4> QED
        BY <3>1, <4>1, GiveTypes
    <3>2. CASE Proceed(m, otherwise)
      BY <1>m, <3>2, WriteTypes
    <3>3. \/ \E v \in Vms : Give(m, v, found) /\ UNCHANGED vms
          \/ Proceed(m, otherwise)
      BY <2>1 DEF FindAdoptableVM, AdoptableVMs
    <3> QED
      BY <3>1, <3>2, <3>3
  <2>2. ASSUME NEW v \in Vms, NEW state \in {"halted", "pending"}, NewVM(m, v, state),
               Give(m, v, "saveSpec")
        PROVE  TypeOK'
    BY <2>2, VMTypes, GiveTypes
  <2>3. ASSUME NEW v \in Vms, NEW state \in {"halted", "pending"}, NewVM(m, v, state),
               Goto(m, "relook"), UNCHANGED <<objectVars, mem, synced, wvm>>
        PROVE  TypeOK'
    BY <2>3, VMTypes DEF TypeOK, Goto, objectVars
  <2> QED
    BY <1>11, <1>m, <2>1, <2>2, <2>3, WriteTypes DEF CreateVM
<1>12. CASE SaveProviderID(m)
  <2>1. SpecSaved(m) \in XOMachine /\ StatusSaved(m) \in XOMachine
    BY <1>m, FieldTypes DEF SpecSaved, StatusSaved
  <2>2. ASSUME WriteStatusPid(m) PROVE TypeOK'
    BY <2>1, <2>2, WriteTypes DEF WriteStatusPid
  <2> QED
    BY <1>12, <2>1, <2>2, WriteTypes DEF SaveProviderID
<1>13. CASE StartVM(m)
  <2>1. ASSUME NEW call \in {"waitIP", "condFalse"}, Goto(m, call),
               vms' = [vms EXCEPT ![wvm[m]].st = "running"],
               UNCHANGED <<objectVars, mem, synced, wvm>>
        PROVE  TypeOK'
    BY <2>1, <1>m, VMTypes DEF TypeOK, Goto, objectVars
  <2> QED
    BY <1>13, <1>m, <2>1, WriteTypes DEF StartVM, Abandon
<1>14. CASE WaitForVMReady(m)
  BY <1>14, <1>m, FieldTypes, WriteTypes DEF WaitForVMReady, MadeReady
<1>15. CASE ReportFailure(m)
  BY <1>15, <1>m, FieldTypes, WriteTypes DEF ReportFailure, WriteRefused
<1>16. CASE ReconcileDelete(m)
  BY <1>16, <1>m, WriteTypes DEF ReconcileDelete, Abandon
<1>17. CASE Teardown(m)
  BY <1>17, <1>m, WriteTypes DEF Teardown, Abandon
<1>18. CASE Destroy(m)
  <2>1. vms' \in [Vms -> VM]
    <3>1. CASE vms' = [vms EXCEPT ![mem[m].statPid].st = "destroyed"]
      BY <3>1, <1>m, VMTypes
    <3>2. CASE \E s \in {"halted", "destroyed", vms[mem[m].statPid].st} :
                  vms' = [vms EXCEPT ![mem[m].statPid].st = s]
      <4>1. PICK s \in {"halted", "destroyed", vms[mem[m].statPid].st} :
                  vms' = [vms EXCEPT ![mem[m].statPid].st = s]
        BY <3>2
      <4>2. CASE s \in {"halted", "destroyed"}
        BY <4>1, <4>2, <1>m, VMTypes
      <4>3. CASE s = vms[mem[m].statPid].st
        BY <4>1, <4>3, <1>m, VMTypes
      <4> QED
        BY <4>2, <4>3
    <3> QED
      BY <1>18, <3>1, <3>2 DEF Destroy
  <2> QED
    BY <1>18, <2>1, BlankType DEF TypeOK, Destroy, Goto, Retry, Drop, objectVars
<1>19. CASE RemoveFinalizer(m)
  BY <1>19, <1>m, FieldTypes, WriteTypes DEF RemoveFinalizer
<1> QED
  BY <1>1, <1>2, <1>3, <1>4, <1>5, <1>6, <1>7, <1>8, <1>9, <1>10, <1>11, <1>12, <1>13,
     <1>14, <1>15, <1>16, <1>17, <1>18, <1>19 DEF Worker

LEMMA EnvironmentTypes ==
    ASSUME TypeOK, \/ \E m \in Machines : Cluster(m)
                   \/ \E v \in Vms : XenOrchestra(v)
                   \/ Crash
    PROVE  TypeOK'
<1>1. ASSUME NEW m \in Machines, UserDelete(m) \/ Touch(m) PROVE TypeOK'
  <2>1. srv[m] \in XOMachine
    BY DEF TypeOK
  <2>2. PICK obj \in XOMachine : Overwrite(m, obj)
    BY <1>1, <2>1, FieldTypes DEF UserDelete, Touch
  <2> QED
    BY <2>2 DEF TypeOK, Overwrite
<1>2. ASSUME NEW m \in Machines, InformerSync(m) \/ Enqueue(m) PROVE TypeOK'
  BY <1>2 DEF TypeOK, InformerSync, Enqueue, workerVars
<1>3. ASSUME NEW v \in Vms, XenOrchestra(v) PROVE TypeOK'
  <2>1. vms' \in [Vms -> VM]
    <3>1. CASE VMAppears(v)
      BY <3>1, VMTypes DEF VMAppears
    <3>2. CASE VMRenamed(v)
      BY <3>2, VMTypes DEF VMRenamed
    <3>3. CASE VMRemovedInXO(v)
      BY <3>3, VMTypes DEF VMRemovedInXO
    <3> QED
      BY <1>3, <3>1, <3>2, <3>3 DEF XenOrchestra
  <2> QED
    BY <1>3, <2>1 DEF TypeOK, XenOrchestra, VMAppears, VMRenamed, VMRemovedInXO, objectVars, workerVars
<1>4. ASSUME Crash PROVE TypeOK'
  BY <1>4, BlankType DEF TypeOK, Crash, Calls
<1> QED
  BY <1>1, <1>2, <1>3, <1>4 DEF Cluster

\* Reconcile and every call it makes, the other clients, the informers, a
\* crash and XO itself keep every variable within its type.
THEOREM TypeCorrect == Spec => []TypeOK
<1>1. TypeOK /\ [Next]_vars => TypeOK'
  <2> SUFFICES ASSUME TypeOK, [Next]_vars PROVE TypeOK'
    OBVIOUS
  <2>1. CASE UNCHANGED vars
    BY <2>1 DEF TypeOK, vars
  <2> QED
    BY <2>1, WorkerTypes, EnvironmentTypes DEF Next
<1> QED
  BY <1>1, InitTypes, PTL DEF Spec

----------------------------------------------------------------------------
(* What one step of a worker can do to the objects.                        *)

\* Fields of the stored object a write may change, and to what.
Rewrites(m, obj) ==
    /\ obj.specPid \in {mem[m].specPid, wvm[m]}
    /\ obj.statPid \in {mem[m].statPid, wvm[m]}
    /\ mem[m].name # NoName => obj.name = mem[m].name

Forgets(m) == mem' = [mem EXCEPT ![m] = Blank] /\ synced' = synced \ {m}

Stores(m, obj) ==
    /\ m \in synced
    /\ srv' = [srv EXCEPT ![m] = obj]
    /\ fresh' = fresh \ {m}
    /\ vms' = vms
    /\ \/ /\ obj.life \in {mem[m].life, "active"}
          /\ mem' = [mem EXCEPT ![m] = obj]
          /\ synced' = synced
       \/ Forgets(m)
       \/ mem' = mem /\ synced' = synced \ {m}

\* Either nothing is stored, and the worker keeps, drops or reads its copy, or
\* one object is.
ObjectEffect(m) ==
    /\ cache' = cache
    /\ \/ /\ srv' = srv /\ fresh' = fresh
          /\ \/ mem' = mem /\ synced' = synced
             \/ Forgets(m)
             \/ cache[m].life # "gone" /\ Read(m)
       \/ \E obj \in XOMachine : Rewrites(m, obj) /\ Stores(m, obj)

LEMMA PrimitiveEffect ==
    ASSUME NEW m \in Machines, NEW obj \in XOMachine, NEW next, Rewrites(m, obj),
           \/ obj.life \in {mem[m].life, "active"} /\ Write(m, obj, next)
           \/ Accept(m, obj) /\ (Done(m) \/ Retry(m))
    PROVE  ObjectEffect(m)
BY DEF Write, WriteOk, WriteLost, WriteRefused, Accept, Done, Retry, Drop, ObjectEffect,
       Stores, Forgets

LEMMA QuietEffect ==
    ASSUME NEW m \in Machines, NEW next,
           \/ WriteRefused(m)
           \/ WriteConflict(m, next)
           \/ ReRead(m, next)
           \/ Proceed(m, next)
           \/ Done(m) /\ UNCHANGED <<srv, cache, fresh, vms>>
           \/ \E v : Give(m, v, next)
           \/ UNCHANGED <<objectVars, mem, synced, wvm>>
    PROVE  ObjectEffect(m)
BY DEF WriteRefused, WriteConflict, ReRead, Proceed, Give, Done, Retry, Drop, ObjectEffect,
       Forgets, objectVars

\* The objects the worker writes.
LEMMA WrittenObjects ==
    ASSUME TypeOK, NEW m \in Machines
    PROVE  /\ \A c \in {"False", "True"} :
                 /\ [mem[m] EXCEPT !.cond = c] \in XOMachine
                 /\ Rewrites(m, [mem[m] EXCEPT !.cond = c])
                 /\ [mem[m] EXCEPT !.cond = c].life = mem[m].life
           /\ mem[m] \in XOMachine /\ Rewrites(m, mem[m])
           /\ WithFinalizer(m) \in XOMachine /\ Rewrites(m, WithFinalizer(m))
           /\ WithFinalizer(m).life = "active"
           /\ SpecSaved(m) \in XOMachine /\ Rewrites(m, SpecSaved(m))
           /\ SpecSaved(m).life = mem[m].life
           /\ StatusSaved(m) \in XOMachine /\ Rewrites(m, StatusSaved(m))
           /\ StatusSaved(m).life = mem[m].life
           /\ [mem[m] EXCEPT !.ready = "yes", !.cond = "True"] \in XOMachine
           /\ Rewrites(m, [mem[m] EXCEPT !.ready = "yes", !.cond = "True"])
           /\ [mem[m] EXCEPT !.life = "gone"] \in XOMachine
           /\ Rewrites(m, [mem[m] EXCEPT !.life = "gone"])
           /\ \A n \in Names : mem[m].name = NoName =>
                 /\ [mem[m] EXCEPT !.name = n] \in XOMachine
                 /\ Rewrites(m, [mem[m] EXCEPT !.name = n])
                 /\ [mem[m] EXCEPT !.name = n].life = mem[m].life
<1>1. mem[m] \in XOMachine /\ wvm[m] \in Vms \cup {NoVm}
  BY DEF TypeOK
<1>2. \A c \in {"False", "True"} :
         /\ [mem[m] EXCEPT !.cond = c] \in XOMachine
         /\ Rewrites(m, [mem[m] EXCEPT !.cond = c])
         /\ [mem[m] EXCEPT !.cond = c].life = mem[m].life
  BY <1>1 DEF Rewrites, XOMachine
<1>3. mem[m] \in XOMachine /\ Rewrites(m, mem[m])
  BY <1>1 DEF Rewrites
<1>4. WithFinalizer(m) \in XOMachine /\ Rewrites(m, WithFinalizer(m)) /\ WithFinalizer(m).life = "active"
  BY <1>1 DEF Rewrites, XOMachine, WithFinalizer
<1>5. SpecSaved(m) \in XOMachine /\ Rewrites(m, SpecSaved(m)) /\ SpecSaved(m).life = mem[m].life
  BY <1>1 DEF Rewrites, XOMachine, SpecSaved
<1>6. StatusSaved(m) \in XOMachine /\ Rewrites(m, StatusSaved(m)) /\ StatusSaved(m).life = mem[m].life
  BY <1>1 DEF Rewrites, XOMachine, StatusSaved
<1>7. /\ [mem[m] EXCEPT !.ready = "yes", !.cond = "True"] \in XOMachine
      /\ Rewrites(m, [mem[m] EXCEPT !.ready = "yes", !.cond = "True"])
  BY <1>1 DEF Rewrites, XOMachine
<1>8. /\ [mem[m] EXCEPT !.life = "gone"] \in XOMachine
      /\ Rewrites(m, [mem[m] EXCEPT !.life = "gone"])
  BY <1>1 DEF Rewrites, XOMachine
<1>9. \A n \in Names : mem[m].name = NoName =>
         /\ [mem[m] EXCEPT !.name = n] \in XOMachine
         /\ Rewrites(m, [mem[m] EXCEPT !.name = n])
         /\ [mem[m] EXCEPT !.name = n].life = mem[m].life
  BY <1>1 DEF Rewrites, XOMachine
<1> QED
  BY <1>2, <1>3, <1>4, <1>5, <1>6, <1>7, <1>8, <1>9

LEMMA WorkerEffect ==
    ASSUME TypeOK, NEW m \in Machines, Worker(m)
    PROVE  ObjectEffect(m)
<1>1. CASE Reconcile(m)
  BY <1>1 DEF Reconcile, ObjectEffect, workerVars
<1>2. CASE EnsureFinalizer(m)
  BY <1>2, WrittenObjects, PrimitiveEffect, QuietEffect DEF EnsureFinalizer
<1>3. CASE TryFastPath(m)
  BY <1>3, QuietEffect DEF TryFastPath
<1>4. CASE RepairCondition(m)
  BY <1>4, WrittenObjects, PrimitiveEffect DEF RepairCondition
<1>5. CASE RefreshReadyMachine(m)
  BY <1>5, WrittenObjects, PrimitiveEffect, QuietEffect DEF RefreshReadyMachine, AddressRecorded
<1>6. CASE Prepare(m) \/ Resolve(m)
  BY <1>6, QuietEffect DEF Prepare, Resolve, BootstrapMissing, ClientMissing, BuildPayload, AddressMissing,
     ResolutionFailed, Abandon
<1>7. CASE KubeVIPNotInjected(m)
  BY <1>7, WrittenObjects, PrimitiveEffect, QuietEffect
     DEF KubeVIPNotInjected, Write, Accept, ObjectEffect, Stores
<1>9. CASE LookupExistingVM(m)
  BY <1>9, QuietEffect DEF LookupExistingVM
<1>10. CASE ResolveVMName(m)
  BY <1>10, WrittenObjects, PrimitiveEffect, QuietEffect DEF ResolveVMName
<1>11. CASE CreateVM(m)
  BY <1>11, QuietEffect DEF CreateVM, FindAdoptableVM
<1>12. CASE SaveProviderID(m)
  <2>1. ASSUME WriteStatusPid(m) PROVE ObjectEffect(m)
    BY <2>1, WrittenObjects, PrimitiveEffect, QuietEffect DEF WriteStatusPid
  <2> QED
    BY <1>12, <2>1, WrittenObjects, PrimitiveEffect, QuietEffect DEF SaveProviderID
<1>13. CASE StartVM(m)
  BY <1>13, QuietEffect DEF StartVM, Abandon
<1>14. CASE WaitForVMReady(m)
  BY <1>14, WrittenObjects, PrimitiveEffect, QuietEffect DEF WaitForVMReady, MadeReady
<1>15. CASE ReportFailure(m)
  BY <1>15, WrittenObjects, PrimitiveEffect, QuietEffect DEF ReportFailure, WriteRefused
<1>16. CASE ReconcileDelete(m) \/ Teardown(m)
  BY <1>16, QuietEffect DEF ReconcileDelete, Teardown, Abandon
<1>18. CASE Destroy(m)
  BY <1>18 DEF Destroy, ObjectEffect, Forgets, Retry, Drop, objectVars
<1>19. CASE RemoveFinalizer(m)
  BY <1>19, WrittenObjects, PrimitiveEffect, QuietEffect DEF RemoveFinalizer
<1> QED
  BY <1>1, <1>2, <1>3, <1>4, <1>5, <1>6, <1>7, <1>9, <1>10, <1>11, <1>12, <1>13, <1>14,
     <1>15, <1>16, <1>18, <1>19 DEF Worker

----------------------------------------------------------------------------
(* Optimistic concurrency: what "synced" and "fresh" are worth.            *)

\* A worker that may write holds what is stored, a fresh cache holds it too,
\* and nobody writes to an object that is gone.
CopiesInv ==
    \A m \in Machines :
       /\ m \in synced => mem[m] = srv[m] /\ srv[m].life # "gone"
       /\ m \in fresh => cache[m] = srv[m]

LEMMA WorkerCopies ==
    ASSUME TypeOK, CopiesInv, NEW m \in Machines, Worker(m)
    PROVE  CopiesInv'
<1>1. ObjectEffect(m)
  BY WorkerEffect
<1>2. CASE srv' = srv /\ fresh' = fresh
  BY <1>1, <1>2 DEF ObjectEffect, CopiesInv, TypeOK, Forgets, Read, Stores
<1>3. CASE \E obj \in XOMachine : Rewrites(m, obj) /\ Stores(m, obj)
  <2>1. PICK obj \in XOMachine : Stores(m, obj)
    BY <1>3
  <2> QED
    BY <1>1, <2>1 DEF ObjectEffect, CopiesInv, TypeOK, Forgets, Stores
<1> QED
  BY <1>1, <1>2, <1>3 DEF ObjectEffect

LEMMA EnvironmentCopies ==
    ASSUME TypeOK, CopiesInv,
           \/ \E m \in Machines : Cluster(m)
           \/ \E v \in Vms : XenOrchestra(v)
           \/ Crash
    PROVE  CopiesInv'
<1>1. ASSUME NEW m \in Machines, NEW obj, Overwrite(m, obj) PROVE CopiesInv'
  BY <1>1 DEF CopiesInv, TypeOK, Overwrite
<1>2. ASSUME NEW m \in Machines, InformerSync(m) \/ Enqueue(m) PROVE CopiesInv'
  BY <1>2 DEF CopiesInv, TypeOK, InformerSync, Enqueue, workerVars
<1>3. ASSUME NEW v \in Vms, XenOrchestra(v) PROVE CopiesInv'
  BY <1>3 DEF CopiesInv, XenOrchestra, VMAppears, VMRenamed, VMRemovedInXO, objectVars, workerVars
<1>4. ASSUME Crash PROVE CopiesInv'
  BY <1>4 DEF CopiesInv, Crash
<1> QED
  BY <1>1, <1>2, <1>3, <1>4 DEF Cluster, UserDelete, Touch

LEMMA CopiesInvariant == Spec => []CopiesInv
<1>1. Init => CopiesInv
  BY DEF Init, InitWith, CopiesInv
<1>2. TypeOK /\ CopiesInv /\ [Next]_vars => CopiesInv'
  <2> SUFFICES ASSUME TypeOK, CopiesInv, [Next]_vars PROVE CopiesInv'
    OBVIOUS
  <2>1. CASE UNCHANGED vars
    BY <2>1 DEF CopiesInv, vars
  <2> QED
    BY <2>1, WorkerCopies, EnvironmentCopies DEF Next
<1> QED
  BY <1>1, <1>2, TypeCorrect, PTL DEF Spec

\* resolveVMName: the stored name never changes, under every fault: a worker
\* computes a name only when its copy has none, and that copy is refused unless
\* it is the stored one.
THEOREM NameStable == Spec => NameNeverChanges
<1> DEFINE Kept == \A m \in Machines : srv[m].name # NoName => srv'[m].name = srv[m].name
<1>1. TypeOK /\ CopiesInv /\ [Next]_vars => [Kept]_vars
  <2> SUFFICES ASSUME TypeOK, CopiesInv, Next PROVE Kept
    OBVIOUS
  <2>1. ASSUME NEW m \in Machines, Worker(m) PROVE Kept
    <3>1. ObjectEffect(m)
      BY <2>1, WorkerEffect
    <3>2. CASE srv' = srv
      BY <3>2
    <3>3. CASE \E obj \in XOMachine : Rewrites(m, obj) /\ Stores(m, obj)
      BY <3>3 DEF CopiesInv, TypeOK, Rewrites, Stores
    <3> QED
      BY <3>1, <3>2, <3>3 DEF ObjectEffect
  <2>2. ASSUME NEW m \in Machines, Cluster(m) PROVE Kept
    <3>1. ASSUME NEW obj \in XOMachine, obj.name = srv[m].name, Overwrite(m, obj) PROVE Kept
      BY <3>1 DEF Overwrite, TypeOK
    <3>2. \A l \in {"deleting", "gone"} :
             /\ [srv[m] EXCEPT !.life = l] \in XOMachine
             /\ [srv[m] EXCEPT !.life = l].name = srv[m].name
      <4>1. srv[m] \in XOMachine
        BY DEF TypeOK
      <4>2. \A l \in {"deleting", "gone"} : [srv[m] EXCEPT !.life = l] \in XOMachine
        BY <4>1, FieldTypes
      <4>3. \A l \in {"deleting", "gone"} : [srv[m] EXCEPT !.life = l].name = srv[m].name
        BY <4>1 DEF XOMachine
      <4> QED
        BY <4>2, <4>3
    <3>3. CASE UserDelete(m)
      BY <3>1, <3>2, <3>3 DEF UserDelete
    <3>4. CASE Touch(m)
      BY <3>4 DEF Touch, Overwrite, TypeOK
    <3>5. CASE InformerSync(m) \/ Enqueue(m)
      BY <3>5 DEF InformerSync, Enqueue
    <3> QED
      BY <2>2, <3>3, <3>4, <3>5 DEF Cluster
  <2>3. ASSUME NEW v \in Vms, XenOrchestra(v) PROVE Kept
    BY <2>3 DEF XenOrchestra, VMAppears, VMRenamed, VMRemovedInXO, objectVars
  <2>4. ASSUME Crash PROVE Kept
    BY <2>4 DEF Crash
  <2> QED
    BY <2>1, <2>2, <2>3, <2>4 DEF Next
<1> QED
  BY <1>1, TypeCorrect, CopiesInvariant, PTL DEF Spec, NameNeverChanges

----------------------------------------------------------------------------
(* Whose VMs the machines hold.                                            *)

OwnVM(m, v) == v \in Vms => vms[v].marker = m
OwnObject(m, o) == OwnVM(m, o.specPid) /\ OwnVM(m, o.statPid)

\* Every VM a machine holds, stored, cached or in a worker's hand, carries its
\* marker; an identity XO has not given out yet carries none.
OwnInv ==
    /\ \A v \in Vms : vms[v].st = "free" => vms[v].marker = Foreign
    /\ \A m \in Machines : /\ OwnObject(m, srv[m])
                           /\ OwnObject(m, cache[m])
                           /\ OwnObject(m, mem[m])
                           /\ OwnVM(m, wvm[m])

\* No step takes a marker away, and only the create call gives one.
MarkersKept ==
    /\ \A v \in Vms : vms'[v].st = "free" => vms'[v].marker = Foreign
    /\ \A v \in Vms : vms[v].marker \in Machines => vms'[v].marker = vms[v].marker

\* What a step hands to the worker is its machine's own VM.
HandEffect(m) ==
    \/ wvm' = wvm
    \/ wvm' = [wvm EXCEPT ![m] = NoVm]
    \/ \E v \in Vms \cup {NoVm} : wvm' = [wvm EXCEPT ![m] = v] /\ OwnVM(m, v)'

LEMMA StateChangeKeepsMarkers ==
    ASSUME TypeOK, OwnInv, NEW v \in Vms \cup {NoVm}, NEW st \in {"halted", "running", "destroyed"},
           vms' = [vms EXCEPT ![v].st = st]
    PROVE  MarkersKept
BY DEF TypeOK, VM, OwnInv, MarkersKept

LEMMA NewVMKeepsMarkers ==
    ASSUME TypeOK, OwnInv, NEW m \in Machines, NEW v \in Vms, NEW st \in {"halted", "pending"},
           NewVM(m, v, st)
    PROVE  MarkersKept /\ OwnVM(m, v)'
BY SentinelAssumption DEF TypeOK, VM, OwnInv, MarkersKept, NewVM, OwnVM

LEMMA SameVMs ==
    ASSUME TypeOK, OwnInv, vms' = vms
    PROVE  MarkersKept /\ \A m, v : OwnVM(m, v) => OwnVM(m, v)'
BY DEF OwnInv, MarkersKept, OwnVM

LEMMA QuietHand ==
    ASSUME TypeOK, OwnInv, NEW m \in Machines, NEW obj, NEW next,
           \/ Write(m, obj, next)
           \/ Accept(m, obj) /\ (Done(m) \/ Retry(m))
           \/ WriteRefused(m)
           \/ WriteConflict(m, next)
           \/ ReRead(m, next)
           \/ Proceed(m, next)
           \/ Done(m) /\ UNCHANGED <<srv, cache, fresh, vms>>
    PROVE  MarkersKept /\ HandEffect(m)
BY SameVMs DEF Write, WriteOk, WriteLost, WriteRefused, WriteConflict, ReRead, Proceed, Accept,
   Done, Retry, Drop, HandEffect, objectVars

LEMMA GiveHand ==
    ASSUME TypeOK, OwnInv, NEW m \in Machines, NEW v \in Vms \cup {NoVm}, NEW next,
           Give(m, v, next), OwnVM(m, v), vms' = vms
    PROVE  MarkersKept /\ HandEffect(m)
BY SameVMs DEF Give, HandEffect

LEMMA WorkerHand ==
    ASSUME TypeOK, OwnInv, NEW m \in Machines, Worker(m)
    PROVE  MarkersKept /\ HandEffect(m)
<1>p. mem[m].statPid \in Vms \cup {NoVm} /\ OwnVM(m, mem[m].statPid)
  BY DEF TypeOK, XOMachine, OwnInv, OwnObject
<1>1. CASE Reconcile(m)
  BY <1>1, SameVMs DEF Reconcile, HandEffect, workerVars
<1>2. CASE EnsureFinalizer(m)
  BY <1>2, QuietHand DEF EnsureFinalizer
<1>3. CASE TryFastPath(m)
  BY <1>3, <1>p, QuietHand, GiveHand DEF TryFastPath
<1>4. CASE RepairCondition(m) \/ RefreshReadyMachine(m)
  BY <1>4, QuietHand DEF RepairCondition, RefreshReadyMachine, AddressRecorded
<1>5. CASE Prepare(m) \/ Resolve(m) \/ ReconcileDelete(m) \/ Teardown(m)
  BY <1>5, QuietHand DEF Prepare, Resolve, ReconcileDelete, Teardown, BootstrapMissing, ClientMissing, BuildPayload, AddressMissing,
     ResolutionFailed, Abandon
<1>6. CASE KubeVIPNotInjected(m)
  BY <1>6, QuietHand, SameVMs DEF KubeVIPNotInjected, Write, Accept, HandEffect
<1>7. CASE LookupExistingVM(m)
  BY <1>7, <1>p, QuietHand, GiveHand DEF LookupExistingVM
<1>8. CASE ResolveVMName(m)
  BY <1>8, QuietHand DEF ResolveVMName
<1>9. CASE CreateVM(m)
  <2>1. ASSUME NEW found, NEW otherwise, FindAdoptableVM(m, found, otherwise)
        PROVE  MarkersKept /\ HandEffect(m)
    BY <2>1, QuietHand, GiveHand DEF FindAdoptableVM, AdoptableVMs, OwnVM
  <2>2. ASSUME NEW v \in Vms, NEW st \in {"halted", "pending"}, NewVM(m, v, st),
               Give(m, v, "saveSpec") \/ wvm' = wvm
        PROVE  MarkersKept /\ HandEffect(m)
    BY <2>2, NewVMKeepsMarkers DEF Give, HandEffect
  <2> QED
    BY <1>9, <2>1, <2>2, QuietHand DEF CreateVM
<1>10. CASE SaveProviderID(m)
  BY <1>10, QuietHand DEF SaveProviderID, WriteStatusPid
<1>11. CASE StartVM(m)
  <2>1. ASSUME vms' = [vms EXCEPT ![wvm[m]].st = "running"], wvm' = wvm
        PROVE  MarkersKept /\ HandEffect(m)
    BY <2>1, StateChangeKeepsMarkers DEF HandEffect, TypeOK
  <2> QED
    BY <1>11, <2>1, QuietHand DEF StartVM, Abandon
<1>12. CASE WaitForVMReady(m)
  BY <1>12, QuietHand DEF WaitForVMReady, MadeReady
<1>13. CASE ReportFailure(m)
  BY <1>13, QuietHand DEF ReportFailure, WriteRefused
<1>14. CASE Destroy(m)
  <2>1. HandEffect(m)
    BY <1>14 DEF Destroy, HandEffect, Retry, Drop
  <2>2. PICK v \in Vms \cup {NoVm} : v = mem[m].statPid
    BY <1>p
  <2>3. \E s \in {"halted", "running", "destroyed"} : vms' = [vms EXCEPT ![v].st = s]
    BY <1>14, <2>2 DEF Destroy, Visible
  <2> QED
    BY <2>1, <2>3, StateChangeKeepsMarkers
<1>15. CASE RemoveFinalizer(m)
  BY <1>15, QuietHand DEF RemoveFinalizer
<1> QED
  BY <1>1, <1>2, <1>3, <1>4, <1>5, <1>6, <1>7, <1>8, <1>9, <1>10, <1>11, <1>12, <1>13,
     <1>14, <1>15 DEF Worker

LEMMA WorkerOwn ==
    ASSUME TypeOK, TypeOK', OwnInv, CopiesInv, NEW m \in Machines, Worker(m)
    PROVE  OwnInv'
<1>1. ObjectEffect(m) /\ MarkersKept /\ HandEffect(m)
  BY WorkerEffect, WorkerHand
<1>2. \A k \in Machines : \A v \in Vms \cup {NoVm} : OwnVM(k, v) => OwnVM(k, v)'
  BY <1>1 DEF MarkersKept, OwnVM
<1>3. \A k \in Machines : \A o \in XOMachine : OwnObject(k, o) => OwnObject(k, o)'
  BY <1>2 DEF OwnObject, XOMachine
<1>4. OwnObject(m, Blank)'
  BY SentinelAssumption DEF OwnObject, OwnVM, Blank
<1>5. \A obj \in XOMachine : Rewrites(m, obj) => OwnObject(m, obj)
  BY DEF Rewrites, OwnObject, OwnInv
<1>6. \A k \in Machines : OwnObject(k, srv[k])' /\ OwnObject(k, cache[k])'
  BY <1>1, <1>3, <1>5 DEF ObjectEffect, Stores, OwnInv, TypeOK
<1>7. \A k \in Machines : OwnObject(k, mem[k])'
  BY <1>1, <1>3, <1>4, <1>5 DEF ObjectEffect, Stores, Forgets, Read, OwnInv, TypeOK
<1>8. \A k \in Machines : OwnVM(k, wvm[k])'
  BY <1>1, <1>2, SentinelAssumption DEF HandEffect, OwnInv, OwnVM, TypeOK
<1> QED
  BY <1>1, <1>6, <1>7, <1>8 DEF OwnInv, MarkersKept

LEMMA EnvironmentOwn ==
    ASSUME TypeOK, OwnInv,
           \/ \E m \in Machines : Cluster(m)
           \/ \E v \in Vms : XenOrchestra(v)
           \/ Crash
    PROVE  OwnInv'
<1>1. ASSUME NEW m \in Machines, UserDelete(m) \/ Touch(m) PROVE OwnInv'
  <2>1. PICK obj : Overwrite(m, obj) /\ obj.specPid = srv[m].specPid /\ obj.statPid = srv[m].statPid
    BY <1>1 DEF UserDelete, Touch, TypeOK, XOMachine
  <2> QED
    BY <2>1 DEF Overwrite, OwnInv, OwnObject, OwnVM, TypeOK
<1>2. ASSUME NEW m \in Machines, InformerSync(m) \/ Enqueue(m) PROVE OwnInv'
  BY <1>2 DEF OwnInv, OwnObject, OwnVM, TypeOK, InformerSync, Enqueue, workerVars
<1>3. ASSUME NEW v \in Vms, XenOrchestra(v) PROVE OwnInv'
  <2>1. CASE VMAppears(v) \/ VMRemovedInXO(v)
    <3>1. MarkersKept
      BY <2>1, StateChangeKeepsMarkers DEF VMAppears, VMRemovedInXO
    <3> QED
      BY <2>1, <3>1 DEF VMAppears, VMRemovedInXO, OwnInv, OwnObject, OwnVM, MarkersKept,
         objectVars, workerVars
  <2>2. CASE VMRenamed(v)
    <3>1. MarkersKept
      BY <2>2 DEF VMRenamed, MarkersKept, OwnInv, TypeOK, VM
    <3> QED
      BY <2>2, <3>1 DEF VMRenamed, OwnInv, OwnObject, OwnVM, MarkersKept, objectVars, workerVars
  <2> QED
    BY <1>3, <2>1, <2>2 DEF XenOrchestra
<1>4. ASSUME Crash PROVE OwnInv'
  BY <1>4, SentinelAssumption DEF Crash, OwnInv, OwnObject, OwnVM, Blank
<1> QED
  BY <1>1, <1>2, <1>3, <1>4 DEF Cluster

LEMMA InitOwn == Init => OwnInv
<1> SUFFICES ASSUME Init PROVE OwnInv
  OBVIOUS
<1>0. PICK old \in SUBSET Upgraded :
         \E home \in [old -> Vms \ ForeignVms], label \in [old \cup ForeignVms -> Names] :
            (\A m, o \in old : home[m] = home[o] => m = o) /\ InitWith(old, home, label)
  BY DEF Init
<1>1. PICK home \in [old -> Vms \ ForeignVms], label \in [old \cup ForeignVms -> Names] :
         (\A m, o \in old : home[m] = home[o] => m = o) /\ InitWith(old, home, label)
  BY <1>0
<1>2. \A m \in old : vms[home[m]].marker = m
  BY <1>1 DEF InitWith
<1>3. \A v \in Vms : vms[v].st = "free" => vms[v].marker = Foreign
  BY <1>1 DEF InitWith, FreeVM
<1>4. \A m \in Machines : OwnObject(m, srv[m])
  BY <1>1, <1>2, SentinelAssumption DEF InitWith, OwnObject, OwnVM, UpgradedObject, Blank
<1>5. \A m \in Machines : OwnObject(m, mem[m]) /\ OwnVM(m, wvm[m])
  BY <1>1, SentinelAssumption DEF InitWith, OwnObject, OwnVM, Blank
<1>6. cache = srv
  BY <1>1 DEF InitWith
<1> QED
  BY <1>3, <1>4, <1>5, <1>6 DEF OwnInv

LEMMA OwnInvariant == Spec => []OwnInv
<1>1. TypeOK /\ TypeOK' /\ CopiesInv /\ OwnInv /\ [Next]_vars => OwnInv'
  <2> SUFFICES ASSUME TypeOK, TypeOK', CopiesInv, OwnInv, [Next]_vars PROVE OwnInv'
    OBVIOUS
  <2>1. CASE UNCHANGED vars
    BY <2>1 DEF OwnInv, OwnObject, OwnVM, vars
  <2> QED
    BY <2>1, WorkerOwn, EnvironmentOwn DEF Next
<1> QED
  BY <1>1, InitOwn, TypeCorrect, CopiesInvariant, PTL DEF Spec

\* findAdoptableVM, saveProviderID, reconcileDelete: the VM a machine records,
\* starts or deletes is always one created for it, under every fault.
THEOREM OwnVMs == Spec => []RecordedVMIsOwn
<1>1. OwnInv => RecordedVMIsOwn
  BY DEF OwnInv, OwnObject, OwnVM, RecordedVMIsOwn
<1> QED
  BY <1>1, OwnInvariant, PTL

----------------------------------------------------------------------------
(* One VM per machine, when the adoption lookup can be trusted.            *)

\* The VM list answers, a VM is listed once the create call has returned, and
\* nobody renames VMs.
Trusted == Faults \cap {"lookup", "late", "rename"} = {}

Creating == {"find", "create", "relook"}

\* The stored name is the name of every VM of the machine, and a worker about
\* to look for one or to create one knows it.
NameInv ==
    \A m \in Machines :
       /\ cache[m].name \in {NoName, srv[m].name}
       /\ mem[m].name \in {NoName, srv[m].name}
       /\ \A v \in Owned(m) : vms[v].name = srv[m].name /\ srv[m].name # NoName
       /\ pc[m] \in Creating => mem[m].name # NoName

\* When the create call is issued the machine has no VM.
SingleInv ==
    /\ \A v \in Vms : vms[v].st # "pending"
    /\ \A m \in Machines : pc[m] = "create" => LiveVMs(m) = {}
    /\ AtMostOneVM

\* A step that creates no VM: states change, and no VM comes to life.
StatesOnly ==
    \A v \in Vms :
       /\ vms'[v].marker = vms[v].marker
       /\ vms'[v].name = vms[v].name
       /\ vms'[v].st \in {"pending", "halted", "running"} =>
             vms[v].st \in {"pending", "halted", "running"}
       /\ vms'[v].st = "pending" => vms[v].st = "pending"

Creates(m) ==
    /\ pc[m] = "create" /\ pc'[m] # "create"
    /\ srv' = srv /\ mem' = mem /\ cache' = cache
    /\ \E v \in Vms : NewVM(m, v, "halted")

\* Which calls come next, as far as names and the create call are concerned.
CallEffect(m) ==
    /\ \A k \in Machines \ {m} : pc'[k] = pc[k]
    /\ pc'[m] = "create" => pc[m] = "find" /\ AdoptableVMs(m) = {} /\ mem' = mem /\ vms' = vms
    /\ pc'[m] \in Creating => \/ mem'[m].name # NoName
                              \/ pc[m] \in Creating /\ mem' = mem

LEMMA QuietCall ==
    ASSUME TypeOK, NEW m \in Machines, NEW obj, NEW next \in Calls \ Creating,
           \/ Write(m, obj, next)
           \/ Accept(m, obj) /\ (Done(m) \/ Retry(m))
           \/ WriteRefused(m)
           \/ WriteConflict(m, next)
           \/ ReRead(m, next)
           \/ Proceed(m, next)
           \/ Done(m) /\ UNCHANGED <<srv, cache, fresh, vms>>
           \/ (\E v : Give(m, v, next)) /\ vms' = vms
    PROVE  StatesOnly /\ CallEffect(m)
BY DEF Write, WriteOk, WriteLost, WriteRefused, WriteConflict, ReRead, Proceed, Accept, Give,
   Done, Retry, Drop, Goto, StatesOnly, CallEffect, objectVars, TypeOK, Creating

LEMMA StateChange ==
    ASSUME TypeOK, NEW v \in Vms \cup {NoVm}, NEW s \in {"halted", "running", "destroyed"},
           vms' = [vms EXCEPT ![v].st = s], s = "destroyed" \/ Visible(v)
    PROVE  StatesOnly
<1>1. \A u \in Vms \ {v} : vms'[u] = vms[u]
  BY DEF TypeOK
<1>2. CASE v \in Vms
  <2>1. vms[v] \in VM /\ vms'[v] = [vms[v] EXCEPT !.st = s]
    BY <1>2 DEF TypeOK
  <2>2. vms'[v].st = s /\ vms'[v].marker = vms[v].marker /\ vms'[v].name = vms[v].name
    BY <2>1 DEF VM
  <2> QED
    BY <1>1, <2>2 DEF StatesOnly, Visible
<1> QED
  BY <1>1, <1>2 DEF StatesOnly

LEMMA WorkerCall ==
    ASSUME TypeOK, Trusted, NEW m \in Machines, Worker(m)
    PROVE  (StatesOnly \/ Creates(m)) /\ CallEffect(m)
<1> USE DEF Calls, Creating
<1>1. CASE Reconcile(m)
  <2>1. cache[m].life \in {"new", "active", "deleting", "gone"}
    BY DEF TypeOK, XOMachine
  <2>2. pc' = pc \/ \E next \in {"delete", "finalizer", "fast"} : Goto(m, next)
    BY <1>1, <2>1 DEF Reconcile, workerVars
  <2>3. vms' = vms
    BY <1>1 DEF Reconcile
  <2>4. pc[m] = "idle"
    BY <1>1 DEF Reconcile
  <2> QED
    BY <2>2, <2>3, <2>4 DEF StatesOnly, CallEffect, Goto, TypeOK
<1>2. CASE EnsureFinalizer(m)
  BY <1>2, QuietCall DEF EnsureFinalizer
<1>3. CASE TryFastPath(m)
  BY <1>3, QuietCall DEF TryFastPath
<1>4. CASE RepairCondition(m) \/ RefreshReadyMachine(m)
  BY <1>4, QuietCall DEF RepairCondition, RefreshReadyMachine, AddressRecorded
<1>5. CASE Prepare(m) \/ Resolve(m) \/ ReconcileDelete(m) \/ Teardown(m)
  BY <1>5, QuietCall DEF Prepare, Resolve, ReconcileDelete, Teardown, BootstrapMissing, ClientMissing, BuildPayload, AddressMissing,
     ResolutionFailed, Abandon
<1>6. CASE KubeVIPNotInjected(m)
  <2>1. CASE \E obj : WriteOk(m, obj, "resolve")
    BY <2>1, QuietCall DEF Write
  <2>2. CASE vms' = vms /\ Goto(m, "condFalse")
    BY <2>2 DEF Goto, StatesOnly, CallEffect, TypeOK
  <2> QED
    BY <1>6, <2>1, <2>2 DEF KubeVIPNotInjected, Accept, Proceed
<1>7. CASE LookupExistingVM(m)
  BY <1>7, QuietCall DEF LookupExistingVM
<1>8. CASE ResolveVMName(m)
  <2>1. CASE mem[m].name # NoName /\ Proceed(m, "find")
    BY <2>1 DEF Proceed, Goto, StatesOnly, CallEffect, TypeOK
  <2>2. ASSUME NEW n \in Names, Write(m, [mem[m] EXCEPT !.name = n], "find")
        PROVE  StatesOnly /\ CallEffect(m)
    <3>1. CASE WriteOk(m, [mem[m] EXCEPT !.name = n], "find")
      <4>1. mem'[m].name = n /\ n # NoName
        BY <3>1, SentinelAssumption DEF WriteOk, TypeOK, XOMachine
      <4> QED
        BY <3>1, <4>1 DEF WriteOk, Accept, Goto, StatesOnly, CallEffect, TypeOK
    <3>2. CASE WriteLost(m, [mem[m] EXCEPT !.name = n]) \/ WriteRefused(m)
      BY <3>2 DEF WriteLost, WriteRefused, Accept, Retry, Drop, Goto, StatesOnly, CallEffect, TypeOK
    <3> QED
      BY <2>2, <3>1, <3>2 DEF Write
  <2>3. CASE Proceed(m, "condFalse")
    BY <2>3, QuietCall
  <2> QED
    BY <1>8, <2>1, <2>2, <2>3 DEF ResolveVMName
<1>9. CASE CreateVM(m)
  <2>1. CASE pc[m] = "find" /\ FindAdoptableVM(m, "saveSpec", "create")
    <3>1. CASE \E v : Give(m, v, "saveSpec") /\ vms' = vms
      BY <3>1, QuietCall
    <3>2. CASE AdoptableVMs(m) = {} /\ Proceed(m, "create")
      BY <2>1, <3>2 DEF Proceed, Goto, StatesOnly, CallEffect, TypeOK
    <3> QED
      BY <2>1, <3>1, <3>2 DEF FindAdoptableVM, Trusted
  <2>2. CASE pc[m] = "create" /\ \E v \in Vms : NewVM(m, v, "halted") /\ Give(m, v, "saveSpec")
    BY <2>2 DEF Creates, CallEffect, Give, Goto, TypeOK, objectVars
  <2>3. CASE /\ pc[m] = "create" /\ \E v \in Vms : NewVM(m, v, "halted")
             /\ Goto(m, "relook") /\ UNCHANGED <<objectVars, mem, synced, wvm>>
    BY <2>3 DEF Creates, CallEffect, Goto, TypeOK, objectVars
  <2>4. CASE pc[m] = "create" /\ Proceed(m, "relook")
    BY <2>4 DEF Proceed, Goto, StatesOnly, CallEffect, TypeOK
  <2>5. CASE pc[m] = "relook" /\ FindAdoptableVM(m, "saveSpec", "condFalse")
    BY <2>5, QuietCall DEF FindAdoptableVM
  <2>6. CASE Proceed(m, "condFalse")
    BY <2>6, QuietCall
  <2> QED
    BY <1>9, <2>1, <2>2, <2>3, <2>4, <2>5, <2>6 DEF CreateVM, Trusted
<1>10. CASE SaveProviderID(m)
  BY <1>10, QuietCall DEF SaveProviderID, WriteStatusPid
<1>11. CASE StartVM(m)
  <2>1. ASSUME NEW call \in {"waitIP", "condFalse"}, Goto(m, call),
               Visible(wvm[m]), vms' = [vms EXCEPT ![wvm[m]].st = "running"]
        PROVE  StatesOnly /\ CallEffect(m)
    BY <2>1 DEF Visible, StatesOnly, CallEffect, Goto, TypeOK, VM
  <2> QED
    BY <1>11, <2>1, QuietCall DEF StartVM, Abandon
<1>12. CASE WaitForVMReady(m)
  BY <1>12, QuietCall DEF WaitForVMReady, MadeReady
<1>13. CASE ReportFailure(m)
  BY <1>13, QuietCall DEF ReportFailure, WriteRefused
<1>14. CASE Destroy(m)
  <2>1. CallEffect(m)
    BY <1>14 DEF Destroy, CallEffect, Goto, Retry, Drop, TypeOK
  <2>2. PICK v \in Vms \cup {NoVm} : v = mem[m].statPid
    BY DEF TypeOK, XOMachine
  <2>3. CASE vms' = [vms EXCEPT ![v].st = "destroyed"]
    BY <2>1, <2>3, StateChange
  <2>4. CASE Visible(v) /\ \E s \in {"halted", "running", "destroyed"} : vms' = [vms EXCEPT ![v].st = s]
    BY <2>1, <2>4, StateChange
  <2> QED
    BY <1>14, <2>1, <2>2, <2>3, <2>4 DEF Destroy, Visible
<1>15. CASE RemoveFinalizer(m)
  BY <1>15, QuietCall DEF RemoveFinalizer
<1> QED
  BY <1>1, <1>2, <1>3, <1>4, <1>5, <1>6, <1>7, <1>8, <1>9, <1>10, <1>11, <1>12, <1>13,
     <1>14, <1>15 DEF Worker

LEMMA WorkerNames ==
    ASSUME TypeOK, Trusted, CopiesInv, NameInv, NEW m \in Machines, Worker(m)
    PROVE  NameInv'
<1>1. ObjectEffect(m) /\ CallEffect(m) /\ (StatesOnly \/ Creates(m))
  BY WorkerEffect, WorkerCall
<1>2. \A k \in Machines \ {m} : srv'[k] = srv[k] /\ mem'[k] = mem[k] /\ cache'[k] = cache[k]
  BY <1>1 DEF ObjectEffect, Stores, Forgets, Read, TypeOK
<1>3. cache'[m] = cache[m] /\ (srv'[m].name = srv[m].name \/ (srv[m].name = NoName /\ vms' = vms))
  BY <1>1 DEF ObjectEffect, Stores, Rewrites, CopiesInv, TypeOK
<1>4. mem'[m].name \in {NoName, srv'[m].name}
  BY <1>1, <1>3 DEF ObjectEffect, Stores, Forgets, Read, Blank, NameInv, TypeOK
<1>5. pc'[m] \in Creating => mem'[m].name # NoName
  BY <1>1 DEF CallEffect, NameInv
<1>6. \A k \in Machines : \A v \in Vms : vms'[v].marker = k =>
         vms'[v].name = srv'[k].name /\ srv'[k].name # NoName
  <2>1. CASE StatesOnly
    BY <2>1, <1>2, <1>3 DEF StatesOnly, NameInv, Owned
  <2>2. CASE Creates(m)
    BY <2>2, <1>2 DEF Creates, NewVM, NameInv, Owned, Creating, TypeOK
  <2> QED
    BY <1>1, <2>1, <2>2
<1> QED
  BY <1>1, <1>2, <1>3, <1>4, <1>5, <1>6 DEF NameInv, Owned, CallEffect

LEMMA WorkerSingle ==
    ASSUME TypeOK, Trusted, CopiesInv, NameInv, SingleInv, NEW m \in Machines, Worker(m)
    PROVE  SingleInv'
<1> DEFINE Live == {"pending", "halted", "running"}
<1>1. CallEffect(m) /\ (StatesOnly \/ Creates(m))
  BY WorkerCall
<1>2. CASE StatesOnly
  <2>1. \A k \in Machines, v \in Vms :
           vms'[v].marker = k /\ vms'[v].st \in Live => v \in LiveVMs(k)
    BY <1>2 DEF StatesOnly, LiveVMs, Owned
  <2>2. pc'[m] = "create" => LiveVMs(m) = {}
    <3> SUFFICES ASSUME pc'[m] = "create", NEW v \in LiveVMs(m) PROVE FALSE
      OBVIOUS
    <3>1. pc[m] = "find" /\ AdoptableVMs(m) = {}
      BY <1>1 DEF CallEffect
    <3>2. mem[m].name = srv[m].name /\ vms[v].name = srv[m].name /\ Visible(v) /\ vms[v].marker = m
      BY <3>1 DEF NameInv, Creating, LiveVMs, Owned, SingleInv, Visible
    <3> QED
      BY <3>1, <3>2 DEF AdoptableVMs, LiveVMs, Owned
  <2>3. \A k \in Machines : pc'[k] = "create" => LiveVMs(k) = {}
    BY <1>1, <2>2 DEF CallEffect, SingleInv
  <2> QED
    BY <1>2, <2>1, <2>3 DEF SingleInv, StatesOnly, AtMostOneVM, LiveVMs, Owned
<1>3. CASE Creates(m)
  <2>1. PICK n \in Vms : NewVM(m, n, "halted")
    BY <1>3 DEF Creates
  <2>2. vms'[n].st = "halted" /\ vms'[n].marker = m /\ \A v \in Vms \ {n} : vms'[v] = vms[v]
    BY <2>1 DEF NewVM, TypeOK
  <2>3. LiveVMs(m) = {} /\ pc'[m] # "create"
    BY <1>3 DEF Creates, SingleInv
  <2>4. \A k \in Machines \ {m} : pc'[k] = pc[k]
    BY <1>1 DEF CallEffect
  <2> QED
    BY <2>2, <2>3, <2>4 DEF SingleInv, AtMostOneVM, LiveVMs, Owned
<1> QED
  BY <1>1, <1>2, <1>3

LEMMA EnvironmentNamesSingle ==
    ASSUME TypeOK, Trusted, NameInv, SingleInv,
           \/ \E m \in Machines : Cluster(m)
           \/ \E v \in Vms : XenOrchestra(v)
           \/ Crash
    PROVE  NameInv' /\ SingleInv'
<1>1. ASSUME NEW m \in Machines, UserDelete(m) \/ Touch(m) PROVE NameInv' /\ SingleInv'
  <2>1. PICK obj : Overwrite(m, obj) /\ obj.name = srv[m].name
    BY <1>1 DEF UserDelete, Touch, TypeOK, XOMachine
  <2>2. srv'[m].name = srv[m].name /\ \A k \in Machines \ {m} : srv'[k] = srv[k]
    BY <2>1 DEF Overwrite, TypeOK
  <2> QED
    BY <2>1, <2>2 DEF Overwrite, NameInv, SingleInv, AtMostOneVM, LiveVMs, Owned
<1>2. ASSUME NEW m \in Machines, InformerSync(m) \/ Enqueue(m) PROVE NameInv' /\ SingleInv'
  <2>1. \A k \in Machines : cache'[k].name \in {NoName, srv[k].name}
    BY <1>2 DEF InformerSync, Enqueue, NameInv, TypeOK
  <2> QED
    BY <1>2, <2>1 DEF InformerSync, Enqueue, workerVars, NameInv, SingleInv, AtMostOneVM, LiveVMs, Owned
<1>3. ASSUME NEW v \in Vms, XenOrchestra(v) PROVE NameInv' /\ SingleInv'
  <2>1. VMRemovedInXO(v)
    BY <1>3 DEF XenOrchestra, VMAppears, VMRenamed, SingleInv, Trusted
  <2>2. StatesOnly
    BY <2>1, StateChange DEF VMRemovedInXO
  <2> QED
    BY <2>1, <2>2 DEF VMRemovedInXO, objectVars, workerVars, StatesOnly, NameInv, SingleInv,
       AtMostOneVM, LiveVMs, Owned
<1>4. ASSUME Crash PROVE NameInv' /\ SingleInv'
  BY <1>4 DEF Crash, Blank, NameInv, SingleInv, AtMostOneVM, LiveVMs, Owned, Creating
<1> QED
  BY <1>1, <1>2, <1>3, <1>4 DEF Cluster

LEMMA InitNamesSingle == Init => NameInv /\ SingleInv
<1> SUFFICES ASSUME Init PROVE NameInv /\ SingleInv
  OBVIOUS
<1>0. PICK old \in SUBSET Upgraded :
         \E home \in [old -> Vms \ ForeignVms], label \in [old \cup ForeignVms -> Names] :
            (\A m, o \in old : home[m] = home[o] => m = o) /\ InitWith(old, home, label)
  BY DEF Init
<1>1. PICK home \in [old -> Vms \ ForeignVms], label \in [old \cup ForeignVms -> Names] :
         (\A m, o \in old : home[m] = home[o] => m = o) /\ InitWith(old, home, label)
  BY <1>0
<1>2. \A m \in Machines, v \in Vms : vms[v].marker = m =>
         m \in old /\ home[m] = v /\ vms[v].name = label[m]
  BY <1>1, SentinelAssumption DEF InitWith, FreeVM
<1>3. \A m \in old : srv[m].name = label[m] /\ label[m] # NoName
  BY <1>1, ScopeAssumption, SentinelAssumption DEF InitWith, UpgradedObject
<1>4. NameInv
  <2>1. cache = srv /\ \A m \in Machines : pc[m] = "idle" /\ mem[m].name = NoName
    BY <1>1 DEF InitWith, Blank
  <2> QED
    BY <1>2, <1>3, <2>1 DEF NameInv, Owned, Creating
<1>5. \A v \in Vms : vms[v].st # "pending"
  BY <1>1 DEF InitWith, FreeVM
<1>6. AtMostOneVM
  BY <1>2 DEF AtMostOneVM, LiveVMs, Owned
<1> QED
  BY <1>1, <1>4, <1>5, <1>6 DEF InitWith, SingleInv

LEMMA SingleInvariant == Trusted /\ Spec => [](NameInv /\ SingleInv)
<1> SUFFICES ASSUME Trusted PROVE Spec => [](NameInv /\ SingleInv)
  OBVIOUS
<1>1. TypeOK /\ CopiesInv /\ NameInv /\ SingleInv /\ [Next]_vars => NameInv' /\ SingleInv'
  <2> SUFFICES ASSUME TypeOK, CopiesInv, NameInv, SingleInv, [Next]_vars PROVE NameInv' /\ SingleInv'
    OBVIOUS
  <2>1. CASE UNCHANGED vars
    BY <2>1 DEF NameInv, SingleInv, AtMostOneVM, LiveVMs, Owned, vars
  <2> QED
    BY <2>1, WorkerNames, WorkerSingle, EnvironmentNamesSingle DEF Next
<1> QED
  BY <1>1, InitNamesSingle, TypeCorrect, CopiesInvariant, PTL DEF Spec

\* CreateVM, resolveVMName: with a lookup that can be trusted a machine never
\* has two VMs, however many creates and saves lose their answer, crash or
\* start from a stale copy, and however often the naming configuration changes.
THEOREM OneVM == Trusted /\ Spec => []AtMostOneVM
<1>1. SingleInv => AtMostOneVM
  BY DEF SingleInv
<1> QED
  BY <1>1, SingleInvariant, PTL

=============================================================================
