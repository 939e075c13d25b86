------------------------- MODULE MachineReadyProofs -------------------------
(***************************************************************************)
(* A Ready machine stays Ready, for any number of machines, under every    *)
(* fault: restarts, stale copies, other writers, failing calls, and VMs    *)
(* that are renamed or destroyed behind the provider's back.               *)
(***************************************************************************)
EXTENDS MachinePromiseProofs

\* The calls of a reconcile that may still report a failure.
Fallible == { "prepare", "vipCond", "resolve", "lookup", "name", "find", "create", "relook",
              "condFalse" } \cup Running

\* A worker on the way to a failure report works for a machine that was not
\* Ready in the copy it holds; every Ready copy has a VM, so that no reconcile
\* starts all over from it.
StableOf(m) ==
    /\ \A o \in {srv[m], cache[m], mem[m]} : o.ready = "yes" => o.statPid # NoVm
    /\ pc[m] \in Fallible => mem[m].ready = "no"
    /\ pc[m] \in Running \cup {"lookup"} => mem[m].statPid # NoVm
    /\ pc[m] \in {"saveSpec", "saveSpecGet", "saveSpec2"} \cup Saving => wvm[m] # NoVm

StableInv == \A m \in Machines : StableOf(m)

----------------------------------------------------------------------------
(* How a worker comes to a call that may fail.                             *)

Comes(m) ==
    /\ pc'[m] \in Fallible => mem'[m].ready = "no"
    /\ pc'[m] \in Running \cup {"lookup"} => mem'[m].statPid # NoVm

LEMMA ComesElsewhere ==
    ASSUME TypeOK, NEW m \in Machines, NEW obj, NEW next \in Calls \ Fallible,
           \/ Write(m, obj, next)
           \/ Done(m) \/ Retry(m)
           \/ WriteRefused(m)
           \/ WriteConflict(m, next)
           \/ ReRead(m, next)
           \/ Proceed(m, next)
           \/ \E v : Give(m, v, next)
    PROVE  Comes(m)
<1>1. pc'[m] \in {next, "idle"}
  BY DEF Write, WriteOk, WriteLost, WriteRefused, WriteConflict, ReRead, Proceed, Give, Done, Retry,
     Drop, Goto, TypeOK
<1> QED
  BY <1>1 DEF Comes, Fallible, Running

LEMMA ComesWithCopy ==
    ASSUME TypeOK, NEW m \in Machines, NEW next \in Calls,
           Goto(m, next), mem' = mem,
           next \in Fallible => mem[m].ready = "no",
           next \in Running \cup {"lookup"} => mem[m].statPid # NoVm
    PROVE  Comes(m)
BY DEF Comes, Goto, TypeOK

LEMMA WorkerComes ==
    ASSUME TypeOK, NEW m \in Machines, StableOf(m), Worker(m)
    PROVE  Comes(m)
<1>c. \A c \in {"idle", "finalizer", "finalizerGet", "finalizer2", "fast", "condTrue", "refresh",
                "saveSpec", "saveSpecGet", "saveSpec2", "saveStatus", "saveStatusGet",
                "saveStatus2", "delete", "teardown", "destroy", "unfinalize"} :
         c \in Calls \ Fallible
  BY DEF Calls, Fallible, Running
<1>f. Fallible \subseteq Calls /\ {"condFalse", "resolve", "vipCond", "prepare", "name", "find",
         "create", "relook", "lookup", "start", "waitIP", "markReady"} \subseteq Fallible
  BY DEF Calls, Fallible, Running
<1>r. Running = {"start", "waitIP", "markReady"}
  BY DEF Running
<1>m. mem[m] \in XOMachine /\ mem[m].ready \in {"no", "yes"}
  BY DEF TypeOK, XOMachine
<1>w. ASSUME WriteRefused(m) PROVE Comes(m)
  BY <1>c, <1>w, ComesElsewhere
<1>p. ASSUME pc[m] \in Fallible, NEW next \in Fallible \ (Running \cup {"lookup"}), Proceed(m, next)
      PROVE  Comes(m)
  BY <1>p, <1>f, ComesWithCopy DEF StableOf, Proceed
<1>1. CASE Reconcile(m)
  <2>1. cache[m].life \in {"new", "active", "deleting", "gone"}
    BY DEF TypeOK, XOMachine
  <2>2. pc' = pc \/ \E next \in {"delete", "finalizer", "fast"} : Goto(m, next)
    BY <1>1, <2>1 DEF Reconcile, workerVars
  <2>3. pc'[m] \in {"idle", "delete", "finalizer", "fast"}
    BY <1>1, <2>2 DEF Reconcile, Goto, TypeOK, workerVars
  <2> QED
    BY <2>3 DEF Comes, Fallible, Running
<1>2. CASE EnsureFinalizer(m)
  BY <1>2, <1>c, ComesElsewhere DEF EnsureFinalizer
<1>3. CASE TryFastPath(m)
  <2>1. CASE mem[m].ready = "yes" /\ mem[m].statPid # NoVm
    BY <1>3, <1>c, <2>1, ComesElsewhere DEF TryFastPath
  <2>2. CASE mem[m].ready = "no"
    <3>1. Proceed(m, "prepare") \/ (mem[m].statPid # NoVm /\ Give(m, mem[m].statPid, "start"))
      BY <1>3, <2>2 DEF TryFastPath
    <3> QED
      BY <1>f, <1>r, <2>2, <3>1, ComesWithCopy DEF Proceed, Give
  <2> QED
    BY <1>m, <2>1, <2>2 DEF StableOf
<1>4. CASE RepairCondition(m) \/ RefreshReadyMachine(m) \/ ReportFailure(m)
  BY <1>4, <1>c, ComesElsewhere DEF RepairCondition, RefreshReadyMachine, ReportFailure
<1>5. CASE Prepare(m)
  <2>1. pc[m] \in Fallible
    BY <1>5, <1>f DEF Prepare
  <2> QED
    BY <1>5, <1>c, <1>f, <1>r, <1>p, <1>w, <2>1, ComesElsewhere
       DEF Prepare, BootstrapMissing, ClientMissing, BuildPayload, Abandon
<1>6. CASE KubeVIPNotInjected(m)
  <2> DEFINE obj == [mem[m] EXCEPT !.cond = "False"]
  <2>0. mem[m].ready = "no" /\ obj.ready = "no"
    BY <1>6, <1>f, <1>m DEF KubeVIPNotInjected, StableOf, XOMachine
  <2>1. /\ pc' = [pc EXCEPT ![m] = "resolve"] \/ pc' = [pc EXCEPT ![m] = "condFalse"]
        /\ mem' = mem \/ mem' = [mem EXCEPT ![m] = obj]
    BY <1>6 DEF KubeVIPNotInjected, WriteOk, Proceed, Goto
  <2>2. pc'[m] \in {"resolve", "condFalse"} /\ mem'[m] \in {mem[m], obj}
    BY <2>1 DEF TypeOK
  <2> QED
    BY <2>0, <2>2, <1>r DEF Comes
<1>7. CASE Resolve(m)
  <2>1. pc[m] \in Fallible
    BY <1>7, <1>f DEF Resolve
  <2>2. CASE mem[m].statPid # NoVm /\ Proceed(m, "lookup")
    BY <1>f, <2>1, <2>2, ComesWithCopy DEF Proceed, StableOf
  <2> QED
    BY <1>7, <1>f, <1>r, <1>p, <2>1, <2>2 DEF Resolve, AddressMissing, ResolutionFailed
<1>8. CASE LookupExistingVM(m)
  <2>1. pc[m] = "lookup" /\ pc[m] \in Fallible
    BY <1>8, <1>f DEF LookupExistingVM
  <2>2. CASE Give(m, mem[m].statPid, "start")
    BY <1>f, <2>1, <2>2, ComesWithCopy DEF Give, StableOf
  <2> QED
    BY <1>8, <1>f, <1>r, <1>p, <2>1, <2>2 DEF LookupExistingVM
<1>9. CASE ResolveVMName(m)
  <2>1. pc[m] \in Fallible
    BY <1>9, <1>f DEF ResolveVMName
  <2>2. ASSUME NEW n \in Names, WriteOk(m, [mem[m] EXCEPT !.name = n], "find") PROVE Comes(m)
    <3>1. pc'[m] = "find" /\ mem'[m] = [mem[m] EXCEPT !.name = n]
      BY <2>2 DEF WriteOk, Goto, TypeOK
    <3>2. mem'[m].ready = mem[m].ready
      BY <1>m, <3>1 DEF XOMachine
    <3> QED
      BY <1>r, <2>1, <3>1, <3>2 DEF Comes, StableOf
  <2>3. ASSUME NEW n \in Names, Write(m, [mem[m] EXCEPT !.name = n], "find") PROVE Comes(m)
    BY <1>c, <1>w, <2>2, <2>3, ComesElsewhere DEF Write, WriteLost
  <2> QED
    BY <1>9, <1>f, <1>r, <1>p, <2>1, <2>3 DEF ResolveVMName
<1>10. CASE CreateVM(m)
  <2>1. pc[m] \in Fallible
    BY <1>10, <1>f DEF CreateVM
  <2>2. ASSUME NEW v, Give(m, v, "saveSpec") PROVE Comes(m)
    BY <1>c, <2>2, ComesElsewhere
  <2>3. ASSUME NEW otherwise \in Fallible \ (Running \cup {"lookup"}),
               FindAdoptableVM(m, "saveSpec", otherwise)
        PROVE  Comes(m)
    BY <1>p, <2>1, <2>2, <2>3 DEF FindAdoptableVM
  <2>4. CASE Goto(m, "relook") /\ UNCHANGED <<objectVars, mem, synced, wvm>>
    BY <1>f, <1>r, <2>1, <2>4, ComesWithCopy DEF StableOf
  <2>5. {"create", "relook", "condFalse"} \subseteq Fallible \ (Running \cup {"lookup"})
    BY <1>f, <1>r
  <2>6. CASE pc[m] = "find"
    BY <1>10, <1>p, <2>1, <2>3, <2>5, <2>6 DEF CreateVM
  <2>7. CASE pc[m] = "create"
    BY <1>10, <1>p, <2>1, <2>2, <2>4, <2>5, <2>7 DEF CreateVM
  <2>8. CASE pc[m] = "relook"
    BY <1>10, <2>3, <2>5, <2>8 DEF CreateVM
  <2> QED
    BY <1>10, <2>6, <2>7, <2>8 DEF CreateVM
<1>11. CASE SaveProviderID(m)
  <2>1. ASSUME pc[m] \in {"saveStatus", "saveStatus2"}, WriteStatusPid(m) PROVE Comes(m)
    <3>1. CASE mem[m].ready = "no" /\ WriteOk(m, StatusSaved(m), "start")
      <4>1. pc'[m] = "start" /\ mem'[m] = StatusSaved(m)
        BY <3>1 DEF WriteOk, Goto, TypeOK
      <4>2. StatusSaved(m).ready = mem[m].ready /\ StatusSaved(m).statPid = wvm[m]
        BY <1>m DEF StatusSaved, XOMachine
      <4>3. wvm[m] # NoVm
        BY <2>1 DEF StableOf, Saving
      <4> QED
        BY <3>1, <4>1, <4>2, <4>3 DEF Comes
    <3>2. WriteRefused(m) \/ Done(m) \/ Retry(m) \/ (mem[m].ready = "no" /\ WriteOk(m, StatusSaved(m), "start"))
      BY <2>1 DEF WriteStatusPid, Write, WriteLost
    <3> QED
      BY <1>c, <3>1, <3>2, ComesElsewhere
  <2> QED
    BY <1>11, <1>c, <2>1, ComesElsewhere DEF SaveProviderID
<1>12. CASE StartVM(m) \/ WaitForVMReady(m)
  <2>1. ASSUME pc[m] \in Running, NEW next \in Running \cup {"condFalse"}, Goto(m, next), mem' = mem
        PROVE  Comes(m)
    BY <1>f, <1>r, <2>1, ComesWithCopy DEF StableOf
  <2>2. CASE StartVM(m)
    BY <1>r, <1>w, <2>1, <2>2 DEF StartVM, Proceed, Abandon
  <2>3. CASE WaitForVMReady(m)
    BY <1>c, <1>r, <1>w, <2>1, <2>3, ComesElsewhere DEF WaitForVMReady, Proceed
  <2> QED
    BY <1>12, <2>2, <2>3
<1>13. CASE ReconcileDelete(m) \/ Teardown(m) \/ RemoveFinalizer(m)
  BY <1>13, <1>c, ComesElsewhere DEF ReconcileDelete, Teardown, RemoveFinalizer, Abandon
<1>14. CASE Destroy(m)
  <2>1. Retry(m) \/ (Goto(m, "unfinalize") /\ mem' = mem)
    BY <1>14 DEF Destroy
  <2> QED
    BY <1>c, <1>f, <1>r, <2>1, ComesElsewhere, ComesWithCopy
<1> QED
  BY <1>1, <1>2, <1>3, <1>4, <1>5, <1>6, <1>7, <1>8, <1>9, <1>10, <1>11, <1>12, <1>13,
     <1>14 DEF Worker

----------------------------------------------------------------------------
(* What a worker writes of readiness and its condition.                    *)

CondStep(m) ==
    \/ srv' = srv
    \/ \E obj \in XOMachine :
          /\ m \in synced /\ srv' = [srv EXCEPT ![m] = obj]
          /\ obj.cond \in {mem[m].cond, "True"} \/ pc[m] \in {"vipCond", "condFalse"}

LEMMA WriteCond ==
    ASSUME NEW m \in Machines, NEW obj \in XOMachine, NEW next,
           Write(m, obj, next) \/ Accept(m, obj),
           obj.cond \in {mem[m].cond, "True"} \/ pc[m] \in {"vipCond", "condFalse"}
    PROVE  CondStep(m)
BY DEF Write, WriteOk, WriteLost, WriteRefused, Accept, CondStep

LEMMA ReadCond ==
    ASSUME NEW m \in Machines, NEW next,
           \/ WriteRefused(m)
           \/ WriteConflict(m, next)
           \/ ReRead(m, next)
           \/ Proceed(m, next)
           \/ UNCHANGED <<srv, cache, fresh, vms>>
           \/ \E v : Give(m, v, next)
           \/ UNCHANGED <<objectVars, mem, synced, wvm>>
    PROVE  CondStep(m)
BY DEF WriteRefused, WriteConflict, ReRead, Proceed, Give, CondStep, objectVars

LEMMA WorkerCond ==
    ASSUME TypeOK, NEW m \in Machines, Worker(m)
    PROVE  CondStep(m)
<1>m. mem[m] \in XOMachine /\ wvm[m] \in Vms \cup {NoVm}
  BY DEF TypeOK
<1>f. \A c \in {"False", "True"} : [mem[m] EXCEPT !.cond = c] \in XOMachine
  BY <1>m, FieldTypes
<1>c. \A c \in {"False", "True"} : [mem[m] EXCEPT !.cond = c].cond = c
  BY <1>m DEF XOMachine
<1>1. CASE Reconcile(m) \/ TryFastPath(m) \/ LookupExistingVM(m) \/ StartVM(m)
  BY <1>1, ReadCond DEF Reconcile, TryFastPath, LookupExistingVM, StartVM, Abandon
<1>2. CASE EnsureFinalizer(m)
  <2>1. WithFinalizer(m) \in XOMachine /\ WithFinalizer(m).cond = mem[m].cond
    BY <1>m DEF WithFinalizer, XOMachine
  <2> QED
    BY <1>2, <2>1, WriteCond, ReadCond DEF EnsureFinalizer
<1>3. CASE RepairCondition(m)
  BY <1>3, <1>c, <1>f, WriteCond DEF RepairCondition
<1>4. CASE RefreshReadyMachine(m)
  BY <1>4, <1>m, WriteCond, ReadCond DEF RefreshReadyMachine, AddressRecorded
<1>5. CASE Prepare(m) \/ Resolve(m) \/ ReconcileDelete(m) \/ Teardown(m)
  BY <1>5, ReadCond DEF Prepare, Resolve, ReconcileDelete, Teardown, BootstrapMissing, ClientMissing,
     BuildPayload, AddressMissing, ResolutionFailed, Abandon
<1>6. CASE KubeVIPNotInjected(m)
  <2> DEFINE obj == [mem[m] EXCEPT !.cond = "False"]
  <2>1. pc[m] = "vipCond" /\ (Accept(m, obj) \/ Proceed(m, "condFalse"))
    BY <1>6, Zenon DEF KubeVIPNotInjected, WriteOk
  <2>2. obj \in XOMachine
    BY <1>f
  <2> HIDE DEF obj
  <2> QED
    BY <2>1, <2>2, WriteCond, ReadCond
<1>7. CASE ResolveVMName(m)
  <2>1. \A n \in Names : /\ [mem[m] EXCEPT !.name = n] \in XOMachine
                          /\ [mem[m] EXCEPT !.name = n].cond = mem[m].cond
    BY <1>m DEF XOMachine
  <2> QED
    BY <1>7, <2>1, WriteCond, ReadCond DEF ResolveVMName
<1>8. CASE CreateVM(m)
  BY <1>8, ReadCond DEF CreateVM, FindAdoptableVM
<1>9. CASE SaveProviderID(m)
  <2>1. SpecSaved(m) \in XOMachine /\ SpecSaved(m).cond = mem[m].cond
    BY <1>m DEF SpecSaved, XOMachine
  <2>2. StatusSaved(m) \in XOMachine /\ StatusSaved(m).cond = mem[m].cond
    BY <1>m DEF StatusSaved, XOMachine
  <2>3. ASSUME WriteStatusPid(m) PROVE CondStep(m)
    BY <2>2, <2>3, WriteCond, ReadCond DEF WriteStatusPid
  <2> QED
    BY <1>9, <2>1, <2>3, WriteCond, ReadCond DEF SaveProviderID
<1>10. CASE WaitForVMReady(m)
  <2>1. MadeReady(m) \in XOMachine /\ MadeReady(m).cond = "True"
    BY <1>m DEF MadeReady, XOMachine
  <2> QED
    BY <1>10, <2>1, WriteCond, ReadCond DEF WaitForVMReady
<1>11. CASE ReportFailure(m)
  BY <1>11, <1>f, WriteCond, ReadCond DEF ReportFailure
<1>12. CASE Destroy(m)
  BY <1>12 DEF Destroy, CondStep, objectVars
<1>13. CASE RemoveFinalizer(m)
  <2>1. [mem[m] EXCEPT !.life = "gone"] \in XOMachine /\ [mem[m] EXCEPT !.life = "gone"].cond = mem[m].cond
    BY <1>m DEF XOMachine
  <2> QED
    BY <1>13, <2>1, WriteCond, ReadCond DEF RemoveFinalizer
<1> QED
  BY <1>1, <1>2, <1>3, <1>4, <1>5, <1>6, <1>7, <1>8, <1>9, <1>10, <1>11, <1>12, <1>13 DEF Worker

LEMMA WorkerElsewhere ==
    ASSUME TypeOK, NEW m \in Machines, Worker(m), NEW k \in Machines \ {m}
    PROVE  pc'[k] = pc[k]
<1>g. ASSUME NEW c, Goto(m, c) PROVE pc'[k] = pc[k]
  BY <1>g DEF Goto, TypeOK
<1>r. ASSUME \/ Done(m) \/ Retry(m) \/ WriteRefused(m) \/ Abandon(m)
             \/ \E c : Proceed(m, c) \/ WriteConflict(m, c) \/ ReRead(m, c)
             \/ \E c, v : Give(m, v, c)
             \/ \E c, obj : Write(m, obj, c)
      PROVE  pc'[k] = pc[k]
  BY <1>r, <1>g DEF Done, Retry, WriteRefused, Abandon, Proceed, WriteConflict, ReRead, Give, Write,
     WriteOk, WriteLost, Drop
<1>1. CASE Reconcile(m)
  BY <1>1, <1>g DEF Reconcile, workerVars
<1>2. CASE EnsureFinalizer(m) \/ TryFastPath(m) \/ RepairCondition(m) \/ RefreshReadyMachine(m)
  BY <1>2, <1>r DEF EnsureFinalizer, TryFastPath, RepairCondition, RefreshReadyMachine
<1>3. CASE Prepare(m) \/ Resolve(m) \/ LookupExistingVM(m) \/ ResolveVMName(m)
  BY <1>3, <1>r DEF Prepare, BootstrapMissing, ClientMissing, BuildPayload, Resolve, AddressMissing,
     ResolutionFailed, LookupExistingVM, ResolveVMName
<1>4. CASE KubeVIPNotInjected(m)
  BY <1>4, <1>g DEF KubeVIPNotInjected, WriteOk, Proceed
<1>5. CASE CreateVM(m)
  BY <1>5, <1>g, <1>r DEF CreateVM, FindAdoptableVM
<1>6. CASE SaveProviderID(m)
  BY <1>6, <1>r DEF SaveProviderID, WriteStatusPid
<1>7. CASE StartVM(m) \/ WaitForVMReady(m) \/ ReportFailure(m)
  BY <1>7, <1>g, <1>r DEF StartVM, WaitForVMReady, ReportFailure
<1>8. CASE ReconcileDelete(m) \/ Teardown(m) \/ Destroy(m) \/ RemoveFinalizer(m)
  BY <1>8, <1>g, <1>r DEF ReconcileDelete, Teardown, Destroy, RemoveFinalizer
<1> QED
  BY <1>1, <1>2, <1>3, <1>4, <1>5, <1>6, <1>7, <1>8 DEF Worker

----------------------------------------------------------------------------
(* The invariant, and what a step does to a Ready machine.                 *)

LEMMA WorkerStable ==
    ASSUME TypeOK, TypeOK', CopiesInv, StableInv, NEW m \in Machines, Worker(m)
    PROVE  StableInv'
<1>0. StableOf(m) /\ Comes(m) /\ PidStep(m) /\ ObjectEffect(m) /\ HandStep(m)
  BY WorkerComes, WorkerPids, WorkerEffect, WorkerHands DEF StableInv
<1>1. srv'[m].ready = "yes" => srv'[m].statPid # NoVm
  <2>1. CASE srv' = srv
    BY <1>0, <2>1 DEF StableOf
  <2>2. CASE srv' # srv
    <3>1. PICK obj \in XOMachine :
            /\ m \in synced /\ srv' = [srv EXCEPT ![m] = obj]
            /\ obj.statPid = mem[m].statPid \/ (pc[m] \in {"saveStatus", "saveStatus2"} /\ obj.statPid = wvm[m])
            /\ obj.ready = mem[m].ready \/ (pc[m] = "markReady" /\ obj.ready = "yes")
      BY <1>0, <2>2 DEF PidStep
    <3>2. srv'[m] = obj
      BY <3>1 DEF TypeOK
    <3>3. pc[m] \in {"saveStatus", "saveStatus2"} => wvm[m] # NoVm
      BY <1>0 DEF StableOf, Saving
    <3>4. mem[m].ready = "yes" \/ pc[m] = "markReady" => mem[m].statPid # NoVm
      BY <1>0 DEF StableOf, Running
    <3> QED
      BY <3>1, <3>2, <3>3, <3>4
  <2> QED
    BY <2>1, <2>2
<1>2. mem'[m] \in {mem[m], Blank, cache[m], srv'[m]} /\ cache' = cache
  <2>1. CASE \E obj \in XOMachine : Stores(m, obj)
    BY <1>0, <2>1 DEF ObjectEffect, Stores, Forgets, TypeOK
  <2>2. CASE mem' = mem \/ Forgets(m) \/ Read(m)
    BY <1>0, <2>2 DEF ObjectEffect, Forgets, Read, TypeOK
  <2> QED
    BY <1>0, <2>1, <2>2 DEF ObjectEffect
<1>3. \A o \in {srv'[m], cache'[m], mem'[m]} : o.ready = "yes" => o.statPid # NoVm
  BY <1>0, <1>1, <1>2 DEF StableOf, Blank
<1>4. pc'[m] \in {"saveSpec", "saveSpecGet", "saveSpec2"} \cup Saving => wvm'[m] # NoVm
  BY <1>0, SentinelAssumption DEF HandStep, StableOf, Saving
<1>5. StableOf(m)'
  BY <1>0, <1>3, <1>4 DEF StableOf, Comes
<1>6. ASSUME NEW k \in Machines \ {m} PROVE StableOf(k)'
  <2>1. pc'[k] = pc[k] /\ wvm'[k] = wvm[k] /\ cache'[k] = cache[k]
    BY <1>0, WorkerElsewhere DEF HandStep, ObjectEffect
  <2>2. srv'[k] = srv[k] /\ mem'[k] = mem[k]
    BY <1>0 DEF ObjectEffect, Stores, Forgets, Read, TypeOK
  <2>3. StableOf(k)
    BY DEF StableInv
  <2> QED
    BY <2>1, <2>2, <2>3 DEF StableOf
<1> QED
  BY <1>5, <1>6 DEF StableInv

\* What the other clients leave alone.
LEMMA ClusterKeeps ==
    ASSUME TypeOK, NEW m \in Machines, Cluster(m)
    PROVE  \A k \in Machines :
              /\ srv'[k].ready = srv[k].ready /\ srv'[k].statPid = srv[k].statPid
              /\ srv'[k].cond = srv[k].cond
              /\ cache'[k] \in {cache[k], srv[k]}
              /\ mem'[k] = mem[k] /\ pc'[k] = pc[k] /\ wvm'[k] = wvm[k]
<1>0. srv[m] \in XOMachine
  BY DEF TypeOK
<1>1. \A l \in {"deleting", "gone"} :
         /\ [srv[m] EXCEPT !.life = l].ready = srv[m].ready
         /\ [srv[m] EXCEPT !.life = l].statPid = srv[m].statPid
         /\ [srv[m] EXCEPT !.life = l].cond = srv[m].cond
  BY <1>0 DEF XOMachine
<1>2. ASSUME NEW obj, Overwrite(m, obj)
      PROVE  /\ srv'[m] = obj /\ \A k \in Machines \ {m} : srv'[k] = srv[k]
             /\ cache' = cache /\ mem' = mem /\ pc' = pc /\ wvm' = wvm
  BY <1>2 DEF Overwrite, TypeOK
<1>o. ASSUME NEW obj, Overwrite(m, obj), obj.ready = srv[m].ready, obj.statPid = srv[m].statPid,
             obj.cond = srv[m].cond, NEW k \in Machines
      PROVE  /\ srv'[k].ready = srv[k].ready /\ srv'[k].statPid = srv[k].statPid
             /\ srv'[k].cond = srv[k].cond
             /\ cache' = cache /\ mem' = mem /\ pc' = pc /\ wvm' = wvm
  <2>1. CASE k = m
    BY <1>o, <1>2, <2>1
  <2>2. CASE k # m
    BY <1>o, <1>2, <2>2
  <2> QED
    BY <2>1, <2>2
<1>3. CASE UserDelete(m)
  <2>1. PICK l \in {"deleting", "gone"} : Overwrite(m, [srv[m] EXCEPT !.life = l])
    BY <1>3 DEF UserDelete
  <2> QED
    BY <1>1, <1>o, <2>1
<1>4. CASE Touch(m)
  BY <1>o, <1>4 DEF Touch
<1>5. CASE InformerSync(m) \/ Enqueue(m)
  BY <1>5 DEF InformerSync, Enqueue, workerVars, TypeOK
<1> QED
  BY <1>3, <1>4, <1>5 DEF Cluster

LEMMA StableInvariant == Spec => []StableInv
<1>1. Init => StableInv
  <2> SUFFICES ASSUME Init, NEW m \in Machines PROVE StableOf(m)
    BY DEF StableInv
  <2>1. cache = srv /\ mem[m] = Blank /\ pc[m] = "idle"
    BY DEF Init, InitWith
  <2>2. srv[m].ready = "yes" => srv[m].statPid # NoVm
    BY SentinelAssumption DEF Init, InitWith, UpgradedObject, Blank
  <2> QED
    BY <2>1, <2>2 DEF StableOf, Fallible, Running, Saving, Blank
<1>2. TypeOK /\ TypeOK' /\ CopiesInv /\ StableInv /\ [Next]_vars => StableInv'
  <2> SUFFICES ASSUME TypeOK, TypeOK', CopiesInv, StableInv, [Next]_vars PROVE StableInv'
    OBVIOUS
  <2>1. ASSUME NEW m \in Machines, Cluster(m) PROVE StableInv'
    <3> SUFFICES ASSUME NEW k \in Machines PROVE StableOf(k)'
      BY DEF StableInv
    <3>1. StableOf(k)
      BY DEF StableInv
    <3>2. /\ srv'[k].ready = srv[k].ready /\ srv'[k].statPid = srv[k].statPid
          /\ cache'[k] \in {cache[k], srv[k]}
          /\ mem'[k] = mem[k] /\ pc'[k] = pc[k] /\ wvm'[k] = wvm[k]
      BY <2>1, ClusterKeeps
    <3> QED
      BY <3>1, <3>2 DEF StableOf
  <2>2. ASSUME NEW v \in Vms, XenOrchestra(v) PROVE StableInv'
    BY <2>2 DEF XenOrchestra, VMAppears, VMRenamed, VMRemovedInXO, objectVars, workerVars,
       StableInv, StableOf
  <2>3. CASE Crash
    BY <2>3 DEF Crash, StableInv, StableOf, Fallible, Running, Saving, Blank
  <2>4. CASE UNCHANGED vars
    BY <2>4 DEF vars, StableInv, StableOf
  <2> QED
    BY <2>1, <2>2, <2>3, <2>4, WorkerStable DEF Next
<1> QED
  BY <1>1, <1>2, TypeCorrect, CopiesInvariant, PTL DEF Spec

\* tryFastPath, UpdateCondition: a Ready machine is never made unready and no
\* failure report turns its condition False: a worker that may still report one
\* holds a copy that is not Ready, and such a copy is refused once the stored
\* machine is.
THEOREM ReadyStable == Spec => ReadyIsStable
<1> DEFINE Stay == \A m \in Machines : srv[m].ready = "yes" =>
                      /\ srv'[m].ready = "yes"
                      /\ srv'[m].cond \in {srv[m].cond, "True"}
<1>1. TypeOK /\ CopiesInv /\ StableInv /\ [Next]_vars => [Stay]_vars
  <2> SUFFICES ASSUME TypeOK, CopiesInv, StableInv, Next PROVE Stay
    OBVIOUS
  <2>1. ASSUME NEW m \in Machines, Worker(m) PROVE Stay
    <3>0. StableOf(m) /\ PidStep(m) /\ CondStep(m)
      BY <2>1, WorkerPids, WorkerCond DEF StableInv
    <3>1. CASE srv' = srv
      BY <3>1
    <3>2. CASE srv' # srv
      <4>1. m \in synced /\ mem[m] = srv[m] /\ \A k \in Machines \ {m} : srv'[k] = srv[k]
        BY <3>0, <3>2 DEF PidStep, CopiesInv, TypeOK
      <4>2. srv'[m].ready \in {mem[m].ready, "yes"}
        BY <3>0, <3>2 DEF PidStep, TypeOK
      <4>3. srv'[m].cond \in {mem[m].cond, "True"} \/ pc[m] \in {"vipCond", "condFalse"}
        BY <3>0, <3>2 DEF CondStep, TypeOK
      <4>4. pc[m] \in {"vipCond", "condFalse"} => mem[m].ready = "no"
        BY <3>0 DEF StableOf, Fallible
      <4>5. srv[m].ready = "yes" => srv'[m].ready = "yes" /\ srv'[m].cond \in {srv[m].cond, "True"}
        BY <4>1, <4>2, <4>3, <4>4
      <4> QED
        BY <4>1, <4>5
    <3> QED
      BY <3>1, <3>2
  <2>2. ASSUME NEW m \in Machines, Cluster(m) PROVE Stay
    BY <2>2, ClusterKeeps
  <2>3. ASSUME NEW v \in Vms, XenOrchestra(v) PROVE Stay
    BY <2>3 DEF XenOrchestra, VMAppears, VMRenamed, VMRemovedInXO, objectVars
  <2>4. CASE Crash
    BY <2>4 DEF Crash
  <2> QED
    BY <2>1, <2>2, <2>3, <2>4 DEF Next
<1> QED
  BY <1>1, TypeCorrect, CopiesInvariant, StableInvariant, PTL DEF Spec, ReadyIsStable

=============================================================================
