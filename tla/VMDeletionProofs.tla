-------------------------- MODULE VMDeletionProofs --------------------------
(***************************************************************************)
(* Proofs about VMDeletion, for any number of volumes and disks, any       *)
(* instances and credentials, and every set of faults a theorem admits.    *)
(***************************************************************************)
EXTENDS VMDeletion, TLAPS

\* Every variable keeps its type: each call of the deletion handler and each
\* interference of its environment leads from one well-formed state to another.
THEOREM DeletionTypeCorrect == Spec => []TypeOK
<1> USE DeletionAssumption DEF Disks, Attached, Calls
<1>1. Init => TypeOK
  BY DEF Init, TypeOK
<1>2. TypeOK /\ [Next]_vars => TypeOK'
  <2> SUFFICES ASSUME TypeOK, [Next]_vars PROVE TypeOK'
    OBVIOUS
  <2> USE DEF TypeOK, Drop, Retry, Failed, Goto, Proceed, GotoUnchanged, workerVars
  <2>1. CASE ReconcileDelete
    BY <2>1 DEF ReconcileDelete
  <2>2. CASE ResolveMachineCredentials
    BY <2>2 DEF ResolveMachineCredentials, Resolved
  <2>3. CASE StopVMIfNotDetachable
    BY <2>3 DEF StopVMIfNotDetachable, HardShutdownVM
  <2>4. CASE ListVDIs \/ ListVBDs
    BY <2>4 DEF ListVDIs, TakeVDIs, PersistentVDIs, ListVBDs, VBDsToRemove
  <2>5. CASE pc = "unplug" /\ todo = {} /\ Proceed("shutdown")
    BY <2>5
  <2>6. ASSUME NEW d \in todo, RemoveVBD(d) PROVE TypeOK'
    BY <2>6 DEF RemoveVBD, Unplugged
  <2>7. CASE Shutdown
    BY <2>7 DEF Shutdown, HardShutdownVM
  <2>8. CASE DeleteVM
    BY <2>8 DEF DeleteVM, Destroyed
  <2>9. CASE RemoveFinalizer
    BY <2>9 DEF RemoveFinalizer
  <2>10. ASSUME NEW d \in Volumes, CSIAttach(d) \/ CSIDetach(d) PROVE TypeOK'
    BY <2>10 DEF CSIAttach, CSIDetach, Unplugged
  <2>11. CASE PowerChange
    BY <2>11 DEF PowerChange
  <2>12. CASE EditIdentity
    BY <2>12 DEF EditIdentity
  <2>13. CASE Crash
    BY <2>13 DEF Crash
  <2>14. CASE UNCHANGED vars
    BY <2>14 DEF vars
  <2>15. QED
    BY <2>1, <2>2, <2>3, <2>4, <2>5, <2>6, <2>7, <2>8, <2>9, <2>10, <2>11, <2>12,
       <2>13, <2>14 DEF Next, Worker, DetachPersistentVolumes, Environment
<1>3. QED
  BY <1>1, <1>2, PTL DEF Spec

----------------------------------------------------------------------------
(* Persistent volumes.                                                     *)

\* No volume is attached behind the handler's back, and an error counts as a
\* 404 only if it is one.
Undisturbed == Faults \cap {"csi", "text"} = {}

\* The volumes the worker still has to take off the VM it found are the ones it
\* listed: all of them before the first removal, those left in todo after it.
DetachInv ==
    /\ client = Home /\ power # "Gone" =>
         /\ pc = "listVBDs" => Attached \cap Volumes \subseteq vdis
         /\ pc = "unplug" => Attached \cap Volumes \subseteq todo
         /\ pc \in {"shutdown", "delete"} => Attached \cap Volumes = {}
    /\ pc \in {"listVBDs", "unplug"} => client = Home

\* DetachPersistentVolumes, step by step: what is not yet off the VM is still
\* on the worker's list, and nothing is left when the list is done.
LEMMA DetachInvariant == Undisturbed /\ Spec => [](VolumesSurvive /\ DetachInv)
<1> SUFFICES ASSUME Undisturbed PROVE Spec => [](VolumesSurvive /\ DetachInv)
  OBVIOUS
<1> USE DeletionAssumption
<1>1. Init => VolumesSurvive /\ DetachInv
  BY DEF Init, VolumesSurvive, DetachInv, Disks
<1>2. TypeOK /\ VolumesSurvive /\ DetachInv /\ [Next]_vars => (VolumesSurvive /\ DetachInv)'
  <2> SUFFICES ASSUME TypeOK, VolumesSurvive, DetachInv, [Next]_vars
               PROVE  (VolumesSurvive /\ DetachInv)'
    OBVIOUS
  <2> USE DEF TypeOK, VolumesSurvive, DetachInv, Drop, Retry, Failed, Goto, Proceed,
                   GotoUnchanged, workerVars, Attached, Disks, Found
  <2>0. "csi" \notin Faults /\ "text" \notin Faults
    BY DEF Undisturbed
  <2>1. CASE ReconcileDelete
    BY <2>1 DEF ReconcileDelete
  <2>2. CASE ResolveMachineCredentials
    BY <2>2 DEF ResolveMachineCredentials
  <2>3. CASE StopVMIfNotDetachable
    BY <2>3 DEF StopVMIfNotDetachable, HardShutdownVM
  <2>4. CASE ListVDIs
    BY <2>0, <2>4 DEF ListVDIs, TakeVDIs, PersistentVDIs, NotFoundError
  <2>5. CASE ListVBDs
    BY <2>0, <2>5 DEF ListVBDs, VBDsToRemove, NotFoundError
  <2>6. CASE pc = "unplug" /\ todo = {} /\ Proceed("shutdown")
    BY <2>6
  <2>7. ASSUME NEW d \in todo, pc = "unplug", RemoveVBD(d) PROVE (VolumesSurvive /\ DetachInv)'
    BY <2>0, <2>7 DEF RemoveVBD, Unplugged
  <2>8. CASE Shutdown
    BY <2>8 DEF Shutdown, HardShutdownVM
  <2>9. CASE DeleteVM
    BY <2>9 DEF DeleteVM, Destroyed
  <2>10. CASE RemoveFinalizer
    BY <2>10 DEF RemoveFinalizer
  <2>11. ASSUME NEW d \in Volumes, CSIAttach(d) \/ CSIDetach(d)
         PROVE  (VolumesSurvive /\ DetachInv)'
    BY <2>0, <2>11 DEF CSIAttach, CSIDetach, Unplugged
  <2>12. CASE PowerChange
    BY <2>12 DEF PowerChange
  <2>13. CASE EditIdentity \/ Crash
    BY <2>13 DEF EditIdentity, Crash
  <2>14. CASE UNCHANGED vars
    BY <2>14 DEF vars
  <2>15. QED
    BY <2>1, <2>2, <2>3, <2>4, <2>5, <2>6, <2>7, <2>8, <2>9, <2>10, <2>11, <2>12,
       <2>13, <2>14 DEF Next, Worker, DetachPersistentVolumes, Environment
<1>3. QED
  BY <1>1, <1>2, DeletionTypeCorrect, PTL DEF Spec

\* The detach is complete when the VM is deleted, so no persistent volume goes
\* down with it, however often calls fail, the process dies or somebody changes
\* the power state, the references or the API version in between.
THEOREM VolumesAreSafe == Undisturbed /\ Spec => []VolumesSurvive
BY DetachInvariant, PTL

\* The worker about to stop a VM before the detach saw it paused or suspended.
StopInv == pc = "stop" => power # "Running"

\* A running VM loses its power only with its volumes unplugged, provided
\* nobody resumes a paused VM: then the first shutdown of the handler meets no
\* running VM, and the second comes after the detach.
THEOREM StopsAreClean == Undisturbed /\ "resume" \notin Faults /\ Spec => CleanStop
<1> SUFFICES ASSUME Undisturbed, "resume" \notin Faults PROVE Spec => CleanStop
  OBVIOUS
<1> USE DEF StopInv, Drop, Retry, Failed, Goto, Proceed, GotoUnchanged, workerVars
<1>1. Init => StopInv
  BY DEF Init
<1>2. StopInv /\ [Next]_vars => StopInv'
  <2> SUFFICES ASSUME StopInv, [Next]_vars PROVE StopInv'
    OBVIOUS
  <2>1. CASE StopVMIfNotDetachable
    BY <2>1 DEF StopVMIfNotDetachable, HardShutdownVM, Detachable
  <2>2. CASE \E d \in Volumes : CSIAttach(d) \/ CSIDetach(d)
    BY <2>2 DEF CSIAttach, CSIDetach
  <2>3. CASE PowerChange \/ EditIdentity \/ Crash
    BY <2>3 DEF PowerChange, EditIdentity, Crash
  <2>4. CASE \E d \in todo : pc = "unplug" /\ RemoveVBD(d)
    BY <2>4 DEF RemoveVBD
  <2>5. CASE ReconcileDelete \/ ResolveMachineCredentials \/ RemoveFinalizer
    BY <2>5 DEF ReconcileDelete, ResolveMachineCredentials, RemoveFinalizer
  <2>6. CASE ListVDIs \/ ListVBDs \/ Shutdown \/ DeleteVM
    BY <2>6 DEF ListVDIs, TakeVDIs, ListVBDs, Shutdown, HardShutdownVM, DeleteVM
  <2>7. CASE (pc = "unplug" /\ todo = {} /\ Proceed("shutdown")) \/ UNCHANGED vars
    BY <2>7 DEF vars
  <2>8. QED
    BY <2>1, <2>2, <2>3, <2>4, <2>5, <2>6, <2>7
       DEF Next, Worker, DetachPersistentVolumes, Environment
<1>3. TypeOK /\ StopInv /\ DetachInv /\ [Next]_vars =>
         [power = "Running" /\ power' = "Halted" => Attached \cap Volumes = {}]_vars
  <2> SUFFICES ASSUME TypeOK, StopInv, DetachInv, Next, power = "Running", power' = "Halted"
               PROVE  Attached \cap Volumes = {}
    OBVIOUS
  <2>1. pc \in {"stop", "shutdown"} /\ Found
    <3>1. CASE Worker
      BY <3>1 DEF Worker, ReconcileDelete, ResolveMachineCredentials, StopVMIfNotDetachable,
         HardShutdownVM, DetachPersistentVolumes, ListVDIs, TakeVDIs, ListVBDs, RemoveVBD,
         Shutdown, DeleteVM, Destroyed, RemoveFinalizer
    <3>2. CASE Environment
      BY <3>2 DEF Environment, CSIAttach, CSIDetach, PowerChange, EditIdentity, Crash
    <3>3. QED
      BY <3>1, <3>2 DEF Next
  <2>2. QED
    BY <2>1 DEF DetachInv, Found
<1>4. QED
  BY <1>1, <1>2, <1>3, DeletionTypeCorrect, DetachInvariant, PTL DEF Spec, CleanStop

----------------------------------------------------------------------------
(* The disks that belong to the VM.                                        *)

\* The handler takes volumes off the VM and nothing else.
OwnDisksInv ==
    /\ todo \subseteq Volumes
    /\ \A d \in SystemDisks : disk[d] = IF power = "Gone" THEN "destroyed" ELSE "attached"

\* The OS disk and the config drive stay on the VM until they go with it, under
\* every fault: the deletion leaves no disk behind.
THEOREM NoDiskLeft == Spec => []NoSystemDiskLeft
<1> USE DeletionAssumption
<1>1. Init => OwnDisksInv
  BY DEF Init, OwnDisksInv, Disks
<1>2. TypeOK /\ OwnDisksInv /\ [Next]_vars => OwnDisksInv'
  <2> SUFFICES ASSUME TypeOK, OwnDisksInv, [Next]_vars PROVE OwnDisksInv'
    OBVIOUS
  <2> USE DEF TypeOK, OwnDisksInv, Drop, Retry, Failed, Goto, Proceed, GotoUnchanged,
              workerVars, Attached, Disks, Found
  <2>1. CASE ReconcileDelete \/ ResolveMachineCredentials \/ RemoveFinalizer
    BY <2>1 DEF ReconcileDelete, ResolveMachineCredentials, RemoveFinalizer
  <2>2. CASE StopVMIfNotDetachable
    BY <2>2 DEF StopVMIfNotDetachable, HardShutdownVM
  <2>3. CASE ListVDIs
    BY <2>3 DEF ListVDIs, TakeVDIs
  <2>4. CASE ListVBDs
    BY <2>4 DEF ListVBDs, VBDsToRemove
  <2>5. CASE pc = "unplug" /\ todo = {} /\ Proceed("shutdown")
    BY <2>5
  <2>6. ASSUME NEW d \in todo, RemoveVBD(d) PROVE OwnDisksInv'
    BY <2>6 DEF RemoveVBD, Unplugged
  <2>7. CASE Shutdown
    BY <2>7 DEF Shutdown, HardShutdownVM
  <2>8. CASE DeleteVM
    BY <2>8 DEF DeleteVM, Destroyed
  <2>9. ASSUME NEW d \in Volumes, CSIAttach(d) \/ CSIDetach(d) PROVE OwnDisksInv'
    BY <2>9 DEF CSIAttach, CSIDetach, Unplugged
  <2>10. CASE PowerChange
    BY <2>10 DEF PowerChange
  <2>11. CASE EditIdentity \/ Crash
    BY <2>11 DEF EditIdentity, Crash
  <2>12. CASE UNCHANGED vars
    BY <2>12 DEF vars
  <2>13. QED
    BY <2>1, <2>2, <2>3, <2>4, <2>5, <2>6, <2>7, <2>8, <2>9, <2>10, <2>11, <2>12
       DEF Next, Worker, DetachPersistentVolumes, Environment
<1>3. OwnDisksInv => NoSystemDiskLeft
  BY DEF OwnDisksInv, NoSystemDiskLeft
<1>4. QED
  BY <1>1, <1>2, <1>3, DeletionTypeCorrect, PTL DEF Spec

----------------------------------------------------------------------------
(* The object and its VM.                                                  *)

\* The credentials of the deletion are those of the creation, and every answer
\* of XO is understood.
SameCredentials ==
    /\ Faults \cap {"identity", "text", "oldapi"} = {}
    /\ "owner" \in Faults => Global = Home

\* The worker is connected to the instance that has the VM, and reaches the
\* finalizer only with the VM gone.
ConnectedInv ==
    /\ Resolved = {Home}
    /\ pc \notin {"idle", "creds"} => client = Home
    /\ pc = "unfinalize" => power = "Gone"

\* reconcileDelete, step by step: whichever owner could not be read, the client
\* is the one that knows the VM, so that its 404 is to be believed.
LEMMA ConnectedInvariant == SameCredentials /\ Spec => [](ObjectOutlivesVM /\ ConnectedInv)
<1> SUFFICES ASSUME SameCredentials PROVE Spec => [](ObjectOutlivesVM /\ ConnectedInv)
  OBVIOUS
<1> USE DeletionAssumption
<1>1. Init => ObjectOutlivesVM /\ ConnectedInv
  BY DEF SameCredentials, Init, ObjectOutlivesVM, ConnectedInv, Resolved
<1>2. TypeOK /\ ObjectOutlivesVM /\ ConnectedInv /\ [Next]_vars => (ObjectOutlivesVM /\ ConnectedInv)'
  <2> SUFFICES ASSUME TypeOK, ObjectOutlivesVM, ConnectedInv, [Next]_vars
               PROVE  (ObjectOutlivesVM /\ ConnectedInv)'
    OBVIOUS
  <2> USE DEF TypeOK, ObjectOutlivesVM, ConnectedInv, Drop, Retry, Failed, Goto, Proceed,
                   GotoUnchanged, workerVars, Found
  <2>0. \A f \in {"identity", "text", "oldapi"} : f \notin Faults
    BY DEF SameCredentials
  <2>r. ASSUME UNCHANGED refs PROVE Resolved' = Resolved
    BY <2>r DEF Resolved
  <2>1. CASE ReconcileDelete
    BY <2>1, <2>r DEF ReconcileDelete
  <2>2. CASE ResolveMachineCredentials
    BY <2>2, <2>r DEF ResolveMachineCredentials
  <2>3. CASE StopVMIfNotDetachable
    BY <2>3, <2>r DEF StopVMIfNotDetachable, HardShutdownVM
  <2>4. CASE ListVDIs \/ ListVBDs
    BY <2>4, <2>r DEF ListVDIs, TakeVDIs, ListVBDs
  <2>5. CASE pc = "unplug" /\ todo = {} /\ Proceed("shutdown")
    BY <2>5, <2>r
  <2>6. ASSUME NEW d \in todo, pc = "unplug", RemoveVBD(d)
        PROVE  (ObjectOutlivesVM /\ ConnectedInv)'
    BY <2>6, <2>r DEF RemoveVBD
  <2>7. CASE Shutdown
    BY <2>7, <2>r DEF Shutdown, HardShutdownVM
  <2>8. CASE DeleteVM
    BY <2>0, <2>8, <2>r DEF DeleteVM, Destroyed, NotFoundError
  <2>9. CASE RemoveFinalizer
    BY <2>9, <2>r DEF RemoveFinalizer
  <2>10. ASSUME NEW d \in Volumes, CSIAttach(d) \/ CSIDetach(d)
         PROVE  (ObjectOutlivesVM /\ ConnectedInv)'
    BY <2>10, <2>r DEF CSIAttach, CSIDetach
  <2>11. CASE PowerChange
    BY <2>11, <2>r DEF PowerChange
  <2>12. CASE EditIdentity
    BY <2>0, <2>12 DEF EditIdentity
  <2>13. CASE Crash
    BY <2>13, <2>r DEF Crash
  <2>14. CASE UNCHANGED vars
    BY <2>14, <2>r DEF vars
  <2>15. QED
    BY <2>1, <2>2, <2>3, <2>4, <2>5, <2>6, <2>7, <2>8, <2>9, <2>10, <2>11, <2>12,
       <2>13, <2>14, Zenon DEF Next, Worker, DetachPersistentVolumes, Environment
<1>3. QED
  BY <1>1, <1>2, DeletionTypeCorrect, PTL DEF Spec

\* The XOMachine is let go only after its VM is: the finalizer survives every
\* failed call, crash and power change as long as the VM does.
THEOREM ObjectLast == SameCredentials /\ Spec => []ObjectOutlivesVM
BY ConnectedInvariant, PTL

=============================================================================
