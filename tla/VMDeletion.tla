----------------------------- MODULE VMDeletion -----------------------------
(***************************************************************************)
(* What reconcileDelete does to the VM of one deleted XOMachine: power     *)
(* states, the volumes the CSI driver attached, the credentials it is done *)
(* with.  MachineLifecycle sees the same handler as its steps Teardown and *)
(* Destroy and follows the XOMachine object instead.                       *)
(*                                                                         *)
(* One worker runs the handler; each call to XO is a step.  A failed call  *)
(* ends the reconcile, and the next one starts from the beginning.         *)
(***************************************************************************)
EXTENDS Naturals, FiniteSets

CONSTANTS
    Volumes,     \* VDIs of persistent volumes: they carry the CSI tag
    SystemDisks, \* OS disk and config drive
    XOs,         \* Xen Orchestra instances
    NoXO,        \* no identityRef, or no credentials at all
    Home,        \* the instance that has the VM
    Global,      \* the instance of the controller's own credentials
    Faults       \* which of AllFaults the environment may produce

AllFaults ==
    { "crash",    \* the controller process dies and restarts
      "csi",      \* the CSI driver attaches a volume to the VM being deleted
      "pause",    \* somebody pauses or suspends the VM
      "resume",   \* somebody resumes or starts the VM
      "owner",    \* the Machine, the Cluster or the XOCluster cannot be read
      "identity", \* somebody edits an identityRef
      "text",     \* an error that is no 404 has these digits in its text
      "oldapi" }  \* XO answers with a bare task the SDK cannot decode

ASSUME DeletionAssumption ==
    /\ Volumes \cap SystemDisks = {}
    /\ Home \in XOs
    /\ NoXO \notin XOs
    /\ Global \in XOs \cup {NoXO}
    /\ Faults \subseteq AllFaults

VARIABLES
    object, \* the XOMachine: "deleting" while it carries the finalizer
    refs,   \* identityRef of the XOMachine and of its XOCluster
    power,  \* power state of the VM
    disk,   \* what became of each disk
    pc,     \* the call the worker is about to make
    client, \* the XO instance the worker's client is connected to
    vdis,   \* the persistent volumes listed
    todo    \* those whose VBD is still to be removed

workerVars == <<pc, client, vdis, todo>>
vars == <<object, refs, power, disk, pc, client, vdis, todo>>

Disks == Volumes \cup SystemDisks
Calls == { "idle", "creds", "power", "stop", "listVDIs", "listVBDs", "unplug",
           "shutdown", "delete", "unfinalize" }

Attached == {d \in Disks : disk[d] = "attached"}

\* XCP-ng plugs and unplugs disks in these power states only.
Detachable == power \in {"Running", "Halted"}

\* The instance the worker talks to knows the VM.
Found == client = Home /\ power # "Gone"

\* IsNotFoundError(err) looks for "404" in the text of the error.
NotFoundError == ~Found \/ "text" \in Faults

----------------------------------------------------------------------------

Goto(call) == pc' = call
Drop == pc' = "idle" /\ client' = NoXO /\ vdis' = {} /\ todo' = {}

\* The reconcile ends with an error and the work queue runs it again.
Retry == Drop /\ UNCHANGED object
Failed == Retry /\ UNCHANGED <<refs, power, disk>>

Proceed(call) == Goto(call) /\ UNCHANGED <<object, refs, power, disk, client, vdis, todo>>

ReconcileDelete ==
    /\ pc = "idle"
    /\ object = "deleting"
    /\ Proceed("creds")

\* XOMachine, then XOCluster, then the controller.  An owner that cannot be
\* read counts as one without identityRef.
Resolved ==
    IF refs.machine # NoXO THEN {refs.machine}
    ELSE {IF refs.cluster # NoXO THEN refs.cluster ELSE Global}
         \cup (IF "owner" \in Faults THEN {Global} ELSE {})

\* Without credentials there is nothing to delete with: the finalizer goes.
ResolveMachineCredentials ==
    /\ pc = "creds"
    /\ \/ \E x \in Resolved :
             /\ client' = x
             /\ Goto(IF x = NoXO THEN "unfinalize" ELSE "power")
             /\ UNCHANGED <<object, refs, power, disk, vdis, todo>>
       \/ Failed

\* The task halted the VM; it did but the answer was lost; it did not.  A bare
\* task is waited for without a look at its outcome.
HardShutdownVM(ok, failed) ==
    \/ /\ Found /\ power # "Halted"
       /\ power' = "Halted"
       /\ ok \/ failed
       /\ UNCHANGED <<refs, disk>>
    \/ /\ failed \/ (Found /\ "oldapi" \in Faults /\ ok)
       /\ UNCHANGED <<refs, power, disk>>

GotoUnchanged(call) == Goto(call) /\ UNCHANGED <<object, client, vdis, todo>>

\* Variant: every VM goes straight to the detach.
NeverStop == pc = "power" /\ Proceed("listVDIs")

\* Variant: every VM is stopped before its volumes are unplugged.
AlwaysStop == pc = "power" /\ HardShutdownVM(GotoUnchanged("listVDIs"), Retry)

StopVMIfNotDetachable ==
    \/ /\ pc = "power"
       /\ \/ NotFoundError /\ Proceed("listVDIs")
          \/ Found /\ Proceed(IF Detachable THEN "listVDIs" ELSE "stop")
          \/ Failed
    \/ /\ pc = "stop"
       /\ HardShutdownVM(GotoUnchanged("listVDIs"), Retry)

\* The VDIs of the VM that carry the CSI tag.
PersistentVDIs == Attached \cap Volumes

TakeVDIs ==
    /\ Found
    /\ vdis' = PersistentVDIs
    /\ Goto(IF PersistentVDIs = {} THEN "shutdown" ELSE "listVBDs")
    /\ UNCHANGED <<object, refs, power, disk, client, todo>>

\* Variant: a halted VM is taken to have nothing attached.
HaltedSkipped ==
    /\ pc = "listVDIs"
    /\ \/ (NotFoundError \/ power = "Halted") /\ Proceed("shutdown")
       \/ power # "Halted" /\ TakeVDIs
       \/ Failed

ListVDIs ==
    /\ pc = "listVDIs"
    /\ \/ NotFoundError /\ Proceed("shutdown")
       \/ TakeVDIs
       \/ Failed

\* Variant: every disk is taken off the VM.
VBDsOfAllDisks == Attached

\* The VBDs of the VM, matched in memory against the VDIs listed before.
VBDsToRemove == Attached \cap vdis

ListVBDs ==
    /\ pc = "listVBDs"
    /\ \/ NotFoundError /\ Proceed("shutdown")
       \/ /\ Found
          /\ todo' = VBDsToRemove
          /\ Goto("unplug")
          /\ UNCHANGED <<object, refs, power, disk, client, vdis>>
       \/ Failed

Unplugged(d) == disk' = [disk EXCEPT ![d] = "detached"]

\* VBD().Delete, one after the other; the first failure ends the reconcile.
RemoveVBD(d) ==
    \/ /\ d \notin Attached \/ "text" \in Faults
       /\ todo' = todo \ {d}
       /\ UNCHANGED <<object, refs, power, disk, pc, client, vdis>>
    \/ /\ d \in Attached /\ Detachable
       /\ Unplugged(d)
       /\ \/ todo' = todo \ {d} /\ UNCHANGED <<object, pc, client, vdis>>
          \/ Retry
       /\ UNCHANGED <<refs, power>>
    \/ Failed

DetachPersistentVolumes ==
    \/ ListVDIs
    \/ ListVBDs
    \/ /\ pc = "unplug"
       /\ \/ todo = {} /\ Proceed("shutdown")
          \/ \E d \in todo : RemoveVBD(d)

\* The outcome of this shutdown is only logged.
Shutdown ==
    /\ pc = "shutdown"
    /\ HardShutdownVM(GotoUnchanged("delete"), GotoUnchanged("delete"))

\* xo-server's vm.delete takes the disks of the VM with it.
Destroyed ==
    /\ power' = "Gone"
    /\ disk' = [d \in Disks |-> IF d \in Attached THEN "destroyed" ELSE disk[d]]

\* Variant: any error of the delete is taken for a VM already gone.
DeleteErrorIgnored ==
    /\ pc = "delete"
    /\ \/ Found /\ Destroyed /\ GotoUnchanged("unfinalize") /\ UNCHANGED refs
       \/ Proceed("unfinalize")

\* Deleted, already gone, issued as a bare task that may yet fail, or failed.
DeleteVM ==
    /\ pc = "delete"
    /\ \/ Found /\ Destroyed /\ (GotoUnchanged("unfinalize") \/ Retry) /\ UNCHANGED refs
       \/ NotFoundError /\ Proceed("unfinalize")
       \/ Found /\ "oldapi" \in Faults /\ Proceed("unfinalize")
       \/ Failed

\* NotFound is success, and so is an answer lost on the way.
RemoveFinalizer ==
    /\ pc = "unfinalize"
    /\ \/ object' = "gone" /\ Drop /\ UNCHANGED <<refs, power, disk>>
       \/ Failed

Worker ==
    \/ ReconcileDelete \/ ResolveMachineCredentials \/ StopVMIfNotDetachable
    \/ DetachPersistentVolumes \/ Shutdown \/ DeleteVM \/ RemoveFinalizer

----------------------------------------------------------------------------
(* CSI driver, administrators, the process.                                *)

CSIAttach(d) ==
    /\ "csi" \in Faults
    /\ power # "Gone" /\ disk[d] = "detached"
    /\ disk' = [disk EXCEPT ![d] = "attached"]
    /\ UNCHANGED <<object, refs, power, workerVars>>

CSIDetach(d) ==
    /\ Detachable /\ disk[d] = "attached"
    /\ Unplugged(d)
    /\ UNCHANGED <<object, refs, power, workerVars>>

PowerChange ==
    /\ \/ "pause" \in Faults /\ power = "Running" /\ power' \in {"Paused", "Suspended"}
       \/ "resume" \in Faults /\ power \notin {"Running", "Gone"} /\ power' = "Running"
    /\ UNCHANGED <<object, refs, disk, workerVars>>

EditIdentity ==
    /\ "identity" \in Faults
    /\ \E who \in {"machine", "cluster"}, x \in XOs \cup {NoXO} :
          refs' = [refs EXCEPT ![who] = x]
    /\ UNCHANGED <<object, power, disk, workerVars>>

Crash == "crash" \in Faults /\ pc # "idle" /\ Failed

Environment ==
    \/ \E d \in Volumes : CSIAttach(d) \/ CSIDetach(d)
    \/ PowerChange \/ EditIdentity \/ Crash

\* The credentials that created the VM lead to its instance; somebody may have
\* removed the VM already, with the disks it had then.
Init ==
    /\ object = "deleting"
    /\ refs \in [machine : XOs \cup {NoXO}, cluster : XOs \cup {NoXO}]
    /\ Home = IF refs.machine # NoXO THEN refs.machine
              ELSE IF refs.cluster # NoXO THEN refs.cluster ELSE Global
    /\ power \in {"Running", "Halted", "Paused", "Suspended", "Gone"}
    /\ \E plugged \in SUBSET Volumes :
          disk = [d \in Disks |->
                    IF d \in SystemDisks
                    THEN IF power = "Gone" THEN "destroyed" ELSE "attached"
                    ELSE IF power # "Gone" /\ d \in plugged THEN "attached" ELSE "detached"]
    /\ pc = "idle"
    /\ client = NoXO
    /\ vdis = {}
    /\ todo = {}

Next == Worker \/ (object = "deleting" /\ Environment)

Spec == Init /\ [][Next]_vars

\* A step of the worker in which no call fails, except that a VBD of a paused
\* or suspended VM cannot be removed and a halted VM cannot be shut down.
NoCallFails ==
    \/ pc' = pc
    \/ pc' = "idle" /\ (object' = "gone" \/ (pc = "unplug" /\ ~Detachable))
    \/ pc' # "idle" /\ (pc \in {"stop", "shutdown"} /\ Found => power' = "Halted")

\* The work queue keeps retrying, and some day the calls stop failing.
LiveSpec == Spec /\ WF_vars(Worker) /\ <>[][NoCallFails]_vars

----------------------------------------------------------------------------
(* Properties.                                                             *)

\* Type correctness of every variable.
TypeOK ==
    /\ object \in {"deleting", "gone"}
    /\ refs \in [machine : XOs \cup {NoXO}, cluster : XOs \cup {NoXO}]
    /\ power \in {"Running", "Halted", "Paused", "Suspended", "Gone"}
    /\ disk \in [Disks -> {"attached", "detached", "destroyed"}]
    /\ pc \in Calls
    /\ client \in XOs \cup {NoXO}
    /\ vdis \subseteq Volumes
    /\ todo \subseteq Disks

\* DetachPersistentVolumes: deleting a VM never takes a persistent volume down
\* with it, whichever call failed and wherever the worker started again.
VolumesSurvive == \A d \in Volumes : disk[d] # "destroyed"

\* DetachPersistentVolumes leaves the other disks on the VM, so that they are
\* removed together with it and none is left behind.
NoSystemDiskLeft == power = "Gone" => \A d \in SystemDisks : disk[d] = "destroyed"

\* "finalizers to shut down and remove the underlying VMs before letting the
\* object go": the object goes only when its VM has, as long as the worker asks
\* the instance that has the VM and takes its answers for what they are.  It may
\* go first under text and oldapi, and under owner and identity when other
\* credentials lead elsewhere.
ObjectOutlivesVM == object = "gone" => power = "Gone"

\* StopVMIfNotDetachable, HardShutdownVM: a running VM is stopped only after
\* its volumes are unplugged; no write of the guest is cut short.
CleanStop ==
    [][power = "Running" /\ power' = "Halted" => Attached \cap Volumes = {}]_vars

\* reconcileDelete: a deletion ends, whatever power state it found the VM in.
DeletionEnds == <>(object = "gone")

=============================================================================
