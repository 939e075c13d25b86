----------------------------- MODULE VMSettings -----------------------------
(***************************************************************************)
(* What the provider puts into a VM beyond its existence: the payload it   *)
(* boots with, the size of its system disk, CPUs, boot order, tags and     *)
(* network interfaces.                                                     *)
(*                                                                         *)
(* One machine and its one VM; the XOMachine in the worker's hand is the   *)
(* stored one (MachineLifecycle treats stale copies).  A reconcile may     *)
(* start at any time: a requeue, an event or the resync.  input, chosen    *)
(* once, is what the machine, its cluster and the template ask for.        *)
(***************************************************************************)
EXTENDS UserData, Integers

CONSTANTS
    Inputs,   \* the machines considered, records of what is asked for
    BaseTags, \* the tags every VM of the provider gets
    TagLists, \* what spec.tags of the XOCluster may be edited to
    Faults    \* which of AllFaults the environment may produce

AllFaults ==
    { "crash",   \* the controller process dies and restarts
      "unread",  \* the XOCluster cannot be read while the payload is built
      "network"} \* a network cannot be resolved when the VM is created

ASSUME SettingsAssumption == Faults \subseteq AllFaults

VARIABLES
    input,   \* what is asked for
    ctags,   \* spec.tags of the XOCluster
    pid,     \* the providerID of the machine is recorded
    ready,   \* status.ready
    cond,    \* the reason of its condition
    vm,      \* the VM
    refused, \* settings whose last attempt failed or was skipped
    pc,      \* the call the worker is about to make
    payload, \* the user data it has built
    net      \* the network payload it has built

vars == <<input, ctags, pid, ready, cond, vm, refused, pc, payload, net>>

Calls == { "idle", "build", "kubevip", "lookup", "create", "resize", "cpus", "boot",
           "save", "tags", "tagsAgain", "start", "vifs", "ready", "refresh" }
Reasons == { "unset", "CloudConfigBuildFailed", "KubeVIPInjectionFailed",
             "VifManagementFailed", "VmReady" }
Settings == {"disk", "cpus", "boot", "range"}
NetPayloads == {"none", "guest", "placeholder"}

\* pos -1: a position that is no number.
Disk == [ name : STRING, os : BOOLEAN, bootable : BOOLEAN, cd : BOOLEAN, config : BOOLEAN,
          pos : Int, dev : Nat, size : Nat ]

NoVM == [ st |-> "none", data |-> NoDocument, net |-> "none", disks |-> {}, applied |-> {},
          tags |-> {}, vifs |-> {}, attached |-> {} ]

WellFormed(i) ==
    /\ IsDocument(i.doc) /\ IsList(i.sshKeys)
    /\ {i.inject, i.guest, i.sized, i.controlPlane} \subseteq BOOLEAN
    /\ i.disks \subseteq Disk /\ IsFiniteSet(i.disks) /\ i.size \in Nat

ASSUME InputAssumption == \A i \in Inputs : WellFormed(i)

\* Neither the payload nor the XO user has a key twice.
KeysDistinct == \A i \in Inputs : IsInjective(i.doc.keys) /\ IsInjective(i.sshKeys)

----------------------------------------------------------------------------
(* Ends of a reconcile.                                                    *)

Goto(call) == pc' = call
Continue(call) == Goto(call) /\ UNCHANGED <<payload, net>>
Drop == Goto("idle") /\ payload' = NoDocument /\ net' = "none"

Done == Drop /\ UNCHANGED <<input, ctags, pid, ready, cond, vm, refused>>

\* An error, with or without a condition that says so.
Failed == Done
FailedBecause(reason) ==
    /\ Drop
    /\ cond' \in {cond, reason}
    /\ UNCHANGED <<input, ctags, pid, ready, vm, refused>>

Proceed(call) == Goto(call) /\ UNCHANGED <<input, ctags, pid, ready, cond, vm, refused, payload, net>>

\* Variant: a Ready machine is left alone.
ReconcileUnready ==
    /\ pc = "idle"
    /\ \/ pid = "unset" /\ Proceed("build")
       \/ pid = "set" /\ ready = "no" /\ (Proceed("start") \/ Proceed("build"))

\* A VM that cannot be fetched sends the machine through the whole reconcile.
Reconcile ==
    /\ pc = "idle"
    /\ \/ pid = "unset" /\ Proceed("build")
       \/ pid = "set" /\ ready = "no" /\ (Proceed("start") \/ Proceed("build"))
       \/ pid = "set" /\ ready = "yes" /\ Proceed("refresh")

----------------------------------------------------------------------------
(* The payload.                                                            *)

\* What a read of the XOCluster yields, default when it fails.
Seen(value, default) == {value} \cup (IF "unread" \in Faults THEN {default} ELSE {})

\* Variant: nothing but what the user set.
GuestConfigOnly == IF input.guest THEN "guest" ELSE "none"

\* Xen Orchestra labels the drive only when there is a network payload.
NetworkConfig ==
    IF input.guest THEN "guest"
    ELSE IF input.format = "cloudinit" THEN "none" ELSE "placeholder"

Build ==
    /\ pc = "build"
    /\ \/ \E inject \in Seen(input.inject, FALSE) :
             LET doc == IF input.format = "cloudinit"
                        THEN BuildCloudInit(input.doc, inject, input.sshKeys)
                        ELSE input.doc
             IN IF doc = Error THEN FailedBecause("CloudConfigBuildFailed")
                ELSE /\ payload' = doc
                     /\ net' = NetworkConfig
                     /\ Goto("kubevip")
                     /\ UNCHANGED <<input, ctags, pid, ready, cond, vm, refused>>
       \/ Failed

\* lb "kube-vip": the XOCluster asks for it and gives an endpoint.
WantsKubeVIP == input.format = "cloudinit" /\ input.controlPlane /\ input.lb = "kube-vip"

AfterPayload == IF pid = "set" THEN "lookup" ELSE "create"

\* An injection that fails is put into the condition, and the VM gets the
\* payload as it was.  If the condition cannot be stored, the reconcile ends as
\* a payload that could not be built.
InjectKubeVIP ==
    /\ pc = "kubevip"
    /\ \E wanted \in Seen(WantsKubeVIP, FALSE) :
          LET doc == Inject(payload)
          IN \/ ~wanted /\ Proceed(AfterPayload)
             \/ wanted /\ doc = Panic /\ Failed
             \/ /\ wanted /\ doc = Error
                /\ \/ /\ cond' = "KubeVIPInjectionFailed"
                      /\ Goto(AfterPayload)
                      /\ UNCHANGED <<input, ctags, pid, ready, vm, refused, payload, net>>
                   \/ FailedBecause("KubeVIPInjectionFailed") \/ FailedBecause("CloudConfigBuildFailed")
             \/ /\ wanted /\ doc \notin {Panic, Error}
                /\ payload' = doc
                /\ Goto(AfterPayload)
                /\ UNCHANGED <<input, ctags, pid, ready, cond, vm, refused, net>>

----------------------------------------------------------------------------
(* The VM and its settings.                                                *)

Exists == vm.st \in {"halted", "running"}

\* Variant: a VM found again is taken as it is.
AdoptAsItIs ==
    /\ pc = "create"
    /\ \/ /\ vm.st = "none"
          /\ vm' = [NoVM EXCEPT !.st = "halted", !.data = payload, !.net = net,
                                !.disks = input.disks, !.vifs = input.networks]
          /\ Goto("resize")
          /\ UNCHANGED <<input, ctags, pid, ready, cond, refused, payload, net>>
       \/ Exists /\ Proceed("save")

\* The VM is created with its payload and one VIF per network that can be
\* resolved, or the one of an interrupted create is found and set up again.
CreateVM ==
    /\ pc = "create"
    /\ \/ /\ vm.st = "none"
          /\ \E nets \in (IF "network" \in Faults THEN SUBSET input.networks ELSE {input.networks}) :
                vm' = [NoVM EXCEPT !.st = "halted", !.data = payload, !.net = net,
                                   !.disks = input.disks, !.vifs = nets]
          /\ Continue("resize") \/ Drop
          /\ UNCHANGED <<input, ctags, pid, ready, cond, refused>>
       \/ Exists /\ Proceed("resize")
       \/ Failed

\* diskOrder(a, b) < 0: by position, a number before none, then by device.
Before(a, b) ==
    \/ a.pos # -1 /\ b.pos = -1
    \/ a.pos # -1 /\ b.pos # -1 /\ a.pos < b.pos
    \/ a.pos = b.pos /\ a.dev < b.dev

OwnDisk(d) == ~d.cd /\ ~d.config

\* Variant: the disk listed first.
FirstDisk(disks) == 1

\* Which one of the listed disks is resized, 0 for none: the only disk, else the
\* bootable one listed first, else the first in order, of equals the one listed
\* first; CD drives and the config drive are never meant.
FindMainDisk(disks) ==
    LET own == {i \in DOMAIN disks : OwnDisk(disks[i])}
        bootable == {i \in own : disks[i].bootable}
        Leads(i, j) == Before(disks[i], disks[j]) \/ (i < j /\ ~Before(disks[j], disks[i]))
    IN IF Len(disks) = 1 THEN 1
       ELSE IF bootable # {} THEN Min(bootable)
       ELSE IF own # {} THEN CHOOSE i \in own : \A j \in own \ {i} : Leads(i, j)
       ELSE 0

\* What findMainDisk counts on: o is the only disk, or the only bootable one, or
\* the first in order of disks of which none is bootable, CD and config drives
\* left aside.
IsSystemDisk(o, disks) ==
    /\ o \in disks /\ o.os /\ \A d \in disks \ {o} : ~d.os
    /\ \/ disks = {o}
       \/ OwnDisk(o) /\ o.bootable /\ \A d \in disks \ {o} : OwnDisk(d) => ~d.bootable
       \/ OwnDisk(o) /\ ~o.bootable /\ \A d \in disks \ {o} : OwnDisk(d) => ~d.bootable /\ Before(o, d)

SystemDiskKnown == \A i \in Inputs : \E o \in i.disks : IsSystemDisk(o, i.disks)

\* The outcome of a best-effort call: applied, or passed over, because it failed
\* or because there is nothing to call it with.
Tried(setting, next, newVm) ==
    /\ \/ vm' = newVm /\ refused' = refused \ {setting}
       \/ vm' = vm /\ refused' = refused \cup {setting}
    /\ Goto(next)
    /\ UNCHANGED <<input, ctags, pid, ready, cond, payload, net>>

\* The disks are listed in any order.  Without a V1 client, or with a size that
\* is no quantity, nothing is tried and nothing is said.
ResizeDiskIfNeeded ==
    /\ pc = "resize"
    /\ IF ~input.sized THEN Proceed("cpus")
       ELSE \E listing \in SetToSeqs(vm.disks) :
               LET i == FindMainDisk(listing)
               IN Tried("disk", "cpus",
                        IF i = 0 \/ listing[i].size >= input.size THEN vm
                        ELSE [vm EXCEPT !.disks = (@ \ {listing[i]}) \cup {[listing[i] EXCEPT !.size = input.size]}])

SetCPUsIfNeeded ==
    /\ pc = "cpus"
    /\ IF ~input.sized THEN Proceed("boot")
       ELSE Tried("cpus", "boot", [vm EXCEPT !.applied = @ \cup {"cpus"}])

SetBootOrder == pc = "boot" /\ Tried("boot", "save", [vm EXCEPT !.applied = @ \cup {"boot"}])

SaveProviderID ==
    /\ pc = "save"
    /\ \/ /\ pid' = "set"
          /\ Continue("tags") \/ Drop
          /\ UNCHANGED <<input, ctags, ready, cond, vm, refused>>
       \/ Failed

LookupExistingVM == pc = "lookup" /\ ((Exists /\ Proceed("tagsAgain")) \/ Failed)

----------------------------------------------------------------------------
(* Tags and network interfaces.                                            *)

VMTags(clusterTags) == AppendNew(AppendNew(BaseTags, clusterTags), input.tags)

\* In order, until a tag is refused. The tags of an XOCluster that cannot be
\* read are left out.
Tagged ==
    \E seen \in {ctags, <<>>} :
       \E i \in 0..Len(VMTags(seen)) :
          vm' = [vm EXCEPT !.tags = @ \cup {VMTags(seen)[k] : k \in 1..i}]

\* CreateVM tags the VM it returns, reconcileNormal every VM that is not Ready.
SetVMTags ==
    \/ /\ pc = "tags"
       /\ Tagged /\ Goto("tagsAgain")
       /\ UNCHANGED <<input, ctags, pid, ready, cond, refused, payload, net>>
    \/ /\ pc = "tagsAgain"
       /\ Tagged /\ Goto("start")
       /\ UNCHANGED <<input, ctags, pid, ready, cond, refused, payload, net>>

\* A start plugs VIFs, or leaves them; then an address is waited for.
StartVM ==
    /\ pc = "start"
    /\ \/ /\ Exists
          /\ \E plugged \in SUBSET vm.vifs :
                vm' = [vm EXCEPT !.st = "running",
                                 !.attached = IF vm.st = "running" THEN @ ELSE plugged]
          /\ Continue("vifs") \/ Drop
          /\ UNCHANGED <<input, ctags, pid, ready, cond, refused>>
       \/ Failed

\* Variant: a VIF that cannot be connected is passed over.
ConnectErrorIgnored ==
    /\ pc = "vifs"
    /\ \E done \in SUBSET (vm.vifs \ vm.attached) :
          Tried("range", "ready", [vm EXCEPT !.attached = @ \cup done, !.applied = @ \cup {"range"}])

\* Disconnected VIFs are connected one by one, up to an error; the allowed
\* range is best effort.
ManageVIFs ==
    /\ pc = "vifs"
    /\ \/ input.networks = {} /\ Proceed("ready")
       \/ /\ input.networks # {}
          /\ LET connected == [vm EXCEPT !.attached = vm.vifs]
             IN /\ \/ vm' = [connected EXCEPT !.applied = @ \cup {"range"}] /\ refused' = refused \ {"range"}
                   \/ vm' = connected /\ refused' = refused \cup {"range"}
                /\ Goto("ready")
                /\ UNCHANGED <<input, ctags, pid, ready, cond, payload, net>>
       \/ /\ input.networks # {}
          /\ \E done \in SUBSET (vm.vifs \ vm.attached) : vm' = [vm EXCEPT !.attached = @ \cup done]
          /\ Drop
          /\ cond' \in {cond, "VifManagementFailed"}
          /\ UNCHANGED <<input, ctags, pid, ready, refused>>

MarkReady ==
    /\ pc = "ready"
    /\ \/ /\ ready' = "yes" /\ cond' = "VmReady"
          /\ Drop
          /\ UNCHANGED <<input, ctags, pid, vm, refused>>
       \/ Failed

\* The tags of a Ready machine are applied again; its address, see Addressing.
RefreshReadyMachine ==
    /\ pc = "refresh"
    /\ \/ /\ Tagged /\ Drop
          /\ UNCHANGED <<input, ctags, pid, ready, cond, refused>>
       \/ Failed

Worker ==
    \/ Reconcile \/ Build \/ InjectKubeVIP \/ CreateVM \/ ResizeDiskIfNeeded \/ SetCPUsIfNeeded
    \/ SetBootOrder \/ SaveProviderID \/ LookupExistingVM \/ SetVMTags \/ StartVM \/ ManageVIFs
    \/ MarkReady \/ RefreshReadyMachine

\* Nobody is queued for it: machines do not watch their XOCluster.
EditTags ==
    /\ ctags' \in TagLists \ {ctags}
    /\ UNCHANGED <<input, pid, ready, cond, vm, refused, pc, payload, net>>

Crash == "crash" \in Faults /\ pc # "idle" /\ Done

Next == Worker \/ EditTags \/ Crash

Init ==
    /\ input \in Inputs /\ ctags \in TagLists
    /\ pid = "unset" /\ ready = "no" /\ cond = "unset"
    /\ vm = NoVM /\ refused = {}
    /\ pc = "idle" /\ payload = NoDocument /\ net = "none"

Spec == Init /\ [][Next]_vars

\* Every tag there should be is there.
FullyTagged(v) == \A k \in 1..Len(VMTags(ctags)) : VMTags(ctags)[k] \in v.tags

\* A step of the worker in which no call fails, or one of the environment.
NoCallFails ==
    /\ pc \in {"tags", "tagsAgain", "refresh"} => pc' = pc \/ FullyTagged(vm')
    /\ pc = "idle" /\ pid = "set" => pc' # "build"
    /\ \/ pc' # "idle"
       \/ pc \in {"idle", "refresh"}
       \/ pc = "ready" /\ ready' = "yes"
       \/ pid = "unset" /\ pc \in {"build", "kubevip"} /\ input.doc.kind \in {"broken", "comment"}

\* The resync starts a reconcile now and then, and calls stop failing some day.
LiveSpec == Spec /\ WF_vars(Worker) /\ <>[][NoCallFails]_vars

----------------------------------------------------------------------------
(* Properties.                                                             *)

\* Type correctness of every variable.
TypeOK ==
    /\ input \in Inputs /\ ctags \in TagLists
    /\ pid \in {"unset", "set"} /\ ready \in {"no", "yes"} /\ cond \in Reasons
    /\ vm.st \in {"none", "halted", "running"} /\ vm.net \in NetPayloads
    /\ vm.disks \subseteq Disk /\ vm.applied \subseteq Settings
    /\ vm.attached \subseteq vm.vifs /\ vm.vifs \subseteq input.networks
    /\ vm.data.kind \in Kinds /\ payload.kind \in Kinds
    /\ refused \subseteq Settings
    /\ pc \in Calls /\ net \in NetPayloads

\* resizeDiskIfNeeded, findMainDisk ("the API returns disks in non-deterministic
\* order"): only the system disk is ever resized, whichever order the disks are
\* listed in and however often the VM is set up, and it is never made smaller.
OnlySystemDisk ==
    vm.st # "none" =>
       /\ \A d \in input.disks : d \notin vm.disks => d.os /\ d.size < input.size
       /\ \A d \in vm.disks \ input.disks :
             d.size = input.size /\ \E o \in input.disks : d = [o EXCEPT !.size = d.size]

\* CreateVM, setCPUsIfNeeded, setBootOrder: when the providerID is recorded the
\* VM has its size, CPUs and boot order, or their last attempt failed or was
\* skipped; a crash or an error in between leaves nothing forgotten, although
\* later reconciles never look at these settings again.
SettingsNotForgotten ==
    pid = "set" =>
       /\ "boot" \in vm.applied \cup refused
       /\ input.sized =>
             /\ "cpus" \in vm.applied \cup refused
             /\ "disk" \in refused \/ \A d \in vm.disks : d.os => d.size >= input.size

\* InjectKubeVIP, injectAroundKubeadm: a control plane VM of a kube-vip cluster
\* whose payload runs kubeadm has both scripts, one right before and one right
\* after the first such command, and all other commands in their order; any
\* other VM has the commands of its payload.  That includes a control plane VM
\* whose payload runs no kubeadm: its injection fails, and the code makes the VM
\* without kube-vip, where the documentation has creation stop.
KubeVIPPlaced ==
    vm.st # "none" =>
       IF WantsKubeVIP /\ Contains(input.doc.cmds, "kubeadm")
       THEN /\ vm.data.files = {"pre", "post"}
            /\ \E i \in 1..(Len(vm.data.cmds) - 2) :
                  /\ SubSeq(vm.data.cmds, i, i + 2) = <<"pre", "kubeadm", "post">>
                  /\ ~Contains(SubSeq(vm.data.cmds, 1, i), "kubeadm")
                  /\ RemoveAt(RemoveAt(vm.data.cmds, i + 2), i) = input.doc.cmds
       ELSE vm.data.files = {} /\ vm.data.cmds = input.doc.cmds

\* MergeSSHKeysIntoCloudConfig, networkConfig: a pass-through payload reaches the
\* guest as it is and on a drive it can find; a cloud-init payload keeps its keys
\* and has every key of the XO user once, if the cluster asks for them.
PayloadKept ==
    vm.st # "none" =>
       IF input.format = "cloudinit"
       THEN /\ IsPrefix(input.doc.keys, vm.data.keys)
            /\ input.inject => \A k \in DOMAIN input.sshKeys :
                  Cardinality({i \in DOMAIN vm.data.keys : vm.data.keys[i] = input.sshKeys[k]}) = 1
       ELSE vm.data = input.doc /\ vm.net # "none"

\* ManageVIFs: a machine is Ready only with every interface of its networks
\* connected, whichever connection failed on the way.
ReadyConnected == ready = "yes" => vm.attached = input.networks

\* SetVMTags ("idempotent, safe to call on every reconcile"): the tags of the
\* XOCluster are on the VM in the end, whichever of them was refused at first
\* and however late they are edited.
TagsFollow ==
    \A tags \in TagLists :
       <>[](ctags = tags /\ pid = "set") => <>[]FullyTagged(vm)

=============================================================================
