# Verification of the Vates Cluster API provider

The provider turns Cluster API objects into virtual machines of Xen Orchestra
(XO): `XOMachine` stands for one VM, `XOCluster` for the endpoint and the addons
of one cluster. These TLA+ modules model what its two controllers do to the
Kubernetes API server and to XO, TLC checks them on small instances, and TLAPS
proves the properties that matter most for every number of machines, VMs,
volumes, addresses and addons.

## The system

| Part | State | Operations | Where |
|---|---|---|---|
| XOMachine controller | the XOMachine (finalizer, `spec.providerID`, `status.providerID`, `status.vmName`, `status.ready`, addresses, condition) | `reconcileNormal`, `reconcileDelete`, event mapping | `internal/controller/xomachine_*.go` |
| VM operations | VMs, disks, VBDs, VIFs and tags in XO | create, adopt, resize, start, wait, connect, stop, detach, delete | `internal/controller/xomachine/vm_ops.go` |
| IPAM | the IPAddressClaim of a machine, its network payload | `ClaimedAddress`, `ipamNetworkConfig` | `internal/controller/xomachine/ipam.go` |
| Bootstrap data | the payload a VM boots with | SSH keys, kube-vip, pass-through formats | `internal/bootstrap`, `internal/kubevip` |
| XOCluster controller | the XOCluster, the label of the Cluster, ConfigMaps, ClusterResourceSets (CRS) | `reconcileNormal`, `reconcileAddons`, `reconcileDelete` | `internal/controller/xocluster_controller.go` |
| Credentials | two Secrets, the environment, the credentials a process has loaded | `ResolveXOConfig`, `main`, fallbacks of a deletion | `internal/controller/credentials.go`, `cmd/main.go` |
| Conditions, naming, lookups | helpers of the controllers | | `internal/controller/xomachine/*.go` |
| Manager | its credentials | start, stop, wiring, leader election | `cmd/main.go` |

Controllers never call each other. They meet in the API server, which they read
through informer caches that lag and write with optimistic locking (`Update`) or
without (`Patch`); in XO, where users and the CSI driver act as well; and in the
work queue, which runs one reconcile per object at a time and repeats it after
an error. What is hard about this code follows: every decision is taken on a copy
that may be stale, every call may fail before or after its effect, the process
may die between two calls, and only the next reconcile can repair what is left.
`PROJECT.json` lists these hazards at the lines where they bite.

What makes each part correct:

* XOMachine controller: a machine never records a VM of somebody else, never has
  two VMs, keeps its name, its providerID and its readiness, is let go only when
  its recorded VM is destroyed, and does become Ready or gone.
* VM deletion: persistent volumes survive, system disks go, a running guest is not
  cut off with volumes attached, the object outlives the VM, deletion ends.
* VM operations: what boots is what was asked for, only the system disk grows, no
  setting is forgotten, a Ready machine has its interfaces, the tags follow.
* IPAM and addresses: a VM is only ever configured with the address of its own
  claim, no two running VMs share one, a Ready machine has a usable address and
  keeps up with its guest, a machine that waits for an address gets one.
* XOCluster controller: a CRS has its manifest, addons come last, the user's
  endpoint wins, Ready stays, endpoint, addons and label converge.
* Credentials: a manifest never mixes two sources, a cluster of its own instance
  never gets the manager's, rotated credentials arrive.

## Modules

### MachineLifecycle

One worker per XOMachine; every call leaving the process is one step, and `pc`
names the call the worker is about to make. `srv` is the stored object, `cache`
the informer's copy, `mem` the copy the worker holds, `vms` the VMs of XO with
their marker (the description the provider writes) and name. The numbers of
`resourceVersion` are not kept: `fresh` and `synced` say which copies are current,
and a write is accepted exactly from a current copy, otherwise it is a Conflict.
Every write has three outcomes: stored, stored with the answer lost, refused. On
the Conflicts the code retries in place (`ensureFinalizer`, `saveProviderID`) the
second read is a read of the cache, so it may return the old copy again.

| Action | Code |
|---|---|
| `Reconcile`, `EnsureFinalizer` | `Reconcile`, `ensureFinalizer` |
| `TryFastPath`, `RepairCondition`, `RefreshReadyMachine` | `tryFastPath`, `refreshReadyMachine` |
| `Prepare`, `KubeVIPNotInjected`, `Resolve` | `reconcileNormal` up to the VM: bootstrap data, credentials, payload, IPAM, template, pool |
| `LookupExistingVM`, `ResolveVMName`, `CreateVM`, `SaveProviderID` | the functions of these names |
| `StartVM`, `WaitForVMReady` | `StartVM`, `WaitForVMReady`, and `reconcileExistingVM`, which does the same |
| `ReportFailure` | `UpdateCondition`, `WithConditionUpdate` on an error path |
| `ReconcileDelete`, `Teardown`, `Destroy`, `RemoveFinalizer` | `reconcileDelete`, `removeFinalizer` |
| `UserDelete`, `Touch`, `InformerSync`, `Enqueue`, `Crash` | other clients, watches, resync, process |
| `VMAppears`, `VMRenamed`, `VMRemovedInXO` | XO and its users |

Abstractions: a VM name is a model value, any of `Names` at any time, because
the naming configuration may change between two attempts. The reason of a
condition, the VM's size, disks, tags, payload and network are in `VMSettings`,
addresses in `Addressing`. A stored providerID always parses, as the provider
wrote it. An informer delivers the latest version, so intermediate versions are
skipped; a stale copy is as old as the last delivery. `Teardown` and `Destroy`
take the answers of XO at their word; `VMDeletion` does not.

`Upgraded` are machines an earlier release left Ready with no condition yet, as
the repository's tests build them.

### MachinePromise

What the provider promises of a machine with all the work left out: one VM is
made for it (`Make`), recorded once (`Record`), reported (`MakeReady`), destroyed
only while the machine is being deleted and recorded (`Destroy`), and the machine
goes after it (`Release`). `MachineLifecycle` implements it, through

| MachinePromise | MachineLifecycle |
|---|---|
| `phase` | `wanted` before the deletion, then `srv.life` |
| `made` | the VMs with the machine's marker |
| `alive` | those of them XO has, or will have |
| `told` | `srv.statPid` |
| `ready` | `srv.ready` |

(`Promise == INSTANCE MachinePromise WITH ...`, and the property `KeepsPromise`).
Caches, queues, conflicts, retries and restarts are all stutters or steps of it.
`Release` of a machine without a record, VM or not, is part of the promise
because the code does that; the run `orphan_on_delete` is about it. Ready promises
that the VM was started, not that it runs still: users may stop it, and the code
starts it once.

### VMDeletion

`reconcileDelete` once more, with the calls to XO one by one: credentials, power
state, stop, list of tagged VDIs, list of VBDs, removals, shutdown, delete,
finalizer. `disk` says what became of each disk, `client` which XO instance the
worker is connected to, `vdis` and `todo` what its lists said. Deleting the VM
destroys every disk still attached. The environment pauses and resumes the VM,
attaches and detaches volumes, edits identityRefs. `Faults` switches on what the
code meets only in some deployments: several XO instances, an old API that
answers with bare tasks, an error text with the digits 404. That the object goes
after its VM (`ObjectOutlivesVM`) holds without these and fails with each of them,
as the counterexamples below show; what becomes of the disks is checked with all
of them but the text.

### Addressing

XOMachines by name, each name borne by one machine after another (`gen`), the
IPAddressClaim of the name with its cached copy, and the VM of each generation
with the static address on its config drive (`conf`) and what its guest reports
(`ip`). A claim is read by name from the cache, created when there is none, waited
for without an event, and owned by the machine it was created for, so that the
garbage collector frees it after the machine. The guests get a lease, a
link-local address first or none, and reboot. Objects, caches and writes follow
`MachineLifecycle`; what that module shows (one VM for each machine) is taken over
and `saveProviderID` is one write here. The code reads the IPAddress, an object
with a cache of its own, after the claim that names it; here a granted claim is
there when both caches show it. An IPAddress left over from a predecessor of the
same name, still cached when the new claim is granted, is not modelled.

| Action | Code |
|---|---|
| `ClaimedAddress` | `ipamNetworkConfig`, `ClaimedAddress` |
| `CreateVM`, `SaveProviderID`, `LookupExistingVM`, `StartVM` | the same functions, by what they do to the address |
| `ResolveVMIP`, `ManageVIFs`, `MarkReady` | `WaitForVMReady` |
| `RefreshReadyMachine` | `refreshReadyMachine`, `ResolveVMIPNow`, `SetNodeAddress` |
| `ReconcileDelete` | `reconcileDelete`: VM first, finalizer after it |
| `Allocate`, `CollectClaim`, `GuestReports`, `Reboot` | IPAM provider, garbage collector, guests (external) |

### UserData, VMSettings

`UserData` holds the pure functions of the payload: merging SSH keys and placing
the kube-vip scripts. A payload is its parsed document: what parses, what does
not, what is only a comment and what is empty are kinds of their own, because the
code treats each differently; a command is a string that runs kubeadm, one that
does not, or a list. `VMSettings` is one machine with its one VM and follows
payload, config drive, disk, CPUs, boot order, tags and interfaces from the
request (`input`) to the VM, through best-effort calls (`refused` remembers the
setting whose last attempt failed or was skipped, as it is for a disk size that
is no quantity and without a V1 client), errors and restarts. The stored object is never
stale here; `MachineLifecycle` treats that.

| Action | Code |
|---|---|
| `Build`, `InjectKubeVIP` | `BuildCloudInitPayload`, `networkConfig`, `InjectKubeVIP` |
| `CreateVM`, `ResizeDiskIfNeeded`, `SetCPUsIfNeeded`, `SetBootOrder` | `CreateVM` and the helpers it calls |
| `SetVMTags`, `StartVM`, `ManageVIFs`, `MarkReady`, `RefreshReadyMachine` | the functions of these names |
| `EditTags` | a user editing `spec.tags` of the XOCluster, which no machine watches |

### ClusterLifecycle

One XOCluster, its owner Cluster (absent, without label, with label), the
addresses of its Ready control plane machines, and per addon a ConfigMap and a
CRS. The status patch sends only the fields the reconcile changed against the
copy it started from (`Patched`) and meets whatever is stored. Addons are a
sequence, walked in the order of the code (`ccm`, `csi`, `cni`); each touches two
objects of its own. `leaving` holds the deleted CRSs that the finalizer of Cluster
API's own controller keeps for a while, which a cache shows and a create meets.
The manager reads ConfigMaps and CRSs through its cached client, so the situation
the code is in is that of fault `lag`, where the caches trail the server; without
it they show each write at once, which is what `CRSHasManifest` needs and says. A
manifest is a model value.

### Credentials

The way of the credentials into the CCM manifest of a cluster: the Secret of its
identityRef, its cached copy, the manager's Secret (read once, at the start), the
environment, and the reconcile that resolves, renders and stores. A set of
credentials is a version in its `url` and its `token`, so that a mixture of two
sets shows. Secrets lose and regain keys at any time, identityRef is set and
unset, the process stops and starts. `IdentitySync` moves the cache and queues
nobody: no Secret is watched.

### MC modules, proof modules

`MCMachineLifecycle`, `MCVMDeletion`, `MCAddressing`, `MCVMSettings`,
`MCClusterLifecycle` and `MCCredentials` declare the model values and inputs of the
runs. The proof modules hold theorems and lemmas: `MachineLifecycleProofs`,
`MachinePromiseProofs` and `MachineReadyProofs` about `MachineLifecycle`,
`VMDeletionProofs`, `ClusterLifecycleProofs`, `CredentialsProofs`, `AddressingProofs`
and `VMSettingsProofs` about the module they are named after. Definitions introduced
by a comment starting with "Variant" are plausible bugs in a definition; no
specification uses them, `PROJECT.json` lists the property each one breaks.

## Runs

| Run | Instance | Shows |
|---|---|---|
| `lifecycle_faults` | 1 machine, 3 VMs (1 foreign), 2 names, all faults | the recorded VM is the machine's own; name and readiness are stable |
| `lifecycle_reliable` | the same, restarts and concurrent writers only | one VM, stable providerID, no finalizer dropped too early, Ready machines were started, the promise is kept, and the machine becomes Ready or gone |
| `deletion` | 2 volumes, 1 system disk, 2 XO instances; restarts, pauses, unreadable owners, edited identityRefs, bare tasks | volumes survive, system disks go, no running guest is stopped with volumes attached, deletion ends |
| `deletion_vm` | the same disks, one instance behind all credentials, CSI driver and users active | the object goes last |
| `addressing` | 2 names, 1 pool address, 2 leases, 2 generations, restarts, reboots | no shared address, own claim, usable and current addresses, a waiting machine is served |
| `vm_settings` | every payload and disk layout described below, restarts | payload, kube-vip, disk, settings, interfaces, tags |
| `cluster` | 1 addon, 1 machine address, 1 VIP, all caches lag, restarts | label and endpoint come before addons, the user's endpoint wins, Ready stays; without any resync an addon switched off for good is removed and one never edited is installed; with the resync the addon follows the spec, however often it was edited |
| `cluster_live` | 1 addon, 1 machine address, 1 VIP, label removed, endpoint edited, no lag of the addons' caches | a CRS has its ConfigMap; endpoint, label and deletion converge without any resync |
| `credentials` | 2 versions of the cluster's Secret, 1 of the manager's, no environment | one source, own instance, credentials arrive |

Types: `TypeOK` is an invariant of `vm_settings`, where it also says that no null
document reaches a VM. It is proved of every module (see Proofs).

Three further runs end in a counterexample. Each checks what a sentence of the
documentation or of a comment says and the code does not keep (`findings` quotes
them):

| Run | What happens |
|---|---|
| `orphan_on_delete` | deleted between the create and the write of `status.providerID`: the VM stays |
| `late_attach` | a volume attached after the list of VDIs is destroyed with the VM |
| `replaced_machine` | a machine created again under its name takes the claim of its predecessor, which is then collected: its address can be granted to another machine |

More counterexamples appear when a fault is added to a passing run or a condition
of it is dropped, which is how sharp the conditions are:

| Change | Broken | Why |
|---|---|---|
| `lookup` in `lifecycle_reliable` | `AtMostOneVM` | a lost create answer, then a list that fails: a second VM |
| `admin` there | `ProviderIDNeverChanges` | a stale copy without providerID and a VM removed in XO: another VM is created and recorded |
| `resume` in `deletion` | `CleanStop` | a VM resumed after its power state was read is stopped while it runs |
| `oldapi` in `deletion_vm` | `ObjectOutlivesVM` | the delete is answered by a bare task whose outcome is never read: it fails, the object goes, the VM stays |
| `text` there | `ObjectOutlivesVM` | an error text with the digits 404 passes for a missing VM |
| `Global = other` there | `ObjectOutlivesVM` | an unreadable owner sends the deletion to another XO instance, which answers 404 |
| `lag` in `cluster_live` | `CRSHasManifest` | an addon switched off and on under a lagging cache: a CRS without ConfigMap |
| `unread` in `vm_settings` | `KubeVIPPlaced` | an XOCluster that cannot be read for a moment: a control plane VM without kube-vip |
| `network` there | `ReadyConnected` | a network that cannot be resolved at the create is left out for good |
| no `Resync` in `AddonsFollowSpec` | `AddonsFollowSpec` | an addon switched off and on finds the objects just deleted, in a cache or kept by a finalizer, and the reconcile ends well without installing it: `xocluster_controller.go:530` |
| no `WF_vars(Enqueue)` in `credentials` | `CredentialsFollow` | nothing but the resync brings a rotated Secret |
| an `Env` with a URL there | `OneSource` | a manager's Secret without its URL is completed from the environment |

### Bounds

Three VMs are one foreign VM and two of the machine, enough for the second VM
`AtMostOneVM` excludes; a VM once destroyed is never free again, so an exhausted
`Vms` only disables creates, and in the runs with two free VMs every property is
violated by its variant within them. Two names are the recorded one and another.
One machine is enough for TLC because workers of different machines meet only in
the VM list; `OwnVMs`, `OneVM` and `LifecycleKeepsPromise` are proved for any number
of machines. Two volumes let one removal fail after another succeeded. One addon
is enough where the property is about each addon alone; `ManifestFirst` and
`AddonsAreLast` are proved for any sequence of them. The user's endpoint is a VIP no
machine has, so that it can be told from a discovered one.

In `addressing` the fleets (`Competing`) are two pool machines and one address, so
that one must wait; one pool machine that can be replaced by a second generation;
and one machine on DHCP with two leases, so that a lease can move. `MaxGen` bounds
the generations; two are the old and the new one. `replaced_machine` has two pool
machines with two generations each.

The inputs of `vm_settings` are every list of up to three commands out of
(kubeadm, list, other), which puts the kubeadm command first, in the middle, last,
twice and nowhere; documents with and without keys, empty, comment and broken; a
pass-through and a cloud-init format; and seven disk layouts with a size below and
above the template's, in every listing order, with no or two networks.

In `credentials` two versions of the cluster's Secret are the old and the new one.
Faults are sets, not counters: a fault may strike any number of times. Names are
interchangeable in `lifecycle_faults` (symmetry; it checks no liveness).

Deadlock is not checked: once the objects are gone and the caches current,
nothing is left to do.

### Fairness

Weak fairness of the workers (the work queue runs what it holds) and of informer
deliveries (a watch reconnects and relists). `<>[][... NoCallFails ...]_vars` says
that calls stop failing and other clients stop updating the objects some day:
without it nothing ends, and with it a reconcile that lost its requeue still never
runs again, which is what the live runs look for. A write refused because the
copy is stale is not a failed call and may go on happening. Restarts are not
excluded: they relist everything.

`MachineLifecycle`, `VMDeletion` and, but for one property, `ClusterLifecycle`
assume nothing of `Enqueue` (Machine and Secret events, the ten-hour resync): what
must happen has to be queued by the code itself. The property is
`AddonsFollowSpec`, which states `Resync` (`WF_vars(Enqueue)`) as its condition:
that an addon switched off and on again comes back is owed to the resync alone,
because no event of a ConfigMap or a CRS queues the XOCluster. What the addons get
without it is `AddonsDelivered`. `ClusterLifecycle` also
counts on Cluster API to take its finalizer off a deleted CRS. The other modules
are about what nothing announces (a lease, a tag, a granted claim, a rotated
Secret), and there the resync or the requeue after an error is what the code counts on: in `Addressing` and `VMSettings`
a reconcile may start at any time and a worker always starts one again; in
`Credentials` the resync is the action `Enqueue` with weak fairness, and needed.
`Addressing` also assumes that the pool, the garbage collector and the guests
keep going and that guests stop rebooting some day.

## Proofs

All theorems hold for arbitrary constants under the assumptions the modules name:
markers and sentinels are distinct from the values they stand beside, `Faults` is
a set of known faults, the addon order has no repetition, the requests of
`VMSettings` are well formed (`WellFormed`: finitely many disks, and no keys or
commands in a payload that is no map).

The safety properties of the passing runs, invariants and action properties, are
all proved.

* `TypeCorrect`, `DeletionTypeCorrect`, `ClusterTypeCorrect`,
  `CredentialsTypeCorrect`, `AddressingTypeCorrect`: types. That of the cluster
  also carries `AtInv` (the worker's addon index is within the order while it is
  at an addon), which `Addon` needs to be an addon.
* `NameStable`: the recorded name of a machine never changes. The invariant
  `CopiesInv` is what makes it so: a copy marked current equals the stored object,
  so an accepted write starts from what is stored.
* `OwnVMs`: a recorded VM was created for its machine, under every fault. It needs
  that the copies (`cache`, `mem`) and the VM in the worker's hand are the
  machine's own too.
* `OneVM`: no second VM when lists can be trusted (`Trusted`: no failing list, no
  VM that appears late, no rename). The argument joins two invariants: every VM of
  a machine carries the stored name, which a worker looking for it knows
  (`NameInv`); and a worker about to create has just found that no VM of its
  machine lives (`SingleInv`), which only its own step could change.
* `ReadyStable`: a Ready machine stays Ready, under every fault. `StableInv` says
  that a worker at a call that can still fail, or that waits for a guest, holds a
  copy that is not Ready: its failure report is then refused once the stored
  machine is Ready. That needs in turn that every Ready copy has a providerID
  (otherwise the fast path would start all over with it), and so that the VM in
  hand while the providerID is stored is one.
* `RecordedDestroyed`: with credentials (`Configured`), the VM a gone machine had
  recorded is destroyed. `LifeInv` relates what the stored, the cached and the
  held copy say of the machine's life: a deletion the cache has seen is real, and
  a worker at the finalizer has seen its VM destroyed or never recorded one.
* `StatusAfterSpec`, `IdentityStable`, `ReadyRuns`, `LifecycleKeepsPromise`: the
  record of the VM, when lists can be trusted, credentials are configured and
  nobody deletes VMs in XO (`Reliable`). `RecordInv` says of each machine that it
  has at most one VM in all its life, that its copies lag but never contradict each
  other, and that the VM in the worker's hand is the one stored once it is stored.
  All the invariants together (`Kept`) make every step of the worker a step of
  `MachinePromise` or a stutter: a create is its `Make`, the status write its
  `Record`, the last write its `MakeReady`, a destroy its `Destroy`, the finalizer
  its `Release`.
* `VolumesAreSafe`, `StopsAreClean`: `DetachInv` says at each call which volumes can
  still be attached; `StopInv` adds that a VM about to be stopped early is not
  running. Both assume that nothing is attached during the deletion and that 404
  means not found; the second that nobody resumes the VM.
* `NoDiskLeft`: a system disk is never left behind, under every fault: only volumes
  are ever in the lists the detach works on.
* `ObjectLast`: with credentials that lead to the VM's instance and answers that
  are true and final, `ConnectedInv` keeps the worker on that instance and the
  finalizer behind the delete.
* `ManifestFirst`: for any number of addons, and caches without lag, `ManifestInv`
  states what is known before each of the four calls.
* `ReadyXOClusterStays`, `AddonsAreLast`, `UserWins`: `PublishInv` says that a worker's
  patch never takes away what is published; `AddonsInv` that a worker at the
  addons has seen endpoint and label stored; `UserInv` that no copy of the
  object carries another endpoint than the user's. The
  second assumes that nobody takes the label off again, the third that nobody
  edits the endpoint later.
* `OneSourceOnly`, `OwnInstanceOnly`: `SourceInv` says that every set of credentials on
  its way is of one version, `OwnInv` which ones can come from the manager. The
  first assumes an environment that names no Xen Orchestra.
* `OwnAddress`, `AddressesApart`, `AddressKept`: a machine's VM has the address of the
  machine's own claim, no two running VMs share one, and a Ready machine records
  one its guest can have. `NameInv` says of each name that a worker which prepares
  a VM holds the present machine (`HeldOf`), that only the VM of the present machine
  runs, and only when its ID is recorded (`RunOf`), and that no claim but the
  machine's own is met, in the cache either (`ClaimOf`); `Exclusive` that a pool
  grants an address once. `StatusInv` adds what guests can report. All three assume
  that a name is used again only when its old claim is gone (no `"reuse"`).
* `MergedOnce`, `FirstKubeadmSurrounded`, `SystemDiskFound`: the pure functions of the
  payload and of the disks, for every list. `AppendNew` is a fold of the community
  modules; `FoldDefined` shows by induction that such a fold has values,
  `AppendNewSteps` unrolls it into the loop of the code, and `Merged` is the
  invariant of that loop. Induction is done over sets of numbers (`Induction`,
  from the well-foundedness of the finite subsets of a set), which needs no
  operator as a parameter.
* `SettingsTypeCorrect`: types of `VMSettings`, under every fault.
* `OtherDisksAlone`, `SettingsRemembered`: `DiskInv` says that the disks of a VM are
  those of its template, or those with the system disk grown, so that
  `findMainDisk` finds the same disk again; `SettingsInv` what is tried before each
  call up to the one that records the providerID, and `SettingsPlace` that no call
  tries them again. Both assume `SystemDiskKnown`: a template has a system disk
  that bootable flags and positions give away. With two bootable disks the code
  takes the one listed first, and the theorem would be false.
* `NetworksConnected`: `ReadyInv` follows the interfaces from the create to the Ready
  machine. It assumes that networks can be resolved (no `"network"`).
* `ScriptsPlaced`, `PayloadDelivered`: `PayloadInv` says that the payload in hand, and then
  that of the VM, is what `Built` and `Injected` compute from the request; the
  rest is the lemmas about these functions. Both assume that the XOCluster can be
  read (no `"unread"`), the second also that neither the payload nor the XO user
  has a key twice (`KeysDistinct`): the code removes no key that is there.

The assumptions are sharp: the counterexamples above drop them one at a time.
`MCVMSettings` has TLC evaluate `SystemDiskKnown` and `KeysDistinct` on its inputs.

Only model-checked are the liveness properties, because fairness and `ENABLED` are
outside the prover: `EventuallyReady`, `EventuallyGone`, `DeletionEnds`,
`EndpointPublished`, `AddonsDelivered`, `AddonsFollowSpec`, `LabelRestored`,
`ClusterEventuallyGone`, `AddressFollowed`, `WaiterServed`, `TagsFollow` and
`CredentialsFollow`. So is what the three counterexamples show.

## Where code, comments and documentation part

Beside the three runs that end in a counterexample, the models had to follow the
code in these places, where a reader of the documentation expects something else:

* A kube-vip injection that fails is stored as a condition and the VM is created
  without kube-vip; once the machine is Ready the condition says `VmReady`
  (`cloudinit.go:180-184`; `docs/operations/troubleshooting.md:122-126` and
  `docs/contributing/architecture.md:240` describe a failure that stops).
  `KubeVIPPlaced` accepts it, as its comment says. An XOCluster that cannot be read
  at that moment skips kube-vip and SSH keys without a word.
* An addon switched off and on again may be missing until the resync, although the
  reconcile ended without an error (`xocluster_controller.go:530`).
* A delete answered by a bare task is taken for done (`xomachine_reconcile.go:546`),
  and so is one whose error holds the digits 404 (`xo_compat.go:26`).
* A network that cannot be resolved when the VM is created is skipped
  (`vm_ops.go:216`) and not added later.
* With several bootable disks `findMainDisk` depends on the order of the list.
* A cloud-init payload that is only a comment makes the injection write to a nil
  map (`inject.go:79`); the panic is recovered and repeated at each reconcile. A VM
  that cannot be read again after its start (`vm_ops.go:688`) ends the reconcile the
  same way, and the condition `VmRefetchFailed` is never written.
* Disk size, CPUs, boot order and the allowed address range are never tried again
  once the machine is recorded or Ready.
* A discovered `status.controlPlaneEndpoint` is never looked at again.
* Without a V1 client `ResolveVMIP` accepts whatever main address XO reports.
* A changed IPAM pool leaves the claim of the old pool in place.
* `CredentialsResolutionFailed` is set after the status was patched and never stored
  (`xocluster_controller.go:165`; `docs/operations/troubleshooting.md:138`).
* The CSI manifest takes the endpoint from the spec, where it may be unset.
* The status patch of a stale copy may turn the condition of a Ready XOCluster
  False until the next reconcile; ready and endpoint stay (`ReadyStays`).

## Not modelled

* Text: how names, manifests, scripts, netplan documents and machine ids are put
  together, and how the text of an XO error is parsed. Models keep what the
  callers decide on: any name, a manifest as a value, an error that is or is not
  taken for a 404.
* Selection of templates, pools and networks by name: found or not found.
* Events, logging, metrics, TLS, flags and wiring of the manager; they keep no state.
* Two managers at once: the deployment uses leader election.
* `hack/cilium-manifest`, a build-time text tool; generated code and mocks.
* Watches that filter events are modelled by what they let through; that a filter
  passes an event is taken from its predicate.

## Plan

Done: the object life cycles of both controllers, the deletion of a VM, addresses
and claims, payload and settings, credentials; the abstract promise and its
refinement; theorems about all of them, which state every safety property checked.

Left:

* Composition of `ClusterLifecycle` and `Addressing`: the discovered endpoint
   against the addresses of machines that come and go.
