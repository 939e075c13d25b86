----------------------------- MODULE Addressing -----------------------------
(***************************************************************************)
(* The addresses of machines: the one a machine claims from an IPAM pool   *)
(* and its VM is configured with, and the one the guest reports and the    *)
(* XOMachine's status records.                                             *)
(*                                                                         *)
(* The informer cache and the workers are those of MachineLifecycle, here  *)
(* by object name rather than by UID: a machine deleted and created again  *)
(* under its name is a new generation, with a VM of its own, that meets    *)
(* the IPAddressClaim of the name.  Each generation has at most one VM     *)
(* (MachineLifecycle, AtMostOneVM), and saveProviderID is one write with   *)
(* its retry.  The work queue is left out: an address is looked at again   *)
(* only by the periodic resync, which may start a reconcile at any time.   *)
(***************************************************************************)
EXTENDS Naturals, FiniteSets

CONSTANTS
    Names,     \* names of XOMachines, shared with their claims
    MaxGen,    \* how many XOMachines may bear one name, one after the other
    Addresses, \* the addresses of the IPAM pool
    Leases,    \* the addresses a DHCP server may hand out
    LinkLocal, \* an address no node can be reached at
    NoAddr,    \* no address
    Fleets,    \* the XOMachines there may be at first, under each name
    Faults     \* which of AllFaults the environment may produce

AllFaults ==
    { "crash",  \* the controller process dies and restarts
      "reboot", \* guests reboot, and leases move
      "reuse" } \* a name is used again before its claim is gone everywhere

ASSUME AddressAssumption ==
    /\ Addresses \cap Leases = {}
    /\ {LinkLocal, NoAddr} \cap (Addresses \cup Leases) = {}
    /\ LinkLocal # NoAddr
    /\ MaxGen \in Nat \ {0}
    /\ Faults \subseteq AllFaults

VARIABLES
    srv,        \* the XOMachine the API server stores under a name
    cache,      \* the copy in the informer cache
    fresh,      \* names whose cached copy is the stored version
    pc,         \* the call the worker of a name is about to make
    mem,        \* the XOMachine it holds
    synced,     \* names whose worker holds the stored version
    net,        \* the address in the network configuration it has built
    claim,      \* the IPAddressClaim of a name, with the address granted
    claimCache, \* the copy in the informer cache
    vm          \* the VM of each generation

objectVars == <<srv, cache, fresh>>
workerVars == <<pc, mem, synced, net>>
claimVars == <<claim, claimCache>>
vars == <<srv, cache, fresh, pc, mem, synced, net, claim, claimCache, vm>>

Gens == 1..MaxGen
Usable == Addresses \cup Leases

XOMachine ==
    [ gen  : Gens,
      life : {"active", "deleting", "gone"},
      net  : {"pool", "dhcp"},
      pid  : {"unset", "set"},
      addr : Usable \cup {NoAddr},
      ready: {"no", "yes"} ]

\* owner 0: there is no claim under the name.
Claim == [ owner : 0..MaxGen, addr : Addresses \cup {NoAddr} ]
NoClaim == [ owner |-> 0, addr |-> NoAddr ]

\* None is Ready: there are no VMs yet.
ASSUME FleetAssumption ==
    /\ Fleets \subseteq [Names -> XOMachine]
    /\ \A fleet \in Fleets : \A n \in Names : fleet[n].ready = "no"

\* conf: the static address on the config drive, NoAddr when there is none.
VM == [ st   : {"none", "halted", "running", "destroyed"},
        conf : Addresses \cup {NoAddr},
        ip   : Usable \cup {LinkLocal, NoAddr} ]

Calls == { "idle", "fast", "claim", "lookup", "create", "save", "saveGet", "save2",
           "start", "waitIP", "vifs", "markReady", "refresh", "delete", "destroy",
           "unfinalize" }

New(g, kind) == [ gen |-> g, life |-> "active", net |-> kind, pid |-> "unset",
                  addr |-> NoAddr, ready |-> "no" ]
Blank == New(1, "dhcp")

VMOf(n) == vm[n][mem[n].gen]
Exists(v) == v.st \in {"halted", "running"}

\* The running VMs, each as name and generation, that have the static address a.
RunningOn(a) == {x \in Names \X Gens : vm[x[1]][x[2]].st = "running" /\ vm[x[1]][x[2]].conf = a}

----------------------------------------------------------------------------
(* Ends of a reconcile and writes of the XOMachine, as in MachineLifecycle. *)

Goto(n, call) == pc' = [pc EXCEPT ![n] = call]

\* The end of a reconcile, with an error or without.
Done(n) ==
    /\ Goto(n, "idle")
    /\ synced' = synced \ {n}
    /\ net' = [net EXCEPT ![n] = NoAddr]
    /\ mem' = [mem EXCEPT ![n] = Blank]

Unwritten == UNCHANGED <<objectVars, claimVars, vm>>
Failed(n) == Done(n) /\ Unwritten
Proceed(n, call) == Goto(n, call) /\ UNCHANGED <<objectVars, mem, synced, net, claimVars, vm>>

Read(n) ==
    /\ mem' = [mem EXCEPT ![n] = cache[n]]
    /\ synced' = IF n \in fresh THEN synced \cup {n} ELSE synced \ {n}

Accept(n, obj) ==
    /\ n \in synced
    /\ srv' = [srv EXCEPT ![n] = obj]
    /\ fresh' = fresh \ {n}
    /\ UNCHANGED <<cache, claimVars, vm>>

Write(n, obj, next) ==
    \/ /\ Accept(n, obj)
       /\ mem' = [mem EXCEPT ![n] = obj]
       /\ Goto(n, next)
       /\ UNCHANGED <<synced, net>>
    \/ Accept(n, obj) /\ Done(n)
    \/ Failed(n)

\* Variant: events of Ready machines are filtered out.
ReconcileUnready(n) ==
    /\ pc[n] = "idle" /\ cache[n].life # "gone"
    /\ cache[n].ready = "yes" => cache[n].life = "deleting"
    /\ Read(n)
    /\ Goto(n, IF cache[n].life = "deleting" THEN "delete" ELSE "fast")
    /\ UNCHANGED <<objectVars, net, claimVars, vm>>

Reconcile(n) ==
    /\ pc[n] = "idle" /\ cache[n].life # "gone"
    /\ Read(n)
    /\ Goto(n, IF cache[n].life = "deleting" THEN "delete" ELSE "fast")
    /\ UNCHANGED <<objectVars, net, claimVars, vm>>

\* A VM that cannot be fetched sends the machine through the whole reconcile.
TryFastPath(n) ==
    /\ pc[n] = "fast"
    /\ \/ mem[n].pid = "unset" /\ Proceed(n, "claim")
       \/ /\ mem[n].pid = "set" /\ mem[n].ready = "no"
          /\ (Exists(VMOf(n)) /\ Proceed(n, "start")) \/ Proceed(n, "claim")
       \/ /\ mem[n].pid = "set" /\ mem[n].ready = "yes"
          /\ Proceed(n, "refresh")

----------------------------------------------------------------------------
(* The address claim.                                                      *)

AfterAddress(n) == IF mem[n].pid = "set" THEN "lookup" ELSE "create"

\* Variant: while the pool has not answered, the VM is created all the same.
DoNotWait(n) ==
    /\ pc[n] = "claim"
    /\ \/ /\ claim[n] = NoClaim
          /\ claim' = [claim EXCEPT ![n] = [owner |-> mem[n].gen, addr |-> NoAddr]]
       \/ claim[n] # NoClaim /\ UNCHANGED claim
    /\ net' = [net EXCEPT ![n] = claimCache[n].addr]
    /\ Goto(n, AfterAddress(n))
    /\ UNCHANGED <<objectVars, mem, synced, claimCache, vm>>

\* The claim as the cache has it. None: it is created, unless it is there
\* already.  Without an answer of the pool the reconcile is to run again.  The
\* address is an object of its own, the IPAddress the claim points to, and is
\* there when both caches show it: one that is not there yet is an error.
ClaimedAddress(n) ==
    /\ pc[n] = "claim"
    /\ \/ mem[n].net = "dhcp" /\ Proceed(n, AfterAddress(n))
       \/ /\ mem[n].net = "pool" /\ claimCache[n] = NoClaim /\ claim[n] = NoClaim
          /\ claim' = [claim EXCEPT ![n] = [owner |-> mem[n].gen, addr |-> NoAddr]]
          /\ Done(n)
          /\ UNCHANGED <<srv, cache, fresh, claimCache, vm>>
       \/ /\ mem[n].net = "pool" /\ claimCache[n].addr # NoAddr
          /\ net' = [net EXCEPT ![n] = claimCache[n].addr]
          /\ Goto(n, AfterAddress(n))
          /\ UNCHANGED <<objectVars, mem, synced, claimVars, vm>>
       \/ Failed(n)

----------------------------------------------------------------------------
(* The VM.                                                                 *)

WithVM(n, v) == vm' = [vm EXCEPT ![n][mem[n].gen] = v]

\* A VM is created halted, or the one of this generation is found again by its
\* marker, with the configuration it was created with.
CreateVM(n) ==
    /\ pc[n] = "create"
    /\ \/ /\ VMOf(n).st = "none"
          /\ WithVM(n, [st |-> "halted", conf |-> net[n], ip |-> NoAddr])
          /\ \/ Goto(n, "save") /\ UNCHANGED <<mem, synced, net>>
             \/ Done(n)
          /\ UNCHANGED <<srv, cache, fresh, claimVars>>
       \/ Exists(VMOf(n)) /\ Proceed(n, "save")
       \/ Failed(n)

Recorded(n) == [mem[n] EXCEPT !.pid = "set"]

\* A Conflict is answered by reading the cache again and writing once more.
SaveProviderID(n) ==
    \/ /\ pc[n] = "save"
       /\ \/ Write(n, Recorded(n), "start")
          \/ n \notin synced /\ Proceed(n, "saveGet")
    \/ /\ pc[n] = "saveGet" /\ cache[n].life # "gone"
       /\ Read(n)
       /\ Goto(n, "save2")
       /\ UNCHANGED <<objectVars, net, claimVars, vm>>
    \/ pc[n] = "save2" /\ Write(n, Recorded(n), "start")

LookupExistingVM(n) ==
    /\ pc[n] = "lookup"
    /\ (Exists(VMOf(n)) /\ Proceed(n, "start")) \/ Failed(n)

StartVM(n) ==
    /\ pc[n] = "start"
    /\ \/ /\ Exists(VMOf(n))
          /\ WithVM(n, [VMOf(n) EXCEPT !.st = "running"])
          /\ \/ Goto(n, "waitIP") /\ UNCHANGED <<mem, synced, net>>
             \/ Done(n)
          /\ UNCHANGED <<srv, cache, fresh, claimVars>>
       \/ Failed(n)

\* Polls for two minutes for an address that nodeIPv4 accepts.
ResolveVMIP(n) ==
    /\ pc[n] = "waitIP"
    /\ \/ /\ VMOf(n).ip \in Usable
          /\ mem' = [mem EXCEPT ![n].addr = VMOf(n).ip]
          /\ Goto(n, "vifs")
          /\ UNCHANGED <<objectVars, synced, net, claimVars, vm>>
       \/ Failed(n)

ManageVIFs(n) == pc[n] = "vifs" /\ (Proceed(n, "markReady") \/ Failed(n))

\* The address is the one read before the VIFs were managed.
MarkReady(n) ==
    /\ pc[n] = "markReady"
    /\ \/ Accept(n, [mem[n] EXCEPT !.ready = "yes"]) /\ Done(n)
       \/ Failed(n)

\* Variant: what the guest reports is recorded, nothing included.
RecordNothing(n) ==
    /\ pc[n] = "refresh"
    /\ \/ Accept(n, [mem[n] EXCEPT !.addr = IF VMOf(n).ip \in Usable THEN VMOf(n).ip ELSE NoAddr])
       \/ Unwritten
    /\ Done(n)

\* ResolveVMIPNow and SetNodeAddress, best effort: no outcome is retried.
RefreshReadyMachine(n) ==
    /\ pc[n] = "refresh"
    /\ \/ /\ Exists(VMOf(n)) /\ VMOf(n).ip \in Usable \ {mem[n].addr}
          /\ Accept(n, [mem[n] EXCEPT !.addr = VMOf(n).ip])
       \/ Unwritten
    /\ Done(n)

\* Variant: the finalizer goes before the VM.
ReleaseFirst(n) ==
    \/ /\ pc[n] = "delete"
       /\ Accept(n, [mem[n] EXCEPT !.life = "gone"])
       /\ (mem[n].pid = "unset" /\ Done(n)) \/ (Goto(n, "destroy") /\ UNCHANGED <<mem, synced, net>>)
    \/ /\ pc[n] = "destroy"
       /\ WithVM(n, [VMOf(n) EXCEPT !.st = "destroyed", !.ip = NoAddr])
       /\ Done(n)
       /\ UNCHANGED <<srv, cache, fresh, claimVars>>

\* The VM is stopped and destroyed, or was already; see VMDeletion.
ReconcileDelete(n) ==
    \/ /\ pc[n] = "delete"
       /\ Proceed(n, IF mem[n].pid = "set" THEN "destroy" ELSE "unfinalize") \/ Failed(n)
    \/ /\ pc[n] = "destroy"
       /\ \/ /\ WithVM(n, [VMOf(n) EXCEPT !.st = "destroyed", !.ip = NoAddr])
             /\ \/ Goto(n, "unfinalize") /\ UNCHANGED <<mem, synced, net>>
                \/ Done(n)
             /\ UNCHANGED <<srv, cache, fresh, claimVars>>
          \/ Failed(n)
    \/ /\ pc[n] = "unfinalize"
       /\ \/ Accept(n, [mem[n] EXCEPT !.life = "gone"]) /\ Done(n)
          \/ Failed(n)

Worker(n) ==
    \/ Reconcile(n) \/ TryFastPath(n) \/ ClaimedAddress(n) \/ CreateVM(n) \/ SaveProviderID(n)
    \/ LookupExistingVM(n) \/ StartVM(n) \/ ResolveVMIP(n) \/ ManageVIFs(n) \/ MarkReady(n)
    \/ RefreshReadyMachine(n) \/ ReconcileDelete(n)

----------------------------------------------------------------------------
(* Users, informers, the IPAM provider, the garbage collector, the guests.  *)

Overwrite(n, obj) ==
    /\ srv' = [srv EXCEPT ![n] = obj]
    /\ fresh' = fresh \ {n}
    /\ synced' = synced \ {n}
    /\ UNCHANGED <<cache, pc, mem, net, claimVars, vm>>

UserDelete(n) == srv[n].life = "active" /\ Overwrite(n, [srv[n] EXCEPT !.life = "deleting"])

\* A machine of the same name, with the same configuration.  A name whose claim
\* is gone everywhere has no IPAddress of its predecessor in any cache either.
UserCreate(n) ==
    /\ srv[n].life = "gone" /\ srv[n].gen < MaxGen
    /\ \/ "reuse" \in Faults
       \/ claim[n] = NoClaim /\ claimCache[n] = NoClaim
    /\ Overwrite(n, New(srv[n].gen + 1, srv[n].net))

InformerSync(n) ==
    /\ n \notin fresh
    /\ cache' = [cache EXCEPT ![n] = srv[n]]
    /\ fresh' = fresh \cup {n}
    /\ UNCHANGED <<srv, workerVars, claimVars, vm>>

\* Nothing watches claims: their cache moves and nobody is queued.
ClaimSync(n) ==
    /\ claimCache[n] # claim[n]
    /\ claimCache' = [claimCache EXCEPT ![n] = claim[n]]
    /\ UNCHANGED <<objectVars, workerVars, claim, vm>>

\* The IPAM provider grants an address no other claim holds.
Allocate(n) ==
    /\ claim[n].owner # 0 /\ claim[n].addr = NoAddr
    /\ \E a \in Addresses \ {claim[o].addr : o \in Names} :
          claim' = [claim EXCEPT ![n].addr = a]
    /\ UNCHANGED <<objectVars, workerVars, claimCache, vm>>

\* Variant: the claim is created without its owner reference.
ClaimKept(n) == claim[n].owner = 0 /\ claim[n] # NoClaim /\ UNCHANGED vars

\* The claim goes after the machine that owns it, and its address is free.
CollectClaim(n) ==
    /\ claim[n].owner # 0
    /\ srv[n].life = "gone" \/ srv[n].gen # claim[n].owner
    /\ claim' = [claim EXCEPT ![n] = NoClaim]
    /\ UNCHANGED <<objectVars, workerVars, claimCache, vm>>

\* A guest that waits for a lease reports the link-local address it has so far.
GuestReports(n, g) ==
    /\ vm[n][g].st = "running" /\ vm[n][g].ip \notin Usable
    /\ IF vm[n][g].conf # NoAddr
       THEN vm' = [vm EXCEPT ![n][g].ip = vm[n][g].conf]
       ELSE \E a \in Leases \cup ({LinkLocal} \ {vm[n][g].ip}) : vm' = [vm EXCEPT ![n][g].ip = a]
    /\ UNCHANGED <<objectVars, workerVars, claimVars>>

Reboot(n, g) ==
    /\ "reboot" \in Faults
    /\ vm[n][g].st = "running" /\ vm[n][g].ip # NoAddr
    /\ vm' = [vm EXCEPT ![n][g].ip = NoAddr]
    /\ UNCHANGED <<objectVars, workerVars, claimVars>>

Crash ==
    /\ "crash" \in Faults
    /\ pc' = [n \in Names |-> "idle"]
    /\ mem' = [n \in Names |-> Blank]
    /\ net' = [n \in Names |-> NoAddr]
    /\ synced' = {}
    /\ cache' = srv /\ fresh' = Names
    /\ claimCache' = claim
    /\ UNCHANGED <<srv, claim, vm>>

Environment(n) ==
    \/ UserDelete(n) \/ UserCreate(n) \/ InformerSync(n) \/ ClaimSync(n)
    \/ Allocate(n) \/ CollectClaim(n)
    \/ \E g \in Gens : GuestReports(n, g) \/ Reboot(n, g)

Next == (\E n \in Names : Worker(n) \/ Environment(n)) \/ Crash

Init ==
    /\ srv \in Fleets
    /\ cache = srv /\ fresh = Names
    /\ pc = [n \in Names |-> "idle"] /\ mem = [n \in Names |-> Blank] /\ synced = {}
    /\ net = [n \in Names |-> NoAddr]
    /\ claim = [n \in Names |-> NoClaim] /\ claimCache = claim
    /\ vm = [n \in Names |-> [g \in Gens |-> [st |-> "none", conf |-> NoAddr, ip |-> NoAddr]]]

Spec == Init /\ [][Next]_vars

\* A step of n's worker in which no call fails. What has to be waited for and
\* an update from a stale copy are no failures.
NoCallFails(n) ==
    \/ pc'[n] = pc[n]
    \/ pc[n] = "idle"
    \/ pc'[n] # "idle"
    \/ n \notin synced
    \/ srv'[n] # srv[n]
    \/ pc[n] = "claim" /\ claimCache[n].addr = NoAddr /\ claim'[n] # NoClaim
    \/ pc[n] = "waitIP" /\ VMOf(n).ip \notin Usable
    \/ pc[n] = "refresh" /\ VMOf(n).ip \notin Usable \ {mem[n].addr}

\* Workers (the resync queues every machine now and then), watches, the pool, the
\* garbage collector and the guests keep going; some day calls stop failing and guests stop rebooting.
Fairness ==
    /\ \A n \in Names :
          /\ WF_vars(Worker(n)) /\ WF_vars(InformerSync(n)) /\ WF_vars(ClaimSync(n))
          /\ WF_vars(Allocate(n)) /\ WF_vars(CollectClaim(n))
          /\ \A g \in Gens : WF_vars(GuestReports(n, g))
    /\ <>[][\A n \in Names : NoCallFails(n) /\ \A g \in Gens : ~Reboot(n, g)]_vars

LiveSpec == Spec /\ Fairness

----------------------------------------------------------------------------
(* Properties.                                                             *)

\* Type correctness of every variable.
TypeOK ==
    /\ srv \in [Names -> XOMachine] /\ cache \in [Names -> XOMachine] /\ mem \in [Names -> XOMachine]
    /\ fresh \subseteq Names /\ synced \subseteq Names
    /\ pc \in [Names -> Calls]
    /\ net \in [Names -> Addresses \cup {NoAddr}]
    /\ claim \in [Names -> Claim] /\ claimCache \in [Names -> Claim]
    /\ vm \in [Names -> [Gens -> VM]]

\* ipamNetworkConfig, ClaimedAddress, reconcileDelete: no two running VMs are
\* configured with the same address, although an address is claimed again as
\* soon as the machine that had it is gone.
NoSharedAddress == \A a \in Addresses : \A x, y \in RunningOn(a) : x = y

\* ClaimedAddress ("a replacement starts from a fresh claim"): as long as the
\* machine is there, its VM is configured with the address of the machine's own
\* claim, never with a guess.
ClaimHeld ==
    \A n \in Names :
       LET v == vm[n][srv[n].gen] IN
       srv[n].net = "pool" /\ srv[n].life # "gone" /\ Exists(v) =>
          /\ v.conf # NoAddr
          /\ claim[n] = [owner |-> srv[n].gen, addr |-> v.conf]

\* ResolveVMIP, ResolveVMIPNow, SetNodeAddress: a Ready machine has an address a
\* node can be reached at, the claimed one if it claimed one, even while its
\* guest reboots and reports none.
ReadyHasAddress ==
    \A n \in Names : srv[n].ready = "yes" /\ srv[n].life # "gone" =>
       srv[n].addr \in (IF srv[n].net = "pool" THEN {claim[n].addr} ELSE Leases)

\* refreshReadyMachine: the address of a Ready machine is in the end the one its
\* guest has, although a refresh that fails is not retried.
AddressFollowed ==
    \A n \in Names : \A a \in Usable :
       <>[](srv[n].life = "active" /\ srv[n].ready = "yes" /\ vm[n][srv[n].gen].ip = a)
          => <>[](srv[n].addr = a)

\* ipamNetworkConfig ("waits rather than inventing one"): a machine the pool has
\* no address for becomes Ready when the others have given theirs back.
WaiterServed ==
    \A n \in Names :
       <>[](srv[n].life = "active" /\ \A o \in Names \ {n} : srv[o].life = "gone")
          => <>(srv[n].life = "active" /\ srv[n].ready = "yes")

=============================================================================
