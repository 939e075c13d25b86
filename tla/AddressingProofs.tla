-------------------------- MODULE AddressingProofs --------------------------
(***************************************************************************)
(* For any number of names, addresses and generations: if a name is used   *)
(* again only after its claim is gone, every VM is configured with the     *)
(* address of its own machine's claim, and no two running VMs share one.   *)
(***************************************************************************)
EXTENDS Addressing, TLAPS

----------------------------------------------------------------------------
(* Types.                                                                  *)

LEMMA NewTypes ==
    ASSUME NEW g \in Gens, NEW kind \in {"pool", "dhcp"}
    PROVE  New(g, kind) \in XOMachine
BY AddressAssumption DEF New, XOMachine, Usable

LEMMA BlankType == Blank \in XOMachine
BY NewTypes, AddressAssumption DEF Blank, Gens

\* The objects that are written, and what they keep.
LEMMA Objects ==
    ASSUME NEW o \in XOMachine
    PROVE  /\ [o EXCEPT !.pid = "set"] \in XOMachine
           /\ [o EXCEPT !.ready = "yes"] \in XOMachine
           /\ \A a \in Usable \cup {NoAddr} : [o EXCEPT !.addr = a] \in XOMachine
           /\ \A l \in {"deleting", "gone"} : [o EXCEPT !.life = l] \in XOMachine
BY DEF XOMachine

LEMMA DoneTypes ==
    ASSUME TypeOK, NEW n \in Names, Done(n)
    PROVE  /\ pc' \in [Names -> Calls] /\ mem' \in [Names -> XOMachine]
           /\ synced' \subseteq Names /\ net' \in [Names -> Addresses \cup {NoAddr}]
BY BlankType DEF TypeOK, Done, Goto, Calls

LEMMA QuietTypes ==
    ASSUME TypeOK, NEW n \in Names,
           Failed(n) \/ \E call \in Calls : Proceed(n, call)
    PROVE  TypeOK'
<1>1. CASE Failed(n)
  BY <1>1, DoneTypes DEF TypeOK, Failed, Unwritten, objectVars, claimVars
<1>2. CASE \E call \in Calls : Proceed(n, call)
  BY <1>2 DEF TypeOK, Proceed, Goto, objectVars, claimVars
<1> QED
  BY <1>1, <1>2

LEMMA StoreTypes ==
    ASSUME TypeOK, NEW n \in Names, NEW obj \in XOMachine, NEW next \in Calls,
           Write(n, obj, next) \/ (Accept(n, obj) /\ Done(n))
    PROVE  TypeOK'
<1>1. CASE Accept(n, obj) /\ Done(n)
  BY <1>1, DoneTypes DEF TypeOK, Accept, claimVars
<1>2. CASE /\ Accept(n, obj)
           /\ mem' = [mem EXCEPT ![n] = obj]
           /\ Goto(n, next)
           /\ UNCHANGED <<synced, net>>
  BY <1>2 DEF TypeOK, Accept, Goto, claimVars
<1> QED
  BY <1>1, <1>2, QuietTypes DEF Write

LEMMA ReadTypes ==
    ASSUME TypeOK, NEW n \in Names, Read(n)
    PROVE  mem' \in [Names -> XOMachine] /\ synced' \subseteq Names
BY DEF TypeOK, Read

LEMMA VMTypes ==
    ASSUME TypeOK, NEW n \in Names, NEW g \in Gens, NEW v \in VM, vm' = [vm EXCEPT ![n][g] = v]
    PROVE  vm' \in [Names -> [Gens -> VM]]
BY DEF TypeOK

LEMMA VMFields ==
    ASSUME NEW v \in VM
    PROVE  /\ [v EXCEPT !.st = "running"] \in VM
           /\ [v EXCEPT !.st = "destroyed", !.ip = NoAddr] \in VM
           /\ \A a \in Usable \cup {LinkLocal, NoAddr} : [v EXCEPT !.ip = a] \in VM
BY DEF VM

LEMMA WorkerTypes ==
    ASSUME TypeOK, NEW n \in Names, Worker(n)
    PROVE  TypeOK'
<1>c. \A call \in {"idle", "fast", "claim", "lookup", "create", "save", "saveGet", "save2", "start",
                   "waitIP", "vifs", "markReady", "refresh", "delete", "destroy", "unfinalize"} :
         call \in Calls
  BY DEF Calls
<1>m. mem[n] \in XOMachine /\ mem[n].gen \in Gens /\ net[n] \in Addresses \cup {NoAddr}
  BY DEF TypeOK, XOMachine
<1>v. VMOf(n) \in VM
  BY <1>m DEF TypeOK, VMOf
<1>1. CASE Reconcile(n)
  BY <1>1, <1>c, ReadTypes DEF Reconcile, TypeOK, Goto, objectVars, claimVars
<1>2. CASE TryFastPath(n) \/ ManageVIFs(n) \/ LookupExistingVM(n)
  BY <1>2, <1>c, QuietTypes DEF TryFastPath, ManageVIFs, LookupExistingVM
<1>3. CASE ClaimedAddress(n)
  <2>1. AfterAddress(n) \in Calls
    BY <1>c DEF AfterAddress
  <2>2. CASE /\ claim' = [claim EXCEPT ![n] = [owner |-> mem[n].gen, addr |-> NoAddr]]
             /\ Done(n)
             /\ UNCHANGED <<srv, cache, fresh, claimCache, vm>>
    <3>1. [owner |-> mem[n].gen, addr |-> NoAddr] \in Claim
      BY <1>m DEF Claim, Gens
    <3> QED
      BY <2>2, <3>1, DoneTypes DEF TypeOK
  <2>3. CASE /\ claimCache[n].addr # NoAddr
             /\ net' = [net EXCEPT ![n] = claimCache[n].addr]
             /\ Goto(n, AfterAddress(n))
             /\ UNCHANGED <<objectVars, mem, synced, claimVars, vm>>
    <3>1. claimCache[n].addr \in Addresses \cup {NoAddr}
      BY DEF TypeOK, Claim
    <3> QED
      BY <2>1, <2>3, <3>1 DEF TypeOK, Goto, objectVars, claimVars
  <2> QED
    BY <1>3, <2>1, <2>2, <2>3, QuietTypes DEF ClaimedAddress
<1>4. CASE CreateVM(n)
  <2>1. CASE /\ WithVM(n, [st |-> "halted", conf |-> net[n], ip |-> NoAddr])
             /\ \/ Goto(n, "save") /\ UNCHANGED <<mem, synced, net>>
                \/ Done(n)
             /\ UNCHANGED <<srv, cache, fresh, claimVars>>
    <3>1. [st |-> "halted", conf |-> net[n], ip |-> NoAddr] \in VM
      BY <1>m DEF VM
    <3>2. vm' \in [Names -> [Gens -> VM]]
      BY <1>m, <2>1, <3>1, VMTypes DEF WithVM
    <3>3. CASE Goto(n, "save") /\ UNCHANGED <<mem, synced, net>>
      BY <1>c, <2>1, <3>2, <3>3 DEF TypeOK, Goto, claimVars
    <3>4. CASE Done(n)
      BY <2>1, <3>2, <3>4, DoneTypes DEF TypeOK, claimVars
    <3> QED
      BY <2>1, <3>3, <3>4
  <2> QED
    BY <1>4, <1>c, <2>1, QuietTypes DEF CreateVM
<1>5. CASE SaveProviderID(n)
  <2>1. CASE Read(n) /\ Goto(n, "save2") /\ UNCHANGED <<objectVars, net, claimVars, vm>>
    BY <1>c, <2>1, ReadTypes DEF TypeOK, Goto, objectVars, claimVars
  <2>2. Recorded(n) \in XOMachine
    BY <1>m, Objects DEF Recorded
  <2> QED
    BY <1>5, <1>c, <2>1, <2>2, StoreTypes, QuietTypes DEF SaveProviderID
<1>6. CASE StartVM(n)
  <2>1. CASE /\ WithVM(n, [VMOf(n) EXCEPT !.st = "running"])
             /\ \/ Goto(n, "waitIP") /\ UNCHANGED <<mem, synced, net>>
                \/ Done(n)
             /\ UNCHANGED <<srv, cache, fresh, claimVars>>
    <3>2. vm' \in [Names -> [Gens -> VM]]
      BY <1>m, <1>v, <2>1, VMFields, VMTypes DEF WithVM
    <3>3. CASE Goto(n, "waitIP") /\ UNCHANGED <<mem, synced, net>>
      BY <1>c, <2>1, <3>2, <3>3 DEF TypeOK, Goto, claimVars
    <3>4. CASE Done(n)
      BY <2>1, <3>2, <3>4, DoneTypes DEF TypeOK, claimVars
    <3> QED
      BY <2>1, <3>3, <3>4
  <2> QED
    BY <1>6, <2>1, QuietTypes DEF StartVM
<1>7. CASE ResolveVMIP(n)
  <2>1. CASE /\ VMOf(n).ip \in Usable
             /\ mem' = [mem EXCEPT ![n].addr = VMOf(n).ip]
             /\ Goto(n, "vifs")
             /\ UNCHANGED <<objectVars, synced, net, claimVars, vm>>
    <3>1. mem' = [mem EXCEPT ![n] = [mem[n] EXCEPT !.addr = VMOf(n).ip]]
      BY <2>1 DEF TypeOK
    <3>2. [mem[n] EXCEPT !.addr = VMOf(n).ip] \in XOMachine
      BY <1>m, <2>1, Objects
    <3>3. mem' \in [Names -> XOMachine]
      BY <3>1, <3>2 DEF TypeOK
    <3> QED
      BY <1>c, <2>1, <3>3 DEF TypeOK, Goto, objectVars, claimVars
  <2> QED
    BY <1>7, <2>1, QuietTypes DEF ResolveVMIP
<1>8. CASE MarkReady(n)
  BY <1>8, <1>c, <1>m, Objects, StoreTypes, QuietTypes DEF MarkReady
<1>9. CASE RefreshReadyMachine(n)
  <2>1. Failed(n) \/ \E a \in Usable : Accept(n, [mem[n] EXCEPT !.addr = a]) /\ Done(n)
    BY <1>9 DEF RefreshReadyMachine, Failed
  <2> QED
    BY <2>1, <1>c, <1>m, Objects, StoreTypes, QuietTypes
<1>10. CASE ReconcileDelete(n)
  <2>1. CASE /\ WithVM(n, [VMOf(n) EXCEPT !.st = "destroyed", !.ip = NoAddr])
             /\ \/ Goto(n, "unfinalize") /\ UNCHANGED <<mem, synced, net>>
                \/ Done(n)
             /\ UNCHANGED <<srv, cache, fresh, claimVars>>
    <3>2. vm' \in [Names -> [Gens -> VM]]
      BY <1>m, <1>v, <2>1, VMFields, VMTypes DEF WithVM
    <3>3. CASE Goto(n, "unfinalize") /\ UNCHANGED <<mem, synced, net>>
      BY <1>c, <2>1, <3>2, <3>3 DEF TypeOK, Goto, claimVars
    <3>4. CASE Done(n)
      BY <2>1, <3>2, <3>4, DoneTypes DEF TypeOK, claimVars
    <3> QED
      BY <2>1, <3>3, <3>4
  <2>2. CASE Accept(n, [mem[n] EXCEPT !.life = "gone"]) /\ Done(n)
    BY <1>c, <1>m, <2>2, Objects, StoreTypes
  <2> QED
    BY <1>10, <1>c, <2>1, <2>2, QuietTypes DEF ReconcileDelete
<1> QED
  BY <1>1, <1>2, <1>3, <1>4, <1>5, <1>6, <1>7, <1>8, <1>9, <1>10 DEF Worker

LEMMA EnvironmentTypes ==
    ASSUME TypeOK, NEW n \in Names, Environment(n)
    PROVE  TypeOK'
<1>m. srv[n] \in XOMachine /\ srv[n].gen \in Gens /\ srv[n].net \in {"pool", "dhcp"}
  BY DEF TypeOK, XOMachine
<1>o. ASSUME NEW obj \in XOMachine, Overwrite(n, obj) PROVE TypeOK'
  BY <1>o DEF Overwrite, TypeOK, claimVars
<1>1. CASE UserDelete(n)
  BY <1>1, <1>m, <1>o, Objects DEF UserDelete
<1>2. CASE UserCreate(n)
  <2>1. srv[n].gen + 1 \in Gens
    BY <1>2, <1>m, AddressAssumption DEF UserCreate, Gens
  <2> QED
    BY <1>2, <1>m, <1>o, <2>1, NewTypes DEF UserCreate
<1>3. CASE InformerSync(n)
  BY <1>3 DEF InformerSync, TypeOK, workerVars, claimVars
<1>4. CASE ClaimSync(n)
  BY <1>4 DEF ClaimSync, TypeOK, objectVars, workerVars
<1>5. CASE Allocate(n)
  <2>1. PICK a \in Addresses : claim' = [claim EXCEPT ![n].addr = a]
    BY <1>5 DEF Allocate
  <2>2. claim' \in [Names -> Claim]
    BY <2>1 DEF TypeOK, Claim
  <2> QED
    BY <1>5, <2>2 DEF Allocate, TypeOK, objectVars, workerVars
<1>6. CASE CollectClaim(n)
  <2>1. NoClaim \in Claim
    BY AddressAssumption DEF NoClaim, Claim
  <2> QED
    BY <1>6, <2>1 DEF CollectClaim, TypeOK, objectVars, workerVars
<1>7. ASSUME NEW g \in Gens, GuestReports(n, g) \/ Reboot(n, g) PROVE TypeOK'
  <2>1. vm[n][g] \in VM
    BY DEF TypeOK
  <2>2. PICK a \in Usable \cup {LinkLocal, NoAddr} : vm' = [vm EXCEPT ![n][g].ip = a]
    BY <1>7, <2>1 DEF GuestReports, Reboot, Usable, VM
  <2>3. vm' = [vm EXCEPT ![n][g] = [vm[n][g] EXCEPT !.ip = a]]
    BY <2>2 DEF TypeOK
  <2>4. vm' \in [Names -> [Gens -> VM]]
    BY <2>1, <2>3, VMFields, VMTypes
  <2> QED
    BY <1>7, <2>4 DEF GuestReports, Reboot, TypeOK, objectVars, workerVars, claimVars
<1> QED
  BY <1>1, <1>2, <1>3, <1>4, <1>5, <1>6, <1>7 DEF Environment

\* Every reachable state of machines, claims and guests is well typed.
THEOREM AddressingTypeCorrect == Spec => []TypeOK
<1>1. Init => TypeOK
  <2> SUFFICES ASSUME Init PROVE TypeOK
    OBVIOUS
  <2>1. srv \in [Names -> XOMachine] /\ cache = srv
    BY FleetAssumption DEF Init
  <2>2. NoClaim \in Claim /\ [st |-> "none", conf |-> NoAddr, ip |-> NoAddr] \in VM
    BY AddressAssumption DEF NoClaim, Claim, VM
  <2> QED
    BY <2>1, <2>2, BlankType DEF Init, TypeOK, Calls
<1>2. TypeOK /\ [Next]_vars => TypeOK'
  <2> SUFFICES ASSUME TypeOK, [Next]_vars PROVE TypeOK'
    OBVIOUS
  <2>1. CASE Crash
    BY <2>1, BlankType DEF Crash, TypeOK, Calls
  <2>2. CASE UNCHANGED vars
    BY <2>2 DEF vars, TypeOK
  <2> QED
    BY <2>1, <2>2, WorkerTypes, EnvironmentTypes DEF Next
<1> QED
  BY <1>1, <1>2, PTL DEF Spec

----------------------------------------------------------------------------
(* The invariant, name by name.                                            *)

Deleting == {"delete", "destroy", "unfinalize"}
Working == Calls \ ({"idle"} \cup Deleting)

\* A copy of the machine and a later one: the network is fixed, and an ID of a
\* VM that was recorded stays.
Older(o, s) == o.net = s.net /\ (o.pid = "set" => s.pid = "set")

\* The copy of the cache: one that says the machine is there is right.
CopyOf(n) ==
    /\ cache[n].gen <= srv[n].gen
    /\ cache[n].life = "active" => cache[n].gen = srv[n].gen /\ srv[n].life # "gone"
    /\ cache[n].gen = srv[n].gen => Older(cache[n], srv[n])
    /\ n \in fresh => cache[n] = srv[n]

\* Only the VM of the present machine runs, and only when its ID is recorded.
RunOf(n) ==
    /\ \A g \in Gens : g > srv[n].gen => vm[n][g].st = "none"
    /\ \A g \in Gens : vm[n][g].st = "running" =>
          g = srv[n].gen /\ srv[n].pid = "set" /\ srv[n].life # "gone"

\* The address a is the one the machine's own claim grants.
Granted(n, a) ==
    IF srv[n].net = "pool"
    THEN a # NoAddr /\ claim[n].owner = srv[n].gen /\ claim[n].addr = a
    ELSE a = NoAddr

\* A machine that is there meets no claim but its own, in the cache either.
ClaimOf(n) ==
    srv[n].life # "gone" =>
       /\ claim[n] = NoClaim \/ claim[n].owner = srv[n].gen
       /\ \/ claimCache[n] = NoClaim
          \/ claim[n].owner = srv[n].gen /\ claimCache[n].addr \in {NoAddr, claim[n].addr}

ConfOf(n) ==
    srv[n].life # "gone" /\ Exists(vm[n][srv[n].gen]) => Granted(n, vm[n][srv[n].gen].conf)

StoreOf(n) == CopyOf(n) /\ RunOf(n) /\ ClaimOf(n) /\ ConfOf(n)

\* The copy of the worker: it prepares a VM only for the present machine.
HeldOf(n) ==
    /\ n \in synced =>
          /\ mem[n].gen = srv[n].gen /\ mem[n].life = srv[n].life
          /\ mem[n].net = srv[n].net /\ mem[n].pid = srv[n].pid
          /\ srv[n].life # "gone"
    /\ pc[n] \in Working =>
          /\ mem[n].gen = srv[n].gen /\ cache[n].gen = srv[n].gen
          /\ srv[n].life # "gone"
          /\ Older(mem[n], srv[n])
    /\ pc[n] \in Deleting =>
          /\ mem[n].life = "deleting" /\ mem[n].gen <= srv[n].gen
          /\ n \in synced => cache[n].life # "active"

\* What the worker has reached in the reconcile it is about.
ReachedOf(n) ==
    /\ pc[n] \in {"lookup", "start"} => mem[n].pid = "set"
    /\ pc[n] = "unfinalize" /\ mem[n].pid = "set" => vm[n][mem[n].gen].st # "running"
    /\ pc[n] \in {"idle", "fast", "claim"} => net[n] = NoAddr
    /\ pc[n] = "create" => Granted(n, net[n])

NameInv(n) == StoreOf(n) /\ HeldOf(n) /\ ReachedOf(n)

\* The pool grants an address to one claim at a time.
Exclusive ==
    \A n, o \in Names : n # o /\ claim[n].addr = claim[o].addr => claim[n].addr = NoAddr

AddressInv == (\A n \in Names : NameInv(n)) /\ Exclusive

----------------------------------------------------------------------------
(* What a step leaves as it was.                                           *)

\* The stores, as far as they are about n, and all that is about n.
SameStore(n) ==
    /\ srv'[n] = srv[n] /\ cache'[n] = cache[n] /\ (n \in fresh' <=> n \in fresh)
    /\ claim'[n] = claim[n] /\ claimCache'[n] = claimCache[n] /\ vm'[n] = vm[n]

Same(n) ==
    /\ SameStore(n)
    /\ pc'[n] = pc[n] /\ mem'[n] = mem[n] /\ (n \in synced' <=> n \in synced) /\ net'[n] = net[n]

LEMMA StoreStays ==
    ASSUME NEW n \in Names, StoreOf(n), SameStore(n)
    PROVE  StoreOf(n)'
<1>1. CopyOf(n)'
  BY DEF StoreOf, SameStore, CopyOf, Older
<1>2. RunOf(n)'
  BY DEF StoreOf, SameStore, RunOf
<1>3. ClaimOf(n)'
  BY DEF StoreOf, SameStore, ClaimOf
<1>4. ConfOf(n)'
  BY DEF StoreOf, SameStore, ConfOf, Exists, Granted
<1> QED
  BY <1>1, <1>2, <1>3, <1>4 DEF StoreOf

LEMMA NameStays ==
    ASSUME NEW n \in Names, NameInv(n), Same(n)
    PROVE  NameInv(n)'
<1>1. StoreOf(n)'
  BY StoreStays DEF NameInv, Same
<1>2. HeldOf(n)'
  BY DEF NameInv, Same, SameStore, HeldOf, Older
<1>3. ReachedOf(n)'
  BY DEF NameInv, Same, SameStore, ReachedOf, Granted
<1> QED
  BY <1>1, <1>2, <1>3 DEF NameInv

LEMMA DoneLocal ==
    ASSUME TypeOK, NEW n \in Names, Done(n)
    PROVE  /\ pc'[n] = "idle" /\ n \notin synced' /\ net'[n] = NoAddr
           /\ \A o \in Names \ {n} :
                 /\ pc'[o] = pc[o] /\ mem'[o] = mem[o] /\ net'[o] = net[o]
                 /\ o \in synced' <=> o \in synced
BY DEF TypeOK, Done, Goto

\* The end of a reconcile leaves the worker with nothing to keep.
LEMMA DoneHeld ==
    ASSUME TypeOK, NEW n \in Names, Done(n)
    PROVE  HeldOf(n)' /\ ReachedOf(n)'
<1>1. pc'[n] = "idle" /\ n \notin synced' /\ net'[n] = NoAddr
  BY DoneLocal
<1>2. "idle" \notin Working /\ "idle" \notin Deleting
  BY DEF Working, Deleting
<1> QED
  BY <1>1, <1>2 DEF HeldOf, ReachedOf

\* A VM that is changed.
LEMMA VMLocal ==
    ASSUME TypeOK, NEW n \in Names, NEW g \in Gens, NEW v,
           vm' = [vm EXCEPT ![n][g] = v]
    PROVE  /\ vm'[n][g] = v
           /\ \A h \in Gens \ {g} : vm'[n][h] = vm[n][h]
           /\ \A o \in Names \ {n} : vm'[o] = vm[o]
BY DEF TypeOK

\* A step of n is about no other name.
LEMMA WorkerElsewhere ==
    ASSUME TypeOK, NEW n \in Names, NEW o \in Names \ {n}, Worker(n)
    PROVE  Same(o)
<1> USE DEF Same, SameStore
<1>g. mem[n].gen \in Gens
  BY DEF TypeOK, XOMachine
<1>q. ASSUME Failed(n) \/ \E call : Proceed(n, call) PROVE Same(o)
  BY <1>q, DoneLocal DEF TypeOK, Failed, Unwritten, Proceed, Goto, objectVars, claimVars
<1>a. ASSUME NEW obj, Accept(n, obj), Done(n) PROVE Same(o)
  BY <1>a, DoneLocal DEF TypeOK, Accept, claimVars
<1>w. ASSUME NEW obj, NEW next, Write(n, obj, next) PROVE Same(o)
  <2>1. CASE /\ Accept(n, obj)
             /\ mem' = [mem EXCEPT ![n] = obj]
             /\ Goto(n, next)
             /\ UNCHANGED <<synced, net>>
    BY <2>1 DEF TypeOK, Accept, Goto, claimVars
  <2> QED
    BY <1>q, <1>a, <1>w, <2>1 DEF Write
<1>v. ASSUME NEW v, NEW next, WithVM(n, v), UNCHANGED <<srv, cache, fresh, claimVars>>,
             (Goto(n, next) /\ UNCHANGED <<mem, synced, net>>) \/ Done(n)
      PROVE  Same(o)
  <2>1. vm'[o] = vm[o]
    BY <1>v, <1>g, VMLocal DEF WithVM
  <2>2. CASE Goto(n, next) /\ UNCHANGED <<mem, synced, net>>
    BY <1>v, <2>1, <2>2 DEF TypeOK, Goto, claimVars
  <2>3. CASE Done(n)
    BY <1>v, <2>1, <2>3, DoneLocal DEF claimVars
  <2> QED
    BY <1>v, <2>2, <2>3
<1>r. ASSUME NEW next, Read(n), Goto(n, next), UNCHANGED <<objectVars, net, claimVars, vm>>
      PROVE  Same(o)
  BY <1>r DEF TypeOK, Read, Goto, objectVars, claimVars
<1> HIDE DEF Same, SameStore
<1>1. CASE Reconcile(n)
  BY <1>1, <1>r DEF Reconcile
<1>2. CASE TryFastPath(n) \/ ManageVIFs(n) \/ LookupExistingVM(n)
  BY <1>2, <1>q DEF TryFastPath, ManageVIFs, LookupExistingVM
<1>3. CASE ClaimedAddress(n)
  <2>1. CASE /\ claim' = [claim EXCEPT ![n] = [owner |-> mem[n].gen, addr |-> NoAddr]]
             /\ Done(n)
             /\ UNCHANGED <<srv, cache, fresh, claimCache, vm>>
    BY <2>1, DoneLocal DEF TypeOK, Same, SameStore
  <2>2. CASE /\ net' = [net EXCEPT ![n] = claimCache[n].addr]
             /\ Goto(n, AfterAddress(n))
             /\ UNCHANGED <<objectVars, mem, synced, claimVars, vm>>
    BY <2>2 DEF TypeOK, Goto, objectVars, claimVars, Same, SameStore
  <2> QED
    BY <1>3, <1>q, <2>1, <2>2 DEF ClaimedAddress
<1>4. CASE CreateVM(n)
  BY <1>4, <1>v, <1>q DEF CreateVM
<1>5. CASE SaveProviderID(n)
  BY <1>5, <1>w, <1>q, <1>r DEF SaveProviderID
<1>6. CASE StartVM(n)
  BY <1>6, <1>v, <1>q DEF StartVM
<1>7. CASE ResolveVMIP(n)
  <2>1. CASE /\ mem' = [mem EXCEPT ![n].addr = VMOf(n).ip]
             /\ Goto(n, "vifs")
             /\ UNCHANGED <<objectVars, synced, net, claimVars, vm>>
    BY <2>1 DEF TypeOK, Goto, objectVars, claimVars, Same, SameStore
  <2> QED
    BY <1>7, <1>q, <2>1 DEF ResolveVMIP
<1>8. CASE MarkReady(n)
  BY <1>8, <1>a, <1>q DEF MarkReady
<1>9. CASE RefreshReadyMachine(n)
  BY <1>9, <1>a, <1>q DEF RefreshReadyMachine, Failed
<1>10. CASE ReconcileDelete(n)
  BY <1>10, <1>a, <1>v, <1>q DEF ReconcileDelete
<1> QED
  BY <1>1, <1>2, <1>3, <1>4, <1>5, <1>6, <1>7, <1>8, <1>9, <1>10 DEF Worker

LEMMA EnvironmentElsewhere ==
    ASSUME TypeOK, NEW n \in Names, NEW o \in Names \ {n}, Environment(n)
    PROVE  Same(o)
<1>o. ASSUME NEW obj, Overwrite(n, obj) PROVE Same(o)
  BY <1>o DEF Overwrite, TypeOK, claimVars, Same, SameStore
<1>1. CASE UserDelete(n) \/ UserCreate(n)
  BY <1>1, <1>o DEF UserDelete, UserCreate
<1>2. CASE InformerSync(n)
  BY <1>2 DEF InformerSync, TypeOK, workerVars, claimVars, Same, SameStore
<1>3. CASE ClaimSync(n)
  BY <1>3 DEF ClaimSync, TypeOK, objectVars, workerVars, Same, SameStore
<1>4. CASE Allocate(n)
  <2>1. claim'[o] = claim[o]
    BY <1>4 DEF Allocate, TypeOK
  <2> QED
    BY <1>4, <2>1 DEF Allocate, objectVars, workerVars, Same, SameStore
<1>5. CASE CollectClaim(n)
  BY <1>5 DEF CollectClaim, TypeOK, objectVars, workerVars, Same, SameStore
<1>6. ASSUME NEW g \in Gens, GuestReports(n, g) \/ Reboot(n, g) PROVE Same(o)
  <2>1. \E a : vm' = [vm EXCEPT ![n][g].ip = a]
    BY <1>6 DEF GuestReports, Reboot
  <2>2. vm'[o] = vm[o]
    BY <2>1 DEF TypeOK
  <2> QED
    BY <1>6, <2>2 DEF GuestReports, Reboot, objectVars, workerVars, claimVars, Same, SameStore
<1> QED
  BY <1>1, <1>2, <1>3, <1>4, <1>5, <1>6 DEF Environment

----------------------------------------------------------------------------
(* The steps of n's worker.                                                *)

LEMMA CallSets ==
    /\ Deleting = {"delete", "destroy", "unfinalize"}
    /\ Working = { "fast", "claim", "lookup", "create", "save", "saveGet", "save2", "start",
                   "waitIP", "vifs", "markReady", "refresh" }
BY DEF Working, Deleting, Calls

\* A store with the same stores, and a worker that goes on to another call.
LEMMA FailedKeeps ==
    ASSUME TypeOK, NEW n \in Names, NameInv(n), Failed(n)
    PROVE  NameInv(n)'
<1>1. SameStore(n)
  BY DEF Failed, Unwritten, objectVars, claimVars, SameStore
<1> QED
  BY <1>1, StoreStays, DoneHeld DEF NameInv, Failed

LEMMA ProceedKeeps ==
    ASSUME TypeOK, NEW n \in Names, NameInv(n), NEW call \in Working, Proceed(n, call),
           pc[n] \in Working,
           call \in {"lookup", "start"} => mem[n].pid = "set",
           call \in {"fast", "claim"} => net[n] = NoAddr,
           call = "create" => Granted(n, net[n])
    PROVE  NameInv(n)'
<1>1. SameStore(n)
  BY DEF Proceed, objectVars, claimVars, SameStore
<1>2. pc'[n] = call /\ mem' = mem /\ synced' = synced /\ net' = net
  BY DEF Proceed, Goto, TypeOK
<1>3. StoreOf(n)'
  BY <1>1, StoreStays DEF NameInv
<1>4. HeldOf(n)'
  BY <1>1, <1>2, CallSets DEF NameInv, SameStore, HeldOf, Older
<1>5. ReachedOf(n)'
  BY <1>1, <1>2, CallSets DEF NameInv, SameStore, ReachedOf, Granted
<1> QED
  BY <1>3, <1>4, <1>5 DEF NameInv

\* What the worker reads.
LEMMA ReadKeeps ==
    ASSUME TypeOK, NEW n \in Names, NameInv(n), Read(n), cache[n].life # "gone",
           NEW call, Goto(n, call), UNCHANGED <<objectVars, net, claimVars, vm>>,
           \/ call = "delete" /\ cache[n].life = "deleting"
           \/ call = "fast" /\ cache[n].life = "active" /\ net[n] = NoAddr
           \/ call = "save2" /\ pc[n] \in Working
    PROVE  NameInv(n)'
<1>1. SameStore(n)
  BY DEF objectVars, claimVars, SameStore
<1>2. pc'[n] = call /\ mem'[n] = cache[n] /\ (n \in synced' <=> n \in fresh) /\ net' = net
  BY DEF Read, Goto, TypeOK
<1>3. StoreOf(n)'
  BY <1>1, StoreStays DEF NameInv
<1>4. CopyOf(n)
  BY DEF NameInv, StoreOf
<1>5. n \in synced' =>
         /\ mem'[n].gen = srv'[n].gen /\ mem'[n].life = srv'[n].life
         /\ mem'[n].net = srv'[n].net /\ mem'[n].pid = srv'[n].pid
         /\ srv'[n].life # "gone"
  BY <1>1, <1>2, <1>4 DEF CopyOf, SameStore
<1>6. pc'[n] \in Working =>
         /\ mem'[n].gen = srv'[n].gen /\ cache'[n].gen = srv'[n].gen
         /\ srv'[n].life # "gone"
         /\ Older(mem'[n], srv'[n])
  <2>1. HeldOf(n)
    BY DEF NameInv
  <2>2. CASE call = "delete"
    BY <2>2, <1>2, CallSets
  <2>3. CASE call = "fast"
    BY <2>3, <1>1, <1>2, <1>4 DEF CopyOf, SameStore
  <2>4. CASE call = "save2"
    BY <2>1, <2>4, <1>1, <1>2, <1>4 DEF CopyOf, HeldOf, SameStore
  <2> QED
    BY <2>2, <2>3, <2>4
<1>7. pc'[n] \in Deleting =>
         /\ mem'[n].life = "deleting" /\ mem'[n].gen <= srv'[n].gen
         /\ n \in synced' => cache'[n].life # "active"
  BY <1>1, <1>2, <1>4, CallSets DEF CopyOf, SameStore
<1>8. HeldOf(n)'
  BY <1>5, <1>6, <1>7 DEF HeldOf, Older
<1>9. ReachedOf(n)'
  BY <1>2 DEF ReachedOf
<1> QED
  BY <1>3, <1>8, <1>9 DEF NameInv

\* A write that is accepted, of an object that stays.
LEMMA AcceptKeeps ==
    ASSUME TypeOK, NEW n \in Names, NameInv(n), NEW obj, Accept(n, obj),
           obj.gen = mem[n].gen, obj.life = mem[n].life, obj.net = mem[n].net,
           mem[n].pid = "set" => obj.pid = "set"
    PROVE  /\ StoreOf(n)'
           /\ srv'[n] = obj /\ cache'[n] = cache[n] /\ claim' = claim /\ vm' = vm
           /\ srv'[n].gen = srv[n].gen /\ srv'[n].life = srv[n].life
           /\ srv'[n].net = srv[n].net /\ (srv[n].pid = "set" => srv'[n].pid = "set")
           /\ srv[n].life # "gone"
<1>1. /\ srv'[n] = obj /\ cache' = cache /\ n \notin fresh'
      /\ claim' = claim /\ claimCache' = claimCache /\ vm' = vm /\ n \in synced
  BY DEF Accept, TypeOK, claimVars
<1>2. /\ srv'[n].gen = srv[n].gen /\ srv'[n].life = srv[n].life
      /\ srv'[n].net = srv[n].net /\ (srv[n].pid = "set" => srv'[n].pid = "set")
      /\ srv[n].life # "gone"
  BY <1>1 DEF NameInv, HeldOf
<1>3. CopyOf(n)'
  BY <1>1, <1>2 DEF NameInv, StoreOf, CopyOf, Older
<1>4. RunOf(n)'
  BY <1>1, <1>2 DEF NameInv, StoreOf, RunOf
<1>5. ClaimOf(n)'
  BY <1>1, <1>2 DEF NameInv, StoreOf, ClaimOf
<1>6. ConfOf(n)'
  BY <1>1, <1>2 DEF NameInv, StoreOf, ConfOf, Exists, Granted
<1> QED
  BY <1>1, <1>2, <1>3, <1>4, <1>5, <1>6 DEF StoreOf

\* The finalizer is taken from a machine that has no running VM.
LEMMA UnfinalizeKeeps ==
    ASSUME TypeOK, NEW n \in Names, NameInv(n), pc[n] = "unfinalize",
           Accept(n, [mem[n] EXCEPT !.life = "gone"]), Done(n)
    PROVE  NameInv(n)'
<1>m. mem[n] \in XOMachine /\ cache[n] \in XOMachine
  BY DEF TypeOK
<1>1. /\ srv'[n] = [mem[n] EXCEPT !.life = "gone"] /\ cache' = cache /\ n \notin fresh'
      /\ claim' = claim /\ claimCache' = claimCache /\ vm' = vm /\ n \in synced
  BY DEF Accept, TypeOK, claimVars
<1>2. /\ srv'[n].gen = srv[n].gen /\ srv'[n].life = "gone"
      /\ srv'[n].net = srv[n].net /\ srv'[n].pid = srv[n].pid
      /\ mem[n].gen = srv[n].gen /\ mem[n].pid = srv[n].pid
  BY <1>m, <1>1 DEF NameInv, HeldOf, XOMachine
<1>3. CopyOf(n)'
  <2>1. cache[n].life # "active"
    BY <1>1, CallSets DEF NameInv, HeldOf
  <2> QED
    BY <1>1, <1>2, <2>1 DEF NameInv, StoreOf, CopyOf, Older
<1>4. RunOf(n)'
  <2>1. \A g \in Gens : vm[n][g].st # "running"
    BY <1>2 DEF NameInv, StoreOf, RunOf, ReachedOf
  <2> QED
    BY <1>1, <1>2, <2>1 DEF NameInv, StoreOf, RunOf
<1>5. ClaimOf(n)' /\ ConfOf(n)'
  BY <1>2 DEF ClaimOf, ConfOf
<1> QED
  BY <1>3, <1>4, <1>5, DoneHeld DEF NameInv, StoreOf

LEMMA WriteKeeps ==
    ASSUME TypeOK, NEW n \in Names, NameInv(n), NEW next \in {"start"},
           pc[n] \in Working, Write(n, Recorded(n), next)
    PROVE  NameInv(n)'
<1>r. /\ Recorded(n).gen = mem[n].gen /\ Recorded(n).life = mem[n].life
      /\ Recorded(n).net = mem[n].net /\ Recorded(n).pid = "set"
  BY DEF Recorded, TypeOK, XOMachine
<1>1. CASE /\ Accept(n, Recorded(n))
           /\ mem' = [mem EXCEPT ![n] = Recorded(n)]
           /\ Goto(n, next)
           /\ UNCHANGED <<synced, net>>
  <2>1. /\ StoreOf(n)'
        /\ srv'[n] = Recorded(n) /\ cache'[n] = cache[n]
        /\ srv'[n].gen = srv[n].gen /\ srv'[n].life = srv[n].life /\ srv[n].life # "gone"
    BY <1>1, <1>r, AcceptKeeps
  <2>2. pc'[n] = "start" /\ mem'[n] = Recorded(n)
    BY <1>1 DEF Goto, TypeOK
  <2>3. HeldOf(n)'
    BY <2>1, <2>2, <1>r, CallSets DEF NameInv, HeldOf, Older
  <2>4. ReachedOf(n)'
    BY <2>2, <1>r DEF ReachedOf
  <2> QED
    BY <2>1, <2>3, <2>4 DEF NameInv
<1>2. CASE Accept(n, Recorded(n)) /\ Done(n)
  BY <1>2, <1>r, AcceptKeeps, DoneHeld DEF NameInv
<1> QED
  BY <1>1, <1>2, FailedKeeps DEF Write

LEMMA ClaimedAddressKeeps ==
    ASSUME TypeOK, NEW n \in Names, NameInv(n), ClaimedAddress(n)
    PROVE  NameInv(n)'
<1>h. pc[n] = "claim" /\ pc[n] \in Working /\ net[n] = NoAddr
  BY CallSets DEF ClaimedAddress, NameInv, ReachedOf
<1>m. mem[n].gen = srv[n].gen /\ mem[n].net = srv[n].net /\ srv[n].life # "gone"
  BY <1>h DEF NameInv, HeldOf, Older
<1>n. AfterAddress(n) \in Working /\ AfterAddress(n) \in {"lookup", "create"}
      /\ (AfterAddress(n) = "lookup" => mem[n].pid = "set")
  BY CallSets DEF AfterAddress
<1>1. CASE mem[n].net = "dhcp" /\ Proceed(n, AfterAddress(n))
  <2>1. Granted(n, net[n])
    BY <1>1, <1>h, <1>m DEF Granted
  <2> QED
    BY <1>1, <1>h, <1>n, <2>1, ProceedKeeps
<1>2. CASE /\ claimCache[n] = NoClaim /\ claim[n] = NoClaim
           /\ mem[n].net = "pool"
           /\ claim' = [claim EXCEPT ![n] = [owner |-> mem[n].gen, addr |-> NoAddr]]
           /\ Done(n)
           /\ UNCHANGED <<srv, cache, fresh, claimCache, vm>>
  <2>1. claim'[n].owner = srv[n].gen /\ claim'[n].addr = NoAddr
    BY <1>2, <1>m DEF TypeOK
  <2>2. CopyOf(n)' /\ RunOf(n)'
    BY <1>2 DEF NameInv, StoreOf, CopyOf, RunOf, Older
  <2>3. ClaimOf(n)'
    BY <1>2, <2>1 DEF ClaimOf
  <2>4. ConfOf(n)'
    <3>1. ~Exists(vm[n][srv[n].gen])
      BY <1>2, <1>m DEF NameInv, StoreOf, ConfOf, Granted, NoClaim
    <3> QED
      BY <1>2, <3>1 DEF ConfOf
  <2> QED
    BY <1>2, <2>2, <2>3, <2>4, DoneHeld DEF NameInv, StoreOf
<1>3. CASE /\ mem[n].net = "pool" /\ claimCache[n].addr # NoAddr
           /\ net' = [net EXCEPT ![n] = claimCache[n].addr]
           /\ Goto(n, AfterAddress(n))
           /\ UNCHANGED <<objectVars, mem, synced, claimVars, vm>>
  <2>1. SameStore(n)
    BY <1>3 DEF objectVars, claimVars, SameStore
  <2>2. /\ pc'[n] = AfterAddress(n) /\ mem' = mem /\ synced' = synced
        /\ net'[n] = claimCache[n].addr
    BY <1>3 DEF Goto, TypeOK
  <2>3. Granted(n, claimCache[n].addr)
    BY <1>3, <1>m DEF NameInv, StoreOf, ClaimOf, Granted, NoClaim
  <2>4. HeldOf(n)'
    BY <1>h, <1>n, <2>1, <2>2, CallSets DEF NameInv, SameStore, HeldOf, Older
  <2>5. ReachedOf(n)'
    BY <1>n, <2>1, <2>2, <2>3 DEF SameStore, ReachedOf, Granted
  <2> QED
    BY <2>1, <2>4, <2>5, StoreStays DEF NameInv
<1> QED
  BY <1>1, <1>2, <1>3, FailedKeeps DEF ClaimedAddress

\* A VM of the worker's generation that is changed: the store stays right if the
\* VM does.
LEMMA VMKeeps ==
    ASSUME TypeOK, NEW n \in Names, NameInv(n), NEW v, WithVM(n, v),
           UNCHANGED <<srv, cache, fresh, claimVars>>,
           mem[n].gen <= srv[n].gen,
           v.st = "running" =>
              mem[n].gen = srv[n].gen /\ srv[n].pid = "set" /\ srv[n].life # "gone",
           mem[n].gen = srv[n].gen /\ srv[n].life # "gone" /\ Exists(v) => Granted(n, v.conf)
    PROVE  StoreOf(n)' /\ vm'[n][mem[n].gen] = v
<1>g. mem[n].gen \in Gens /\ srv[n].gen \in Gens
  BY DEF TypeOK, XOMachine
<1>1. vm'[n][mem[n].gen] = v /\ \A h \in Gens \ {mem[n].gen} : vm'[n][h] = vm[n][h]
  <2>1. PICK g \in Gens : g = mem[n].gen
    BY <1>g
  <2>2. vm' = [vm EXCEPT ![n][g] = v]
    BY <2>1 DEF WithVM
  <2>3. vm'[n][g] = v /\ \A h \in Gens \ {g} : vm'[n][h] = vm[n][h]
    BY <2>2 DEF TypeOK
  <2> QED
    BY <2>1, <2>3
<1>2. CopyOf(n)' /\ ClaimOf(n)'
  BY DEF NameInv, StoreOf, CopyOf, ClaimOf, Older, claimVars
<1>3. RunOf(n)'
  <2>1. ASSUME NEW g \in Gens, g > srv[n].gen PROVE vm'[n][g].st = "none"
    BY <1>g, <1>1, <2>1 DEF NameInv, StoreOf, RunOf, Gens
  <2>2. ASSUME NEW g \in Gens, vm'[n][g].st = "running"
        PROVE  g = srv[n].gen /\ srv[n].pid = "set" /\ srv[n].life # "gone"
    <3>1. CASE g = mem[n].gen
      BY <1>1, <2>2, <3>1
    <3>2. CASE g # mem[n].gen
      BY <1>1, <2>2, <3>2 DEF NameInv, StoreOf, RunOf
    <3> QED
      BY <3>1, <3>2
  <2> QED
    BY <2>1, <2>2 DEF RunOf
<1>4. ConfOf(n)'
  <2> SUFFICES ASSUME srv[n].life # "gone", Exists(vm'[n][srv[n].gen])
               PROVE  Granted(n, vm'[n][srv[n].gen].conf)
    BY DEF ConfOf, Granted, Exists, claimVars
  <2>1. CASE mem[n].gen = srv[n].gen
    BY <1>1, <2>1
  <2>2. CASE mem[n].gen # srv[n].gen
    BY <1>g, <1>1, <2>2 DEF NameInv, StoreOf, ConfOf
  <2> QED
    BY <2>1, <2>2
<1> QED
  BY <1>1, <1>2, <1>3, <1>4 DEF StoreOf

\* A worker that goes on after it has changed a VM.
LEMMA WorkerGoesOn ==
    ASSUME TypeOK, NEW n \in Names, NameInv(n), StoreOf(n)',
           NEW call \in {"save", "waitIP"}, pc[n] \in Working, Goto(n, call),
           UNCHANGED <<mem, synced, net, srv, cache, fresh, claimVars>>
    PROVE  NameInv(n)'
<1>1. pc'[n] = call
  BY DEF Goto, TypeOK
<1>2. HeldOf(n)'
  BY <1>1, CallSets DEF NameInv, HeldOf, Older
<1>3. ReachedOf(n)'
  BY <1>1 DEF ReachedOf
<1> QED
  BY <1>2, <1>3 DEF NameInv

LEMMA CreateVMKeeps ==
    ASSUME TypeOK, NEW n \in Names, NameInv(n), CreateVM(n)
    PROVE  NameInv(n)'
<1>h. pc[n] = "create" /\ pc[n] \in Working
  BY CallSets DEF CreateVM
<1>m. mem[n].gen = srv[n].gen /\ srv[n].gen \in Gens /\ Granted(n, net[n])
  BY <1>h DEF NameInv, HeldOf, ReachedOf, TypeOK, XOMachine
<1>1. CASE /\ WithVM(n, [st |-> "halted", conf |-> net[n], ip |-> NoAddr])
           /\ \/ Goto(n, "save") /\ UNCHANGED <<mem, synced, net>>
              \/ Done(n)
           /\ UNCHANGED <<srv, cache, fresh, claimVars>>
  <2>1. mem[n].gen <= srv[n].gen
    BY <1>m DEF Gens
  <2>2. StoreOf(n)'
    BY <1>1, <1>m, <2>1, VMKeeps
  <2>3. CASE Goto(n, "save") /\ UNCHANGED <<mem, synced, net>>
    BY <1>1, <1>h, <2>2, <2>3, WorkerGoesOn
  <2>4. CASE Done(n)
    BY <2>2, <2>4, DoneHeld DEF NameInv
  <2> QED
    BY <1>1, <2>3, <2>4
<1>2. CASE Proceed(n, "save")
  BY <1>2, <1>h, ProceedKeeps, CallSets
<1> QED
  BY <1>1, <1>2, FailedKeeps DEF CreateVM

LEMMA StartVMKeeps ==
    ASSUME TypeOK, NEW n \in Names, NameInv(n), StartVM(n)
    PROVE  NameInv(n)'
<1>h. pc[n] = "start" /\ pc[n] \in Working
  BY CallSets DEF StartVM
<1>m. /\ mem[n].gen = srv[n].gen /\ srv[n].gen \in Gens /\ srv[n].life # "gone"
      /\ srv[n].pid = "set"
  BY <1>h DEF NameInv, HeldOf, ReachedOf, Older, TypeOK, XOMachine
<1>1. CASE /\ Exists(VMOf(n))
           /\ WithVM(n, [VMOf(n) EXCEPT !.st = "running"])
           /\ \/ Goto(n, "waitIP") /\ UNCHANGED <<mem, synced, net>>
              \/ Done(n)
           /\ UNCHANGED <<srv, cache, fresh, claimVars>>
  <2>1. mem[n].gen <= srv[n].gen
    BY <1>m DEF Gens
  <2>2. VMOf(n) \in VM /\ [VMOf(n) EXCEPT !.st = "running"].conf = VMOf(n).conf
    BY <1>m DEF TypeOK, VMOf, VM
  <2>3. Granted(n, VMOf(n).conf)
    BY <1>1, <1>m DEF NameInv, StoreOf, ConfOf, VMOf
  <2>4. StoreOf(n)'
    BY <1>1, <1>m, <2>1, <2>2, <2>3, VMKeeps
  <2>5. CASE Goto(n, "waitIP") /\ UNCHANGED <<mem, synced, net>>
    BY <1>1, <1>h, <2>4, <2>5, WorkerGoesOn
  <2>6. CASE Done(n)
    BY <2>4, <2>6, DoneHeld DEF NameInv
  <2> QED
    BY <1>1, <2>5, <2>6
<1> QED
  BY <1>1, FailedKeeps DEF StartVM

LEMMA ReconcileDeleteKeeps ==
    ASSUME TypeOK, NEW n \in Names, NameInv(n), ReconcileDelete(n)
    PROVE  NameInv(n)'
<1>1. CASE /\ pc[n] = "delete"
           /\ Proceed(n, IF mem[n].pid = "set" THEN "destroy" ELSE "unfinalize")
  <2>1. SameStore(n)
    BY <1>1 DEF Proceed, objectVars, claimVars, SameStore
  <2>2. /\ pc'[n] = (IF mem[n].pid = "set" THEN "destroy" ELSE "unfinalize")
        /\ mem' = mem /\ synced' = synced /\ net' = net
    BY <1>1 DEF Proceed, Goto, TypeOK
  <2>3. HeldOf(n)'
    BY <1>1, <2>1, <2>2, CallSets DEF NameInv, SameStore, HeldOf
  <2>4. ReachedOf(n)'
    BY <2>2 DEF ReachedOf
  <2> QED
    BY <2>1, <2>3, <2>4, StoreStays DEF NameInv
<1>2. CASE /\ pc[n] = "destroy"
           /\ WithVM(n, [VMOf(n) EXCEPT !.st = "destroyed", !.ip = NoAddr])
           /\ \/ Goto(n, "unfinalize") /\ UNCHANGED <<mem, synced, net>>
              \/ Done(n)
           /\ UNCHANGED <<srv, cache, fresh, claimVars>>
  <2>1. mem[n].gen <= srv[n].gen
    BY <1>2, CallSets DEF NameInv, HeldOf
  <2>2. [VMOf(n) EXCEPT !.st = "destroyed", !.ip = NoAddr].st = "destroyed"
    BY DEF TypeOK, VMOf, VM, XOMachine
  <2>3. StoreOf(n)' /\ vm'[n][mem[n].gen].st = "destroyed"
    BY <1>2, <2>1, <2>2, VMKeeps DEF Exists
  <2>4. CASE Goto(n, "unfinalize") /\ UNCHANGED <<mem, synced, net>>
    <3>1. pc'[n] = "unfinalize"
      BY <2>4 DEF Goto, TypeOK
    <3>2. HeldOf(n)'
      BY <1>2, <2>4, <3>1, CallSets DEF NameInv, HeldOf
    <3>3. ReachedOf(n)'
      BY <2>3, <2>4, <3>1 DEF ReachedOf
    <3> QED
      BY <2>3, <3>2, <3>3 DEF NameInv
  <2>5. CASE Done(n)
    BY <2>3, <2>5, DoneHeld DEF NameInv
  <2> QED
    BY <1>2, <2>4, <2>5
<1>3. CASE pc[n] = "unfinalize" /\ Accept(n, [mem[n] EXCEPT !.life = "gone"]) /\ Done(n)
  BY <1>3, UnfinalizeKeeps
<1> QED
  BY <1>1, <1>2, <1>3, FailedKeeps DEF ReconcileDelete

LEMMA ResolveVMIPKeeps ==
    ASSUME TypeOK, NEW n \in Names, NameInv(n), ResolveVMIP(n)
    PROVE  NameInv(n)'
<1>1. CASE /\ pc[n] = "waitIP"
           /\ mem' = [mem EXCEPT ![n].addr = VMOf(n).ip]
           /\ Goto(n, "vifs")
           /\ UNCHANGED <<objectVars, synced, net, claimVars, vm>>
  <2>1. SameStore(n)
    BY <1>1 DEF objectVars, claimVars, SameStore
  <2>2. /\ pc'[n] = "vifs" /\ synced' = synced /\ net' = net
        /\ mem'[n].gen = mem[n].gen /\ mem'[n].life = mem[n].life
        /\ mem'[n].net = mem[n].net /\ mem'[n].pid = mem[n].pid
    BY <1>1 DEF Goto, TypeOK, XOMachine
  <2>3. HeldOf(n)'
    BY <1>1, <2>1, <2>2, CallSets DEF NameInv, SameStore, HeldOf, Older
  <2>4. ReachedOf(n)'
    BY <2>2 DEF ReachedOf
  <2> QED
    BY <2>1, <2>3, <2>4, StoreStays DEF NameInv
<1> QED
  BY <1>1, FailedKeeps DEF ResolveVMIP

LEMMA WorkerKeeps ==
    ASSUME TypeOK, NEW n \in Names, NameInv(n), Worker(n)
    PROVE  NameInv(n)'
<1>m. mem[n] \in XOMachine /\ cache[n] \in XOMachine
  BY DEF TypeOK
<1>1. CASE Reconcile(n)
  <2>1. net[n] = NoAddr
    BY <1>1 DEF Reconcile, NameInv, ReachedOf
  <2>2. cache[n].life \in {"active", "deleting"}
    BY <1>1, <1>m DEF Reconcile, XOMachine
  <2>3. CASE cache[n].life = "deleting"
    BY <1>1, <2>3, ReadKeeps DEF Reconcile
  <2>4. CASE cache[n].life = "active"
    BY <1>1, <2>1, <2>4, ReadKeeps DEF Reconcile
  <2> QED
    BY <2>2, <2>3, <2>4
<1>2. CASE TryFastPath(n)
  <2>1. pc[n] = "fast" /\ pc[n] \in Working /\ net[n] = NoAddr
    BY <1>2, CallSets DEF TryFastPath, NameInv, ReachedOf
  <2>2. \/ Proceed(n, "claim")
        \/ mem[n].pid = "set" /\ Proceed(n, "start")
        \/ Proceed(n, "refresh")
    BY <1>2 DEF TryFastPath
  <2> QED
    BY <2>1, <2>2, CallSets, ProceedKeeps
<1>3. CASE ManageVIFs(n)
  <2>1. pc[n] \in Working
    BY <1>3, CallSets DEF ManageVIFs
  <2>2. Proceed(n, "markReady") \/ Failed(n)
    BY <1>3 DEF ManageVIFs
  <2> QED
    BY <2>1, <2>2, CallSets, ProceedKeeps, FailedKeeps
<1>4. CASE LookupExistingVM(n)
  <2>1. pc[n] \in Working /\ mem[n].pid = "set"
    BY <1>4, CallSets DEF LookupExistingVM, NameInv, ReachedOf
  <2>2. Proceed(n, "start") \/ Failed(n)
    BY <1>4 DEF LookupExistingVM
  <2> QED
    BY <2>1, <2>2, CallSets, ProceedKeeps, FailedKeeps
<1>5. CASE SaveProviderID(n)
  <2>1. CASE pc[n] \in {"save", "save2"} /\ Write(n, Recorded(n), "start")
    BY <2>1, CallSets, WriteKeeps
  <2>2. CASE pc[n] = "save" /\ Proceed(n, "saveGet")
    BY <2>2, CallSets, ProceedKeeps
  <2>3. CASE /\ pc[n] = "saveGet" /\ cache[n].life # "gone"
             /\ Read(n)
             /\ Goto(n, "save2")
             /\ UNCHANGED <<objectVars, net, claimVars, vm>>
    BY <2>3, CallSets, ReadKeeps
  <2> QED
    BY <1>5, <2>1, <2>2, <2>3 DEF SaveProviderID
<1>6. CASE MarkReady(n)
  <2>1. CASE Accept(n, [mem[n] EXCEPT !.ready = "yes"]) /\ Done(n)
    <3>1. PICK obj : obj = [mem[n] EXCEPT !.ready = "yes"]
      OBVIOUS
    <3>2. /\ obj.gen = mem[n].gen /\ obj.life = mem[n].life
          /\ obj.net = mem[n].net /\ obj.pid = mem[n].pid
      BY <1>m, <3>1 DEF XOMachine
    <3> QED
      BY <2>1, <3>1, <3>2, AcceptKeeps, DoneHeld DEF NameInv
  <2> QED
    BY <1>6, <2>1, FailedKeeps DEF MarkReady
<1>7. CASE RefreshReadyMachine(n)
  <2>1. CASE Accept(n, [mem[n] EXCEPT !.addr = VMOf(n).ip]) /\ Done(n)
    <3>1. PICK obj : obj = [mem[n] EXCEPT !.addr = VMOf(n).ip]
      OBVIOUS
    <3>2. /\ obj.gen = mem[n].gen /\ obj.life = mem[n].life
          /\ obj.net = mem[n].net /\ obj.pid = mem[n].pid
      BY <1>m, <3>1 DEF XOMachine
    <3> QED
      BY <2>1, <3>1, <3>2, AcceptKeeps, DoneHeld DEF NameInv
  <2> QED
    BY <1>7, <2>1, FailedKeeps DEF RefreshReadyMachine, Failed
<1> QED
  BY <1>1, <1>2, <1>3, <1>4, <1>5, <1>6, <1>7, ClaimedAddressKeeps, CreateVMKeeps, StartVMKeeps,
     ResolveVMIPKeeps, ReconcileDeleteKeeps
     DEF Worker

----------------------------------------------------------------------------
(* The steps of the environment about n.                                   *)

LEMMA OverwriteLocal ==
    ASSUME TypeOK, NEW n \in Names, NEW obj, Overwrite(n, obj)
    PROVE  /\ srv'[n] = obj /\ cache' = cache /\ n \notin fresh' /\ n \notin synced'
           /\ pc' = pc /\ mem' = mem /\ net' = net
           /\ claim' = claim /\ claimCache' = claimCache /\ vm' = vm
BY DEF Overwrite, TypeOK, claimVars

LEMMA UserDeleteKeeps ==
    ASSUME TypeOK, NEW n \in Names, NameInv(n), UserDelete(n)
    PROVE  NameInv(n)'
<1>1. /\ srv'[n] = [srv[n] EXCEPT !.life = "deleting"] /\ cache' = cache
      /\ n \notin fresh' /\ n \notin synced'
      /\ pc' = pc /\ mem' = mem /\ net' = net
      /\ claim' = claim /\ claimCache' = claimCache /\ vm' = vm
  BY OverwriteLocal DEF UserDelete
<1>2. /\ srv'[n].gen = srv[n].gen /\ srv'[n].net = srv[n].net /\ srv'[n].pid = srv[n].pid
      /\ srv'[n].life = "deleting" /\ srv[n].life = "active"
  BY <1>1 DEF UserDelete, TypeOK, XOMachine
<1>3. CopyOf(n)'
  BY <1>1, <1>2 DEF NameInv, StoreOf, CopyOf, Older
<1>4. RunOf(n)'
  BY <1>1, <1>2 DEF NameInv, StoreOf, RunOf
<1>5. ClaimOf(n)'
  BY <1>1, <1>2 DEF NameInv, StoreOf, ClaimOf
<1>6. ConfOf(n)'
  BY <1>1, <1>2 DEF NameInv, StoreOf, ConfOf, Exists, Granted
<1>7. HeldOf(n)'
  BY <1>1, <1>2 DEF NameInv, HeldOf, Older
<1>8. ReachedOf(n)'
  BY <1>1, <1>2 DEF NameInv, ReachedOf, Granted
<1> QED
  BY <1>3, <1>4, <1>5, <1>6, <1>7, <1>8 DEF NameInv, StoreOf

\* A name is used again once its claim is gone, everywhere.
LEMMA UserCreateKeeps ==
    ASSUME TypeOK, NEW n \in Names, NameInv(n), UserCreate(n), "reuse" \notin Faults
    PROVE  NameInv(n)'
<1>t. /\ srv[n].gen \in Nat /\ cache[n].gen \in Nat /\ mem[n].gen \in Nat
      /\ srv[n].gen + 1 \in Gens
      /\ cache[n].life \in {"active", "deleting", "gone"}
  BY AddressAssumption DEF TypeOK, XOMachine, UserCreate, Gens
<1>1. /\ srv'[n] = New(srv[n].gen + 1, srv[n].net) /\ cache' = cache
      /\ n \notin fresh' /\ n \notin synced'
      /\ pc' = pc /\ mem' = mem /\ net' = net
      /\ claim' = claim /\ claimCache' = claimCache /\ vm' = vm
  BY OverwriteLocal DEF UserCreate
<1>2. srv'[n].gen = srv[n].gen + 1 /\ srv[n].life = "gone"
  BY <1>1 DEF UserCreate, New
<1>3. pc[n] \notin Working
  BY <1>2 DEF NameInv, HeldOf
<1>4. CopyOf(n)'
  BY <1>t, <1>1, <1>2 DEF NameInv, StoreOf, CopyOf
<1>5. RunOf(n)'
  <2>1. \A g \in Gens : vm[n][g].st # "running"
    BY <1>2 DEF NameInv, StoreOf, RunOf
  <2>2. \A g \in Gens : g > srv[n].gen + 1 => g > srv[n].gen
    BY <1>t DEF Gens
  <2> QED
    BY <1>1, <1>2, <2>1, <2>2 DEF NameInv, StoreOf, RunOf
<1>6. ClaimOf(n)'
  BY <1>1 DEF UserCreate, ClaimOf
<1>7. ConfOf(n)'
  <2>1. srv[n].gen + 1 > srv[n].gen
    BY <1>t
  <2>2. vm[n][srv[n].gen + 1].st = "none"
    BY <1>t, <2>1 DEF NameInv, StoreOf, RunOf
  <2> QED
    BY <1>1, <1>2, <2>2 DEF ConfOf, Exists
<1>8. HeldOf(n)'
  BY <1>t, <1>1, <1>2, <1>3 DEF NameInv, HeldOf
<1>9. ReachedOf(n)'
  BY <1>1, <1>3, CallSets DEF NameInv, ReachedOf
<1> QED
  BY <1>4, <1>5, <1>6, <1>7, <1>8, <1>9 DEF NameInv, StoreOf

LEMMA InformerSyncKeeps ==
    ASSUME TypeOK, NEW n \in Names, NameInv(n), InformerSync(n)
    PROVE  NameInv(n)'
<1>t. srv[n].gen \in Nat /\ srv[n].life \in {"active", "deleting", "gone"}
  BY DEF TypeOK, XOMachine, Gens
<1>1. /\ cache'[n] = srv[n] /\ srv' = srv /\ pc' = pc /\ mem' = mem /\ synced' = synced /\ net' = net
      /\ claim' = claim /\ claimCache' = claimCache /\ vm' = vm
  BY DEF InformerSync, TypeOK, workerVars, claimVars
<1>2. CopyOf(n)'
  BY <1>t, <1>1 DEF CopyOf, Older
<1>3. RunOf(n)' /\ ClaimOf(n)'
  BY <1>1 DEF NameInv, StoreOf, RunOf, ClaimOf
<1>4. ConfOf(n)'
  BY <1>1 DEF NameInv, StoreOf, ConfOf, Exists, Granted
<1>5. HeldOf(n)'
  BY <1>t, <1>1 DEF NameInv, HeldOf, Older
<1>6. ReachedOf(n)'
  BY <1>1 DEF NameInv, ReachedOf, Granted
<1> QED
  BY <1>2, <1>3, <1>4, <1>5, <1>6 DEF NameInv, StoreOf

\* A step of the claims or of their cache that keeps what is granted.
LEMMA ClaimStepKeeps ==
    ASSUME TypeOK, NEW n \in Names, NameInv(n), UNCHANGED <<objectVars, workerVars, vm>>, ClaimOf(n)',
           \A a : srv[n].life # "gone" /\ Granted(n, a) => Granted(n, a)'
    PROVE  NameInv(n)'
<1>1. CopyOf(n)' /\ RunOf(n)'
  BY DEF NameInv, StoreOf, CopyOf, RunOf, Older, objectVars
<1>2. ConfOf(n)'
  BY DEF NameInv, StoreOf, ConfOf, Exists, objectVars
<1>3. HeldOf(n)'
  BY DEF NameInv, HeldOf, Older, objectVars, workerVars
<1>4. ReachedOf(n)'
  <2>1. pc[n] = "create" => srv[n].life # "gone"
    BY CallSets DEF NameInv, HeldOf
  <2> QED
    BY <2>1 DEF NameInv, ReachedOf, workerVars
<1> QED
  BY <1>1, <1>2, <1>3, <1>4 DEF NameInv, StoreOf

LEMMA ClaimsKeep ==
    ASSUME TypeOK, NEW n \in Names, NameInv(n), ClaimSync(n) \/ Allocate(n) \/ CollectClaim(n)
    PROVE  NameInv(n)'
<1>t. claim[n] \in Claim /\ claimCache[n] \in Claim /\ srv[n].gen \in Gens
  BY DEF TypeOK, XOMachine
<1>1. CASE ClaimSync(n)
  <2>1. claimCache'[n] = claim[n] /\ claim' = claim /\ srv' = srv
    BY <1>1 DEF ClaimSync, TypeOK, objectVars
  <2>2. ClaimOf(n)'
    BY <2>1 DEF NameInv, StoreOf, ClaimOf
  <2>3. \A a : Granted(n, a) => Granted(n, a)'
    BY <2>1 DEF Granted
  <2> QED
    BY <1>1, <2>2, <2>3, ClaimStepKeeps DEF ClaimSync, objectVars, workerVars
<1>2. CASE Allocate(n)
  <2>1. PICK a \in Addresses : claim' = [claim EXCEPT ![n].addr = a]
    BY <1>2 DEF Allocate
  <2>2. /\ claim'[n].owner = claim[n].owner /\ claim'[n].addr = a
        /\ claim[n].addr = NoAddr /\ claim[n] # NoClaim
        /\ claimCache' = claimCache /\ srv' = srv
    BY <1>2, <1>t, <2>1 DEF Allocate, TypeOK, Claim, NoClaim, objectVars
  <2>3. ClaimOf(n)'
    BY <2>2 DEF NameInv, StoreOf, ClaimOf
  <2>4. \A b : Granted(n, b) => Granted(n, b)'
    BY <2>2 DEF Granted
  <2> QED
    BY <1>2, <2>3, <2>4, ClaimStepKeeps DEF Allocate, objectVars, workerVars
<1>3. CASE CollectClaim(n)
  <2>1. srv[n].life = "gone"
    BY <1>3 DEF CollectClaim, NameInv, StoreOf, ClaimOf, NoClaim
  <2>2. srv' = srv
    BY <1>3 DEF CollectClaim, objectVars
  <2>3. ClaimOf(n)'
    BY <2>1, <2>2 DEF ClaimOf
  <2> QED
    BY <1>3, <2>1, <2>3, ClaimStepKeeps DEF CollectClaim, objectVars, workerVars
<1> QED
  BY <1>1, <1>2, <1>3

\* What a guest reports is no part of the argument.
LEMMA GuestKeeps ==
    ASSUME TypeOK, NEW n \in Names, NEW g \in Gens, NameInv(n), GuestReports(n, g) \/ Reboot(n, g)
    PROVE  NameInv(n)'
<1>1. PICK a : vm' = [vm EXCEPT ![n][g].ip = a]
  BY DEF GuestReports, Reboot
<1>2. \A h \in Gens : vm'[n][h].st = vm[n][h].st /\ vm'[n][h].conf = vm[n][h].conf
  BY <1>1 DEF TypeOK, VM
<1>3. srv[n].gen \in Gens /\ mem[n].gen \in Gens
  BY DEF TypeOK, XOMachine
<1>4. /\ srv' = srv /\ cache' = cache /\ fresh' = fresh /\ pc' = pc /\ mem' = mem
      /\ synced' = synced /\ net' = net /\ claim' = claim /\ claimCache' = claimCache
  BY DEF GuestReports, Reboot, objectVars, workerVars, claimVars
<1>5. CopyOf(n)' /\ ClaimOf(n)'
  BY <1>4 DEF NameInv, StoreOf, CopyOf, ClaimOf, Older
<1>6. RunOf(n)'
  BY <1>2, <1>4 DEF NameInv, StoreOf, RunOf
<1>7. ConfOf(n)'
  BY <1>2, <1>3, <1>4 DEF NameInv, StoreOf, ConfOf, Exists, Granted
<1>8. HeldOf(n)'
  BY <1>4 DEF NameInv, HeldOf, Older
<1>9. ReachedOf(n)'
  BY <1>2, <1>3, <1>4 DEF NameInv, ReachedOf, Granted
<1> QED
  BY <1>5, <1>6, <1>7, <1>8, <1>9 DEF NameInv, StoreOf

LEMMA EnvironmentKeeps ==
    ASSUME TypeOK, NEW n \in Names, NameInv(n), Environment(n), "reuse" \notin Faults
    PROVE  NameInv(n)'
BY UserDeleteKeeps, UserCreateKeeps, InformerSyncKeeps, ClaimsKeep, GuestKeeps DEF Environment

LEMMA CrashKeeps ==
    ASSUME TypeOK, NEW n \in Names, NameInv(n), Crash
    PROVE  NameInv(n)'
<1>t. srv[n].gen \in Nat /\ srv[n].life \in {"active", "deleting", "gone"}
  BY DEF TypeOK, XOMachine, Gens
<1>1. /\ srv' = srv /\ cache'[n] = srv[n] /\ claim' = claim /\ claimCache'[n] = claim[n] /\ vm' = vm
      /\ pc'[n] = "idle" /\ net'[n] = NoAddr /\ n \notin synced'
  BY DEF Crash
<1>2. CopyOf(n)'
  BY <1>t, <1>1 DEF CopyOf, Older
<1>3. RunOf(n)'
  BY <1>1 DEF NameInv, StoreOf, RunOf
<1>4. ClaimOf(n)'
  BY <1>1 DEF NameInv, StoreOf, ClaimOf
<1>5. ConfOf(n)'
  BY <1>1 DEF NameInv, StoreOf, ConfOf, Exists, Granted
<1>6. HeldOf(n)'
  BY <1>1, CallSets DEF HeldOf
<1>7. ReachedOf(n)'
  BY <1>1 DEF ReachedOf
<1> QED
  BY <1>2, <1>3, <1>4, <1>5, <1>6, <1>7 DEF NameInv, StoreOf

----------------------------------------------------------------------------
(* Claims that exclude one another.                                        *)

LEMMA ExclusiveKeeps ==
    ASSUME TypeOK, Exclusive, NEW n \in Names,
           \/ \A o \in Names : claim'[o] = claim[o]
           \/ \A o \in Names \ {n} : claim'[o] = claim[o] /\ claim'[n].addr # claim[o].addr
           \/ claim'[n].addr = NoAddr /\ \A o \in Names \ {n} : claim'[o] = claim[o]
    PROVE  Exclusive'
<1> SUFFICES ASSUME NEW x \in Names, NEW y \in Names, x # y, claim'[x].addr = claim'[y].addr
             PROVE  claim'[x].addr = NoAddr
  BY DEF Exclusive
<1>1. CASE \A o \in Names : claim'[o] = claim[o]
  BY <1>1 DEF Exclusive
<1>2. CASE \A o \in Names \ {n} : claim'[o] = claim[o] /\ claim'[n].addr # claim[o].addr
  BY <1>2 DEF Exclusive
<1>3. CASE claim'[n].addr = NoAddr /\ \A o \in Names \ {n} : claim'[o] = claim[o]
  BY <1>3 DEF Exclusive
<1> QED
  BY <1>1, <1>2, <1>3

LEMMA WorkerExclusive ==
    ASSUME TypeOK, Exclusive, NEW n \in Names, Worker(n)
    PROVE  Exclusive'
<1>o. \A o \in Names \ {n} : claim'[o] = claim[o]
  BY WorkerElsewhere DEF Same, SameStore
<1>1. CASE claim'[n].addr = NoAddr
  BY <1>o, <1>1, ExclusiveKeeps
<1>2. CASE claim' = claim
  BY <1>2, ExclusiveKeeps
<1>3. claim'[n].addr = NoAddr \/ claim' = claim
  <2> USE DEF Failed, Unwritten, Proceed, Write, Accept, claimVars
  <2>1. CASE ClaimedAddress(n)
    BY <2>1 DEF ClaimedAddress, TypeOK
  <2>2. CASE Reconcile(n) \/ TryFastPath(n)
    BY <2>2 DEF Reconcile, TryFastPath
  <2>3. CASE CreateVM(n) \/ StartVM(n) \/ ReconcileDelete(n)
    BY <2>3 DEF CreateVM, StartVM, ReconcileDelete
  <2>4. CASE SaveProviderID(n)
    BY <2>4 DEF SaveProviderID
  <2>5. CASE LookupExistingVM(n) \/ ManageVIFs(n) \/ ResolveVMIP(n)
    BY <2>5 DEF LookupExistingVM, ManageVIFs, ResolveVMIP
  <2>6. CASE MarkReady(n) \/ RefreshReadyMachine(n)
    BY <2>6 DEF MarkReady, RefreshReadyMachine
  <2> QED
    BY <2>1, <2>2, <2>3, <2>4, <2>5, <2>6 DEF Worker
<1> QED
  BY <1>1, <1>2, <1>3

LEMMA EnvironmentExclusive ==
    ASSUME TypeOK, Exclusive, NEW n \in Names, Environment(n)
    PROVE  Exclusive'
<1>o. \A o \in Names \ {n} : claim'[o] = claim[o]
  BY EnvironmentElsewhere DEF Same, SameStore
<1>1. CASE Allocate(n)
  <2>1. PICK a \in Addresses \ {claim[o].addr : o \in Names} : claim' = [claim EXCEPT ![n].addr = a]
    BY <1>1 DEF Allocate
  <2>2. claim'[n].addr = a
    BY <2>1 DEF TypeOK, Claim
  <2>3. \A o \in Names \ {n} : claim'[n].addr # claim[o].addr
    BY <2>1, <2>2
  <2> QED
    BY <1>o, <2>3, ExclusiveKeeps
<1>2. CASE CollectClaim(n)
  <2>1. claim'[n].addr = NoAddr
    BY <1>2 DEF CollectClaim, TypeOK, NoClaim
  <2> QED
    BY <1>o, <2>1, ExclusiveKeeps
<1>3. CASE claim' = claim
  BY <1>3, ExclusiveKeeps
<1>4. CASE UserDelete(n) \/ UserCreate(n) \/ InformerSync(n) \/ ClaimSync(n)
  <2>1. claim' = claim
    BY <1>4 DEF UserDelete, UserCreate, Overwrite, InformerSync, ClaimSync, claimVars
  <2> QED
    BY <1>3, <2>1
<1>5. CASE \E g \in Gens : GuestReports(n, g) \/ Reboot(n, g)
  <2>1. claim' = claim
    BY <1>5 DEF GuestReports, Reboot, claimVars
  <2> QED
    BY <1>3, <2>1
<1> QED
  BY <1>1, <1>2, <1>4, <1>5 DEF Environment

LEMMA AddressInvariant == "reuse" \notin Faults /\ Spec => []AddressInv
<1> SUFFICES ASSUME "reuse" \notin Faults PROVE Spec => []AddressInv
  OBVIOUS
<1>1. Init => AddressInv
  <2> SUFFICES ASSUME Init PROVE AddressInv
    OBVIOUS
  <2>1. ASSUME NEW n \in Names PROVE NameInv(n)
    <3>1. /\ cache[n] = srv[n] /\ pc[n] = "idle" /\ n \notin synced /\ net[n] = NoAddr
          /\ claim[n] = NoClaim /\ claimCache[n] = NoClaim
          /\ \A g \in Gens : vm[n][g].st = "none"
      BY DEF Init
    <3>2. srv[n].gen \in Gens /\ srv[n].gen \in Nat /\ srv[n].life \in {"active", "deleting", "gone"}
      <4>1. srv \in [Names -> XOMachine]
        BY FleetAssumption DEF Init
      <4> QED
        BY <4>1 DEF XOMachine, Gens
    <3>3. CopyOf(n)
      BY <3>1, <3>2, FleetAssumption DEF CopyOf, Older, Init
    <3> QED
      BY <3>1, <3>2, <3>3, CallSets
         DEF NameInv, StoreOf, RunOf, ClaimOf, ConfOf, HeldOf, ReachedOf, Exists
  <2>2. Exclusive
    BY DEF Init, Exclusive, NoClaim
  <2> QED
    BY <2>1, <2>2 DEF AddressInv
<1>2. TypeOK /\ AddressInv /\ [Next]_vars => AddressInv'
  <2> SUFFICES ASSUME TypeOK, AddressInv, [Next]_vars PROVE AddressInv'
    OBVIOUS
  <2>i. Exclusive /\ \A n \in Names : NameInv(n)
    BY DEF AddressInv
  <2>1. CASE Crash
    <3>1. Exclusive'
      BY <2>i, <2>1 DEF Crash, Exclusive
    <3> QED
      BY <2>i, <2>1, <3>1, CrashKeeps DEF AddressInv
  <2>2. CASE UNCHANGED vars
    <3>1. \A n \in Names : Same(n)
      BY <2>2 DEF vars, Same, SameStore
    <3>2. Exclusive'
      BY <2>i, <2>2 DEF vars, Exclusive
    <3> QED
      BY <2>i, <3>1, <3>2, NameStays DEF AddressInv
  <2>3. ASSUME NEW n \in Names, Worker(n) \/ Environment(n) PROVE AddressInv'
    <3>1. NameInv(n)'
      BY <2>i, <2>3, WorkerKeeps, EnvironmentKeeps
    <3>2. ASSUME NEW o \in Names \ {n} PROVE NameInv(o)'
      BY <2>i, <2>3, WorkerElsewhere, EnvironmentElsewhere, NameStays
    <3>3. Exclusive'
      BY <2>i, <2>3, WorkerExclusive, EnvironmentExclusive
    <3> QED
      BY <3>1, <3>2, <3>3 DEF AddressInv
  <2> QED
    BY <2>1, <2>2, <2>3 DEF Next
<1> QED
  BY <1>1, <1>2, AddressingTypeCorrect, PTL DEF Spec

----------------------------------------------------------------------------
(* The promises.                                                           *)

\* As long as a machine of a pool is there, its VM has the address its own claim
\* was granted, if a name is used again only when its old claim is gone.
THEOREM OwnAddress == "reuse" \notin Faults /\ Spec => []ClaimHeld
<1>1. TypeOK /\ AddressInv => ClaimHeld
  <2> SUFFICES ASSUME TypeOK, AddressInv, NEW n \in Names,
                      srv[n].net = "pool", srv[n].life # "gone", Exists(vm[n][srv[n].gen])
               PROVE  /\ vm[n][srv[n].gen].conf # NoAddr
                      /\ claim[n] = [owner |-> srv[n].gen, addr |-> vm[n][srv[n].gen].conf]
    BY DEF ClaimHeld
  <2>1. Granted(n, vm[n][srv[n].gen].conf)
    BY DEF AddressInv, NameInv, StoreOf, ConfOf
  <2>2. claim[n] = [owner |-> claim[n].owner, addr |-> claim[n].addr]
    BY DEF TypeOK, Claim
  <2> QED
    BY <2>1, <2>2 DEF Granted
<1> QED
  BY <1>1, AddressInvariant, AddressingTypeCorrect, PTL

\* No two running VMs are configured with the same address of the pool, if a
\* name is used again only when its old claim is gone.
THEOREM AddressesApart == "reuse" \notin Faults /\ Spec => []NoSharedAddress
<1>1. AddressInv => NoSharedAddress
  <2> SUFFICES ASSUME AddressInv, NEW a \in Addresses, NEW x \in RunningOn(a), NEW y \in RunningOn(a)
               PROVE  x = y
    BY DEF NoSharedAddress
  <2>1. ASSUME NEW z \in RunningOn(a)
        PROVE  z \in Names \X Gens /\ z[2] = srv[z[1]].gen /\ claim[z[1]].addr = a
    <3>1. z[1] \in Names /\ z[2] \in Gens /\ vm[z[1]][z[2]].st = "running" /\ vm[z[1]][z[2]].conf = a
      BY DEF RunningOn
    <3>2. NameInv(z[1])
      BY <3>1 DEF AddressInv
    <3>3. z[2] = srv[z[1]].gen /\ srv[z[1]].life # "gone"
      BY <3>1, <3>2 DEF NameInv, StoreOf, RunOf
    <3>4. Granted(z[1], a)
      BY <3>1, <3>2, <3>3 DEF NameInv, StoreOf, ConfOf, Exists
    <3>5. a # NoAddr
      BY AddressAssumption
    <3> QED
      BY <3>3, <3>4, <3>5 DEF Granted, RunningOn
  <2>2. a # NoAddr
    BY AddressAssumption
  <2>3. x[1] = y[1]
    BY <2>1, <2>2 DEF AddressInv, Exclusive
  <2> QED
    BY <2>1, <2>3
<1> QED
  BY <1>1, AddressInvariant, PTL

----------------------------------------------------------------------------
(* The recorded address.                                                   *)

\* The address a is one that the guest of n's machine can have.
Right(n, a) == IF srv[n].net = "pool" THEN Granted(n, a) ELSE a \in Leases

\* A running guest reports the address it is configured with, or a lease.
GuestOf(n) ==
    \A g \in Gens : vm[n][g].ip \in Usable =>
       /\ vm[n][g].st = "running"
       /\ vm[n][g].ip = vm[n][g].conf \/ (vm[n][g].conf = NoAddr /\ vm[n][g].ip \in Leases)

ReadyOf(n) == srv[n].ready = "yes" /\ srv[n].life # "gone" => Right(n, srv[n].addr)

\* What the worker has of the status, and the address it has found.
FoundOf(n) ==
    /\ n \in synced =>
          /\ mem[n].ready = srv[n].ready
          /\ pc[n] \notin {"vifs", "markReady"} => mem[n].addr = srv[n].addr
    /\ pc[n] \in {"vifs", "markReady"} => Right(n, mem[n].addr)

StatusInv(n) == GuestOf(n) /\ ReadyOf(n) /\ FoundOf(n)

LEMMA StatusStays ==
    ASSUME NEW n \in Names, StatusInv(n), Same(n)
    PROVE  StatusInv(n)'
<1>1. GuestOf(n)'
  BY DEF StatusInv, Same, SameStore, GuestOf
<1>2. ReadyOf(n)'
  BY DEF StatusInv, Same, SameStore, ReadyOf, Right, Granted
<1>3. FoundOf(n)'
  BY DEF StatusInv, Same, SameStore, FoundOf, Right, Granted
<1> QED
  BY <1>1, <1>2, <1>3 DEF StatusInv

\* What is granted to a machine stays granted while it is there.
LEMMA RightStays ==
    ASSUME NEW n \in Names,
           srv'[n].gen = srv[n].gen, srv'[n].net = srv[n].net,
           claim[n].addr # NoAddr => claim'[n] = claim[n]
    PROVE  \A a : Right(n, a) => Right(n, a)'
BY DEF Right, Granted

LEMMA ReportRight ==
    ASSUME TypeOK, NEW n \in Names, NameInv(n), GuestOf(n),
           mem[n].gen = srv[n].gen, VMOf(n).ip \in Usable
    PROVE  Right(n, VMOf(n).ip)
<1>1. srv[n].gen \in Gens /\ srv[n].net \in {"pool", "dhcp"}
  BY DEF TypeOK, XOMachine
<1>2. /\ vm[n][srv[n].gen].st = "running"
      /\ \/ VMOf(n).ip = vm[n][srv[n].gen].conf
         \/ vm[n][srv[n].gen].conf = NoAddr /\ VMOf(n).ip \in Leases
  BY <1>1 DEF GuestOf, VMOf
<1>3. srv[n].life # "gone"
  BY <1>1, <1>2 DEF NameInv, StoreOf, RunOf
<1>4. Granted(n, vm[n][srv[n].gen].conf)
  BY <1>2, <1>3 DEF NameInv, StoreOf, ConfOf, Exists
<1>5. NoAddr \notin Usable
  BY AddressAssumption DEF Usable
<1> QED
  BY <1>1, <1>2, <1>4, <1>5 DEF Right, Granted

\* Steps that change no VM, and the stored machine at most in the ways named.
LEMMA DoneStatus ==
    ASSUME TypeOK, NEW n \in Names, NameInv(n), StatusInv(n), Done(n), vm' = vm, ReadyOf(n)'
    PROVE  StatusInv(n)'
<1>1. GuestOf(n)'
  BY DEF StatusInv, GuestOf
<1>2. FoundOf(n)'
  BY DoneLocal DEF FoundOf
<1> QED
  BY <1>1, <1>2 DEF StatusInv

LEMMA FailedStatus ==
    ASSUME TypeOK, NEW n \in Names, NameInv(n), StatusInv(n), Failed(n)
    PROVE  StatusInv(n)'
<1>1. ReadyOf(n)'
  BY DEF Failed, Unwritten, objectVars, claimVars, StatusInv, ReadyOf, Right, Granted
<1> QED
  BY <1>1, DoneStatus DEF Failed, Unwritten

LEMMA ProceedStatus ==
    ASSUME TypeOK, NEW n \in Names, NameInv(n), StatusInv(n), NEW call, Proceed(n, call),
           call = "markReady" => pc[n] = "vifs",
           call # "vifs", pc[n] = "vifs" => call = "markReady",
           pc[n] # "markReady"
    PROVE  StatusInv(n)'
<1>1. pc'[n] = call
  BY DEF Proceed, Goto, TypeOK
<1>2. GuestOf(n)' /\ ReadyOf(n)'
  BY DEF Proceed, objectVars, claimVars, StatusInv, GuestOf, ReadyOf, Right, Granted
<1>3. FoundOf(n)'
  BY <1>1 DEF Proceed, objectVars, claimVars, StatusInv, FoundOf, Right, Granted
<1> QED
  BY <1>2, <1>3 DEF StatusInv

LEMMA ReadStatus ==
    ASSUME TypeOK, NEW n \in Names, NameInv(n), StatusInv(n), Read(n), NEW call, Goto(n, call),
           call \notin {"vifs", "markReady"}, UNCHANGED <<objectVars, net, claimVars, vm>>
    PROVE  StatusInv(n)'
<1>1. pc'[n] = call /\ mem'[n] = cache[n] /\ (n \in synced' <=> n \in fresh)
  BY DEF Read, Goto, TypeOK
<1>2. GuestOf(n)' /\ ReadyOf(n)'
  BY DEF objectVars, claimVars, StatusInv, GuestOf, ReadyOf, Right, Granted
<1>3. FoundOf(n)'
  BY <1>1 DEF objectVars, FoundOf, NameInv, StoreOf, CopyOf
<1> QED
  BY <1>2, <1>3 DEF StatusInv

\* An accepted write of an object that has a right address if it is Ready.
LEMMA AcceptReady ==
    ASSUME TypeOK, NEW n \in Names, NameInv(n), NEW obj, Accept(n, obj),
           obj.gen = mem[n].gen, obj.net = mem[n].net,
           obj.ready = "yes" /\ obj.life # "gone" => Right(n, obj.addr)
    PROVE  ReadyOf(n)' /\ srv'[n] = obj /\ vm' = vm
<1>1. srv'[n] = obj /\ claim' = claim /\ vm' = vm /\ n \in synced
  BY DEF Accept, TypeOK, claimVars
<1>2. srv'[n].gen = srv[n].gen /\ srv'[n].net = srv[n].net
  BY <1>1 DEF NameInv, HeldOf
<1> QED
  BY <1>1, <1>2 DEF ReadyOf, Right, Granted

LEMMA WriteStatus ==
    ASSUME TypeOK, NEW n \in Names, NameInv(n), StatusInv(n), pc[n] \in {"save", "save2"},
           Write(n, Recorded(n), "start")
    PROVE  StatusInv(n)'
<1>r. /\ Recorded(n).gen = mem[n].gen /\ Recorded(n).net = mem[n].net
      /\ Recorded(n).life = mem[n].life
      /\ Recorded(n).ready = mem[n].ready /\ Recorded(n).addr = mem[n].addr
  BY DEF Recorded, TypeOK, XOMachine
<1>a. ASSUME Accept(n, Recorded(n)) PROVE ReadyOf(n)' /\ srv'[n] = Recorded(n) /\ vm' = vm
  <2>1. n \in synced
    BY <1>a DEF Accept
  <2>2. mem[n].ready = srv[n].ready /\ mem[n].addr = srv[n].addr /\ mem[n].life = srv[n].life
    BY <2>1 DEF StatusInv, FoundOf, NameInv, HeldOf
  <2> QED
    BY <1>a, <1>r, <2>2, AcceptReady DEF StatusInv, ReadyOf
<1>1. CASE /\ Accept(n, Recorded(n))
           /\ mem' = [mem EXCEPT ![n] = Recorded(n)]
           /\ Goto(n, "start")
           /\ UNCHANGED <<synced, net>>
  <2>1. ReadyOf(n)' /\ srv'[n] = Recorded(n) /\ vm' = vm
    BY <1>1, <1>a
  <2>2. pc'[n] = "start" /\ mem'[n] = Recorded(n)
    BY <1>1 DEF Goto, TypeOK
  <2>3. FoundOf(n)'
    BY <2>1, <2>2 DEF FoundOf
  <2>4. GuestOf(n)'
    BY <2>1 DEF StatusInv, GuestOf
  <2> QED
    BY <2>1, <2>3, <2>4 DEF StatusInv
<1>2. CASE Accept(n, Recorded(n)) /\ Done(n)
  BY <1>2, <1>a, DoneStatus
<1> QED
  BY <1>1, <1>2, FailedStatus DEF Write

\* A VM is created without an address, started, or destroyed.
LEMMA VMStatus ==
    ASSUME TypeOK, NEW n \in Names, NameInv(n), StatusInv(n), NEW v, WithVM(n, v),
           UNCHANGED <<srv, cache, fresh, claimVars>>,
           v.ip \in Usable =>
              v.st = "running" /\ v.ip = VMOf(n).ip /\ v.conf = VMOf(n).conf,
           NEW call \in {"save", "waitIP", "unfinalize"},
           pc[n] \notin {"vifs", "markReady"},
           (Goto(n, call) /\ UNCHANGED <<mem, synced, net>>) \/ Done(n)
    PROVE  StatusInv(n)'
<1>1. PICK g \in Gens : g = mem[n].gen
  BY DEF TypeOK, XOMachine
<1>2. vm'[n][g] = v /\ \A h \in Gens \ {g} : vm'[n][h] = vm[n][h]
  BY <1>1 DEF WithVM, TypeOK
<1>3. GuestOf(n)'
  BY <1>1, <1>2 DEF StatusInv, GuestOf, VMOf
<1>4. ReadyOf(n)'
  BY DEF StatusInv, ReadyOf, Right, Granted, claimVars
<1>5. CASE Goto(n, call) /\ UNCHANGED <<mem, synced, net>>
  <2>1. pc'[n] = call
    BY <1>5 DEF Goto, TypeOK
  <2>2. FoundOf(n)'
    BY <1>5, <2>1 DEF StatusInv, FoundOf
  <2> QED
    BY <1>3, <1>4, <2>2 DEF StatusInv
<1>6. CASE Done(n)
  <2>1. FoundOf(n)'
    BY <1>6, DoneLocal DEF FoundOf
  <2> QED
    BY <1>3, <1>4, <2>1 DEF StatusInv
<1> QED
  BY <1>5, <1>6

LEMMA ClaimedAddressStatus ==
    ASSUME TypeOK, NEW n \in Names, NameInv(n), StatusInv(n), ClaimedAddress(n)
    PROVE  StatusInv(n)'
<1>h. pc[n] = "claim" /\ AfterAddress(n) \in {"lookup", "create"}
  BY DEF ClaimedAddress, AfterAddress
<1>1. CASE Proceed(n, AfterAddress(n))
  BY <1>1, <1>h, ProceedStatus
<1>2. CASE /\ claimCache[n] = NoClaim /\ claim[n] = NoClaim
           /\ mem[n].net = "pool"
           /\ claim' = [claim EXCEPT ![n] = [owner |-> mem[n].gen, addr |-> NoAddr]]
           /\ Done(n)
           /\ UNCHANGED <<srv, cache, fresh, claimCache, vm>>
  <2>1. claim[n].addr = NoAddr
    BY <1>2 DEF NoClaim
  <2>2. ReadyOf(n)'
    BY <1>2, <2>1, RightStays DEF StatusInv, ReadyOf
  <2> QED
    BY <1>2, <2>2, DoneStatus
<1>3. CASE /\ net' = [net EXCEPT ![n] = claimCache[n].addr]
           /\ Goto(n, AfterAddress(n))
           /\ UNCHANGED <<objectVars, mem, synced, claimVars, vm>>
  <2>1. pc'[n] = AfterAddress(n)
    BY <1>3 DEF Goto, TypeOK
  <2>2. GuestOf(n)' /\ ReadyOf(n)'
    BY <1>3 DEF objectVars, claimVars, StatusInv, GuestOf, ReadyOf, Right, Granted
  <2>3. FoundOf(n)'
    BY <1>3, <1>h, <2>1 DEF objectVars, StatusInv, FoundOf
  <2> QED
    BY <2>2, <2>3 DEF StatusInv
<1> QED
  BY <1>1, <1>2, <1>3, FailedStatus DEF ClaimedAddress

LEMMA ResolveVMIPStatus ==
    ASSUME TypeOK, NEW n \in Names, NameInv(n), StatusInv(n), ResolveVMIP(n)
    PROVE  StatusInv(n)'
<1>h. pc[n] = "waitIP" /\ mem[n].gen = srv[n].gen
  BY CallSets DEF ResolveVMIP, NameInv, HeldOf
<1>1. CASE /\ VMOf(n).ip \in Usable
           /\ mem' = [mem EXCEPT ![n].addr = VMOf(n).ip]
           /\ Goto(n, "vifs")
           /\ UNCHANGED <<objectVars, synced, net, claimVars, vm>>
  <2>1. /\ pc'[n] = "vifs" /\ mem'[n].ready = mem[n].ready /\ mem'[n].addr = VMOf(n).ip
    BY <1>1 DEF Goto, TypeOK, XOMachine
  <2>2. Right(n, VMOf(n).ip)
    BY <1>h, <1>1, ReportRight DEF StatusInv
  <2>3. GuestOf(n)' /\ ReadyOf(n)'
    BY <1>1 DEF objectVars, claimVars, StatusInv, GuestOf, ReadyOf, Right, Granted
  <2>4. FoundOf(n)'
    BY <1>h, <1>1, <2>1, <2>2 DEF objectVars, claimVars, StatusInv, FoundOf, Right, Granted
  <2> QED
    BY <2>3, <2>4 DEF StatusInv
<1> QED
  BY <1>1, FailedStatus DEF ResolveVMIP

LEMMA StatusWrites ==
    ASSUME TypeOK, NEW n \in Names, NameInv(n), StatusInv(n), MarkReady(n) \/ RefreshReadyMachine(n)
    PROVE  StatusInv(n)'
<1>m. mem[n] \in XOMachine
  BY DEF TypeOK
<1>1. CASE pc[n] = "markReady" /\ Accept(n, [mem[n] EXCEPT !.ready = "yes"]) /\ Done(n)
  <2>1. PICK obj : obj = [mem[n] EXCEPT !.ready = "yes"]
    OBVIOUS
  <2>2. obj.gen = mem[n].gen /\ obj.net = mem[n].net /\ obj.addr = mem[n].addr
    BY <1>m, <2>1 DEF XOMachine
  <2>3. Right(n, obj.addr)
    BY <1>1, <2>2 DEF StatusInv, FoundOf
  <2>4. ReadyOf(n)' /\ vm' = vm
    BY <1>1, <2>1, <2>2, <2>3, AcceptReady
  <2> QED
    BY <1>1, <2>4, DoneStatus
<1>2. CASE /\ pc[n] = "refresh" /\ VMOf(n).ip \in Usable
           /\ Accept(n, [mem[n] EXCEPT !.addr = VMOf(n).ip]) /\ Done(n)
  <2>1. PICK obj : obj = [mem[n] EXCEPT !.addr = VMOf(n).ip]
    OBVIOUS
  <2>2. obj.gen = mem[n].gen /\ obj.net = mem[n].net /\ obj.addr = VMOf(n).ip
    BY <1>m, <2>1 DEF XOMachine
  <2>3. mem[n].gen = srv[n].gen
    BY <1>2, CallSets DEF NameInv, HeldOf
  <2>4. Right(n, obj.addr)
    BY <1>2, <2>2, <2>3, ReportRight DEF StatusInv
  <2>5. ReadyOf(n)' /\ vm' = vm
    BY <1>2, <2>1, <2>2, <2>4, AcceptReady
  <2> QED
    BY <1>2, <2>5, DoneStatus
<1>3. \/ Failed(n)
      \/ pc[n] = "markReady" /\ Accept(n, [mem[n] EXCEPT !.ready = "yes"]) /\ Done(n)
      \/ /\ pc[n] = "refresh" /\ VMOf(n).ip \in Usable
         /\ Accept(n, [mem[n] EXCEPT !.addr = VMOf(n).ip]) /\ Done(n)
  BY DEF MarkReady, RefreshReadyMachine, Failed
<1> QED
  BY <1>1, <1>2, <1>3, FailedStatus

LEMMA DeleteStatus ==
    ASSUME TypeOK, NEW n \in Names, NameInv(n), StatusInv(n), ReconcileDelete(n)
    PROVE  StatusInv(n)'
<1>1. CASE pc[n] = "delete" /\ Proceed(n, IF mem[n].pid = "set" THEN "destroy" ELSE "unfinalize")
  BY <1>1, ProceedStatus
<1>2. CASE /\ pc[n] = "destroy"
           /\ WithVM(n, [VMOf(n) EXCEPT !.st = "destroyed", !.ip = NoAddr])
           /\ \/ Goto(n, "unfinalize") /\ UNCHANGED <<mem, synced, net>>
              \/ Done(n)
           /\ UNCHANGED <<srv, cache, fresh, claimVars>>
  <2>1. [VMOf(n) EXCEPT !.st = "destroyed", !.ip = NoAddr].ip = NoAddr
    BY DEF TypeOK, VMOf, VM, XOMachine
  <2>2. NoAddr \notin Usable
    BY AddressAssumption DEF Usable
  <2> QED
    BY <1>2, <2>1, <2>2, VMStatus
<1>3. CASE Accept(n, [mem[n] EXCEPT !.life = "gone"]) /\ Done(n)
  <2>1. srv'[n] = [mem[n] EXCEPT !.life = "gone"] /\ vm' = vm
    BY <1>3 DEF Accept, TypeOK
  <2>2. srv'[n].life = "gone"
    BY <2>1 DEF TypeOK, XOMachine
  <2>3. ReadyOf(n)'
    BY <2>2 DEF ReadyOf
  <2> QED
    BY <1>3, <2>1, <2>3, DoneStatus
<1> QED
  BY <1>1, <1>2, <1>3, FailedStatus DEF ReconcileDelete

LEMMA WorkerStatus ==
    ASSUME TypeOK, NEW n \in Names, NameInv(n), StatusInv(n), Worker(n)
    PROVE  StatusInv(n)'
<1>u. NoAddr \notin Usable
  BY AddressAssumption DEF Usable
<1>v. VMOf(n) \in VM
  BY DEF VMOf, TypeOK, XOMachine
<1>1. CASE Reconcile(n)
  <2>1. PICK call \in {"delete", "fast"} : Goto(n, call)
    BY <1>1 DEF Reconcile
  <2> QED
    BY <1>1, <2>1, ReadStatus DEF Reconcile
<1>2. CASE TryFastPath(n)
  <2>1. pc[n] = "fast" /\ \E call \in {"claim", "start", "refresh"} : Proceed(n, call)
    BY <1>2 DEF TryFastPath
  <2> QED
    BY <2>1, ProceedStatus
<1>3. CASE ManageVIFs(n)
  BY <1>3, ProceedStatus, FailedStatus DEF ManageVIFs
<1>4. CASE LookupExistingVM(n)
  BY <1>4, ProceedStatus, FailedStatus DEF LookupExistingVM
<1>5. CASE SaveProviderID(n)
  <2>1. CASE pc[n] \in {"save", "save2"} /\ Write(n, Recorded(n), "start")
    BY <2>1, WriteStatus
  <2>2. CASE pc[n] = "save" /\ Proceed(n, "saveGet")
    BY <2>2, ProceedStatus
  <2>3. CASE Read(n) /\ Goto(n, "save2") /\ UNCHANGED <<objectVars, net, claimVars, vm>>
    BY <2>3, ReadStatus
  <2> QED
    BY <1>5, <2>1, <2>2, <2>3 DEF SaveProviderID
<1>6. CASE CreateVM(n)
  <2>1. CASE /\ WithVM(n, [st |-> "halted", conf |-> net[n], ip |-> NoAddr])
             /\ \/ Goto(n, "save") /\ UNCHANGED <<mem, synced, net>>
                \/ Done(n)
             /\ UNCHANGED <<srv, cache, fresh, claimVars>>
    <3>1. pc[n] = "create"
      BY <1>6 DEF CreateVM
    <3> QED
      BY <1>u, <2>1, <3>1, VMStatus
  <2>2. CASE pc[n] = "create" /\ Proceed(n, "save")
    BY <2>2, ProceedStatus
  <2> QED
    BY <1>6, <2>1, <2>2, FailedStatus DEF CreateVM
<1>7. CASE StartVM(n)
  <2>1. CASE /\ WithVM(n, [VMOf(n) EXCEPT !.st = "running"])
             /\ \/ Goto(n, "waitIP") /\ UNCHANGED <<mem, synced, net>>
                \/ Done(n)
             /\ UNCHANGED <<srv, cache, fresh, claimVars>>
    <3>1. PICK v : v = [VMOf(n) EXCEPT !.st = "running"]
      OBVIOUS
    <3>2. v.st = "running" /\ v.ip = VMOf(n).ip /\ v.conf = VMOf(n).conf
      BY <1>v, <3>1 DEF VM
    <3>3. pc[n] = "start"
      BY <1>7 DEF StartVM
    <3> QED
      BY <2>1, <3>1, <3>2, <3>3, VMStatus
  <2> QED
    BY <1>7, <2>1, FailedStatus DEF StartVM
<1> QED
  BY <1>1, <1>2, <1>3, <1>4, <1>5, <1>6, <1>7, ClaimedAddressStatus, ResolveVMIPStatus,
     StatusWrites, DeleteStatus
     DEF Worker

LEMMA OverwriteStatus ==
    ASSUME TypeOK, NEW n \in Names, StatusInv(n), NEW obj, Overwrite(n, obj),
           \/ obj.ready = "no"
           \/ /\ obj.ready = srv[n].ready /\ obj.addr = srv[n].addr /\ srv[n].life # "gone"
              /\ obj.gen = srv[n].gen /\ obj.net = srv[n].net,
           pc[n] \in {"vifs", "markReady"} => obj.gen = srv[n].gen /\ obj.net = srv[n].net
    PROVE  StatusInv(n)'
<1>1. /\ srv'[n] = obj /\ n \notin synced' /\ pc' = pc /\ mem' = mem
      /\ claim' = claim /\ vm' = vm
  BY OverwriteLocal
<1>2. GuestOf(n)'
  BY <1>1 DEF StatusInv, GuestOf
<1>3. ReadyOf(n)'
  BY <1>1 DEF StatusInv, ReadyOf, Right, Granted
<1>4. FoundOf(n)'
  BY <1>1 DEF StatusInv, FoundOf, Right, Granted
<1> QED
  BY <1>2, <1>3, <1>4 DEF StatusInv

LEMMA UserStatus ==
    ASSUME TypeOK, NEW n \in Names, NameInv(n), StatusInv(n), UserDelete(n) \/ UserCreate(n)
    PROVE  StatusInv(n)'
<1>1. CASE UserDelete(n)
  <2>1. PICK obj : obj = [srv[n] EXCEPT !.life = "deleting"]
    OBVIOUS
  <2>2. /\ obj.ready = srv[n].ready /\ obj.addr = srv[n].addr
        /\ obj.gen = srv[n].gen /\ obj.net = srv[n].net
    BY <2>1 DEF TypeOK, XOMachine
  <2> QED
    BY <1>1, <2>1, <2>2, OverwriteStatus DEF UserDelete
<1>2. CASE UserCreate(n)
  <2>1. pc[n] \notin {"vifs", "markReady"}
    BY <1>2, CallSets DEF UserCreate, NameInv, HeldOf
  <2>2. New(srv[n].gen + 1, srv[n].net).ready = "no"
    BY DEF New
  <2> QED
    BY <1>2, <2>1, <2>2, OverwriteStatus DEF UserCreate
<1> QED
  BY <1>1, <1>2

LEMMA ClaimsStatus ==
    ASSUME TypeOK, NEW n \in Names, NameInv(n), StatusInv(n),
           ClaimSync(n) \/ Allocate(n) \/ CollectClaim(n)
    PROVE  StatusInv(n)'
<1>1. srv' = srv /\ pc' = pc /\ mem' = mem /\ synced' = synced /\ vm' = vm
  BY DEF ClaimSync, Allocate, CollectClaim, objectVars, workerVars
<1>2. srv[n].life # "gone" => (claim[n].addr # NoAddr => claim'[n] = claim[n])
  <2>1. CASE CollectClaim(n)
    BY <2>1 DEF CollectClaim, NameInv, StoreOf, ClaimOf, NoClaim
  <2> QED
    BY <2>1 DEF ClaimSync, Allocate
<1>3. ASSUME srv[n].life # "gone" PROVE \A a : Right(n, a) => Right(n, a)'
  BY <1>1, <1>2, <1>3, RightStays
<1>4. pc[n] \in {"vifs", "markReady"} => srv[n].life # "gone"
  BY CallSets DEF NameInv, HeldOf
<1>5. GuestOf(n)'
  BY <1>1 DEF StatusInv, GuestOf
<1>6. ReadyOf(n)'
  BY <1>1, <1>3 DEF StatusInv, ReadyOf
<1>7. FoundOf(n)'
  BY <1>1, <1>3, <1>4 DEF StatusInv, FoundOf
<1> QED
  BY <1>5, <1>6, <1>7 DEF StatusInv

LEMMA GuestStatus ==
    ASSUME TypeOK, NEW n \in Names, NEW g \in Gens, NameInv(n), StatusInv(n),
           GuestReports(n, g) \/ Reboot(n, g)
    PROVE  StatusInv(n)'
<1>u. NoAddr \notin Usable /\ LinkLocal \notin Usable
  BY AddressAssumption DEF Usable
<1>1. PICK a : /\ vm' = [vm EXCEPT ![n][g].ip = a]
               /\ a \in Usable => /\ vm[n][g].st = "running"
                                  /\ a = vm[n][g].conf \/ (vm[n][g].conf = NoAddr /\ a \in Leases)
  <2>1. CASE Reboot(n, g)
    BY <1>u, <2>1 DEF Reboot
  <2>2. CASE GuestReports(n, g)
    <3>1. CASE vm[n][g].conf # NoAddr
      BY <2>2, <3>1 DEF GuestReports
    <3>2. CASE vm[n][g].conf = NoAddr
      <4>1. PICK a \in Leases \cup {LinkLocal} : vm' = [vm EXCEPT ![n][g].ip = a]
        BY <2>2, <3>2 DEF GuestReports
      <4>2. vm[n][g].st = "running"
        BY <2>2 DEF GuestReports
      <4> QED
        BY <1>u, <3>2, <4>1, <4>2
    <3> QED
      BY <3>1, <3>2
  <2> QED
    BY <2>1, <2>2
<1>2. /\ vm'[n][g].ip = a /\ vm'[n][g].st = vm[n][g].st /\ vm'[n][g].conf = vm[n][g].conf
      /\ \A h \in Gens \ {g} : vm'[n][h] = vm[n][h]
  BY <1>1 DEF TypeOK, VM
<1>3. /\ srv' = srv /\ pc' = pc /\ mem' = mem /\ synced' = synced /\ claim' = claim
  BY DEF GuestReports, Reboot, objectVars, workerVars, claimVars
<1>4. GuestOf(n)'
  BY <1>1, <1>2 DEF StatusInv, GuestOf
<1>5. ReadyOf(n)'
  BY <1>3 DEF StatusInv, ReadyOf, Right, Granted
<1>6. FoundOf(n)'
  BY <1>3 DEF StatusInv, FoundOf, Right, Granted
<1> QED
  BY <1>4, <1>5, <1>6 DEF StatusInv

LEMMA EnvironmentStatus ==
    ASSUME TypeOK, NEW n \in Names, NameInv(n), StatusInv(n), Environment(n)
    PROVE  StatusInv(n)'
<1>1. CASE InformerSync(n)
  <2>1. /\ srv' = srv /\ pc' = pc /\ mem' = mem /\ synced' = synced /\ claim' = claim /\ vm' = vm
    BY <1>1 DEF InformerSync, workerVars, claimVars
  <2>2. GuestOf(n)'
    BY <2>1 DEF StatusInv, GuestOf
  <2>3. ReadyOf(n)'
    BY <2>1 DEF StatusInv, ReadyOf, Right, Granted
  <2>4. FoundOf(n)'
    BY <2>1 DEF StatusInv, FoundOf, Right, Granted
  <2> QED
    BY <2>2, <2>3, <2>4 DEF StatusInv
<1> QED
  BY <1>1, UserStatus, ClaimsStatus, GuestStatus DEF Environment

LEMMA CrashStatus ==
    ASSUME TypeOK, NEW n \in Names, StatusInv(n), Crash
    PROVE  StatusInv(n)'
<1>1. srv' = srv /\ claim' = claim /\ vm' = vm /\ pc'[n] = "idle" /\ n \notin synced'
  BY DEF Crash
<1>2. GuestOf(n)'
  BY <1>1 DEF StatusInv, GuestOf
<1>3. ReadyOf(n)'
  BY <1>1 DEF StatusInv, ReadyOf, Right, Granted
<1>4. FoundOf(n)'
  BY <1>1 DEF FoundOf
<1> QED
  BY <1>2, <1>3, <1>4 DEF StatusInv

\* A Ready machine keeps an address its guest can have, the claimed one if it
\* claimed one, through reboots, stale copies, crashes and refreshes that fail,
\* if a name is used again only when its old claim is gone.
THEOREM AddressKept == "reuse" \notin Faults /\ Spec => []ReadyHasAddress
<1> SUFFICES ASSUME "reuse" \notin Faults PROVE Spec => []ReadyHasAddress
  OBVIOUS
<1> DEFINE AllStatus == \A n \in Names : StatusInv(n)
<1>1. Init => AllStatus
  <2> SUFFICES ASSUME Init, NEW n \in Names PROVE StatusInv(n)
    OBVIOUS
  <2>1. /\ srv[n].ready = "no" /\ pc[n] = "idle" /\ n \notin synced
        /\ \A g \in Gens : vm[n][g].ip = NoAddr
    BY FleetAssumption DEF Init
  <2>2. NoAddr \notin Usable
    BY AddressAssumption DEF Usable
  <2> QED
    BY <2>1, <2>2 DEF StatusInv, GuestOf, ReadyOf, FoundOf
<1>2. TypeOK /\ AddressInv /\ AllStatus /\ [Next]_vars => AllStatus'
  <2> SUFFICES ASSUME TypeOK, AddressInv, AllStatus, [Next]_vars PROVE AllStatus'
    OBVIOUS
  <2>i. \A n \in Names : NameInv(n) /\ StatusInv(n)
    BY DEF AddressInv
  <2>1. CASE Crash
    BY <2>i, <2>1, CrashStatus
  <2>2. CASE UNCHANGED vars
    <3>1. \A n \in Names : Same(n)
      BY <2>2 DEF vars, Same, SameStore
    <3> QED
      BY <2>i, <3>1, StatusStays
  <2>3. ASSUME NEW n \in Names, Worker(n) \/ Environment(n) PROVE AllStatus'
    <3>1. StatusInv(n)'
      BY <2>i, <2>3, WorkerStatus, EnvironmentStatus
    <3>2. ASSUME NEW o \in Names \ {n} PROVE StatusInv(o)'
      BY <2>i, <2>3, WorkerElsewhere, EnvironmentElsewhere, StatusStays
    <3> QED
      BY <3>1, <3>2
  <2> QED
    BY <2>1, <2>2, <2>3 DEF Next
<1>3. AllStatus => ReadyHasAddress
  BY DEF StatusInv, ReadyOf, Right, Granted, ReadyHasAddress
<1> QED
  BY <1>1, <1>2, <1>3, AddressInvariant, AddressingTypeCorrect, PTL DEF Spec

=============================================================================
