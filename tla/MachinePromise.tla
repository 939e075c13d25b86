--------------------------- MODULE MachinePromise ---------------------------
(***************************************************************************)
(* What the provider promises of a machine and its virtual machine, with   *)
(* the work left out: one VM is made for a machine and no other, it is     *)
(* recorded once, it is destroyed only when the machine is being deleted   *)
(* and the record says which VM to destroy, and the machine goes after it. *)
(*                                                                         *)
(* MachineLifecycle implements it when VM lists can be trusted.            *)
(*                                                                         *)
(* Release also lets go of a machine with no record, VM or not: what the   *)
(* code does, see GoneLeavesNoVM in MachineLifecycle.                      *)
(***************************************************************************)

CONSTANTS
    Machines,
    Vms,
    NoVm

VARIABLES
    phase, \* "wanted", "deleting" or "gone"
    made,  \* the VMs ever made for a machine
    alive, \* those that exist
    told,  \* the recorded VM
    ready  \* "yes" once the machine was reported Ready

vars == <<phase, made, alive, told, ready>>

Init ==
    /\ phase \in [Machines -> {"wanted", "deleting"}]
    /\ made \in [Machines -> {{}} \cup {{v} : v \in Vms}]
    /\ alive \in [Machines -> {{}} \cup {{v} : v \in Vms}]
    /\ told \in [Machines -> Vms \cup {NoVm}]
    /\ ready \in [Machines -> {"no", "yes"}]
    /\ \A m \in Machines :
          /\ alive[m] \subseteq made[m]
          /\ made[m] = IF told[m] = NoVm THEN {} ELSE {told[m]}
          /\ ready[m] = "yes" => told[m] # NoVm

Make(m, v) ==
    /\ phase[m] # "gone"
    /\ made[m] = {}
    /\ \A o \in Machines : v \notin made[o]
    /\ made' = [made EXCEPT ![m] = {v}]
    /\ alive' = [alive EXCEPT ![m] = {v}]
    /\ UNCHANGED <<phase, told, ready>>

Record(m, v) ==
    /\ phase[m] # "gone"
    /\ told[m] = NoVm /\ alive[m] = {v}
    /\ told' = [told EXCEPT ![m] = v]
    /\ UNCHANGED <<phase, made, alive, ready>>

MakeReady(m) ==
    /\ phase[m] # "gone"
    /\ told[m] \in alive[m]
    /\ ready' = [ready EXCEPT ![m] = "yes"]
    /\ UNCHANGED <<phase, made, alive, told>>

\* Deleted before the provider took hold of it, a machine goes at once.
RequestDelete(m) ==
    /\ phase[m] = "wanted"
    /\ \/ phase' = [phase EXCEPT ![m] = "deleting"]
       \/ made[m] = {} /\ phase' = [phase EXCEPT ![m] = "gone"]
    /\ UNCHANGED <<made, alive, told, ready>>

Destroy(m) ==
    /\ phase[m] = "deleting"
    /\ told[m] # NoVm
    /\ alive' = [alive EXCEPT ![m] = {}]
    /\ UNCHANGED <<phase, made, told, ready>>

Release(m) ==
    /\ phase[m] = "deleting"
    /\ told[m] = NoVm \/ alive[m] = {}
    /\ phase' = [phase EXCEPT ![m] = "gone"]
    /\ UNCHANGED <<made, alive, told, ready>>

Next ==
    \E m \in Machines :
       \/ \E v \in Vms : Make(m, v) \/ Record(m, v)
       \/ MakeReady(m) \/ RequestDelete(m) \/ Destroy(m) \/ Release(m)

Spec == Init /\ [][Next]_vars

=============================================================================
