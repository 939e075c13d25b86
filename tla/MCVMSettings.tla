---------------------------- MODULE MCVMSettings ----------------------------
\* Instances of VMSettings for TLC.
EXTENDS VMSettings

CONSTANTS base, t1, t2, k1, k2, n1, n2

MCBaseTags == <<base>>
MCTagLists == {<<>>, <<t2, base, t1>>}

Drive(name, os, bootable, cd, config, pos, dev, size) ==
    [ name |-> name, os |-> os, bootable |-> bootable, cd |-> cd, config |-> config,
      pos |-> pos, dev |-> dev, size |-> size ]

Config(pos, dev) == Drive("config", FALSE, FALSE, FALSE, TRUE, pos, dev, 1)
CD(pos, dev) == Drive("cd", FALSE, TRUE, TRUE, FALSE, pos, dev, 0)
OS(bootable, pos, dev) == Drive("os", TRUE, bootable, FALSE, FALSE, pos, dev, 2)
Data(pos, dev) == Drive("data", FALSE, FALSE, FALSE, FALSE, pos, dev, 1)

\* Templates with at most one bootable disk of their own; without one the system
\* disk comes first by position or, among equals, by device.
Layouts == { {OS(TRUE, 0, 0)}, {OS(FALSE, -1, 0)},
             {OS(TRUE, 1, 1), Data(0, 0), Config(2, 2)},
             {OS(TRUE, -1, 2), Data(0, 0), CD(3, 3)},
             {OS(FALSE, 0, 1), Data(1, 0), Config(-1, 2)},
             {OS(FALSE, 2, 1), Data(-1, 0), Config(0, 2), CD(1, 3)},
             {OS(FALSE, -1, 0), Data(-1, 1), Config(0, 2)} }

Plain == [ format |-> "cloudinit", controlPlane |-> FALSE, lb |-> "none", inject |-> FALSE,
           sshKeys |-> <<>>, doc |-> Document("map", <<>>, "list", <<"kubeadm">>),
           guest |-> FALSE, sized |-> FALSE, size |-> 0, disks |-> {OS(TRUE, 0, 0)},
           tags |-> <<>>, networks |-> {} ]

Commands(n) == UNION {[1..k -> {"kubeadm", "argv", "other"}] : k \in 0..n}
Documents ==
    {NoDocument, Document("comment", <<>>, "none", <<>>), Document("broken", <<>>, "none", <<>>)}
    \cup {Document("map", keys, "none", <<>>) : keys \in {<<>>, <<k1>>}}
    \cup {Document("map", <<>>, "list", cmds) : cmds \in Commands(3)}
    \cup {Document("map", <<k1>>, "list", cmds) : cmds \in Commands(1)}

Payload(format, doc, controlPlane, sshKeys) ==
    [Plain EXCEPT !.format = format, !.doc = doc, !.inject = sshKeys # <<>>, !.sshKeys = sshKeys,
                  !.controlPlane = controlPlane, !.lb = "kube-vip"]

\* Every payload on machines with nothing else to set.
PayloadInputs ==
    {Payload("cloudinit", d, TRUE, s) : d \in Documents, s \in {<<>>, <<k1, k2>>}}
    \cup {Payload(f, d, f = "passthrough", <<k1, k2>>) : d \in Documents, f \in {"cloudinit", "passthrough"}}

\* Every disk layout, sizes on both sides of the template's, networks and tags.
DiskInputs ==
    {[Plain EXCEPT !.sized = TRUE, !.size = z, !.disks = d, !.networks = n, !.tags = <<t2>>] :
        z \in {1, 3}, d \in Layouts, n \in {{}, {n1, n2}}}

MCInputs == PayloadInputs \cup DiskInputs

\* What the theorems about disks and keys ask of the inputs.
ASSUME KnownInputs == SystemDiskKnown /\ KeysDistinct
=============================================================================
