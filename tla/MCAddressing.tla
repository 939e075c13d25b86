---------------------------- MODULE MCAddressing ----------------------------
\* Instances of Addressing for TLC.
EXTENDS Addressing

CONSTANTS a, b, i1, l1, l2

Nobody == [New(MaxGen, "dhcp") EXCEPT !.life = "gone"]

\* Two machines that compete for the pool, one that can be replaced, or one on DHCP.
Competing ==
    { [n \in Names |-> New(MaxGen, "pool")],
      [n \in Names |-> IF n = a THEN New(1, "pool") ELSE Nobody],
      [n \in Names |-> IF n = a THEN New(MaxGen, "dhcp") ELSE Nobody] }

\* Two machines of a pool.
Pooled == {[n \in Names |-> New(1, "pool")]}
=============================================================================
