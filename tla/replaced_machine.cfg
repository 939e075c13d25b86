SPECIFICATION Spec
CONSTANTS
  a = a
  b = b
  i1 = i1
  l1 = l1
  l2 = l2
  Names = {a, b}
  MaxGen = 2
  Addresses = {i1}
  Leases = {l1, l2}
  LinkLocal = LinkLocal
  NoAddr = NoAddr
  Fleets <- Pooled
  Faults = {"reuse"}
INVARIANT ClaimHeld
CHECK_DEADLOCK FALSE
