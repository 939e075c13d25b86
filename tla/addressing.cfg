SPECIFICATION LiveSpec
CONSTANTS
  a = a
  b = b
  i1 = i1
  l1 = l1
  l2 = l2
  Names = {a, b}
  MaxGen = 2
  Addresses = {i1}
  Leases = {l1, l2}
  LinkLocal = LinkLocal
  NoAddr = NoAddr
  Fleets <- Competing
  Faults = {"crash", "reboot"}
INVARIANTS
  NoSharedAddress
  ClaimHeld
  ReadyHasAddress
PROPERTIES
  AddressFollowed
  WaiterServed
CHECK_DEADLOCK FALSE
