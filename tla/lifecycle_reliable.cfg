SPECIFICATION LiveSpec
CONSTANTS
  m1 = m1
  v1 = v1
  v2 = v2
  v3 = v3
  n1 = n1
  n2 = n2
  NoVm = NoVm
  NoName = NoName
  Foreign = Foreign
  Machines = {m1}
  Vms = {v1, v2, v3}
  ForeignVms = {v1}
  Names = {n1, n2}
  Upgraded = {m1}
  Faults = {"crash", "touch"}
INVARIANTS
  AtMostOneVM
  RecordedVMDestroyed
  StatusFollowsSpec
  ReadyMachineRuns
PROPERTIES
  ProviderIDNeverChanges
  KeepsPromise
  EventuallyReady
  EventuallyGone
CHECK_DEADLOCK FALSE
