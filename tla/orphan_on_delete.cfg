SPECIFICATION Spec
CONSTANTS
  m1 = m1
  v1 = v1
  v2 = v2
  v3 = v3
  n1 = n1
  n2 = n2
  NoVm = NoVm
  NoName = NoName
  Foreign = Foreign
  Machines = {m1}
  Vms = {v1}
  ForeignVms = {}
  Names = {n1}
  Upgraded = {}
  Faults = {}
INVARIANT GoneLeavesNoVM
CHECK_DEADLOCK FALSE
