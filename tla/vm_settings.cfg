SPECIFICATION LiveSpec
CONSTANTS
  base = base
  t1 = t1
  t2 = t2
  k1 = k1
  k2 = k2
  n1 = n1
  n2 = n2
  Inputs <- MCInputs
  BaseTags <- MCBaseTags
  TagLists <- MCTagLists
  Faults = {"crash"}
INVARIANTS
  TypeOK
  OnlySystemDisk
  SettingsNotForgotten
  KubeVIPPlaced
  PayloadKept
  ReadyConnected
PROPERTY TagsFollow
CHECK_DEADLOCK FALSE
