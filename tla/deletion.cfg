SPECIFICATION LiveSpec
CONSTANTS
  p1 = p1
  p2 = p2
  os = os
  home = home
  other = other
  NoXO = NoXO
  Volumes = {p1, p2}
  SystemDisks = {os}
  XOs = {home, other}
  Home = home
  Global = other
  Faults = {"crash", "pause", "owner", "identity", "oldapi"}
INVARIANTS
  VolumesSurvive
  NoSystemDiskLeft
PROPERTIES
  CleanStop
  DeletionEnds
CHECK_DEADLOCK FALSE
