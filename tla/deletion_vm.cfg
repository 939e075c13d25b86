SPECIFICATION Spec
CONSTANTS
  p1 = p1
  p2 = p2
  os = os
  home = home
  other = other
  NoXO = NoXO
  Volumes = {p1, p2}
  SystemDisks = {os}
  XOs = {home, other}
  Home = home
  Global = home
  Faults = {"crash", "csi", "pause", "resume", "owner"}
INVARIANT ObjectOutlivesVM
CHECK_DEADLOCK FALSE
