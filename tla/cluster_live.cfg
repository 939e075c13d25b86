SPECIFICATION LiveSpec
CONSTANTS
  x = x
  e1 = e1
  vip = vip
  Off = Off
  NoEp = NoEp
  AddonOrder <- OneAddon
  Manifests = {x}
  Addresses = {e1}
  VIPs = {vip}
  Faults = {"unlabel", "edit"}
INVARIANT CRSHasManifest
PROPERTIES
  EndpointPublished
  LabelRestored
  ClusterEventuallyGone
CHECK_DEADLOCK FALSE
