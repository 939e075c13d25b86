SPECIFICATION LiveSpec
CONSTANTS
  x = x
  e1 = e1
  vip = vip
  Off = Off
  NoEp = NoEp
  AddonOrder <- OneAddon
  Manifests = {x}
  Addresses = {e1}
  VIPs = {vip}
  Faults = {"crash", "lag"}
INVARIANT AddonsComeLast
PROPERTIES
  UsersEndpointWins
  ReadyStays
  AddonsDelivered
  AddonsFollowSpec
CHECK_DEADLOCK FALSE
