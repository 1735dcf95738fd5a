\* The two programs in turn on one card, three faults anywhere.
CONSTANTS
  isd = isd
  ssd = ssd
  app = app
  pkg = pkg
  own = own
  ks1 = ks1
  ks2 = ks2
  Isd = isd
  Ssds = {ssd}
  Applets = {app}
  Package = pkg
  Kvns = {48, 49, 50, 51, 255}
  KeyValues = {own, ks1, ks2}
  NoKey = NoKey
  Garbled = Garbled
  Absent = Absent
  Refusals = {}
  Cards <- FactoryCards
  Requests = {}
  Protocol = "SCP03"
  App = app
  Ssd = ssd
  IsdKeys = own
  Ks1 = ks1
  Ks2 = ks2
  Configured = {0, 48}
  MaxFaults = 3
SPECIFICATION DemoSpec
INVARIANTS
  DemoTypeOK
  NeverLockedOut
  ActiveKeysetKept
  CleanKeys
PROPERTY KeysComeBack
CHECK_DEADLOCK FALSE
