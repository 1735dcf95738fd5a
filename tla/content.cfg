\* One SSD, two applets of one package, one key version, a card that may refuse.
CONSTANTS
  isd = isd
  ssd = ssd
  app1 = app1
  app2 = app2
  pkg = pkg
  ks1 = ks1
  ks2 = ks2
  Isd = isd
  Ssds = {ssd}
  Applets = {app1, app2}
  Package = pkg
  Kvns = {1}
  KeyValues = {ks1, ks2}
  NoKey = NoKey
  Garbled = Garbled
  Absent = Absent
  Refusals = {"6A88", "6982", "6985"}
  Cards <- AnyLife
  Requests <- AnyRequest
  Protocol = "SCP03"
SPECIFICATION Spec
INVARIANTS
  ReportIsTrue
  ErrorsSayWhatTheyLeave
  NoStateSkipped
  IrreversibleIsTold
CONSTRAINT Focus
SYMMETRY AppSymmetry
CHECK_DEADLOCK FALSE
