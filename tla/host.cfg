CONSTANTS
  t1 = t1
  t2 = t2
  t3 = t3
  Trees = {t1, t2, t3}
  Nothing = Nothing
  Torn = Torn
  HostFaults = {"extract", "disk", "health", "crash"}
SPECIFICATION HostSpec
INVARIANTS
  HostTypeOK
  AddsUp
  UndoRestores
  AncestorSurvives
  LiveIsNeverTorn
