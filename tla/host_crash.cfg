CONSTANTS
  t1 = t1
  t2 = t2
  t3 = t3
  Trees = {t1, t2, t3}
  Nothing = Nothing
  Torn = Torn
  HostFaults = {"crash"}
SPECIFICATION HostSpec
INVARIANT
  CrashLeavesATree
