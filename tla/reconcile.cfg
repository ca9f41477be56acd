CONSTANTS
  v1 = v1
  v2 = v2
  Versions = {v1, v2}
  Nothing = Nothing
  Golden = Golden
  Foreign = Foreign
  Live = {v1, Golden}
  HeaderLength <- MCHeaderLength
  Faults = {"flash", "health", "read"}
SPECIFICATION FairReconcileSpec
CHECK_DEADLOCK FALSE
INVARIANTS
  ReconcileTypeOK
  NeverLeftDead
  HealthyIsTrue
  NamesTheImage
  RestoresNewest
PROPERTIES
  SparesTheLiving
  RecoveryEnds
