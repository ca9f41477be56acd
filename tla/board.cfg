CONSTANTS
  v1 = v1
  v2 = v2
  Versions = {v1, v2}
  Nothing = Nothing
  Golden = Golden
  Foreign = Foreign
  Torn = Torn
  Trees = {v2}
  Live = {v1, v2, Golden}
  HeaderLength <- MCHeaderLength
  Manifests <- MCManifests
  Modes = {FALSE}
  Faults = {"flash", "health", "crash", "power", "host"}
SPECIFICATION Spec
INVARIANTS
  TypeOK
  FlashBudget
  CandidatesAreProven
  WriteAhead
  NeverBricked
PROPERTIES
  RolledBackIsTrue
  CommitAgrees
  KeepsLedger
