CONSTANTS
  v1 = v1
  v2 = v2
  Versions = {v1}
  Nothing = Nothing
  Golden = Golden
  Foreign = Foreign
  Torn = Torn
  Trees = {}
  Live = {v1, Golden, Foreign}
  HeaderLength <- MCHeaderLength
  Manifests <- MCOddManifests
  Modes = {TRUE, FALSE}
  Faults = {"store", "corrupt", "fetch", "gate", "read", "clock", "ide", "crash", "state_loss"}
SPECIFICATION Spec
INVARIANTS
  OnlyVerifiedIsFlashed
  CandidatesAreProven
PROPERTIES
  UnsignedIsHarmless
  RolledBackIsTrue
