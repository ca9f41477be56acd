CONSTANTS
  v1 = v1
  v2 = v2
  Versions = {v1, v2}
  Nothing = Nothing
  Golden = Golden
  Foreign = Foreign
  Torn = Torn
  Trees = {}
  Live = {v1, v2, Golden}
  HeaderLength <- MCHeaderLength
  Manifests <- MCManifests
  Modes = {FALSE}
  Faults = {}
SPECIFICATION SharedSpec
INVARIANT
  VerifiedBeforeTouched
