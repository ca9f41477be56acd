CONSTANTS
  v1 = v1
  v2 = v2
  Versions = {v1}
  Nothing = Nothing
  Golden = Golden
  Foreign = Foreign
  Torn = Torn
  Trees = {}
  Live = {v1, Golden}
  HeaderLength <- MCHeaderLength
  Manifests <- MCPlainManifest
  Modes = {FALSE}
  Faults = {"flash"}
SPECIFICATION Spec
INVARIANT
  StaysOnLastGood
