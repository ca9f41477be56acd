CONSTANTS
  v1 = v1
  v2 = v2
  Versions = {v1}
  Nothing = Nothing
  Golden = Golden
  Foreign = Foreign
  Torn = Torn
  Trees = {v1}
  Live = {v1, Golden}
  HeaderLength <- MCHeaderLength
  Manifests <- MCOneManifest
  Modes = {FALSE}
  Faults = {"flash", "health", "fetch", "host", "crash", "power"}
SPECIFICATION FairSpec
PROPERTIES
  NoEndlessLoop
  EveryUpdateSettles
