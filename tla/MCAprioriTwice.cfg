\* An a priori driver whose dependency expression could not be read when it was found.
SPECIFICATION Spec
CONSTANTS
  x = x
  pre = pre
  post = post
  a = a
  n = n
  v1 = v1
  v2 = v2
  g1 = g1
  g2 = g2
  ext = ext
  Drivers = {a}
  Volumes = {v1}
  FileName <- Name
  Fv <- OneVolume
  Apriori <- AprioriOfOne
  DepexSection <- Sections
  Guided = {a}
  ExtractionGuid = ext
  ArchProtocols = {}
  Protocols = {g1, ext}
  Removable = {}
  LoadStatus = {"SUCCESS", "ACCESS_DENIED"}
INVARIANT InitializedIsFinal
