SPECIFICATION FairSpec
CONSTANTS
  x = x
  pre = pre
  post = post
  a = a
  n = n
  v1 = v1
  v2 = v2
  g1 = g1
  g2 = g2
  ext = ext
  Drivers = {x, pre, post, a, n}
  Volumes = {v1, v2}
  FileName <- Name
  Fv <- TwoVolumes
  Apriori <- AprioriOfTwo
  DepexSection <- Sections
  Guided = {post}
  ExtractionGuid = ext
  ArchProtocols = {ext}
  Protocols = {g1, ext}
  Removable = {g1}
  LoadStatus = {"SUCCESS", "SECURITY_VIOLATION", "ACCESS_DENIED"}
INVARIANTS TypeOK DriversLinkedOnce DependencyMet
PROPERTIES TiedInserted ExitsWhenDone NoDriverWaitsForEver
