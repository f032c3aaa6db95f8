CONSTANTS
  m = m
  h1 = h1
  p1 = p1
  p2 = p2
  k1 = k1
  k2 = k2
  Main = m
  Handlers = {h1}
  Callers = {m, h1}
  Posts = {p1, p2}
  Records = {p1, p2, h1}
  KeyPairs = {k1, k2}
  Configs <- MCConfigs
  DiskFails = TRUE
  NoKey = NoKey
  NoFile = NoFile
  Nobody = Nobody
SPECIFICATION Spec
INVARIANTS TypeOK AckedIsDurable IdentityStable QuietAfterSignal
PROPERTIES FileLoads AtomicSave CleanExit PassesEnd StopsWhenTold
