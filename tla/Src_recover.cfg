SPECIFICATION OnlineSpec
CONSTANTS
  r1 = r1  r2 = r2  c1 = c1  c2 = c2
  f1 = f1  f2 = f2  f3 = f3
  Cluster = Cluster  NoFetch = NoFetch  Closed = Closed
  NoRef = NoRef  Nobody = Nobody  Background = Background
  Refs = {r1, r2}
  Puts = {}
  Clients = {c1, c2}
  Fetches = {f1, f2}
  Ops = {"poll", "generate", "delete", "cluster"}
  Timeouts = TRUE
  LocalFaults = TRUE
  Unparsable = {}
  CachedAtStart = {}
  DocsAtStart <- Declared
INVARIANT TypeOK
PROPERTY SourcesRecover
