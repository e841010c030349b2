SPECIFICATION FairSpec
CONSTANTS
  t1 = t1  t2 = t2  t3 = t3
  serve = serve  cli = cli
  r1 = r1  r2 = r2  d1 = d1  d2 = d2
  Absent = Absent  NoThread = NoThread
  Threads = {t1, t2, t3}
  Procs = {serve, cli}
  ProcOf <- WithCli
  Server = serve
  Refs = {r1}
  Digests = {d1}
  Upstream <- FixedTags
  WrongKind = {r1}
  Ops = {"fetch", "add", "evict", "cliAdd"}
  OnePerRef = {}
  WriteFaults = TRUE
  MaxCrashes = 0
INVARIANT TypeOK
PROPERTY OperationsEnd
