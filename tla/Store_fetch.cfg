SPECIFICATION Spec
CONSTANTS
  t1 = t1  t2 = t2  t3 = t3
  serve = serve  cli = cli
  r1 = r1  r2 = r2  d1 = d1  d2 = d2
  Absent = Absent  NoThread = NoThread
  Threads = {t1, t2, t3}
  Procs = {serve}
  ProcOf <- OneProc
  Server = serve
  Refs = {r1, r2}
  Digests = {d1, d2}
  Upstream <- MovingTag
  WrongKind = {}
  Ops = {"fetch"}
  OnePerRef = {"fetch"}
  WriteFaults = TRUE
  MaxCrashes = 2
SYMMETRY Symm
INVARIANT CachedIsPinned CacheMatchesPin
PROPERTY PinsSurvive KeepsPromise
