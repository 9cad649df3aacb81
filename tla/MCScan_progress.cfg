\* Progress of overlapping scans and status probes at two readers; no symmetry, which
\* liveness forbids.
SPECIFICATION FairSpec
CONSTANTS
  Threads = {t1, t2}
  Readers = {r1, r2}
  Cards = {c1}
  Parts = 1
  Handlers = {"scan", "status"}
  NoThread = NoThread
  NoReader = NoReader
  NoCard = NoCard
  Malformed = Malformed
INVARIANTS
  NobodyWaits
PROPERTIES
  ImplementsContract
  ImplementsProgress
