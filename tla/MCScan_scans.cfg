\* Three overlapping scans at two readers whose indices shift, two cards that staff swap on them.
SPECIFICATION Spec
CONSTANTS
  Threads = {t1, t2, t3}
  Readers = {r1, r2}
  Cards = {c1, c2}
  Parts = 1
  Handlers = {"scan"}
  NoThread = NoThread
  NoReader = NoReader
  NoCard = NoCard
  Malformed = Malformed
SYMMETRY Symmetry
INVARIANTS
  LockHeldExactlyWhileReading
  ReplyMatchesRequest
PROPERTIES
  OnlyHandsEndASession
