\* GET /status?check_card=true arriving while a scan is in its card session.
SPECIFICATION Spec
CONSTANTS
  Threads = {t1, t2}
  Readers = {r1}
  Cards = {c1}
  Parts = 1
  Handlers = {"scan", "status"}
  NoThread = NoThread
  NoReader = NoReader
  NoCard = NoCard
  Malformed = Malformed
INVARIANTS
  SoleConnection
