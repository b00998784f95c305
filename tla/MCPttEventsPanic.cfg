\* Two streams on one channel, one user: a broadcast with two targets.
CONSTANTS
  u1 = u1
  c1 = c1
  t1 = t1
  s1 = s1  s2 = s2
  Users = {u1}
  Chans = {c1}
  Threads = {t1}
  Conns = {s1, s2}
  Readers = {s1, s2}
  Lists = {{c1}}
  NoThread = NoThread
  NoRequest = NoRequest
  SerialPerUser = TRUE
  BufferSize = 1
  MergedSize = 1
SPECIFICATION EventsSpec
INVARIANTS
  BroadcastOffersToAll
CHECK_DEADLOCK FALSE
