\* One stream, two users, requests of one user one after another.
CONSTANTS
  u1 = u1  u2 = u2
  c1 = c1
  t1 = t1  t2 = t2
  s1 = s1
  Users = {u1, u2}
  Chans = {c1}
  Threads = {t1, t2}
  Conns = {s1}
  Readers = {s1}
  Lists = {{c1}}
  NoThread = NoThread
  NoRequest = NoRequest
  SerialPerUser = TRUE
  BufferSize = 1
  MergedSize = 1
SPECIFICATION EventsSpec
SYMMETRY Symmetry
INVARIANTS
  EventsTypeOK
  StreamsFollowRosters
  SubscribersAreOpen
  HandlersCleanUp
CHECK_DEADLOCK FALSE
