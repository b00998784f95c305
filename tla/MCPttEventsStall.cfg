\* One stream whose client may stall, one user.
CONSTANTS
  u1 = u1
  c1 = c1
  t1 = t1
  s1 = s1
  Users = {u1}
  Chans = {c1}
  Threads = {t1}
  Conns = {s1}
  Readers = {s1}
  Lists = {{c1}}
  NoThread = NoThread
  NoRequest = NoRequest
  SerialPerUser = TRUE
  BufferSize = 1
  MergedSize = 1
SPECIFICATION StallingClientsSpec
PROPERTIES
  RequestsAreAnswered
CHECK_DEADLOCK FALSE
