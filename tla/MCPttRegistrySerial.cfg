\* Requests of one user follow one another.
CONSTANTS
  u1 = u1  u2 = u2
  c1 = c1  c2 = c2
  r1 = r1
  t1 = t1  t2 = t2
  Users = {u1, u2}
  Chans = {c1, c2}
  Threads = {t1, t2}
  Readers = {r1}
  Lists = {{c1}, {c1, c2}}
  NoThread = NoThread
  NoRequest = NoRequest
  SerialPerUser = TRUE
SPECIFICATION FairRegistrySpec
INVARIANTS
  ConnectSettles
PROPERTIES
  ImplementsMembership
  EveryRequestEnds
CHECK_DEADLOCK FALSE
