\* One channel, one user, one request at a time, two lives of the process.
CONSTANTS
  u1 = u1
  c1 = c1
  t1 = t1
  Users = {u1}
  Chans = {c1}
  Threads = {t1}
  Readers = {}
  Lists = {{c1}}
  NoThread = NoThread
  NoRequest = NoRequest
  NoFile = NoFile
  SerialPerUser = TRUE
  MaxBoots = 2
SPECIFICATION PersistSpec
INVARIANTS
  PersistTypeOK
  StateFileIsWhole
  ImagesAreConsistent
  ChangesWillBeSaved
CHECK_DEADLOCK FALSE
