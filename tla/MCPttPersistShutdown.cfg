\* One user, one life: a shutdown while the ticker saves.
CONSTANTS
  u1 = u1
  c1 = c1
  t1 = t1
  Users = {u1}
  Chans = {c1}
  Threads = {t1}
  Readers = {}
  Lists = {{c1}}
  NoThread = NoThread
  NoRequest = NoRequest
  NoFile = NoFile
  SerialPerUser = TRUE
  MaxBoots = 1
SPECIFICATION PersistSpec
INVARIANTS
  ShutdownPersists
CHECK_DEADLOCK FALSE
