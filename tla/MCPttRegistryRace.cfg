\* Requests of one user may overlap.
CONSTANTS
  u1 = u1  u2 = u2
  c1 = c1  c2 = c2
  t1 = t1  t2 = t2
  Users = {u1, u2}
  Chans = {c1, c2}
  Threads = {t1, t2}
  Readers = {}
  Lists = {{}, {c1}, {c2}, {c1, c2}}
  NoThread = NoThread
  NoRequest = NoRequest
  SerialPerUser = FALSE
SPECIFICATION RegistrySpec
SYMMETRY Symmetry
INVARIANTS
  TypeOK
  MapsAreInverse
  NoEmptyEntries
  MembersAreKnown
  ChangesAreDirty
CHECK_DEADLOCK FALSE
