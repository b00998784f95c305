\* Two requests at a time about one key; two lives of the process.
CONSTANTS
  k1 = k1
  a = a  b = b
  g = g
  t1 = t1  t2 = t2
  Account = TRUE
  SignKey = TRUE
  Keys = {k1}
  FullKeys = {k1}
  Tokens = {a, b}
  Groups = {g}
  Nothing = Nothing
  Threads = {t1, t2}
  Callers <- SomeCallers
  MaxRows = 2
  MaxStarts = 2
SPECIFICATION DevicesSpec
SYMMETRY Symmetry
INVARIANTS
  DevicesTypeOK
  AnswersHold
PROPERTIES
  GroupsStay
CHECK_DEADLOCK FALSE
