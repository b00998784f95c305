\* Three recordings, queues of length one: both queues fill up, and the consumer can wait
\* for ChannelLock while a post waits for room.
CONSTANTS
  u1 = u1  u2 = u2  stranger = stranger
  m1 = m1  m2 = m2  m3 = m3
  i1 = i1
  w1 = w1
  Users = {u1, u2}
  Messages = {m1, m2, m3}
  SenderOf <- MCSenderOf
  Consumers = {i1}
  Workers = {w1}
  MsgCap = 1
  TaskCap = 1
SPECIFICATION StallingApnsSpec
CHECK_DEADLOCK FALSE
INVARIANTS
  VoiceTypeOK
  TasksAreConserved
PROPERTIES
  ImplementsDelivery
  PostsEnd
  TasksSettle
