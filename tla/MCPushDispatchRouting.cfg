\* A request for a phone of Apple and one of Huawei.
CONSTANTS
  Threads = {"t1", "t2", "t3"}
  KeyLength <- MCKeyLength
  Table <- MCTable
  Scenarios <- MCScenarios
  MaxKeys = 2
  Clients = 1
  CacheAge = 1
  MaxClock = 4
SPECIFICATION DispatchSpec
INVARIANT
  HuaweiDevicesStayOffApns
CHECK_DEADLOCK FALSE
