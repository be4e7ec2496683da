CONSTANTS
  KeychainCallers = {k1, k2, k3}
  Operations = {"get", "set"}
  QueueCapacity = 2
  MaxRequests = 4
  MaxOutside = 0
  MaxSteps = 4
SPECIFICATION BrokerSpec
INVARIANT ReadsInOrder
CHECK_DEADLOCK FALSE
