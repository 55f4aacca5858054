CONSTANTS
  Networks = {n1, n2}
  RetryTimes = 2
  MaxCalls = 4
  MaxLinks = 2
SPECIFICATION FairSpec
INVARIANTS ConnectSound StatusSettles AddressIsOfThisLink
PROPERTIES EveryCallReturns
CHECK_DEADLOCK FALSE
