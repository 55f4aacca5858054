CONSTANTS
  Commands = {"GET_TEMPERATURE", "GET_CONN_STATUS"}
  FifoDepth = 8
  MaxTransfers = 2
SPECIFICATION FairSpec
PROPERTIES TemperatureAnswered
