CONSTANTS
  Commands = {"GET_CONN_STATUS", "GET_IP_ADDR", "SET_SSID_AND_PASS", "START_SOCKET_CLIENT"}
  FifoDepth = 3
  MaxTransfers = 5
SPECIFICATION FairSpec
INVARIANTS HandshakeSound AnswerIsOwn
PROPERTIES ImplementsRemoteCall FastCommandAnswered EveryTransferReturns
