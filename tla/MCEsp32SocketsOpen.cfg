CONSTANTS
  MaxSockets = 2
  MaxConns = 2
  MaxUnread = 1
  MaxLost = 0
SPECIFICATION Spec
INVARIANTS OpenReportsFailure
