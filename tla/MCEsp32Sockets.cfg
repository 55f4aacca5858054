CONSTANTS
  MaxSockets = 2
  MaxConns = 3
  MaxUnread = 1
  MaxLost = 2
SPECIFICATION FairSpec
INVARIANTS FdsOwned SlotsAccountedFor HandleKeepsItsConnection
PROPERTIES  GoneIsNoticed
