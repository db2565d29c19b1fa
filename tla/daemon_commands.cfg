\* A WebSocket client's commands go to two TCP clients that come and go for
\* ever.  A stop comes at any time.
SPECIFICATION Spec
CONSTANTS
  TcpClients = {t1, t2}
  WsClients = {w1}
  Loop = loop
  NoOutput = none
  ROOM = 2
  Rooms = {2}
CHECK_DEADLOCK FALSE
INVARIANTS
  OutputsOwned
  StoppedIsStopped
PROPERTY
  CommandIsHub
