\* A TCP client's data goes to two WebSocket clients that come and go for
\* ever.  A stop comes at any time.
SPECIFICATION Spec
CONSTANTS
  TcpClients = {t1}
  WsClients = {w1, w2}
  Loop = loop
  NoOutput = none
  ROOM = 2
  Rooms = {2}
CHECK_DEADLOCK FALSE
PROPERTIES
  TelemetryIsHub
  DaemonEnds
