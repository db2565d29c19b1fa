\* Two clients of one channel name; a line each in the connection; a buffer
\* that is full before the clients are done.
SPECIFICATION Spec
CONSTANTS
  Clients = {c1, c2}
  Publishes = 2
  Wire = 1
  DEPTH = 1
CHECK_DEADLOCK FALSE
INVARIANTS
  NeverStale
  SentIsStored
PROPERTIES
  Delivered
  ClientStops
