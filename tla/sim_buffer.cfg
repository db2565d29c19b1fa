\* One client, which the server's buffer never drops an item of.
SPECIFICATION Spec
CONSTANTS
  Clients = {c1}
  Publishes = 2
  Wire = 1
  DEPTH = 2
CHECK_DEADLOCK FALSE
INVARIANTS
  StoresLatest
