\* A page that may connect twice (pages do not affect each other), and a
\* manifest sent twice: the page may come before, among and after its lines.
SPECIFICATION Spec
CONSTANTS
  Pages = {p1}
  Channels = 3
  Rounds = 2
  Joins = 2
  Backlog = 3
CHECK_DEADLOCK FALSE
INVARIANTS
  NoHoleThrows
  PagesKnow
  HookedOnce
PROPERTIES
  ClosedIsShown
