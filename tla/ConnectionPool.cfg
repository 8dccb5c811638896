\* Two callers, an expiring connection and one invalidation, with aclose at any point.
CONSTANTS
  Callers = {p, q}
  Closer = closer
  MaxConns = 3
  MaxInvalidates = 1
  MayExpire = TRUE
SPECIFICATION Spec
INVARIANTS OneUser KeptAreOpen NoQuietLeak AcloseClosesAll
CHECK_DEADLOCK FALSE
