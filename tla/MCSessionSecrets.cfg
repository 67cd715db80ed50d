CONSTANTS
  a = a
  b = b
  c = c
  s1 = s1
  s2 = s2
  p1 = p1
  p2 = p2
  Tasks <- Three
  Sessions = {s1, s2}
  Products = {p1, p2}
  Nobody = Nobody
  Owner <- TwoWallets
  Casts <- Meetings
  Faulty = TRUE
SPECIFICATION Spec
INVARIANTS
  MemoryIsTheSessions
  NothingOutlivesItsFence
PROPERTIES
  EverybodyGetsThere
CHECK_DEADLOCK FALSE
