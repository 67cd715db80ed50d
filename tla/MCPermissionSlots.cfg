CONSTANTS
  a = a
  b = b
  c = c
  x = x
  y = y
  w = w
  Tasks <- Three
  Patterns = {x, y, w}
  Candidates <- Covers
  After <- Unordered
  Casts <- Meetings
SPECIFICATION Spec
INVARIANTS
  DecisionsAreTheUsers
  PromptsOnce
CHECK_DEADLOCK FALSE
