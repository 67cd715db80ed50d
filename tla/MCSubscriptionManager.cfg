\* Two dispatches of `_start` over two reusable request ids.  No symmetry:
\* it is unsound for liveness.
CONSTANTS
  Calls = {c1, c2}
  Ids = {i1, i2}
  MaxItems = 2
  NoCall = NoCall
SPECIFICATION FairSpec
INVARIANTS
  NoUnstoppableStream
  NewestReservationWins
  StopIsFinal
  OneLateFrame
  NoSilentEnd
PROPERTIES
  KeepsContract
CHECK_DEADLOCK FALSE
