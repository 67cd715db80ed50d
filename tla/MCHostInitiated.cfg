\* Two renderings, one of up to two trees, and room for one start that waits.
CONSTANTS
  r1 = r1
  r2 = r2
  Renders = {r1, r2}
  MaxTrees <- TwoTrees
  Capacity = 1
  Modes <- AllModes
SPECIFICATION RenderSpec
INVARIANTS
  SidesAgree
  ObserversKnow
PROPERTIES
  EndsReachTheOtherSide
CHECK_DEADLOCK FALSE
