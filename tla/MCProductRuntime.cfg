\* Two subscriptions that share one request id, one of which the client may
\* stop, under each of the three embedders.
CONSTANTS
  Calls = {c1, c2}
  Ids = {i1}
  Stoppable = {c1}
  MaxStarts = 1
  MaxItems = 1
  NoCall = NoCall
  Ingresses <- AllIngresses
SPECIFICATION Spec
INVARIANTS
  NoStreamOutlivesDispose
  OrderedStopReachesStream
PROPERTIES
  DisposalReleases
CHECK_DEADLOCK FALSE
