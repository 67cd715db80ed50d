\* Two follows under ids of their own, one with runtime metadata, and a call of
\* the runtime; a follow and another request; two broadcasts with two stops; or
\* users of the client or a follow with some of them; and a connection that may
\* fail once.
CONSTANTS
  s1 = s1
  s2 = s2
  q1 = q1
  q2 = q2
  b1 = b1
  b2 = b2
  x1 = x1
  x2 = x2
  u1 = u1
  u2 = u2
  Streams = {s1, s2}
  Broadcasts = {b1, b2}
  Stops = {x1, x2}
  Users = {u1, u2}
  Others = {b1, b2, x1, x2, u1, u2}
  Casts <- Companies
  Astray = {x2}
  MaxTracked = 1
  Requests = {q1, q2}
  WithRuntime = {s1}
  RuntimeCalls = {q1}
  Aliases = {"a"}
  Asked = {"i1", "a"}
  Droppable = {s1}
  IdOf <- OwnIds
  MaxConns = 2
  NoStream = NoStream
  NoName = NoName
  ChainModes <- AllModes
SPECIFICATION CallersSpec
INVARIANTS
  SharedStateIsExact
  RequestsAwaitSetupInTurns
PROPERTIES
  EverythingSettles
CHECK_DEADLOCK FALSE
