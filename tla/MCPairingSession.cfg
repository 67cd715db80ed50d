\* Two logins, one of which may be dropped, a session of the host's own, a
\* logout, and one reported change of the store.
CONSTANTS
  l1 = l1
  l2 = l2
  x = x
  out = out
  boot = boot
  sync = sync
  peer = peer
  LoginCasts <- SmallCasts
  Logins = {l1, l2}
  Externals = {x}
  Logouts = {out}
  Boot = boot
  Sync = sync
  Peer = peer
  Droppable = {l1}
  MaxChanges = 1
  Old = old
  NoSession = NoSession
  Corrupt = Corrupt
  Failed = Failed
  NoLogin = NoLogin
  NoTask = NoTask
SPECIFICATION PairingSpec
INVARIANTS
  OneLoginForAll
PROPERTIES
  LoggedOutStaysOut
  SyncSparesExternal
  EverythingSettles
CHECK_DEADLOCK FALSE
