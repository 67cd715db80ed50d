CONSTANTS
  w = w
  a = a
  b = b
  d = d
  full = full
  lite = lite
  Former = Former
  WalletSso = WalletSso
  Stranger = Stranger
  Loop = Loop
  None = None
  Wallets = {w}
  Products = {a, b}
  Peers = {d}
  Collections <- TwoCollections
  Budget <- OneEach
  Kept <- Promises
  Occupied <- FirstSlot
  Policies = {TRUE}
  Allocations = {allocation}
  Trackers = {tracker}
  Passes = {}
  MaxRuns = 1
  MaxSwitches = 2
  MaxFaults = 1
SPECIFICATION Spec
INVARIANTS
  PromisesKept
  NobodyRaces
PROPERTIES
  TargetsAreRenewed
CHECK_DEADLOCK FALSE
