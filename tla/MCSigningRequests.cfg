CONSTANTS
  a = a
  b = b
  c = c
  w1 = w1
  w2 = w2
  p1 = p1
  p2 = p2
  Requests <- Three
  Wallets = {w1, w2}
  Products = {p1, p2}
  NoWallet = NoWallet
  NoSnapshot = NoSnapshot
  Nothing = Nothing
  ProductOf <- ByProduct
  Casts <- Plays
  MaxGeneration = 3
SPECIFICATION Spec
INVARIANTS
  GrantsAreTheWallets
  NothingUnapproved
PROPERTIES
  FencedWorkGrantsNothing
  CallsEnd
CHECK_DEADLOCK FALSE
