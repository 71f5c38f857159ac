\* Three requests around rings of wallets, with shared references; handlers are
\* resumed and locks granted, failures are possible and never needed.
SPECIFICATION FairSpec
CONSTANTS
  Requests = {r1, r2, r3}
  NoRequest = NoRequest
  w1 = w1
  w2 = w2
  w3 = w3
  u1 = u1
  u2 = u2
  k1 = k1
  k2 = k2
  EUR = EUR
  USD = USD
  Wallets = {w1, w2, w3}
  NoWallet = NoWallet
  Users = {u1, u2}
  Owner <- MCOwner
  Currency <- OneCurrency
  Ids = {"a", "b", "c"}
  WalletOf <- MCWalletOf
  IdRank <- MCIdRank
  Refs = {k1, k2}
  BlankRef = Blank
  NoRef = NoRef
  Menu <- Rings
  Opening <- Ones
  StatusChanges = {}
  MaxBalance = 9
  Faults = TRUE
INVARIANTS
  NoWaitCycle
PROPERTIES
  EveryRequestAnswered
