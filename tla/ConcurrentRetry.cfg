\* A retry that runs beside its original.
SPECIFICATION Spec
CONSTANTS
  Requests = {r1, r2}
  NoRequest = NoRequest
  w1 = w1
  w2 = w2
  w3 = w3
  u1 = u1
  u2 = u2
  k1 = k1
  k2 = k2
  EUR = EUR
  USD = USD
  Wallets = {w1, w2}
  NoWallet = NoWallet
  Users = {u1, u2}
  Owner <- MCOwner
  Currency <- OneCurrency
  Ids = {"a", "b"}
  WalletOf <- MCWalletOf
  IdRank <- MCIdRank
  Refs = {k1}
  BlankRef = Blank
  NoRef = NoRef
  Menu <- Retried
  Opening <- OnlyFirst
  StatusChanges = {}
  MaxBalance = 9
  Faults = FALSE
PROPERTY DuplicateToldAsDuplicate
