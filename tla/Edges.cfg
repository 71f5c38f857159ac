\* Two requests out of every one the service must refuse, and accounts that
\* overflow, on wallets of two owners and two currencies.
SPECIFICATION Spec
CONSTANTS
  Requests = {r1, r2}
  NoRequest = NoRequest
  w1 = w1
  w2 = w2
  w3 = w3
  u1 = u1
  u2 = u2
  k1 = k1
  k2 = k2
  EUR = EUR
  USD = USD
  Wallets = {w1, w2, w3}
  NoWallet = NoWallet
  Users = {u1, u2}
  Owner <- MCOwner
  Currency <- TwoCurrencies
  Ids = {"a", "A", "b", "c", "x"}
  WalletOf <- MCWalletOf
  IdRank <- MCIdRank
  Refs = {k1, Blank}
  BlankRef = Blank
  NoRef = NoRef
  Menu <- Edges
  Opening <- Twos
  StatusChanges = {"CLOSED", "ACTIVE"}
  MaxBalance = 3
  Faults = FALSE
SYMMETRY Interchangeable
INVARIANTS
  BooksInv
  TransferAllOrNothing
  MovesAreAuthorised
PROPERTY
  MovesAsTheApiSays
