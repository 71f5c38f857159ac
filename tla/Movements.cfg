\* Three concurrent requests on two wallets, with failures anywhere and an
\* operator who freezes and closes wallets.
SPECIFICATION Spec
CONSTANTS
  Requests = {r1, r2, r3}
  NoRequest = NoRequest
  w1 = w1
  w2 = w2
  w3 = w3
  u1 = u1
  u2 = u2
  k1 = k1
  k2 = k2
  EUR = EUR
  USD = USD
  Wallets = {w1, w2}
  NoWallet = NoWallet
  Users = {u1, u2}
  Owner <- MCOwner
  Currency <- OneCurrency
  Ids = {"a", "b"}
  WalletOf <- MCWalletOf
  IdRank <- MCIdRank
  Refs = {k1}
  BlankRef = Blank
  NoRef = NoRef
  Menu <- Movements
  Opening <- OnlyFirst
  StatusChanges = {"FROZEN"}
  MaxBalance = 9
  Faults = TRUE
SYMMETRY Interchangeable
INVARIANTS
  LedgerExplainsBalance
  NeverNegative
  FundsConserved
  TransferAllOrNothing
  OneEffectPerReference
  AnswersAreTrue
PROPERTIES
  OneRequestPerCommit
  RetriesAreReplayed
  DebitsNeedActiveWallets
  ImplementsAtomicLedger
