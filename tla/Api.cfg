\* A creation, another one or a movement beside it, and any third request.
SPECIFICATION FairSpec
CONSTANTS
  r1 = r1
  r2 = r2
  r3 = r3
  u1 = u1
  u2 = u2
  EUR = EUR
  USD = USD
  w0 = w0
  t1 = t1
  Requests = {r1, r2, r3}
  Users = {u1, u2}
  Currencies = {EUR, USD}
  Ids = {r1, r2, r3, w0, t1}
  EncryptionEnabled = TRUE
  Menu <- MCMenu
  Seeded <- MCSeeded
  Parties <- MCParties
INVARIANTS
  TypeOK
  OneWalletPerCurrency
  AnswersAreTrue
  CreatedIsSeen
  EffectsAdmitted
  InternalErrorHasCause
  CreationNotLost
PROPERTY EveryRequestAnswered
