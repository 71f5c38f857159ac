--------------------------- MODULE MCWalletLedger ---------------------------
(***************************************************************************)
(* Small instances of WalletLedger: the wallets, the ids that name them,   *)
(* and the requests each run lets the clients choose from.                 *)
(***************************************************************************)
EXTENDS WalletLedgerProps, TLC

CONSTANTS w1, w2, w3, u1, u2, k1, k2, EUR, USD

Interchangeable == Permutations(Requests)

MCOwner == [w \in Wallets |-> IF w = w2 THEN u2 ELSE u1]
OneCurrency == [w \in Wallets |-> EUR]
TwoCurrencies == [w \in Wallets |-> IF w = w3 THEN USD ELSE EUR]

(* "a", "b" and "c" are wallet ids as the service prints them, "A" and "B" *)
(* two of them in upper case (which sort first), and "x" is a well-formed  *)
(* id that names no wallet.                                                *)
MCWalletOf == [i \in Ids |->
  CASE i \in {"a", "A"} -> w1 [] i \in {"b", "B"} -> w2 [] i = "c" -> w3
    [] i = "x" -> NoWallet]
MCIdRank == [i \in Ids |->
  CASE i = "A" -> 0 [] i = "B" -> 1 [] i = "a" -> 2 [] i = "b" -> 3
    [] i = "c" -> 4 [] i = "x" -> 5]

Twos == [w \in Wallets |-> 2]
Ones == [w \in Wallets |-> 1]
OnlyFirst == [w \in Wallets |-> IF w = w1 THEN 2 ELSE 0]

Deposit(user, id, amount, reference) ==
  [op |-> "deposit", user |-> user, from |-> id, to |-> id,
   amount |-> amount, reference |-> reference]
Withdraw(user, id, amount, reference) ==
  [op |-> "withdraw", user |-> user, from |-> id, to |-> id,
   amount |-> amount, reference |-> reference]
Transfer(user, from, to, amount, reference) ==
  [op |-> "transfer", user |-> user, from |-> from, to |-> to,
   amount |-> amount, reference |-> reference]

(* Every kind of movement between two wallets, with a reference to retry.  *)
Movements ==
  { Deposit(u1, "a", 1, k1), Withdraw(u1, "a", 2, k1), Withdraw(u1, "a", 1, NoRef),
    Transfer(u1, "a", "b", 2, k1), Transfer(u2, "b", "a", 1, NoRef) }

(* Transfers around a ring of three wallets and against it, with a         *)
(* withdrawal from one of them.                                            *)
Rings ==
  { Transfer(u1, "a", "b", 1, k1), Transfer(u2, "b", "a", 1, k1),
    Transfer(u2, "b", "c", 1, NoRef), Transfer(u1, "c", "a", 1, k2),
    Withdraw(u2, "b", 1, k1) }

(* Requests that must be refused, each for its own reason, and one of each *)
(* operation that need not be.                                             *)
Edges ==
  { Transfer(u1, "a", "a", 1, NoRef), Transfer(u1, "b", "a", 1, NoRef),
    Transfer(u1, "A", "a", 1, NoRef), Transfer(u1, "a", "x", 1, NoRef),
    Transfer(u1, "x", "a", 1, NoRef), Transfer(u1, "a", "c", 1, NoRef),
    Transfer(u1, "a", "b", 2, BlankRef),
    Deposit(u2, "a", 1, NoRef), Deposit(u1, "x", 1, NoRef),
    Deposit(u1, "a", 1, BlankRef), Withdraw(u1, "a", 1, BlankRef),
    Withdraw(u1, "a", 2, k1), Deposit(u2, "b", 2, k1) }

=============================================================================
