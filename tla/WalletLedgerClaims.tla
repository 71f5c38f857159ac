------------------------- MODULE WalletLedgerClaims -------------------------
(***************************************************************************)
(* What the README, the API docs and the comments say of the handlers, and *)
(* the code does not do.  The clients' behaviour that shows it is in the   *)
(* menus below.                                                            *)
(***************************************************************************)
EXTENDS MCWalletLedger

(* "Duplicate references are replayed or rejected with                     *)
(* DUPLICATE_REFERENCE" (README): a retry that is answered after the       *)
(* original committed is told of it, and not that it failed.               *)
DuplicateToldAsDuplicate ==
  [][\A r \in Requests, q \in commitLog :
       (/\ q # r /\ req[q] = req[r] /\ Truthy(req[r].reference)
        /\ answer[r].code = "none" /\ answer'[r].code \in Refusals) =>
         answer'[r].code = "DUPLICATE_REFERENCE"]_vars

-----------------------------------------------------------------------------
(* Transfers whose ids are not all spelled the way the service prints them *)
Respelled ==
  { Transfer(u1, "a", "B", 1, NoRef), Transfer(u2, "b", "a", 1, NoRef) }

(* One reference, used by two operations of one wallet.                    *)
SharedReference == { Deposit(u1, "a", 1, k1), Withdraw(u1, "a", 2, k1) }

(* A withdrawal and its retry, and something that moves the balance.       *)
Retried == { Withdraw(u1, "a", 2, k1), Deposit(u1, "a", 1, NoRef) }
=============================================================================
