---------------------------- MODULE AtomicLedger ----------------------------
(***************************************************************************)
(* What the wallet service promises, with no locks, statements, failures   *)
(* or handlers: each request takes effect at most once and at one instant, *)
(* on the balances of that instant, and writes the rows that account for   *)
(* it.  WalletLedger implements it.                                        *)
(***************************************************************************)
EXTENDS Integers, Sequences

CONSTANTS Requests, NoRequest, Wallets, Currency, WalletOf, NoRef, Menu,
          Opening, MaxBalance, StatusChanges

VARIABLES account,  \* [Wallets -> balance and ledger]
          status,   \* [Wallets -> WalletStatus]
          done,     \* the requests that took effect
          req       \* what each request asks for

vars == <<account, status, done, req>>

From(r) == WalletOf[req[r].from]
To(r) == WalletOf[req[r].to]

OpeningEntry(amount) ==
  [by |-> NoRequest, type |-> "CREDIT", amount |-> amount,
   balanceAfter |-> amount, reference |-> NoRef, transfer |-> NoRequest]

Init ==
  /\ req \in [Requests -> Menu]
  /\ account = [w \in Wallets |->
       [balance |-> Opening[w],
        ledger |-> IF Opening[w] = 0 THEN << >>
                   ELSE << OpeningEntry(Opening[w]) >>]]
  /\ status = [w \in Wallets |-> "ACTIVE"]
  /\ done = {}

(* The account after r moved `amount' in or out of it.                     *)
Moved(a, r, type, reference, transfer) ==
  LET after == IF type = "CREDIT" THEN a.balance + req[r].amount
                                  ELSE a.balance - req[r].amount
  IN [balance |-> after,
      ledger |-> Append(a.ledger,
        [by |-> r, type |-> type, amount |-> req[r].amount,
         balanceAfter |-> after, reference |-> reference,
         transfer |-> transfer])]

(* transfers and the other two operations have a reference space each.     *)
SameTable(q, r) == (req[q].op = "transfer") = (req[r].op = "transfer")
FreshReference(r) ==
  \/ req[r].reference = NoRef
  \/ \A q \in done : SameTable(q, r) => req[q].reference # req[r].reference

Deposit(r) ==
  /\ req[r].op = "deposit"
  /\ account[To(r)].balance + req[r].amount <= MaxBalance
  /\ account' = [account EXCEPT ![To(r)] =
                  Moved(@, r, "CREDIT", req[r].reference, NoRequest)]

Withdraw(r) ==
  /\ req[r].op = "withdraw"
  /\ status[From(r)] = "ACTIVE"
  /\ account[From(r)].balance >= req[r].amount
  /\ account' = [account EXCEPT ![From(r)] =
                  Moved(@, r, "DEBIT", req[r].reference, NoRequest)]

Transfer(r) ==
  /\ req[r].op = "transfer"
  /\ From(r) # To(r)
  /\ status[From(r)] = "ACTIVE" /\ status[To(r)] = "ACTIVE"
  /\ Currency[From(r)] = Currency[To(r)]
  /\ account[From(r)].balance >= req[r].amount
  /\ account[To(r)].balance + req[r].amount <= MaxBalance
  /\ account' = [account EXCEPT ![From(r)] = Moved(@, r, "DEBIT", NoRef, r),
                                ![To(r)] = Moved(@, r, "CREDIT", NoRef, r)]

TakeEffect(r) ==
  /\ r \notin done
  /\ FreshReference(r)
  /\ Deposit(r) \/ Withdraw(r) \/ Transfer(r)
  /\ done' = done \cup {r}
  /\ UNCHANGED <<status, req>>

SetStatus(w) ==
  /\ \E s \in StatusChanges : status' = [status EXCEPT ![w] = s]
  /\ UNCHANGED <<account, done, req>>

Next == \/ \E r \in Requests : TakeEffect(r)
        \/ \E w \in Wallets : SetStatus(w)

Spec == Init /\ [][Next]_vars
=============================================================================
