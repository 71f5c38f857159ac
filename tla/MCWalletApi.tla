----------------------------- MODULE MCWalletApi -----------------------------
(***************************************************************************)
(* A small instance of WalletApi: a creation, a second creation or a       *)
(* movement beside it, and a third request of any kind.                    *)
(***************************************************************************)
EXTENDS WalletApi

CONSTANTS r1, r2, r3, u1, u2, EUR, USD, w0, t1

Send(route, user, currency, id) ==
  [route |-> route, user |-> user, token |-> "valid", form |-> "clear",
   fields |-> "valid", currency |-> currency, id |-> id]
Wallet(user, currency) == Send("wallet:create", user, currency, w0)

(* One form, one token and one set of fields of each kind.                 *)
Creations ==
  { Wallet(u1, EUR), Wallet(u2, EUR), Wallet(u1, USD),
    [Wallet(u1, EUR) EXCEPT !.form = "sealed", !.fields = "padded"],
    [Wallet(u1, EUR) EXCEPT !.token = "missing"] }
Movements ==
  { Send("txn:deposit", u1, EUR, w0), Send("transfer:create", u2, EUR, w0),
    [Send("txn:withdraw", u1, EUR, w0) EXCEPT !.fields = "padded"],
    [Send("txn:withdraw", u1, EUR, w0) EXCEPT !.token = "expired"] }
Reads ==
  { Send("wallet:list", u1, USD, w0), Send("wallet:list", u2, USD, w0),
    Send("wallet:get", u1, EUR, r1), Send("wallet:get", u2, EUR, r1),
    Send("txn:list", u1, EUR, r1), Send("txn:get", u1, EUR, t1),
    Send("txn:get", u2, EUR, w0), Send("transfer:get", u2, EUR, t1),
    Send("transfer:get", u1, EUR, w0), Send("transfer:list", u2, EUR, w0) }
Refused ==
  { [Wallet(u1, EUR) EXCEPT !.form = "garbled"],
    [Wallet(u1, EUR) EXCEPT !.fields = "invalid"],
    [Wallet(u1, EUR) EXCEPT !.form = "malformed"],
    [Send("txn:deposit", u1, EUR, w0) EXCEPT !.form = "sealed", !.fields = "invalid"],
    [Send("wallet:get", u1, EUR, w0) EXCEPT !.token = "invalid"],
    [Send("wallet:list", u1, EUR, w0) EXCEPT !.route = "none"] }

MCMenu ==
  [r \in Requests |->
     CASE r = r1 -> Creations
       [] r = r2 -> Creations \cup Movements
       [] r = r3 -> { Wallet(u1, EUR) } \cup Reads \cup Refused]

MCSeeded == { [id |-> w0, user |-> u1, currency |-> USD] }
MCParties == [i \in {t1} |-> {u1}]
=============================================================================
