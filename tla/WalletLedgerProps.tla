------------------------- MODULE WalletLedgerProps --------------------------
(***************************************************************************)
(* What must be true of WalletLedger, whatever the interleaving.           *)
(***************************************************************************)
EXTENDS WalletLedger, Functions

Labels == {"idle", "load", "source", "destination", "replay", "credit",
           "debit", "insertEntry", "lockFirst", "lockSecond", "validate",
           "insertTransfer", "debitLeg", "creditLeg", "commit", "sent"}
Refusals == {"TRANSFER_SAME_WALLET", "WALLET_NOT_FOUND", "WALLET_INACTIVE",
             "WALLET_CURRENCY_MISMATCH", "INSUFFICIENT_FUNDS",
             "DUPLICATE_REFERENCE"}
Codes == {"none", "CREATED", "REPLAY"} \cup Refusals \cup Broken

(* The values the tables, the locks and the handlers hold.                 *)
TypeOK ==
  /\ wallet \in [Wallets -> Account]
  /\ draft \in [Wallets -> Account]
  /\ status \in [Wallets -> WalletStatus]
  /\ lock \in [Wallets -> Requests \cup {NoRequest}]
  /\ txnRef \in [Refs -> Requests \cup {NoRequest}]
  /\ transferRef \in [Refs -> Requests \cup {NoRequest}]
  /\ transferRows \subseteq Requests
  /\ commitLog \subseteq Requests
  /\ req \in [Requests -> Menu]
  /\ pc \in [Requests -> Labels]
  /\ answer \in [Requests -> [code : Codes, row : Requests \cup {NoRequest},
                              balance : Int]]

-----------------------------------------------------------------------------
Signed(e) == IF e.type = "CREDIT" THEN e.amount ELSE -e.amount
BalanceBefore(ledger, i) == IF i = 1 THEN 0 ELSE ledger[i - 1].balanceAfter
FinalBalance(ledger) == BalanceBefore(ledger, Len(ledger) + 1)

(* Each row's balance_after follows from the row before, and the wallet's  *)
(* balance is where the rows end.                                          *)
RowsExplained(ledger) ==
  \A i \in 1 .. Len(ledger) :
    ledger[i].balanceAfter = BalanceBefore(ledger, i) + Signed(ledger[i])
Explained(account) ==
  /\ RowsExplained(account.ledger)
  /\ account.balance = FinalBalance(account.ledger)

(* Credit, debit and transfer write the balance and the ledger row as      *)
(* separate statements; no interleaving and no failure commits one without *)
(* the other, or computes balance_after from a stale balance.              *)
LedgerExplainsBalance == \A w \in Wallets : Explained(wallet[w])

(* Balances never go negative, nor does a balance_after, even in a         *)
(* transaction that is still open (README, Money & concurrency).           *)
Solvent(account) ==
  /\ account.balance >= 0
  /\ \A i \in 1 .. Len(account.ledger) : account.ledger[i].balanceAfter >= 0
NeverNegative == \A w \in Wallets : Solvent(draft[w]) /\ Solvent(wallet[w])

(* Funds are conserved: what the wallets hold together is what was there   *)
(* first, plus the deposits and minus the withdrawals that committed;      *)
(* transfers, failures and retries create or destroy nothing               *)
(* (README, Money & concurrency).                                          *)
External(r) ==
  CASE req[r].op = "deposit" -> req[r].amount
    [] req[r].op = "withdraw" -> -req[r].amount
    [] OTHER -> 0
Balances == [w \in Wallets |-> wallet[w].balance]
FundsConserved ==
  SumFunctionOnSet(Balances, Wallets) =
    SumFunctionOnSet(Opening, Wallets)
    + SumFunctionOnSet([r \in Requests |-> External(r)], commitLog)

-----------------------------------------------------------------------------
Positions(w, Test(_)) ==
  {i \in 1 .. Len(wallet[w].ledger) : Test(wallet[w].ledger[i])}

(* A transfer that committed has its row, one debit leg on its source and  *)
(* one credit leg on its destination, both of its amount; one that did not *)
(* has no leg anywhere, wherever it was interrupted.                       *)
TransferAllOrNothing ==
  \A r \in Requests, w \in Wallets :
    LET leg(type) == Positions(w, LAMBDA e :
                       e.transfer = r /\ e.type = type /\ e.amount = req[r].amount)
        settled == IsTransfer(r) /\ r \in commitLog
    IN /\ Cardinality(leg("DEBIT")) = IF settled /\ w = From(r) THEN 1 ELSE 0
       /\ Cardinality(leg("CREDIT")) = IF settled /\ w = To(r) THEN 1 ELSE 0
       /\ settled => r \in transferRows

(* However often a reference is sent, by concurrent handlers or after a    *)
(* failure, at most one committed row of its table carries it.             *)
OneEffectPerReference ==
  /\ \A v, w \in Wallets :
       \A i \in 1 .. Len(wallet[v].ledger), j \in 1 .. Len(wallet[w].ledger) :
         (/\ wallet[v].ledger[i].reference # NoRef
          /\ wallet[v].ledger[i].reference = wallet[w].ledger[j].reference)
         => v = w /\ i = j
  /\ \A q, r \in transferRows \cap commitLog :
       (/\ req[q].reference # NoRef
        /\ req[q].reference = req[r].reference)
       => q = r

Traces(r) ==
  \/ r \in commitLog \cup transferRows
  \/ \E w \in Wallets : \E i \in 1 .. Len(draft[w].ledger) :
       draft[w].ledger[i].by = r

(* A 201 reports a committed row and the balance that row recorded; a 4xx  *)
(* means the request left nothing behind; a replay returns a committed row *)
(* with the reference sent, and moved no money itself.                     *)
AnswersAreTrue ==
  \A r \in Requests :
    /\ answer[r].code = "CREATED" =>
         /\ r \in commitLog
         /\ Cardinality(Positions(OwnSide(r), LAMBDA e :
              e.by = r /\ e.balanceAfter = answer[r].balance)) = 1
    /\ answer[r].code \in Refusals => ~Traces(r)
    /\ answer[r].code = "REPLAY" =>
         /\ ~Traces(r)
         /\ answer[r].row \in commitLog
         /\ req[answer[r].row].reference = req[r].reference
         /\ IsTransfer(answer[r].row) = IsTransfer(r)

(* "Duplicate references are replayed (same result)" (README): the row     *)
(* that is replayed is one that the same body asked for.                   *)
ReplayIsOfTheRequest ==
  \A r \in Requests :
    answer[r].code = "REPLAY" => req[answer[r].row] = req[r]

(* Ledgers only grow, and the rows a step publishes are those of the one   *)
(* request that commits in it: nothing of an aborted or open transaction   *)
(* ever becomes visible.                                                   *)
OneRequestPerCommit ==
  [][\A w \in Wallets : wallet'[w] # wallet[w] =>
       LET old == wallet[w].ledger
           new == wallet'[w].ledger
       IN /\ SubSeq(new, 1, Len(old)) = old
          /\ \A i \in Len(old) + 1 .. Len(new) :
               new[i].by \in commitLog' \ commitLog]_vars

(* A client whose answer was lost, or who asks twice, and whose retry gets *)
(* as far as the look for its reference after the original committed, is   *)
(* shown the original's row, if anything: it is not told of funds that the *)
(* original spent, nor of a duplicate (README: replayed).                  *)
RetriesAreReplayed ==
  [][\A r \in Requests, q \in commitLog :
       (/\ pc[r] = "replay" /\ pc'[r] # "replay"
        /\ Truthy(req[r].reference) /\ req[q].reference = req[r].reference
        /\ IsTransfer(q) = IsTransfer(r)) =>
         \/ answer'[r].code = "REPLAY" /\ answer'[r].row = q
         \/ answer'[r].code \in Broken]_vars

(* A withdrawal or a transfer commits only while every wallet it touches   *)
(* is ACTIVE, although the service looked at the status long before.       *)
DebitsNeedActiveWallets ==
  [][\A r \in commitLog' \ commitLog :
       req[r].op # "deposit" =>
         /\ status[From(r)] = "ACTIVE"
         /\ IsTransfer(r) => status[To(r)] = "ACTIVE"]_vars

(* Money moves only where the caller may move it: a wallet is debited by a *)
(* request of its owner, credited by its owner's deposit or by a transfer, *)
(* and a transfer joins two wallets of one currency.  The owner was looked *)
(* at by the service, before the transaction, under an id of the body; the *)
(* repository then moves the money of whatever row that id denotes.        *)
MovesAreAuthorised ==
  \A w \in Wallets : \A i \in 1 .. Len(wallet[w].ledger) :
    LET e == wallet[w].ledger[i] IN
    e.by # NoRequest =>
      /\ e.type = "DEBIT" \/ e.transfer = NoRequest
           => req[e.by].user = Owner[w]
      /\ e.transfer # NoRequest
           => /\ e.transfer = e.by
              /\ Currency[w] = Currency[From(e.by)]

-----------------------------------------------------------------------------
(* The inductive invariant behind LedgerExplainsBalance and NeverNegative. *)

Staged == {"lockFirst", "lockSecond", "validate", "insertTransfer",
           "debitLeg", "creditLeg"}

(* A handler is where its operation leads it, and the wallets it loaded    *)
(* are rows of the table.                                                  *)
Known(r) == OwnSide(r) \in Wallets /\ (IsTransfer(r) => To(r) \in Wallets)
RoutedAs(r, label) ==
  /\ label \in {"source", "destination"} \cup Staged => IsTransfer(r)
  /\ label \in {"load", "insertEntry"} => ~IsTransfer(r)
  /\ label = "credit" => req[r].op = "deposit"
  /\ label = "debit" => req[r].op = "withdraw"
  /\ label = "destination" => From(r) \in Wallets
  /\ label \in {"replay", "credit", "debit", "insertEntry", "commit"} \cup Staged
       => Known(r)
Routed ==
  \A r \in Requests : RoutedAs(r, pc[r]) /\ (r \in commitLog => Known(r))

(* The rows a handler has locked follow from where it is.                  *)
HeldAs(r, label) ==
  CASE label = "insertEntry" -> {OwnSide(r)}
    [] label = "lockSecond" -> {WalletOf[FirstId(r)]}
    [] label \in Staged \ {"lockFirst", "lockSecond"} -> {From(r), To(r)}
    [] label = "commit" ->
         IF IsTransfer(r) THEN {From(r), To(r)} ELSE {OwnSide(r)}
    [] OTHER -> {}
LocksHeld ==
  \A w \in Wallets : \A r \in Requests : lock[w] = r <=> w \in HeldAs(r, pc[r])

(* A row nobody has locked is as it was committed.                         *)
DraftsLocked ==
  \A w \in Wallets : lock[w] = NoRequest => draft[w] = wallet[w]

(* Between the balance update and the ledger row of one transaction, and   *)
(* only there, the locked balance runs ahead of its rows by the amount.    *)
Ahead(w) ==
  IF lock[w] = NoRequest THEN 0
  ELSE LET r == lock[w] IN
       IF pc[r] # "insertEntry" THEN 0
       ELSE IF req[r].op = "deposit" THEN req[r].amount ELSE -req[r].amount
DraftsExplained ==
  \A w \in Wallets :
    /\ RowsExplained(draft[w].ledger)
    /\ draft[w].balance = FinalBalance(draft[w].ledger) + Ahead(w)

(* What ValidateUnderLock saw stays true until the debit.                  *)
Funded ==
  \A r \in Requests :
    pc[r] \in {"insertTransfer", "debitLeg"} =>
      draft[From(r)].balance >= req[r].amount

RowsInv == /\ LocksHeld /\ DraftsLocked /\ DraftsExplained
           /\ LedgerExplainsBalance /\ Funded /\ NeverNegative
BooksInv == TypeOK /\ Routed /\ RowsInv

-----------------------------------------------------------------------------
(* Who makes r's next statement wait: the holder of the row lock it needs, *)
(* or the open transaction that inserted its reference.                    *)
WantedRow(r) ==
  CASE pc[r] = "credit" -> {To(r)}
    [] pc[r] = "debit" /\ Spendable(r, wallet[From(r)]) -> {From(r)}
    [] pc[r] = "lockFirst" -> {WalletOf[FirstId(r)]}
    [] pc[r] = "lockSecond" -> {WalletOf[SecondId(r)]}
    [] OTHER -> {}
Blockers(r) ==
  ({lock[w] : w \in WantedRow(r)} \ {r, NoRequest})
  \cup (IF pc[r] \in {"insertEntry", "insertTransfer"} /\ ~RefFree(r)
        THEN {RefIndex(r)[req[r].reference]} \ commitLog ELSE {})

(* Transactions never wait for each other in a circle, through row locks,  *)
(* through the unique indexes, or through both: of any requests, one at    *)
(* least waits for none of the others.                                     *)
NoWaitCycle ==
  \A S \in SUBSET Requests :
    S # {} => \E r \in S : Blockers(r) \cap S = {}

(* Every request that reached a handler is answered.                       *)
EveryRequestAnswered ==
  \A r \in Requests : (pc[r] # "idle") ~> (pc[r] = "sent")

-----------------------------------------------------------------------------
(* What WalletApi says of the money operations.  Seen from there, a body   *)
(* came through the middleware, a handler is at its move until it answers, *)
(* a replay is a 201 like any other, and an answer that is lost is as bad  *)
(* as a 500.                                                               *)
Route == [op \in Op |-> CASE op = "deposit" -> "txn:deposit"
                          [] op = "withdraw" -> "txn:withdraw"
                          [] op = "transfer" -> "transfer:create"]
Heard(code) ==
  CASE code = "REPLAY" -> "CREATED"
    [] code \in Broken -> "INTERNAL_ERROR"
    [] OTHER -> code
Api == INSTANCE WalletApi WITH
  Currencies <- {"any"}, EncryptionEnabled <- FALSE,
  Menu <- [r \in Requests |-> {}], Seeded <- {}, Parties <- << >>,
  req <- [r \in Requests |->
           [route |-> Route[req[r].op], user |-> req[r].user, token |-> "valid",
            form |-> "clear", fields |-> "valid", currency |-> "any",
            id |-> req[r].from]],
  pc <- [r \in Requests |-> IF pc[r] = "sent" THEN "sent" ELSE "move"],
  wallets <- {},
  moved <- commitLog,
  failed <- {r \in Requests : answer[r].code \in Broken},
  known <- [r \in Requests |-> {}],
  answer <- [r \in Requests |-> [code |-> Heard(answer[r].code), shows |-> {}]]

(* The handlers do what WalletApi takes them to do: each answers once,     *)
(* takes effect only in that step, and refuses only with the errors of its *)
(* own operation.                                                          *)
MovesAsTheApiSays ==
  [][\E r \in Requests :
       Api!Move(r) \/ Api!MoveUnacknowledged(r) \/ Api!Fail(r)]_(Api!vars)

(* The handlers implement the atomic ledger.                               *)
Atomic == INSTANCE AtomicLedger WITH account <- wallet, done <- commitLog
ImplementsAtomicLedger == Atomic!Spec
=============================================================================
