---------------------------- MODULE WalletLedger ----------------------------
(***************************************************************************)
(* Deposits, withdrawals and transfers of the wallet service, as the       *)
(* interleaving of concurrent HTTP handlers over one PostgreSQL database.  *)
(* A step is the code between two awaits: one database statement and the   *)
(* JavaScript that acts on its result.  Statements run at READ COMMITTED:  *)
(* a row has a committed version and, while a transaction holds its lock,  *)
(* the version that transaction is writing.                                *)
(*                                                                         *)
(* A definition named X_Y is X with the mistake Y: no definition here uses *)
(* it; put in X's place, it shows that the checks would notice.            *)
(***************************************************************************)
EXTENDS Integers, Sequences, FiniteSets

CONSTANTS
  Requests,    \* handlers: one per POST, on any worker process
  NoRequest,   \* "nobody": no lock holder, no row
  Wallets,     \* rows of the wallets table
  NoWallet,    \* what an id that names no row denotes
  Users,
  Owner,       \* [Wallets -> Users], column user_id (never updated)
  Currency,    \* [Wallets -> ...], column currency (never updated)
  Ids,         \* the strings clients send as wallet ids
  WalletOf,    \* [Ids -> Wallets \cup {NoWallet}]: the uuid PostgreSQL reads
  IdRank,      \* [Ids -> Nat]: the order in which Array.prototype.sort puts them
  Refs,        \* values of the reference columns that are not NULL
  BlankRef,    \* "": three blanks pass min(3), then trim() leaves this
  NoRef,       \* NULL: the body has no reference
  Menu,        \* the requests clients may send
  Opening,     \* [Wallets -> Nat]: funds credited before the behaviour starts
  StatusChanges, \* statuses an operator may write into a wallet row
  MaxBalance,  \* largest value of Decimal(20,4)
  Faults       \* whether statements, connections and processes may fail

Op == {"deposit", "withdraw", "transfer"}
WalletStatus == {"ACTIVE", "FROZEN", "CLOSED"}
RefValue == Refs \cup {NoRef}

(* A deposit credits `to', a withdrawal debits `from'; the id of the other *)
(* side repeats the path parameter.  `amount' counts units of 0.0001.      *)
Body == [op : Op, user : Users, from : Ids, to : Ids,
         amount : Nat \ {0}, reference : RefValue]

ASSUME RequestAssumption == NoRequest \notin Requests
ASSUME WalletAssumption ==
  /\ IsFiniteSet(Wallets)
  /\ NoWallet \notin Wallets
  /\ Owner \in [Wallets -> Users]
  /\ WalletOf \in [Ids -> Wallets \cup {NoWallet}]
ASSUME RankAssumption ==
  /\ IdRank \in [Ids -> Nat]
  /\ \A i, j \in Ids : IdRank[i] = IdRank[j] => i = j
ASSUME RefAssumption == NoRef \notin Refs /\ BlankRef # NoRef
ASSUME MenuAssumption == Menu \subseteq Body
ASSUME OpeningAssumption ==
  /\ MaxBalance \in Nat
  /\ Opening \in [Wallets -> 0 .. MaxBalance]
ASSUME StatusAssumption == StatusChanges \subseteq WalletStatus

VARIABLES
  wallet,       \* committed version of each row, with its rows of transactions
  draft,        \* the version the lock holder sees and writes
  status,       \* column status
  lock,         \* row lock: the request whose transaction holds it
  txnRef,       \* unique index transactions_reference_key: the inserting request
  transferRef,  \* unique index transfers_reference_key
  transferRows, \* rows of transfers, by the request that inserted them
  commitLog,    \* requests whose transaction committed
  req,          \* the validated body of each request
  pc,           \* the next await of each handler
  answer        \* the response under construction, then sent

dbVars == <<wallet, draft, status, lock, txnRef, transferRef, transferRows,
            commitLog>>
vars == <<dbVars, req, pc, answer>>

-----------------------------------------------------------------------------
(* The rows.  The transactions of a wallet are kept in insertion order:    *)
(* the row lock is held from the balance update to the end of the          *)
(* transaction.  `by' is the inserting request and stands for the row id;  *)
(* `transfer' is the foreign key transfer_id.                              *)

Entry == [by : Requests \cup {NoRequest}, type : {"CREDIT", "DEBIT"},
          amount : Nat, balanceAfter : Int, reference : RefValue,
          transfer : Requests \cup {NoRequest}]
Account == [balance : Int, ledger : Seq(Entry)]

From(r) == WalletOf[req[r].from]
To(r) == WalletOf[req[r].to]
IsTransfer(r) == req[r].op = "transfer"

(* The wallet a row of request r is returned with: transaction.wallet or   *)
(* transfer.fromWallet.                                                    *)
OwnSide(r) == IF req[r].op = "deposit" THEN To(r) ELSE From(r)

(* `if (reference)': the empty string is falsy, though the column stores   *)
(* it like any other.                                                      *)
Truthy(reference) == reference \notin {NoRef, BlankRef}

(* Insertion into a unique index: NULL never conflicts, an uncommitted key *)
(* makes the statement wait, a committed one raises P2002.                 *)
RefIndex_OneTable(r) == txnRef
RefIndex(r) == IF IsTransfer(r) THEN transferRef ELSE txnRef
RefTaken_Dirty(r) ==
  req[r].reference # NoRef /\ RefIndex(r)[req[r].reference] # NoRequest
RefTaken(r) ==
  req[r].reference # NoRef /\ RefIndex(r)[req[r].reference] \in commitLog
RefFree_NotUnique(r) == TRUE
RefFree(r) ==
  req[r].reference # NoRef => RefIndex(r)[req[r].reference] = NoRequest
InsertRef(r, index) ==
  IF req[r].reference = NoRef THEN index
  ELSE [index EXCEPT ![req[r].reference] = r]

(* A row lock can be had when nobody else holds it.                        *)
Grantable_NoRowLock(r, w) == TRUE
Grantable(r, w) == lock[w] \in {NoRequest, r}

(* const [firstId, secondId] = [fromWalletId, toWalletId].sort()           *)
FirstId_Unsorted(r) == req[r].from
FirstId(r) ==
  IF IdRank[req[r].from] < IdRank[req[r].to] THEN req[r].from ELSE req[r].to
SecondId(r) == IF FirstId(r) = req[r].from THEN req[r].to ELSE req[r].from

(* The row as a balance update and the insertion of a ledger row leave it. *)
Adjusted(account, delta) == [account EXCEPT !.balance = @ + delta]
Recorded(account, r, type, reference, transfer) ==
  [account EXCEPT !.ledger = Append(@,
     [by |-> r, type |-> type, amount |-> req[r].amount,
      balanceAfter |-> account.balance, reference |-> reference,
      transfer |-> transfer])]

-----------------------------------------------------------------------------
(* How a handler moves on, and how its transaction and its response end.   *)

Goto(r, label) == pc' = [pc EXCEPT ![r] = label]

Blank == [code |-> "none", row |-> NoRequest, balance |-> 0]
Send(r, code, row, balance) ==
  /\ Goto(r, "sent")
  /\ answer' = [answer EXCEPT ![r] =
                 [code |-> code, row |-> row, balance |-> balance]]
Refuse(r, code) == Send(r, code, NoRequest, 0)

Unlocked(r) == [w \in Wallets |-> IF lock[w] = r THEN NoRequest ELSE lock[w]]
Without(r, index) ==
  [k \in Refs |-> IF index[k] = r THEN NoRequest ELSE index[k]]

Rollback_NoTransaction(r) ==
  /\ lock' = Unlocked(r)
  /\ txnRef' = Without(r, txnRef)
  /\ transferRef' = Without(r, transferRef)
  /\ transferRows' = transferRows \ {r}
  /\ UNCHANGED <<wallet, draft, status, commitLog, req>>
Rollback(r) ==
  /\ lock' = Unlocked(r)
  /\ draft' = [w \in Wallets |-> IF lock[w] = r THEN wallet[w] ELSE draft[w]]
  /\ txnRef' = Without(r, txnRef)
  /\ transferRef' = Without(r, transferRef)
  /\ transferRows' = transferRows \ {r}
  /\ UNCHANGED <<wallet, status, commitLog, req>>

CommitTransaction(r) ==
  /\ wallet' = [w \in Wallets |-> IF lock[w] = r THEN draft[w] ELSE wallet[w]]
  /\ lock' = Unlocked(r)
  /\ commitLog' = commitLog \cup {r}
  /\ UNCHANGED <<draft, status, txnRef, transferRef, transferRows, req>>

-----------------------------------------------------------------------------
Init ==
  /\ req \in [Requests -> Menu]
  /\ wallet = [w \in Wallets |->
       [balance |-> Opening[w],
        ledger |-> IF Opening[w] = 0 THEN << >>
                   ELSE << [by |-> NoRequest, type |-> "CREDIT",
                            amount |-> Opening[w], balanceAfter |-> Opening[w],
                            reference |-> NoRef, transfer |-> NoRequest] >>]]
  /\ draft = wallet
  /\ status = [w \in Wallets |-> "ACTIVE"]
  /\ lock = [w \in Wallets |-> NoRequest]
  /\ txnRef = [k \in Refs |-> NoRequest]
  /\ transferRef = [k \in Refs |-> NoRequest]
  /\ transferRows = {}
  /\ commitLog = {}
  /\ pc = [r \in Requests |-> "idle"]
  /\ answer = [r \in Requests |-> Blank]

(* The controller calls the service; transferCreateService compares the    *)
(* two ids as strings before its first await.                              *)
Receive(r) ==
  /\ pc[r] = "idle"
  /\ \/ IsTransfer(r) /\ req[r].from = req[r].to
        /\ Refuse(r, "TRANSFER_SAME_WALLET")
     \/ IsTransfer(r) /\ req[r].from # req[r].to
        /\ Goto(r, "source") /\ UNCHANGED answer
     \/ ~IsTransfer(r) /\ Goto(r, "load") /\ UNCHANGED answer
  /\ UNCHANGED <<dbVars, req>>

Owns_Anyone(r, w) == w # NoWallet
Owns(r, w) == w # NoWallet /\ Owner[w] = req[r].user

(* loadOwnedWallet(id, userId, { requireActive: true })                    *)
LoadOwnedWallet(r) ==
  /\ pc[r] = "load"
  /\ LET w == OwnSide(r) IN
     \/ ~Owns(r, w) /\ Refuse(r, "WALLET_NOT_FOUND")
     \/ Owns(r, w) /\ status[w] # "ACTIVE" /\ Refuse(r, "WALLET_INACTIVE")
     \/ Owns(r, w) /\ status[w] = "ACTIVE"
        /\ Goto(r, "replay") /\ UNCHANGED answer
  /\ UNCHANGED <<dbVars, req>>

LoadSource(r) ==
  /\ pc[r] = "source"
  /\ \/ ~Owns(r, From(r)) /\ Refuse(r, "WALLET_NOT_FOUND")
     \/ Owns(r, From(r)) /\ Goto(r, "destination") /\ UNCHANGED answer
  /\ UNCHANGED <<dbVars, req>>

LoadDestination(r) ==
  /\ pc[r] = "destination"
  /\ \/ To(r) = NoWallet /\ Refuse(r, "WALLET_NOT_FOUND")
     \/ To(r) # NoWallet /\ Goto(r, "replay") /\ UNCHANGED answer
  /\ UNCHANGED <<dbVars, req>>

(* findByReference sees committed rows only.  A row found is returned with *)
(* its wallet as that wallet is now; otherwise the transaction begins.     *)
FindByReference(r) ==
  /\ pc[r] = "replay"
  /\ IF Truthy(req[r].reference) /\ RefTaken(r)
     THEN LET q == RefIndex(r)[req[r].reference] IN
          Send(r, "REPLAY", q, wallet[OwnSide(q)].balance)
     ELSE /\ Goto(r, CASE req[r].op = "deposit" -> "credit"
                        [] req[r].op = "withdraw" -> "debit"
                        [] req[r].op = "transfer" -> "lockFirst")
          /\ UNCHANGED answer
  /\ UNCHANGED <<dbVars, req>>

-----------------------------------------------------------------------------
(* transactionRepository.credit and debit, in one prisma.$transaction.     *)

(* tx.wallet.update({ balance: { increment } }) and the read of the row:   *)
(* the update looks at no status.  Overflowing the column is an error.     *)
IncrementBalance(r) ==
  /\ pc[r] = "credit"
  /\ Grantable(r, To(r))
  /\ LET w == To(r)
         sum == draft[w].balance + req[r].amount IN
     \/ /\ sum > MaxBalance
        /\ Rollback(r)
        /\ Refuse(r, "INTERNAL_ERROR")
     \/ /\ sum <= MaxBalance
        /\ lock' = [lock EXCEPT ![w] = r]
        /\ draft' = [draft EXCEPT ![w] = Adjusted(@, req[r].amount)]
        /\ answer' = [answer EXCEPT ![r].balance = sum]
        /\ Goto(r, "insertEntry")
        /\ UNCHANGED <<wallet, status, txnRef, transferRef, transferRows,
                       commitLog, req>>

(* where: { status: 'ACTIVE', balance: { gte: dec } }                      *)
Spendable_NoBalance(r, account) == status[From(r)] = "ACTIVE"
Spendable_AnyStatus(r, account) == account.balance >= req[r].amount
Spendable(r, account) ==
  status[From(r)] = "ACTIVE" /\ account.balance >= req[r].amount

(* tx.wallet.updateMany: the predicate is evaluated on the committed row;  *)
(* a row that fails it is skipped without waiting for its lock (count 0).  *)
(* The callback returns null and commits, having written nothing.          *)
GuardedDecrementNone(r) ==
  /\ pc[r] = "debit"
  /\ ~Spendable(r, wallet[From(r)])
  /\ Rollback(r)
  /\ Refuse(r, "INSUFFICIENT_FUNDS")

(* A row that passes is locked and the predicate evaluated again on the    *)
(* newest version, which is the committed one once the lock is free.       *)
GuardedDecrement(r) ==
  /\ pc[r] = "debit"
  /\ Grantable(r, From(r))
  /\ Spendable(r, wallet[From(r)])
  /\ LET w == From(r) IN
     /\ lock' = [lock EXCEPT ![w] = r]
     /\ draft' = [draft EXCEPT ![w] = Adjusted(@, -req[r].amount)]
     /\ answer' = [answer EXCEPT ![r].balance = draft[w].balance - req[r].amount]
  /\ Goto(r, "insertEntry")
  /\ UNCHANGED <<wallet, status, txnRef, transferRef, transferRows, commitLog,
                 req>>

(* tx.transaction.create, which carries the reference.                     *)
InsertEntry(r) ==
  /\ pc[r] = "insertEntry"
  /\ RefFree(r)
  /\ draft' = [draft EXCEPT ![OwnSide(r)] =
       Recorded(@, r, IF req[r].op = "deposit" THEN "CREDIT" ELSE "DEBIT",
                req[r].reference, NoRequest)]
  /\ txnRef' = InsertRef(r, txnRef)
  /\ Goto(r, "commit")
  /\ UNCHANGED <<wallet, status, lock, transferRef, transferRows, commitLog,
                 req, answer>>

(* P2002 on the insertion of either table's row: the transaction is lost.  *)
InsertDuplicate(r) ==
  /\ pc[r] \in {"insertEntry", "insertTransfer"}
  /\ RefTaken(r)
  /\ Rollback(r)
  /\ Refuse(r, "DUPLICATE_REFERENCE")

-----------------------------------------------------------------------------
(* transferRepository.executeTransfer, in one prisma.$transaction.         *)

LockRow(r, label, id, next) ==
  /\ pc[r] = label
  /\ Grantable(r, WalletOf[id])
  /\ lock' = [lock EXCEPT ![WalletOf[id]] = r]
  /\ Goto(r, next)
  /\ UNCHANGED <<wallet, draft, status, txnRef, transferRef, transferRows,
                 commitLog, req, answer>>

(* SELECT id FROM wallets WHERE id = ... FOR UPDATE, twice                 *)
LockFirst(r) == LockRow(r, "lockFirst", FirstId(r), "lockSecond")
LockSecond(r) == LockRow(r, "lockSecond", SecondId(r), "validate")

(* The rows re-read under the lock.  NOT_FOUND cannot happen here: nothing *)
(* in the service deletes a wallet.                                        *)
Verdict_Unfunded(r) ==
  IF status[From(r)] # "ACTIVE" \/ status[To(r)] # "ACTIVE"
  THEN "WALLET_INACTIVE"
  ELSE IF Currency[From(r)] # Currency[To(r)]
  THEN "WALLET_CURRENCY_MISMATCH"
  ELSE "OK"
Verdict_SourceOnly(r) ==
  IF status[From(r)] # "ACTIVE" THEN "WALLET_INACTIVE"
  ELSE IF Currency[From(r)] # Currency[To(r)]
  THEN "WALLET_CURRENCY_MISMATCH"
  ELSE IF draft[From(r)].balance < req[r].amount THEN "INSUFFICIENT_FUNDS"
  ELSE "OK"
Verdict_RawReason(r) ==
  IF status[From(r)] # "ACTIVE" \/ status[To(r)] # "ACTIVE"
  THEN "INACTIVE"
  ELSE IF draft[From(r)].balance < req[r].amount THEN "INSUFFICIENT"
  ELSE "OK"
Verdict(r) ==
  IF status[From(r)] # "ACTIVE" \/ status[To(r)] # "ACTIVE"
  THEN "WALLET_INACTIVE"
  ELSE IF Currency[From(r)] # Currency[To(r)]
  THEN "WALLET_CURRENCY_MISMATCH"
  ELSE IF draft[From(r)].balance < req[r].amount THEN "INSUFFICIENT_FUNDS"
  ELSE "OK"

ValidateUnderLock(r) ==
  /\ pc[r] = "validate"
  /\ \/ /\ Verdict(r) # "OK"
        /\ Rollback(r)
        /\ Refuse(r, Verdict(r))
     \/ /\ Verdict(r) = "OK"
        /\ Goto(r, "insertTransfer")
        /\ UNCHANGED <<dbVars, req, answer>>

(* tx.transfer.create, which carries the reference.                        *)
InsertTransfer(r) ==
  /\ pc[r] = "insertTransfer"
  /\ RefFree(r)
  /\ transferRef' = InsertRef(r, transferRef)
  /\ transferRows' = transferRows \cup {r}
  /\ Goto(r, "debitLeg")
  /\ UNCHANGED <<wallet, draft, status, lock, txnRef, commitLog, req, answer>>

(* tx.wallet.update and tx.transaction.create of one side; the row is      *)
(* locked already and the ledger row has no reference.                     *)
WriteLeg(r, w, type, delta) ==
  draft' = [draft EXCEPT ![w] =
             Recorded(Adjusted(@, delta), r, type, NoRef, r)]

DebitLeg(r) ==
  /\ pc[r] = "debitLeg"
  /\ WriteLeg(r, From(r), "DEBIT", -req[r].amount)
  /\ answer' = [answer EXCEPT ![r].balance =
                  draft[From(r)].balance - req[r].amount]
  /\ Goto(r, "creditLeg")
  /\ UNCHANGED <<wallet, status, lock, txnRef, transferRef, transferRows,
                 commitLog, req>>

CreditLeg(r) ==
  /\ pc[r] = "creditLeg"
  /\ \/ /\ draft[To(r)].balance + req[r].amount > MaxBalance
        /\ Rollback(r)
        /\ Refuse(r, "INTERNAL_ERROR")
     \/ /\ draft[To(r)].balance + req[r].amount <= MaxBalance
        /\ WriteLeg(r, To(r), "CREDIT", req[r].amount)
        /\ Goto(r, "commit")
        /\ UNCHANGED <<wallet, status, lock, txnRef, transferRef, transferRows,
                       commitLog, req, answer>>

-----------------------------------------------------------------------------
(* COMMIT, and the 201 that reports it.                                    *)
Commit(r) ==
  /\ pc[r] = "commit"
  /\ CommitTransaction(r)
  /\ Send(r, "CREATED", r, answer[r].balance)

Running(r) == pc[r] \notin {"idle", "sent"}
Broken == {"INTERNAL_ERROR", "LOST"}

(* A statement fails (connection, lock or transaction timeout, deadlock    *)
(* victim), or the worker process dies: PostgreSQL rolls back; the client  *)
(* gets a 500 or nothing.                                                  *)
Fail(r) ==
  /\ Faults
  /\ Running(r)
  /\ Rollback(r)
  /\ \E code \in Broken : Refuse(r, code)

(* The connection or the process dies after COMMIT took effect.            *)
CommitUnacknowledged(r) ==
  /\ Faults
  /\ pc[r] = "commit"
  /\ CommitTransaction(r)
  /\ \E code \in Broken : Refuse(r, code)

(* An operator's UPDATE of the status column; no endpoint writes it.       *)
SetStatus(w) ==
  /\ lock[w] = NoRequest
  /\ \E s \in StatusChanges \ {status[w]} :
       status' = [status EXCEPT ![w] = s]
  /\ UNCHANGED <<wallet, draft, lock, txnRef, transferRef, transferRows,
                 commitLog, req, pc, answer>>

(* Every client has its answer: the service waits for the next request.    *)
Quiescent ==
  /\ \A r \in Requests : pc[r] = "sent"
  /\ UNCHANGED vars

Handle(r) ==
  \/ LoadOwnedWallet(r) \/ LoadSource(r) \/ LoadDestination(r)
  \/ FindByReference(r)
  \/ IncrementBalance(r) \/ GuardedDecrementNone(r) \/ GuardedDecrement(r)
  \/ InsertEntry(r) \/ InsertDuplicate(r)
  \/ LockFirst(r) \/ LockSecond(r) \/ ValidateUnderLock(r)
  \/ InsertTransfer(r) \/ DebitLeg(r) \/ CreditLeg(r)
  \/ Commit(r)

Next ==
  \/ \E r \in Requests : \/ Receive(r) \/ Handle(r)
                         \/ Fail(r) \/ CommitUnacknowledged(r)
  \/ \E w \in Wallets : SetStatus(w)
  \/ Quiescent

Spec == Init /\ [][Next]_vars

(* The event loop runs every continuation that is ready, and PostgreSQL    *)
(* grants a lock when it is released.                                      *)
FairSpec == Spec /\ \A r \in Requests : WF_vars(Handle(r))
=============================================================================
