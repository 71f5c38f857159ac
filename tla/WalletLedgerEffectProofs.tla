---------------------- MODULE WalletLedgerEffectProofs ----------------------
(***************************************************************************)
(* What commits in WalletLedger, for every value of its constants: no      *)
(* debit of a wallet that is not ACTIVE, the rows of one request only,     *)
(* each of them authorised, and no reference twice.  BooksInv, proved in   *)
(* WalletLedgerProofs, says which rows a handler has locked; GrowthInv     *)
(* that what is committed is a part of the drafts, so that the rest        *)
(* follows from invariants of the drafts.                                  *)
(***************************************************************************)
EXTENDS WalletLedgerProofs

-----------------------------------------------------------------------------
(* A handler has written only under locks that keep the status of its      *)
(* wallets as it found them.                                               *)
ActiveAs(r, label) ==
  \/ label = "insertEntry" /\ req[r].op = "withdraw"
  \/ label \in {"insertTransfer", "debitLeg", "creditLeg"}
  \/ label = "commit" /\ req[r].op # "deposit"
  => /\ status[From(r)] = "ACTIVE"
     /\ IsTransfer(r) => status[To(r)] = "ACTIVE"
ActiveInv == \A r \in Requests : ActiveAs(r, pc[r])

(* A handler moves; nobody writes a status.                                *)
LEMMA ActiveMove ==
  ASSUME TypeOK, ActiveInv, NEW r \in Requests, NEW label, Goto(r, label),
         UNCHANGED <<req, status>>, ActiveAs(r, label)
  PROVE  ActiveInv'
<1>. SUFFICES ASSUME NEW q \in Requests PROVE ActiveAs(q, pc[q])'
  BY DEF ActiveInv
<1>1. ActiveAs(q, pc[q])' <=> ActiveAs(q, pc'[q])
  BY DEF ActiveAs, From, To, IsTransfer
<1>2. pc'[q] = IF q = r THEN label ELSE pc[q]
  BY DEF TypeOK, Goto
<1>. QED  BY <1>1, <1>2 DEF ActiveInv

(* An operator writes the status of a row that nobody has locked.          *)
LEMMA ActiveSetStatus ==
  ASSUME BooksInv, ActiveInv, NEW w \in Wallets, SetStatus(w)
  PROVE  ActiveInv'
<1>. SUFFICES ASSUME NEW q \in Requests PROVE ActiveAs(q, pc[q])'
  BY DEF ActiveInv
<1>. DEFINE Guards ==
       \/ pc[q] = "insertEntry" /\ req[q].op = "withdraw"
       \/ pc[q] \in {"insertTransfer", "debitLeg", "creditLeg"}
       \/ pc[q] = "commit" /\ req[q].op # "deposit"
<1>1. CASE ~Guards
  BY <1>1 DEF ActiveAs, SetStatus
<1>2. CASE Guards
  <2>1. Known(q) /\ req[q].op \in Op
    BY <1>2, BodyFacts DEF BooksInv, Routed, RoutedAs, Staged, Known, OwnSide, IsTransfer
  <2>2. From(q) \in HeldAs(q, pc[q]) /\ (IsTransfer(q) => To(q) \in HeldAs(q, pc[q]))
    BY <1>2, <2>1 DEF HeldAs, OwnSide, IsTransfer, Staged, BooksInv, Routed, RoutedAs, Op
  <2>3. From(q) \in Wallets /\ (IsTransfer(q) => To(q) \in Wallets)
    BY <1>2, <2>1 DEF Known, OwnSide, IsTransfer, BooksInv, Routed, RoutedAs, Staged
  <2>4. lock[From(q)] = q /\ (IsTransfer(q) => lock[To(q)] = q)
    BY <2>2, <2>3 DEF BooksInv, RowsInv, LocksHeld
  <2>5. From(q) # w /\ (IsTransfer(q) => To(q) # w)
    BY <2>4, RequestAssumption DEF SetStatus
  <2>6. status'[From(q)] = status[From(q)]
          /\ (IsTransfer(q) => status'[To(q)] = status[To(q)])
    BY <2>3, <2>5 DEF SetStatus, BooksInv, TypeOK
  <2>. QED  BY <1>2, <2>6 DEF ActiveAs, ActiveInv, SetStatus, From, To, IsTransfer
<1>. QED  BY <1>1, <1>2

(* Locks hold operators off until the handler ends.                        *)
LEMMA ActiveStep == BooksInv /\ ActiveInv /\ [Next]_vars => ActiveInv'
<1>. SUFFICES ASSUME BooksInv, ActiveInv, [Next]_vars PROVE ActiveInv'
  OBVIOUS
<1>. USE DEF BooksInv
<1>1. ASSUME NEW r \in Requests, NEW code, Refuse(r, code), UNCHANGED <<req, status>>
      PROVE  ActiveInv'
  <2>1. Goto(r, "sent") /\ ActiveAs(r, "sent")
    BY <1>1 DEF Refuse, Send, ActiveAs
  <2>. QED  BY <1>1, <2>1, ActiveMove
<1>2. ASSUME NEW r \in Requests, Receive(r) PROVE ActiveInv'
  BY <1>2, <1>1, ActiveMove DEF Receive, ActiveAs, dbVars
<1>3. ASSUME NEW r \in Requests,
             LoadOwnedWallet(r) \/ LoadSource(r) \/ LoadDestination(r)
      PROVE  ActiveInv'
  BY <1>3, <1>1, ActiveMove
     DEF LoadOwnedWallet, LoadSource, LoadDestination, ActiveAs, dbVars
<1>4. ASSUME NEW r \in Requests, FindByReference(r) PROVE ActiveInv'
  <2>1. \E label \in {"sent", "credit", "debit", "lockFirst"} : Goto(r, label)
    BY <1>4, BodyFacts DEF FindByReference, Send, Op
  <2>. QED  BY <1>4, <2>1, ActiveMove DEF FindByReference, ActiveAs, dbVars
<1>5. ASSUME NEW r \in Requests, NEW code, Rollback(r), Refuse(r, code)
      PROVE  ActiveInv'
  BY <1>5, <1>1 DEF Rollback
<1>6. ASSUME NEW r \in Requests, IncrementBalance(r) PROVE ActiveInv'
  <2>1. CASE Goto(r, "insertEntry") /\ UNCHANGED <<req, status>>
    <3>1. req[r].op = "deposit"
      BY <1>6 DEF IncrementBalance, Routed, RoutedAs
    <3>. QED  BY <2>1, <3>1, ActiveMove DEF ActiveAs
  <2>. QED  BY <1>6, <1>5, <2>1 DEF IncrementBalance
<1>7. ASSUME NEW r \in Requests, GuardedDecrement(r) PROVE ActiveInv'
  <2>1. req[r].op = "withdraw" /\ status[From(r)] = "ACTIVE"
    BY <1>7 DEF GuardedDecrement, Spendable, Routed, RoutedAs
  <2>. QED  BY <1>7, <2>1, ActiveMove DEF GuardedDecrement, ActiveAs, IsTransfer
<1>8. ASSUME NEW r \in Requests, InsertEntry(r) PROVE ActiveInv'
  <2>1. req[r].op # "transfer" /\ req[r].op \in Op
    BY <1>8, BodyFacts DEF InsertEntry, Routed, RoutedAs, IsTransfer
  <2>2. ActiveAs(r, "commit")
    BY <1>8, <2>1 DEF InsertEntry, ActiveInv, ActiveAs, Op
  <2>. QED  BY <1>8, <2>2, ActiveMove DEF InsertEntry
<1>9. ASSUME NEW r \in Requests, ValidateUnderLock(r) PROVE ActiveInv'
  <2>1. CASE Verdict(r) = "OK" /\ Goto(r, "insertTransfer") /\ UNCHANGED <<dbVars, req>>
    <3>1. status[From(r)] = "ACTIVE" /\ status[To(r)] = "ACTIVE"
      BY <2>1 DEF Verdict
    <3>. QED  BY <2>1, <3>1, ActiveMove DEF ActiveAs, dbVars
  <2>. QED  BY <1>9, <1>5, <2>1 DEF ValidateUnderLock
<1>10. ASSUME NEW r \in Requests,
              \/ LockFirst(r) \/ LockSecond(r)
       PROVE  ActiveInv'
  BY <1>10, ActiveMove DEF LockFirst, LockSecond, LockRow, ActiveAs
<1>11. ASSUME NEW r \in Requests, NEW label \in {"debitLeg", "creditLeg", "commit"},
              pc[r] \in {"insertTransfer", "debitLeg", "creditLeg"}, Goto(r, label),
              UNCHANGED <<req, status>>
       PROVE  ActiveInv'
  <2>1. ActiveAs(r, label)
    BY <1>11 DEF ActiveInv, ActiveAs
  <2>. QED  BY <1>11, <2>1, ActiveMove
<1>12. ASSUME NEW r \in Requests, InsertTransfer(r) \/ DebitLeg(r) \/ CreditLeg(r)
       PROVE  ActiveInv'
  BY <1>12, <1>5, <1>11 DEF InsertTransfer, DebitLeg, CreditLeg
<1>13. ASSUME NEW r \in Requests, NEW code, NEW row, NEW balance, CommitTransaction(r),
              Send(r, code, row, balance)
       PROVE  ActiveInv'
  BY <1>13, ActiveMove DEF CommitTransaction, Send, ActiveAs
<1>14. ASSUME NEW r \in Requests, Handle(r) PROVE ActiveInv'
  <2>1. CASE GuardedDecrementNone(r) \/ InsertDuplicate(r)
    BY <2>1, <1>5 DEF GuardedDecrementNone, InsertDuplicate
  <2>2. CASE Commit(r)
    BY <2>2, <1>13 DEF Commit
  <2>. QED
    BY <1>14, <2>1, <2>2, <1>3, <1>4, <1>6, <1>7, <1>8, <1>9, <1>10, <1>12 DEF Handle
<1>15. ASSUME NEW r \in Requests, Fail(r) PROVE ActiveInv'
  BY <1>15, <1>5 DEF Fail
<1>16. ASSUME NEW r \in Requests, CommitUnacknowledged(r) PROVE ActiveInv'
  BY <1>16, <1>13 DEF CommitUnacknowledged, Refuse
<1>17. CASE UNCHANGED vars
  BY <1>17 DEF ActiveInv, ActiveAs, vars, dbVars, From, To, IsTransfer
<1>. QED
  BY <1>2, <1>14, <1>15, <1>16, <1>17, ActiveSetStatus DEF Next, Quiescent

(* Only a handler that is at its commit commits.                           *)
LEMMA WhoCommits ==
  ASSUME [Next]_vars, NEW r \in commitLog' \ commitLog, r \in Requests
  PROVE  pc[r] = "commit" /\ CommitTransaction(r)
<1>1. ASSUME NEW q \in Requests, Commit(q) \/ CommitUnacknowledged(q)
      PROVE  q = r /\ pc[r] = "commit" /\ CommitTransaction(r)
  BY <1>1 DEF Commit, CommitUnacknowledged, CommitTransaction
<1>2. ASSUME NEW q \in Requests,
             \/ Receive(q) \/ LoadOwnedWallet(q) \/ LoadSource(q) \/ LoadDestination(q)
             \/ FindByReference(q) \/ IncrementBalance(q) \/ GuardedDecrementNone(q)
             \/ GuardedDecrement(q) \/ InsertEntry(q) \/ InsertDuplicate(q)
      PROVE  commitLog' = commitLog
  BY <1>2 DEF Receive, LoadOwnedWallet, LoadSource, LoadDestination, FindByReference,
     IncrementBalance, GuardedDecrementNone, GuardedDecrement, InsertEntry,
     InsertDuplicate, Rollback, dbVars
<1>3. ASSUME NEW q \in Requests,
             \/ LockFirst(q) \/ LockSecond(q) \/ ValidateUnderLock(q)
             \/ InsertTransfer(q) \/ DebitLeg(q) \/ CreditLeg(q) \/ Fail(q)
      PROVE  commitLog' = commitLog
  BY <1>3 DEF LockFirst, LockSecond, LockRow, ValidateUnderLock, InsertTransfer,
     DebitLeg, CreditLeg, Fail, Rollback, dbVars
<1>4. CASE (\E w \in Wallets : SetStatus(w)) \/ UNCHANGED vars
  BY <1>4 DEF SetStatus, vars, dbVars
<1>. QED  BY <1>1, <1>2, <1>3, <1>4 DEF Next, Handle, Quiescent

(* Withdrawals and transfers commit only while their wallets are ACTIVE,   *)
(* although their statements ran before: their locks hold operators off.   *)
THEOREM DebitsAreOfActiveWallets == Spec => DebitsNeedActiveWallets
<1>1. Init => ActiveInv
  BY DEF Init, ActiveInv, ActiveAs
<1>2. BooksInv /\ ActiveInv /\ [Next]_vars =>
        [\A r \in commitLog' \ commitLog :
           req[r].op # "deposit" =>
             /\ status[From(r)] = "ACTIVE"
             /\ IsTransfer(r) => status[To(r)] = "ACTIVE"]_vars
  <2>. SUFFICES ASSUME BooksInv, ActiveInv, [Next]_vars, BooksInv',
                       NEW r \in commitLog' \ commitLog, req[r].op # "deposit"
                PROVE  /\ status[From(r)] = "ACTIVE"
                       /\ IsTransfer(r) => status[To(r)] = "ACTIVE"
    BY TypeStep, RoutedStep, RowsStep DEF BooksInv
  <2>1. r \in Requests
    BY DEF BooksInv, TypeOK
  <2>2. pc[r] = "commit"
    BY <2>1, WhoCommits
  <2>. QED  BY <2>1, <2>2 DEF ActiveInv, ActiveAs
<1>. QED
  BY <1>1, <1>2, ActiveStep, BooksAreKept, PTL DEF Spec, DebitsNeedActiveWallets

-----------------------------------------------------------------------------
(* What a transaction has written so far: the rows that were committed     *)
(* when it locked the wallet, in their order, and then its own.            *)
Grown(old, new, r) ==
  /\ Len(old) <= Len(new)
  /\ \A i \in 1 .. Len(old) : new[i] = old[i]
  /\ \A i \in Len(old) + 1 .. Len(new) : new[i].by = r
GrowthInv ==
  /\ \A w \in Wallets : Grown(wallet[w].ledger, draft[w].ledger, lock[w])
  /\ \A r \in commitLog : pc[r] = "sent"

(* A draft nobody wrote to has grown by nothing.                           *)
LEMMA GrownSame ==
  ASSUME NEW s \in Seq(Entry), NEW r
  PROVE  Grown(s, s, r)
  BY DEF Grown

(* A handler's row on top of its rows.                                     *)
LEMMA GrownAppend ==
  ASSUME NEW s \in Seq(Entry), NEW t \in Seq(Entry), NEW r, NEW e \in Entry,
         Grown(s, t, r), e.by = r
  PROVE  Grown(s, Append(t, e), r)
<1>1. Len(Append(t, e)) = Len(t) + 1
  OBVIOUS
<1>2. \A i \in 1 .. Len(t) : Append(t, e)[i] = t[i]
  OBVIOUS
<1>3. Append(t, e)[Len(t) + 1] = e
  OBVIOUS
<1>. QED  BY <1>1, <1>2, <1>3 DEF Grown

(* Ledgers are sequences of entries.                                       *)
LEMMA Ledgers ==
  ASSUME TypeOK, NEW w \in Wallets
  PROVE  wallet[w].ledger \in Seq(Entry) /\ draft[w].ledger \in Seq(Entry)
  BY DEF TypeOK, Account

(* A handler that has not committed moves, and leaves rows as they were,   *)
(* perhaps locking one or changing its balance.                            *)
LEMMA GrowthLocks ==
  ASSUME BooksInv, GrowthInv, NEW r \in Requests, pc[r] # "sent",
         NEW label, Goto(r, label), UNCHANGED <<wallet, commitLog>>,
         \A w \in Wallets : /\ draft'[w].ledger = draft[w].ledger
                            /\ lock'[w] = lock[w] \/ (Grantable(r, w) /\ lock'[w] = r)
  PROVE  GrowthInv'
<1>1. ASSUME NEW w \in Wallets
      PROVE  Grown(wallet[w].ledger, draft'[w].ledger, lock'[w])
  <2>1. CASE lock'[w] = lock[w]
    BY <2>1 DEF GrowthInv
  <2>2. CASE lock[w] = NoRequest
    <3>1. draft[w] = wallet[w]
      BY <2>2 DEF BooksInv, RowsInv, DraftsLocked
    <3>. QED  BY <3>1, GrownSame, Ledgers DEF BooksInv
  <2>. QED  BY <2>1, <2>2 DEF Grantable
<1>2. \A q \in commitLog' : pc'[q] = "sent"
  BY DEF GrowthInv, Goto, BooksInv, TypeOK
<1>. QED  BY <1>1, <1>2 DEF GrowthInv

(* It appends a row of its own to a wallet that it has locked.             *)
LEMMA GrowthWrite ==
  ASSUME BooksInv, GrowthInv, NEW r \in Requests, pc[r] # "sent",
         NEW label, Goto(r, label), UNCHANGED <<wallet, commitLog, lock>>,
         NEW w \in Wallets, lock[w] = r, NEW e \in Entry, e.by = r,
         \A v \in Wallets : draft'[v].ledger =
           IF v = w THEN Append(draft[w].ledger, e) ELSE draft[v].ledger
  PROVE  GrowthInv'
<1>2. ASSUME NEW v \in Wallets
      PROVE  Grown(wallet[v].ledger, draft'[v].ledger, lock[v])
  <2>1. CASE v = w
    BY <2>1, GrownAppend, Ledgers DEF GrowthInv, BooksInv
  <2>2. CASE v # w
    BY <2>2 DEF GrowthInv
  <2>. QED  BY <2>1, <2>2
<1>3. \A q \in commitLog' : pc'[q] = "sent"
  BY DEF GrowthInv, Goto, BooksInv, TypeOK
<1>. QED  BY <1>2, <1>3 DEF GrowthInv

(* It gives up, or commits.                                                *)
LEMMA GrowthEnds ==
  ASSUME BooksInv, GrowthInv, NEW r \in Requests, Goto(r, "sent"),
         Rollback(r) \/ CommitTransaction(r)
  PROVE  GrowthInv'
<1>1. ASSUME NEW w \in Wallets
      PROVE  Grown(wallet'[w].ledger, draft'[w].ledger, lock'[w])
  <2>1. CASE lock[w] = r
    <3>1. wallet'[w] = draft'[w] /\ wallet'[w] \in {wallet[w], draft[w]}
      BY <2>1 DEF Rollback, CommitTransaction
    <3>. QED  BY <3>1, GrownSame, Ledgers DEF BooksInv
  <2>2. CASE lock[w] # r
    BY <2>2 DEF Rollback, CommitTransaction, Unlocked, GrowthInv
  <2>. QED  BY <2>1, <2>2
<1>2. commitLog' \subseteq commitLog \cup {r}
  BY DEF Rollback, CommitTransaction
<1>3. \A q \in commitLog' : pc'[q] = "sent"
  BY <1>2 DEF GrowthInv, Goto, BooksInv, TypeOK
<1>. QED  BY <1>1, <1>3 DEF GrowthInv

(* Drafts grow by rows of the handler that has locked them.                *)
LEMMA GrowthStep == BooksInv /\ GrowthInv /\ [Next]_vars => GrowthInv'
<1>. SUFFICES ASSUME BooksInv, GrowthInv, [Next]_vars PROVE GrowthInv'
  OBVIOUS
<1>1. ASSUME NEW r \in Requests, NEW label, pc[r] # "sent", Goto(r, label),
             UNCHANGED <<wallet, draft, lock, commitLog>>
      PROVE  GrowthInv'
  <2>1. \A w \in Wallets : draft'[w].ledger = draft[w].ledger /\ lock'[w] = lock[w]
    BY <1>1
  <2>. QED  BY <1>1, <2>1, GrowthLocks
<1>2. ASSUME NEW r \in Requests,
             \/ Receive(r) \/ LoadOwnedWallet(r) \/ LoadSource(r)
             \/ LoadDestination(r) \/ FindByReference(r)
      PROVE  GrowthInv'
  <2>1. pc[r] # "sent" /\ UNCHANGED dbVars
    BY <1>2 DEF Receive, LoadOwnedWallet, LoadSource, LoadDestination, FindByReference
  <2>2. \E label : Goto(r, label)
    BY <1>2 DEF Receive, LoadOwnedWallet, LoadSource, LoadDestination, FindByReference,
       Refuse, Send
  <2>. QED  BY <2>1, <2>2, <1>1 DEF dbVars
<1>3. ASSUME NEW r \in Requests, NEW code, Rollback(r), Refuse(r, code)
      PROVE  GrowthInv'
  BY <1>3, GrowthEnds DEF Refuse, Send
<1>4. ASSUME NEW r \in Requests, IncrementBalance(r) \/ GuardedDecrement(r)
      PROVE  GrowthInv'
  <2>1. CASE \E code : Rollback(r) /\ Refuse(r, code)
    BY <2>1, <1>3
  <2>2. ASSUME NEW w \in Wallets, NEW d, pc[r] # "sent", Grantable(r, w),
               lock' = [lock EXCEPT ![w] = r],
               draft' = [draft EXCEPT ![w] = Adjusted(draft[w], d)],
               Goto(r, "insertEntry"), UNCHANGED <<wallet, commitLog>>
        PROVE  GrowthInv'
    <3>1. \A v \in Wallets :
            lock'[v] = lock[v] \/ (Grantable(r, v) /\ lock'[v] = r)
      BY <2>2 DEF BooksInv, TypeOK
    <3>2. Adjusted(draft[w], d).ledger = draft[w].ledger
      BY DEF Adjusted, BooksInv, TypeOK, Account
    <3>3. \A v \in Wallets : draft'[v].ledger = draft[v].ledger
      BY <2>2, <3>2 DEF BooksInv, TypeOK
    <3>. QED  BY <2>2, <3>1, <3>3, GrowthLocks
  <2>3. To(r) \in Wallets \/ From(r) \in Wallets
    BY <1>4 DEF IncrementBalance, GuardedDecrement, BooksInv, Routed, RoutedAs, Known, OwnSide
  <2>4. CASE IncrementBalance(r)
    <3>1. To(r) \in Wallets
      BY <2>4 DEF IncrementBalance, BooksInv, Routed, RoutedAs, Known, OwnSide
    <3>. QED  BY <2>1, <2>2, <2>4, <3>1 DEF IncrementBalance
  <2>5. CASE GuardedDecrement(r)
    <3>1. From(r) \in Wallets
      BY <2>5 DEF GuardedDecrement, BooksInv, Routed, RoutedAs, Known, OwnSide
    <3>. QED  BY <2>2, <2>5, <3>1 DEF GuardedDecrement
  <2>. QED  BY <1>4, <2>4, <2>5
<1>5. ASSUME NEW r \in Requests, LockFirst(r) \/ LockSecond(r) PROVE GrowthInv'
  <2>1. UNCHANGED <<wallet, draft, commitLog>> /\ pc[r] # "sent"
    BY <1>5 DEF LockFirst, LockSecond, LockRow
  <2>2. \E label : Goto(r, label)
    BY <1>5 DEF LockFirst, LockSecond, LockRow
  <2>3. \A w \in Wallets : lock'[w] = lock[w] \/ (Grantable(r, w) /\ lock'[w] = r)
    BY <1>5 DEF LockFirst, LockSecond, LockRow, BooksInv, TypeOK
  <2>4. \A w \in Wallets : draft'[w].ledger = draft[w].ledger
    BY <2>1
  <2>. QED  BY <2>1, <2>2, <2>3, <2>4, GrowthLocks
<1>6. ASSUME NEW r \in Requests, NEW w \in Wallets, NEW a \in Account,
             NEW type \in {"CREDIT", "DEBIT"}, NEW reference \in RefValue,
             NEW transfer \in Requests \cup {NoRequest}, NEW label, a.ledger = draft[w].ledger,
             w \in HeldAs(r, pc[r]), pc[r] # "sent",
             draft' = [draft EXCEPT ![w] = Recorded(a, r, type, reference, transfer)],
             Goto(r, label), UNCHANGED <<wallet, commitLog, lock>>
      PROVE  GrowthInv'
  <2>. DEFINE e == [by |-> r, type |-> type, amount |-> req[r].amount,
                    balanceAfter |-> a.balance, reference |-> reference,
                    transfer |-> transfer]
  <2>1. lock[w] = r
    BY <1>6 DEF BooksInv, RowsInv, LocksHeld
  <2>2. Recorded(a, r, type, reference, transfer).ledger = Append(draft[w].ledger, e)
    BY <1>6 DEF Recorded, Account
  <2>3. \A v \in Wallets : draft'[v].ledger =
          IF v = w THEN Append(draft[w].ledger, e) ELSE draft[v].ledger
    BY <1>6, <2>2 DEF BooksInv, TypeOK
  <2>4. e \in Entry /\ e.by = r
    BY BodyFacts DEF Entry, Account, BooksInv
  <2>. HIDE DEF e
  <2>. QED  BY <1>6, <2>1, <2>3, <2>4, GrowthWrite
<1>7. ASSUME NEW r \in Requests, InsertEntry(r) PROVE GrowthInv'
  <2>1. OwnSide(r) \in Wallets /\ OwnSide(r) \in HeldAs(r, pc[r])
    BY <1>7 DEF InsertEntry, BooksInv, Routed, RoutedAs, Known, HeldAs
  <2>2. draft[OwnSide(r)] \in Account
    BY <2>1 DEF BooksInv, TypeOK
  <2>3. req[r].reference \in RefValue
    BY BodyFacts DEF BooksInv
  <2>. QED  BY <1>7, <2>1, <2>2, <2>3, <1>6 DEF InsertEntry, BooksInv, TypeOK
<1>8. ASSUME NEW r \in Requests, NEW w \in Wallets, NEW type \in {"CREDIT", "DEBIT"},
             NEW d \in Int, NEW label,
             w \in HeldAs(r, pc[r]), pc[r] # "sent", WriteLeg(r, w, type, d),
             Goto(r, label), UNCHANGED <<wallet, commitLog, lock>>
      PROVE  GrowthInv'
  <2>1. draft[w] \in Account
    BY DEF BooksInv, TypeOK
  <2>2. Adjusted(draft[w], d) \in Account /\ Adjusted(draft[w], d).ledger = draft[w].ledger
    BY <2>1 DEF Adjusted, Account
  <2>3. draft' = [draft EXCEPT ![w] = Recorded(Adjusted(draft[w], d), r, type, NoRef, r)]
    BY <1>8 DEF WriteLeg, BooksInv, TypeOK
  <2>4. NoRef \in RefValue
    BY DEF RefValue
  <2>. QED  BY <1>8, <2>2, <2>3, <2>4, <1>6
<1>9. ASSUME NEW r \in Requests, DebitLeg(r) \/ CreditLeg(r) PROVE GrowthInv'
  <2>1. /\ From(r) \in Wallets /\ To(r) \in Wallets
        /\ {From(r), To(r)} \subseteq HeldAs(r, pc[r])
    BY <1>9 DEF DebitLeg, CreditLeg, BooksInv, Routed, RoutedAs, Known, OwnSide,
       IsTransfer, HeldAs, Staged
  <2>2. req[r].amount \in Int /\ -req[r].amount \in Int
    BY BodyFacts DEF BooksInv
  <2>3. CASE DebitLeg(r)
    BY <2>1, <2>2, <2>3, <1>8 DEF DebitLeg
  <2>4. CASE CreditLeg(r)
    BY <2>1, <2>2, <2>4, <1>8, <1>3 DEF CreditLeg
  <2>. QED  BY <1>9, <2>3, <2>4
<1>10. ASSUME NEW r \in Requests, InsertTransfer(r) \/ ValidateUnderLock(r) PROVE GrowthInv'
  BY <1>10, <1>3, <1>1 DEF InsertTransfer, ValidateUnderLock, dbVars
<1>11. ASSUME NEW r \in Requests,
              GuardedDecrementNone(r) \/ InsertDuplicate(r) \/ Fail(r)
       PROVE  GrowthInv'
  BY <1>11, <1>3 DEF GuardedDecrementNone, InsertDuplicate, Fail
<1>12. ASSUME NEW r \in Requests, Commit(r) \/ CommitUnacknowledged(r) PROVE GrowthInv'
  BY <1>12, GrowthEnds DEF Commit, CommitUnacknowledged, Refuse, Send
<1>13. CASE (\E w \in Wallets : SetStatus(w)) \/ UNCHANGED vars
  BY <1>13 DEF GrowthInv, SetStatus, vars, dbVars
<1>. QED
  BY <1>2, <1>4, <1>5, <1>7, <1>9, <1>10, <1>11, <1>12, <1>13 DEF Next, Handle, Quiescent

(* Committed rows change in commits only, and each of those belongs to the *)
(* one request that holds the row.                                         *)
LEMMA WhoPublishes ==
  ASSUME BooksInv, GrowthInv, [Next]_vars, NEW w \in Wallets, wallet'[w] # wallet[w]
  PROVE  \E r \in Requests : /\ lock[w] = r /\ wallet'[w] = draft[w]
                             /\ r \in commitLog' \ commitLog
<1>1. ASSUME NEW q \in Requests, Commit(q) \/ CommitUnacknowledged(q)
      PROVE  lock[w] = q /\ wallet'[w] = draft[w] /\ q \in commitLog' \ commitLog
  <2>1. CommitTransaction(q) /\ pc[q] = "commit"
    BY <1>1 DEF Commit, CommitUnacknowledged
  <2>2. lock[w] = q /\ wallet'[w] = draft[w]
    BY <2>1 DEF CommitTransaction
  <2>. QED  BY <2>1, <2>2 DEF CommitTransaction, GrowthInv
<1>2. ASSUME NEW q \in Requests,
             \/ Receive(q) \/ LoadOwnedWallet(q) \/ LoadSource(q) \/ LoadDestination(q)
             \/ FindByReference(q) \/ IncrementBalance(q) \/ GuardedDecrementNone(q)
             \/ GuardedDecrement(q) \/ InsertEntry(q) \/ InsertDuplicate(q)
      PROVE  wallet' = wallet
  BY <1>2 DEF Receive, LoadOwnedWallet, LoadSource, LoadDestination, FindByReference,
     IncrementBalance, GuardedDecrementNone, GuardedDecrement, InsertEntry,
     InsertDuplicate, Rollback, dbVars
<1>3. ASSUME NEW q \in Requests,
             \/ LockFirst(q) \/ LockSecond(q) \/ ValidateUnderLock(q)
             \/ InsertTransfer(q) \/ DebitLeg(q) \/ CreditLeg(q) \/ Fail(q)
      PROVE  wallet' = wallet
  BY <1>3 DEF LockFirst, LockSecond, LockRow, ValidateUnderLock, InsertTransfer,
     DebitLeg, CreditLeg, Fail, Rollback, dbVars
<1>4. CASE (\E v \in Wallets : SetStatus(v)) \/ UNCHANGED vars
  BY <1>4 DEF SetStatus, vars, dbVars
<1>. QED  BY <1>1, <1>2, <1>3, <1>4 DEF Next, Handle, Quiescent

(* What has grown begins with what it was.                                 *)
LEMMA GrownPrefix ==
  ASSUME NEW s \in Seq(Entry), NEW t \in Seq(Entry), NEW r, Grown(s, t, r)
  PROVE  SubSeq(t, 1, Len(s)) = s
  BY DEF Grown

(* Ledgers only grow, and what a step publishes is of the one request that *)
(* commits in it.                                                          *)
THEOREM PublishedByCommit == Spec => OneRequestPerCommit
<1>1. Init => GrowthInv
  <2>. SUFFICES ASSUME Init PROVE GrowthInv
    OBVIOUS
  <2>1. TypeOK
    BY InitType
  <2>2. \A w \in Wallets : Grown(wallet[w].ledger, draft[w].ledger, lock[w])
    BY <2>1, GrownSame, Ledgers DEF Init
  <2>. QED  BY <2>2 DEF Init, GrowthInv
<1>. DEFINE Publishes ==
       \A w \in Wallets : wallet'[w] # wallet[w] =>
         LET old == wallet[w].ledger
             new == wallet'[w].ledger
         IN /\ SubSeq(new, 1, Len(old)) = old
            /\ \A i \in Len(old) + 1 .. Len(new) : new[i].by \in commitLog' \ commitLog
<1>2. BooksInv /\ GrowthInv /\ [Next]_vars => [Publishes]_vars
  <2>. SUFFICES ASSUME BooksInv, GrowthInv, [Next]_vars, NEW w \in Wallets,
                       wallet'[w] # wallet[w]
                PROVE  /\ SubSeq(wallet'[w].ledger, 1, Len(wallet[w].ledger)) = wallet[w].ledger
                       /\ \A i \in Len(wallet[w].ledger) + 1 .. Len(wallet'[w].ledger) :
                            wallet'[w].ledger[i].by \in commitLog' \ commitLog
    OBVIOUS
  <2>1. PICK r \in Requests : /\ lock[w] = r /\ wallet'[w] = draft[w]
                              /\ r \in commitLog' \ commitLog
    BY WhoPublishes
  <2>2. Grown(wallet[w].ledger, wallet'[w].ledger, r)
    BY <2>1 DEF GrowthInv
  <2>3. wallet[w].ledger \in Seq(Entry) /\ wallet'[w].ledger \in Seq(Entry)
    BY <2>1, Ledgers DEF BooksInv
  <2>4. SubSeq(wallet'[w].ledger, 1, Len(wallet[w].ledger)) = wallet[w].ledger
    BY <2>2, <2>3, GrownPrefix
  <2>5. \A i \in Len(wallet[w].ledger) + 1 .. Len(wallet'[w].ledger) :
          wallet'[w].ledger[i].by = r
    BY <2>2 DEF Grown
  <2>. QED  BY <2>1, <2>4, <2>5
<1>. QED
  BY <1>1, <1>2, GrowthStep, BooksAreKept, PTL DEF Spec, OneRequestPerCommit

-----------------------------------------------------------------------------
(* Steps, by what they do to rows and indexes.                             *)
Written == {"debitLeg", "creditLeg", "commit"}
Quiet ==
  /\ \A w \in Wallets : draft'[w].ledger = draft[w].ledger
  /\ UNCHANGED <<wallet, txnRef, transferRef, transferRows, commitLog>>
  /\ \A q \in Requests : pc'[q] = pc[q] \/ {pc[q], pc'[q]} \cap Written = {}
Abandons(r) == pc[r] # "sent" /\ Rollback(r) /\ Goto(r, "sent")
Settles(r) == pc[r] = "commit" /\ CommitTransaction(r) /\ Goto(r, "sent")
Leg(r, at, w, type, delta, next) ==
  /\ pc[r] = at /\ WriteLeg(r, w, type, delta) /\ Goto(r, next)
  /\ UNCHANGED <<wallet, lock, txnRef, transferRef, transferRows, commitLog>>
Debits(r) == Leg(r, "debitLeg", From(r), "DEBIT", -req[r].amount, "creditLeg")
Credits(r) == Leg(r, "creditLeg", To(r), "CREDIT", req[r].amount, "commit")
Touches(r) ==
  Abandons(r) \/ Settles(r) \/ InsertEntry(r) \/ InsertTransfer(r) \/ Debits(r) \/ Credits(r)

(* Every step is of one of these kinds.                                    *)
LEMMA StepKinds ==
  ASSUME BooksInv, [Next]_vars
  PROVE  req' = req /\ (Quiet \/ \E r \in Requests : Touches(r))
<1>. DEFINE Kind == req' = req /\ (Quiet \/ \E r \in Requests : Touches(r))
<1>1. ASSUME NEW r \in Requests, NEW label, Goto(r, label), req' = req,
             {pc[r], label} \cap Written = {},
             UNCHANGED <<wallet, draft, txnRef, transferRef, transferRows, commitLog>>
      PROVE  Kind
  BY <1>1 DEF Goto, BooksInv, TypeOK, Quiet
<1>2. ASSUME NEW r \in Requests, NEW code, pc[r] # "sent", Rollback(r), Refuse(r, code)
      PROVE  Kind
  BY <1>2 DEF Touches, Abandons, Refuse, Send, Rollback
<1>3. ASSUME NEW r \in Requests,
             \/ Receive(r) \/ LoadOwnedWallet(r) \/ LoadSource(r)
             \/ LoadDestination(r) \/ FindByReference(r)
      PROVE  Kind
  <2>1. /\ pc[r] \in {"idle", "load", "source", "destination", "replay"}
        /\ req' = req /\ UNCHANGED dbVars
    BY <1>3 DEF Receive, LoadOwnedWallet, LoadSource, LoadDestination, FindByReference
  <2>2. \E label \in {"sent", "source", "load", "replay", "destination", "credit",
                      "debit", "lockFirst"} : Goto(r, label)
    BY <1>3, BodyFacts DEF Receive, LoadOwnedWallet, LoadSource, LoadDestination,
       FindByReference, Refuse, Send, BooksInv, Op
  <2>. QED  BY <1>1, <2>1, <2>2 DEF dbVars, Written
<1>4. ASSUME NEW r \in Requests, IncrementBalance(r) \/ GuardedDecrement(r) PROVE Kind
  <2>1. CASE \E code : Rollback(r) /\ Refuse(r, code) /\ pc[r] # "sent"
    BY <2>1, <1>2
  <2>2. ASSUME pc[r] \in {"credit", "debit"}, req' = req, Goto(r, "insertEntry"),
               \A v \in Wallets : draft'[v].ledger = draft[v].ledger,
               UNCHANGED <<wallet, txnRef, transferRef, transferRows, commitLog>>
        PROVE  Kind
    <3>1. \A q \in Requests : pc'[q] = pc[q] \/ {pc[q], pc'[q]} \cap Written = {}
      BY <2>2 DEF Goto, BooksInv, TypeOK, Written
    <3>. QED  BY <2>2, <3>1 DEF Quiet
  <2>3. CASE IncrementBalance(r) /\ ~(Rollback(r) /\ Refuse(r, "INTERNAL_ERROR"))
    <3>1. /\ pc[r] = "credit" /\ req' = req /\ Goto(r, "insertEntry")
          /\ draft' = [draft EXCEPT ![To(r)] = Adjusted(draft[To(r)], req[r].amount)]
          /\ UNCHANGED <<wallet, txnRef, transferRef, transferRows, commitLog>>
      BY <2>3 DEF IncrementBalance
    <3>2. \A v \in Wallets : draft'[v].ledger = draft[v].ledger
      BY <3>1 DEF Adjusted, BooksInv, TypeOK, Account
    <3>. QED  BY <2>2, <3>1, <3>2
  <2>4. CASE IncrementBalance(r) /\ Rollback(r) /\ Refuse(r, "INTERNAL_ERROR")
    BY <2>1, <2>4 DEF IncrementBalance
  <2>5. CASE GuardedDecrement(r)
    <3>1. \A v \in Wallets : draft'[v].ledger = draft[v].ledger
      BY <2>5 DEF GuardedDecrement, Adjusted, BooksInv, TypeOK, Account
    <3>. QED  BY <2>2, <2>5, <3>1 DEF GuardedDecrement
  <2>. QED  BY <1>4, <2>3, <2>4, <2>5
<1>5. ASSUME NEW r \in Requests, LockFirst(r) \/ LockSecond(r) PROVE Kind
  <2>1. /\ req' = req /\ pc[r] \in {"lockFirst", "lockSecond"}
        /\ UNCHANGED <<wallet, draft, txnRef, transferRef, transferRows, commitLog>>
    BY <1>5 DEF LockFirst, LockSecond, LockRow
  <2>2. Goto(r, "lockSecond") \/ Goto(r, "validate")
    BY <1>5 DEF LockFirst, LockSecond, LockRow
  <2>. QED  BY <1>1, <2>1, <2>2 DEF Written
<1>6. ASSUME NEW r \in Requests, ValidateUnderLock(r) PROVE Kind
  <2>1. CASE Goto(r, "insertTransfer") /\ UNCHANGED <<dbVars, req>>
    BY <1>1, <1>6, <2>1 DEF ValidateUnderLock, dbVars, Written
  <2>. QED  BY <1>2, <1>6, <2>1 DEF ValidateUnderLock
<1>7. ASSUME NEW r \in Requests, InsertEntry(r) \/ InsertTransfer(r) PROVE Kind
  BY <1>7 DEF Touches, InsertEntry, InsertTransfer
<1>8. ASSUME NEW r \in Requests, DebitLeg(r) PROVE Kind
  <2>1. Debits(r) /\ req' = req
    BY <1>8 DEF DebitLeg, Debits, Leg
  <2>. QED  BY <2>1 DEF Touches
<1>9. ASSUME NEW r \in Requests, CreditLeg(r) PROVE Kind
  <2>1. CASE Rollback(r) /\ Refuse(r, "INTERNAL_ERROR")
    BY <1>2, <1>9, <2>1 DEF CreditLeg
  <2>2. CASE ~(Rollback(r) /\ Refuse(r, "INTERNAL_ERROR"))
    <3>1. Credits(r) /\ req' = req
      BY <1>9, <2>2 DEF CreditLeg, Credits, Leg
    <3>. QED  BY <3>1 DEF Touches
  <2>. QED  BY <2>1, <2>2
<1>10. ASSUME NEW r \in Requests,
              GuardedDecrementNone(r) \/ InsertDuplicate(r) \/ Fail(r)
       PROVE  Kind
  BY <1>10, <1>2 DEF GuardedDecrementNone, InsertDuplicate, Fail, Running
<1>11. ASSUME NEW r \in Requests, Commit(r) \/ CommitUnacknowledged(r) PROVE Kind
  <2>1. Settles(r) /\ req' = req
    BY <1>11 DEF Commit, CommitUnacknowledged, Settles, Refuse, Send, CommitTransaction
  <2>. QED  BY <2>1 DEF Touches
<1>12. CASE (\E w \in Wallets : SetStatus(w)) \/ UNCHANGED vars
  BY <1>12 DEF SetStatus, vars, dbVars, Quiet
<1>. QED
  BY <1>3, <1>4, <1>5, <1>6, <1>7, <1>8, <1>9, <1>10, <1>11, <1>12
  DEF Next, Handle, Quiescent

(* A step that writes appends one row of its own to a wallet it has locked. *)
Writes(r, w, e) ==
  /\ w \in Wallets /\ lock[w] = r
  /\ e \in Entry /\ e.by = r /\ e.amount = req[r].amount
  /\ \A v \in Wallets :
       draft'[v].ledger = IF v = w THEN Append(draft[w].ledger, e) ELSE draft[v].ledger
  /\ UNCHANGED <<wallet, lock, commitLog>>

Records(r, w, a, type, reference, transfer) ==
  draft' = [draft EXCEPT ![w] = Recorded(a, r, type, reference, transfer)]

(* A row that is recorded is written, with what the caller gave it.        *)
LEMMA RecordWrites ==
  ASSUME BooksInv, NEW r \in Requests, NEW w \in Wallets, NEW a \in Account,
         NEW type \in {"CREDIT", "DEBIT"}, NEW reference \in RefValue,
         NEW transfer \in Requests \cup {NoRequest}, a.ledger = draft[w].ledger,
         w \in HeldAs(r, pc[r]), Records(r, w, a, type, reference, transfer),
         UNCHANGED <<wallet, lock, commitLog>>
  PROVE  \E e : /\ Writes(r, w, e) /\ e.type = type /\ e.balanceAfter = a.balance
                /\ e.reference = reference /\ e.transfer = transfer
<1>. DEFINE e == [by |-> r, type |-> type, amount |-> req[r].amount,
                  balanceAfter |-> a.balance, reference |-> reference,
                  transfer |-> transfer]
<1>1. lock[w] = r
  BY DEF BooksInv, RowsInv, LocksHeld
<1>2. Recorded(a, r, type, reference, transfer).ledger = Append(draft[w].ledger, e)
  BY DEF Recorded, Account
<1>3. \A v \in Wallets : draft'[v].ledger =
        IF v = w THEN Append(draft[w].ledger, e) ELSE draft[v].ledger
  BY <1>2 DEF Records, BooksInv, TypeOK
<1>4. /\ e \in Entry /\ e.by = r /\ e.amount = req[r].amount /\ e.type = type
      /\ e.balanceAfter = a.balance /\ e.reference = reference /\ e.transfer = transfer
  BY BodyFacts DEF Entry, Account, BooksInv
<1>. HIDE DEF e
<1>. QED  BY <1>1, <1>3, <1>4 DEF Writes

(* The row of a deposit or a withdrawal.                                   *)
LEMMA EntryWrites ==
  ASSUME BooksInv, NEW r \in Requests, InsertEntry(r)
  PROVE  /\ ~IsTransfer(r) /\ OwnSide(r) \in Wallets
         /\ \E e : /\ Writes(r, OwnSide(r), e)
                   /\ e.type = (IF req[r].op = "deposit" THEN "CREDIT" ELSE "DEBIT")
                   /\ e.balanceAfter = draft[OwnSide(r)].balance
                   /\ e.reference = req[r].reference /\ e.transfer = NoRequest
<1>1. /\ ~IsTransfer(r)
      /\ OwnSide(r) \in Wallets /\ OwnSide(r) \in HeldAs(r, pc[r])
  BY DEF InsertEntry, BooksInv, Routed, RoutedAs, Known, HeldAs
<1>2. draft[OwnSide(r)] \in Account
  BY <1>1 DEF BooksInv, TypeOK
<1>3. req[r].reference \in RefValue
  BY BodyFacts DEF BooksInv
<1>. DEFINE w == OwnSide(r)
           type == IF req[r].op = "deposit" THEN "CREDIT" ELSE "DEBIT"
<1>4. /\ Records(r, w, draft[w], type, req[r].reference, NoRequest)
      /\ UNCHANGED <<wallet, lock, commitLog>> /\ type \in {"CREDIT", "DEBIT"}
  BY DEF InsertEntry, Records
<1>. HIDE DEF w, type
<1>5. w \in Wallets /\ w \in HeldAs(r, pc[r]) /\ draft[w] \in Account
  BY <1>1, <1>2 DEF w
<1>6. \E e : /\ Writes(r, w, e) /\ e.type = type /\ e.balanceAfter = draft[w].balance
             /\ e.reference = req[r].reference /\ e.transfer = NoRequest
  BY <1>3, <1>4, <1>5, RecordWrites
<1>. QED  BY <1>1, <1>6 DEF w, type

(* The row of a leg of a transfer.                                         *)
LEMMA LegWrites ==
  ASSUME BooksInv, NEW r \in Requests, NEW at \in {"debitLeg", "creditLeg"},
         NEW w \in {From(r), To(r)}, NEW type \in {"CREDIT", "DEBIT"}, NEW d \in Int,
         NEW next, Leg(r, at, w, type, d, next)
  PROVE  /\ IsTransfer(r) /\ From(r) \in Wallets /\ To(r) \in Wallets
         /\ \E e : /\ Writes(r, w, e)
                   /\ e.type = type /\ e.balanceAfter = draft[w].balance + d
                   /\ e.reference = NoRef /\ e.transfer = r
<1>1. /\ IsTransfer(r) /\ From(r) \in Wallets /\ To(r) \in Wallets
      /\ {From(r), To(r)} \subseteq HeldAs(r, pc[r])
  BY DEF Leg, BooksInv, Routed, RoutedAs, Known, OwnSide, IsTransfer, HeldAs, Staged
<1>2. draft[w] \in Account
  BY <1>1 DEF BooksInv, TypeOK
<1>3. /\ Adjusted(draft[w], d) \in Account
      /\ Adjusted(draft[w], d).ledger = draft[w].ledger
      /\ Adjusted(draft[w], d).balance = draft[w].balance + d
  BY <1>2 DEF Adjusted, Account
<1>4. draft' = [draft EXCEPT ![w] = Recorded(Adjusted(draft[w], d), r, type, NoRef, r)]
  BY <1>1 DEF Leg, WriteLeg, BooksInv, TypeOK
<1>5. NoRef \in RefValue
  BY DEF RefValue
<1>6. w \in Wallets /\ w \in HeldAs(r, pc[r]) /\ UNCHANGED <<wallet, lock, commitLog>>
  BY <1>1 DEF Leg
<1>. DEFINE a == Adjusted(draft[w], d)
<1>. HIDE DEF a
<1>7. /\ a \in Account /\ a.ledger = draft[w].ledger /\ a.balance = draft[w].balance + d
      /\ Records(r, w, a, type, NoRef, r)
  BY <1>3, <1>4 DEF a, Records
<1>8. \E e : /\ Writes(r, w, e) /\ e.type = type /\ e.balanceAfter = a.balance
             /\ e.reference = NoRef /\ e.transfer = r
  BY <1>5, <1>6, <1>7, RecordWrites
<1>. QED  BY <1>1, <1>7, <1>8

(* What both legs have in common.                                          *)
LEMMA LegFacts ==
  ASSUME BooksInv, NEW r \in Requests, Debits(r) \/ Credits(r)
  PROVE  \E w, e :
           /\ Writes(r, w, e) /\ e.reference = NoRef /\ e.transfer = r /\ IsTransfer(r)
           /\ w = From(r) \/ (w = To(r) /\ pc[r] = "creditLeg" /\ e.type = "CREDIT")
<1>1. req[r].amount \in Int /\ -req[r].amount \in Int
  BY BodyFacts DEF BooksInv
<1>2. CASE Debits(r)
  <2>1. Leg(r, "debitLeg", From(r), "DEBIT", -req[r].amount, "creditLeg")
    BY <1>2 DEF Debits
  <2>. QED  BY <1>1, <2>1, LegWrites
<1>3. CASE Credits(r)
  <2>1. Leg(r, "creditLeg", To(r), "CREDIT", req[r].amount, "commit") /\ pc[r] = "creditLeg"
    BY <1>3 DEF Credits, Leg
  <2>. QED  BY <1>1, <2>1, LegWrites
<1>. QED  BY <1>2, <1>3

(* The elements of a sequence with one more.                               *)
LEMMA Appended ==
  ASSUME NEW t \in Seq(Entry), NEW e \in Entry
  PROVE  /\ Len(Append(t, e)) = Len(t) + 1 /\ Len(t) \in Nat
         /\ \A i \in 1 .. Len(t) : Append(t, e)[i] = t[i]
         /\ Append(t, e)[Len(t) + 1] = e
  OBVIOUS

(* After a write every row is an old one or the one written.               *)
LEMMA WrittenRows ==
  ASSUME BooksInv, NEW r, NEW w, NEW e, Writes(r, w, e), NEW v \in Wallets,
         NEW i \in 1 .. Len(draft'[v].ledger)
  PROVE  \/ i \in 1 .. Len(draft[v].ledger) /\ draft'[v].ledger[i] = draft[v].ledger[i]
         \/ v = w /\ i = Len(draft[w].ledger) + 1 /\ draft'[v].ledger[i] = e
<1>1. CASE v # w
  BY <1>1 DEF Writes
<1>2. CASE v = w
  <2>1. draft[w].ledger \in Seq(Entry) /\ e \in Entry
    BY Ledgers DEF Writes, BooksInv
  <2>2. draft'[v].ledger = Append(draft[w].ledger, e)
    BY <1>2 DEF Writes
  <2>. QED  BY <1>2, <2>1, <2>2, Appended
<1>. QED  BY <1>1, <1>2

-----------------------------------------------------------------------------
(* Rows with a reference are in the index under it, one row each.          *)
Indexed ==
  \A w \in Wallets : \A i \in 1 .. Len(draft[w].ledger) :
    LET e == draft[w].ledger[i] IN
    e.reference # NoRef =>
      e.by \in Requests /\ txnRef[e.reference] = e.by /\ req[e.by].reference = e.reference
NotTwice ==
  \A v, w \in Wallets :
    \A i \in 1 .. Len(draft[v].ledger), j \in 1 .. Len(draft[w].ledger) :
      (/\ draft[v].ledger[i].reference # NoRef
       /\ draft[v].ledger[i].reference = draft[w].ledger[j].reference)
      => v = w /\ i = j
TransfersIndexed ==
  \A r \in transferRows :
    req[r].reference # NoRef => transferRef[req[r].reference] = r

(* What is committed is of requests that committed.                        *)
Committed ==
  \A w \in Wallets : \A i \in 1 .. Len(wallet[w].ledger) :
    wallet[w].ledger[i].by \in commitLog \cup {NoRequest}
RefsInv == Indexed /\ NotTwice /\ TransfersIndexed /\ Committed

(* The committed rows are the first ones of the draft, and the others are  *)
(* of the handler that has locked the wallet.                              *)
LEMMA CommittedRows ==
  ASSUME TypeOK, GrowthInv, NEW w \in Wallets, NEW i \in 1 .. Len(wallet[w].ledger)
  PROVE  i \in 1 .. Len(draft[w].ledger) /\ draft[w].ledger[i] = wallet[w].ledger[i]
<1>1. wallet[w].ledger \in Seq(Entry) /\ draft[w].ledger \in Seq(Entry)
  BY Ledgers
<1>2. Grown(wallet[w].ledger, draft[w].ledger, lock[w])
  BY DEF GrowthInv
<1>. QED  BY <1>1, <1>2 DEF Grown

(* A row of a request that has not committed is in a wallet it has locked. *)
LEMMA OpenRows ==
  ASSUME TypeOK, GrowthInv, Committed, NEW w \in Wallets,
         NEW i \in 1 .. Len(draft[w].ledger),
         draft[w].ledger[i].by \notin commitLog \cup {NoRequest}
  PROVE  lock[w] = draft[w].ledger[i].by
<1>1. wallet[w].ledger \in Seq(Entry) /\ draft[w].ledger \in Seq(Entry)
  BY Ledgers
<1>2. Grown(wallet[w].ledger, draft[w].ledger, lock[w])
  BY DEF GrowthInv
<1>. QED  BY <1>1, <1>2 DEF Grown, Committed

(* What a handler leaves when it gives up is not its own.                  *)
LEMMA AbandonedRows ==
  ASSUME BooksInv, GrowthInv, Committed, NEW r \in Requests, Abandons(r), NEW w \in Wallets,
         NEW i \in 1 .. Len(draft'[w].ledger)
  PROVE  /\ i \in 1 .. Len(draft[w].ledger) /\ draft'[w].ledger[i] = draft[w].ledger[i]
         /\ draft[w].ledger[i].by # r
<1>1. r \notin commitLog /\ r # NoRequest
  BY RequestAssumption DEF Abandons, GrowthInv
<1>2. CASE lock[w] = r
  <2>1. draft'[w] = wallet[w]
    BY <1>2 DEF Abandons, Rollback
  <2>. QED  BY <1>1, <2>1, CommittedRows DEF Committed, BooksInv
<1>3. CASE lock[w] # r
  <2>1. draft'[w] = draft[w]
    BY <1>3 DEF Abandons, Rollback
  <2>. QED  BY <1>1, <1>3, <2>1, OpenRows DEF BooksInv
<1>. QED  BY <1>2, <1>3

(* What a commit publishes is of the handler that commits.                 *)
LEMMA CommittedStep ==
  ASSUME BooksInv, GrowthInv, Committed, [Next]_vars
  PROVE  Committed'
<1>1. CASE UNCHANGED <<wallet, commitLog>>
  BY <1>1 DEF Committed
<1>2. ASSUME NEW r \in Requests, Settles(r) PROVE Committed'
  <2>. SUFFICES ASSUME NEW w \in Wallets, NEW i \in 1 .. Len(wallet'[w].ledger)
                PROVE  wallet'[w].ledger[i].by \in commitLog' \cup {NoRequest}
    BY DEF Committed
  <2>1. commitLog' = commitLog \cup {r}
    BY <1>2 DEF Settles, CommitTransaction
  <2>2. CASE lock[w] = r
    <3>1. wallet'[w] = draft[w]
      BY <1>2, <2>2 DEF Settles, CommitTransaction
    <3>. QED  BY <2>1, <2>2, <3>1, OpenRows DEF BooksInv
  <2>3. CASE lock[w] # r
    BY <1>2, <2>1, <2>3 DEF Settles, CommitTransaction, Committed
  <2>. QED  BY <2>2, <2>3
<1>3. ASSUME NEW r \in Requests,
             \/ Abandons(r) \/ InsertEntry(r) \/ InsertTransfer(r) \/ Debits(r) \/ Credits(r)
      PROVE  UNCHANGED <<wallet, commitLog>>
  BY <1>3 DEF Abandons, Rollback, InsertEntry, InsertTransfer, Debits, Credits, Leg
<1>. QED  BY <1>1, <1>2, <1>3, StepKinds DEF Quiet, Touches

(* A row is written after its reference is inserted, and both go together. *)
LEMMA IndexedStep ==
  ASSUME BooksInv, GrowthInv, RefsInv, [Next]_vars
  PROVE  Indexed'
<1>1. req' = req
  BY StepKinds
<1>2. CASE Quiet
  BY <1>1, <1>2 DEF Quiet, RefsInv, Indexed
<1>3. ASSUME NEW r \in Requests, Abandons(r) PROVE Indexed'
  <2>. SUFFICES ASSUME NEW w \in Wallets, NEW i \in 1 .. Len(draft'[w].ledger),
                       draft'[w].ledger[i].reference # NoRef
                PROVE  LET e == draft'[w].ledger[i] IN
                       /\ e.by \in Requests /\ txnRef'[e.reference] = e.by
                       /\ req[e.by].reference = e.reference
    BY <1>1 DEF Indexed
  <2>. DEFINE e == draft'[w].ledger[i]
  <2>1. /\ i \in 1 .. Len(draft[w].ledger) /\ e = draft[w].ledger[i] /\ e.by # r
    BY <1>3, AbandonedRows DEF RefsInv
  <2>2. e.by \in Requests /\ txnRef[e.reference] = e.by /\ req[e.by].reference = e.reference
    BY <2>1 DEF RefsInv, Indexed
  <2>3. e.reference \in Refs
    BY <2>2, BodyFacts DEF BooksInv, RefValue
  <2>4. txnRef'[e.reference] = txnRef[e.reference]
    BY <1>3, <2>1, <2>2, <2>3 DEF Abandons, Rollback, Without
  <2>. QED  BY <2>2, <2>4
<1>4. ASSUME NEW r \in Requests, InsertEntry(r) PROVE Indexed'
  <2>1. PICK e : /\ Writes(r, OwnSide(r), e) /\ e.reference = req[r].reference
    BY <1>4, EntryWrites
  <2>2. /\ txnRef' = InsertRef(r, txnRef) /\ ~IsTransfer(r)
        /\ e.reference # NoRef => txnRef[e.reference] = NoRequest
    BY <1>4, <2>1, EntryWrites DEF InsertEntry, RefFree, RefIndex
  <2>3. e.reference # NoRef => e.reference \in Refs
    BY <2>1, BodyFacts DEF BooksInv, RefValue
  <2>4. \A k : txnRef[k] # NoRequest => txnRef'[k] = txnRef[k]
    BY <2>1, <2>2, <2>3 DEF InsertRef, BooksInv, TypeOK
  <2>5. e.reference # NoRef => txnRef'[e.reference] = r
    BY <2>1, <2>2, <2>3 DEF InsertRef, BooksInv, TypeOK
  <2>. SUFFICES ASSUME NEW w \in Wallets, NEW i \in 1 .. Len(draft'[w].ledger),
                       draft'[w].ledger[i].reference # NoRef
                PROVE  LET d == draft'[w].ledger[i] IN
                       /\ d.by \in Requests /\ txnRef'[d.reference] = d.by
                       /\ req[d.by].reference = d.reference
    BY <1>1 DEF Indexed
  <2>6. CASE i \in 1 .. Len(draft[w].ledger) /\ draft'[w].ledger[i] = draft[w].ledger[i]
    BY <2>4, <2>6, RequestAssumption DEF RefsInv, Indexed
  <2>7. CASE draft'[w].ledger[i] = e
    BY <2>1, <2>5, <2>7 DEF Writes
  <2>. QED  BY <2>1, <2>6, <2>7, WrittenRows
<1>5. ASSUME NEW r \in Requests, InsertTransfer(r) PROVE Indexed'
  BY <1>1, <1>5 DEF InsertTransfer, RefsInv, Indexed
<1>6. ASSUME NEW r \in Requests, Debits(r) \/ Credits(r) PROVE Indexed'
  <2>1. PICK w, e : Writes(r, w, e) /\ e.reference = NoRef
    BY <1>6, LegFacts
  <2>2. txnRef' = txnRef
    BY <1>6 DEF Debits, Credits, Leg
  <2>. SUFFICES ASSUME NEW v \in Wallets, NEW i \in 1 .. Len(draft'[v].ledger),
                       draft'[v].ledger[i].reference # NoRef
                PROVE  LET d == draft'[v].ledger[i] IN
                       /\ d.by \in Requests /\ txnRef'[d.reference] = d.by
                       /\ req[d.by].reference = d.reference
    BY <1>1 DEF Indexed
  <2>3. i \in 1 .. Len(draft[v].ledger) /\ draft'[v].ledger[i] = draft[v].ledger[i]
    BY <2>1, WrittenRows
  <2>. QED  BY <2>2, <2>3 DEF Indexed, RefsInv
<1>7. ASSUME NEW r \in Requests, Settles(r) PROVE Indexed'
  BY <1>1, <1>7 DEF Settles, CommitTransaction, RefsInv, Indexed
<1>. QED  BY <1>2, <1>3, <1>4, <1>5, <1>6, <1>7, StepKinds DEF Touches

(* Rows with one reference are one row.                                    *)
LEMMA SameRow ==
  ASSUME NotTwice, NEW v \in Wallets, NEW w \in Wallets,
         NEW i \in 1 .. Len(draft[v].ledger), NEW j \in 1 .. Len(draft[w].ledger),
         draft[v].ledger[i].reference # NoRef,
         draft[v].ledger[i].reference = draft[w].ledger[j].reference
  PROVE  v = w /\ i = j
  BY DEF NotTwice

(* A row is written under a reference that no row has.                     *)
LEMMA NotTwiceStep ==
  ASSUME BooksInv, GrowthInv, RefsInv, [Next]_vars
  PROVE  NotTwice'
<1>1. CASE \A w \in Wallets : \A i \in 1 .. Len(draft'[w].ledger) :
             /\ i \in 1 .. Len(draft[w].ledger)
             /\ draft'[w].ledger[i] = draft[w].ledger[i]
  <2>. SUFFICES ASSUME NEW u \in Wallets, NEW v \in Wallets,
                       NEW i \in 1 .. Len(draft'[u].ledger),
                       NEW j \in 1 .. Len(draft'[v].ledger),
                       draft'[u].ledger[i].reference # NoRef,
                       draft'[u].ledger[i].reference = draft'[v].ledger[j].reference
                PROVE  u = v /\ i = j
    BY DEF NotTwice
  <2>1. /\ i \in 1 .. Len(draft[u].ledger) /\ draft'[u].ledger[i] = draft[u].ledger[i]
        /\ j \in 1 .. Len(draft[v].ledger) /\ draft'[v].ledger[j] = draft[v].ledger[j]
    BY <1>1
  <2>. QED  BY <2>1, SameRow DEF RefsInv
<1>2. CASE Quiet
  BY <1>1, <1>2 DEF Quiet
<1>3. ASSUME NEW r \in Requests, Abandons(r) PROVE NotTwice'
  BY <1>1, <1>3, AbandonedRows DEF RefsInv
<1>4. ASSUME NEW r \in Requests, NEW w \in Wallets, NEW e, Writes(r, w, e),
             e.reference # NoRef => txnRef[e.reference] = NoRequest
      PROVE  NotTwice'
  <2>1. \A v \in Wallets : \A i \in 1 .. Len(draft[v].ledger) :
          e.reference # NoRef => draft[v].ledger[i].reference # e.reference
    BY <1>4, RequestAssumption DEF RefsInv, Indexed
  <2>. SUFFICES ASSUME NEW u \in Wallets, NEW v \in Wallets,
                       NEW i \in 1 .. Len(draft'[u].ledger),
                       NEW j \in 1 .. Len(draft'[v].ledger),
                       draft'[u].ledger[i].reference # NoRef,
                       draft'[u].ledger[i].reference = draft'[v].ledger[j].reference
                PROVE  u = v /\ i = j
    BY DEF NotTwice
  <2>2. \/ i \in 1 .. Len(draft[u].ledger) /\ draft'[u].ledger[i] = draft[u].ledger[i]
        \/ u = w /\ i = Len(draft[w].ledger) + 1 /\ draft'[u].ledger[i] = e
    BY <1>4, WrittenRows
  <2>3. \/ j \in 1 .. Len(draft[v].ledger) /\ draft'[v].ledger[j] = draft[v].ledger[j]
        \/ v = w /\ j = Len(draft[w].ledger) + 1 /\ draft'[v].ledger[j] = e
    BY <1>4, WrittenRows
  <2>4. CASE /\ i \in 1 .. Len(draft[u].ledger) /\ draft'[u].ledger[i] = draft[u].ledger[i]
             /\ j \in 1 .. Len(draft[v].ledger) /\ draft'[v].ledger[j] = draft[v].ledger[j]
    BY <2>4, SameRow DEF RefsInv
  <2>. QED  BY <2>1, <2>2, <2>3, <2>4
<1>5. ASSUME NEW r \in Requests, InsertEntry(r) PROVE NotTwice'
  <2>1. PICK e : Writes(r, OwnSide(r), e) /\ e.reference = req[r].reference
    BY <1>5, EntryWrites
  <2>2. e.reference # NoRef => txnRef[e.reference] = NoRequest
    BY <1>5, <2>1, EntryWrites DEF InsertEntry, RefFree, RefIndex
  <2>. QED  BY <1>4, <1>5, <2>1, <2>2, EntryWrites
<1>6. ASSUME NEW r \in Requests, Debits(r) \/ Credits(r) PROVE NotTwice'
  <2>1. PICK w, e : Writes(r, w, e) /\ e.reference = NoRef
    BY <1>6, LegFacts
  <2>2. w \in Wallets
    BY <2>1 DEF Writes
  <2>. QED  BY <1>4, <2>1, <2>2
<1>7. ASSUME NEW r \in Requests, Settles(r) \/ InsertTransfer(r) PROVE NotTwice'
  <2>1. draft' = draft
    BY <1>7 DEF Settles, CommitTransaction, InsertTransfer
  <2>. QED  BY <1>1, <2>1
<1>. QED  BY <1>2, <1>3, <1>5, <1>6, <1>7, StepKinds DEF Touches

(* Transfers are in their index as long as their rows may be.              *)
LEMMA TransfersIndexedStep ==
  ASSUME BooksInv, GrowthInv, RefsInv, [Next]_vars
  PROVE  TransfersIndexed'
<1>1. req' = req
  BY StepKinds
<1>2. CASE UNCHANGED <<transferRef, transferRows>>
  BY <1>1, <1>2 DEF RefsInv, TransfersIndexed
<1>3. ASSUME NEW r \in Requests, Abandons(r) PROVE TransfersIndexed'
  <2>. SUFFICES ASSUME NEW q \in transferRows', req[q].reference # NoRef
                PROVE  transferRef'[req[q].reference] = q
    BY <1>1 DEF TransfersIndexed
  <2>1. q \in transferRows /\ q # r /\ q \in Requests
    BY <1>3 DEF Abandons, Rollback, BooksInv, TypeOK
  <2>2. req[q].reference \in Refs /\ transferRef[req[q].reference] = q
    BY <2>1, BodyFacts DEF RefsInv, TransfersIndexed, BooksInv, RefValue
  <2>. QED  BY <1>3, <2>1, <2>2 DEF Abandons, Rollback, Without
<1>4. ASSUME NEW r \in Requests, InsertTransfer(r) PROVE TransfersIndexed'
  <2>1. IsTransfer(r)
    BY <1>4 DEF InsertTransfer, BooksInv, Routed, RoutedAs, Staged
  <2>2. /\ transferRef' = InsertRef(r, transferRef) /\ transferRows' = transferRows \cup {r}
        /\ req[r].reference # NoRef => transferRef[req[r].reference] = NoRequest
    BY <1>4, <2>1 DEF InsertTransfer, RefFree, RefIndex
  <2>3. req[r].reference # NoRef => req[r].reference \in Refs
    BY BodyFacts DEF BooksInv, RefValue
  <2>. SUFFICES ASSUME NEW q \in transferRows', req[q].reference # NoRef
                PROVE  transferRef'[req[q].reference] = q
    BY <1>1 DEF TransfersIndexed
  <2>4. CASE q = r
    BY <2>2, <2>3, <2>4 DEF InsertRef, BooksInv, TypeOK
  <2>5. CASE q # r
    <3>1. q \in Requests /\ transferRef[req[q].reference] = q
      BY <2>2, <2>5 DEF RefsInv, TransfersIndexed, BooksInv, TypeOK
    <3>2. req[r].reference # NoRef => req[q].reference # req[r].reference
      BY <2>2, <3>1, RequestAssumption
    <3>. QED  BY <2>2, <3>1, <3>2 DEF InsertRef, BooksInv, TypeOK
  <2>. QED  BY <2>4, <2>5
<1>5. ASSUME NEW r \in Requests,
             Settles(r) \/ InsertEntry(r) \/ Debits(r) \/ Credits(r)
      PROVE  TransfersIndexed'
  BY <1>2, <1>5 DEF Settles, CommitTransaction, InsertEntry, Debits, Credits, Leg
<1>. QED  BY <1>2, <1>3, <1>4, <1>5, StepKinds DEF Quiet, Touches

(* GrowthInv and RefsInv always hold.                                      *)
LEMMA InitRefs == Init => GrowthInv /\ RefsInv
<1>. SUFFICES ASSUME Init PROVE GrowthInv /\ RefsInv
  OBVIOUS
<1>1. TypeOK
  BY InitType
<1>2. GrowthInv
  BY <1>1, GrownSame, Ledgers DEF Init, GrowthInv
<1>3. \A w \in Wallets : \A i \in 1 .. Len(draft[w].ledger) :
        draft[w].ledger[i].by = NoRequest /\ draft[w].ledger[i].reference = NoRef
  BY DEF Init
<1>. QED  BY <1>2, <1>3 DEF Init, RefsInv, Indexed, NotTwice, TransfersIndexed, Committed

(* The invariants that references rest on.                                 *)
LEMMA RefsAreKept == Spec => [](BooksInv /\ GrowthInv /\ RefsInv)
<1>1. BooksInv /\ GrowthInv /\ RefsInv /\ [Next]_vars => RefsInv'
  BY IndexedStep, NotTwiceStep, TransfersIndexedStep, CommittedStep DEF RefsInv
<1>. QED  BY <1>1, InitRefs, GrowthStep, BooksAreKept, PTL DEF Spec

(* However often a reference is sent, one committed row of its table at    *)
(* most carries it: the unique indexes hold for open transactions too.     *)
THEOREM ReferencesTakeEffectOnce == Spec => []OneEffectPerReference
<1>1. BooksInv /\ GrowthInv /\ RefsInv => OneEffectPerReference
  <2>. SUFFICES ASSUME BooksInv, GrowthInv, RefsInv PROVE OneEffectPerReference
    OBVIOUS
  <2>1. \A w \in Wallets : \A i \in 1 .. Len(wallet[w].ledger) :
          i \in 1 .. Len(draft[w].ledger) /\ draft[w].ledger[i] = wallet[w].ledger[i]
    BY CommittedRows DEF BooksInv
  <2>2. ASSUME NEW v \in Wallets, NEW w \in Wallets,
               NEW i \in 1 .. Len(wallet[v].ledger), NEW j \in 1 .. Len(wallet[w].ledger),
               wallet[v].ledger[i].reference # NoRef,
               wallet[v].ledger[i].reference = wallet[w].ledger[j].reference
        PROVE  v = w /\ i = j
    <3>1. /\ i \in 1 .. Len(draft[v].ledger) /\ draft[v].ledger[i] = wallet[v].ledger[i]
          /\ j \in 1 .. Len(draft[w].ledger) /\ draft[w].ledger[j] = wallet[w].ledger[j]
      BY <2>1
    <3>2. /\ NotTwice /\ draft[v].ledger[i].reference # NoRef
          /\ draft[v].ledger[i].reference = draft[w].ledger[j].reference
      BY <2>2, <3>1 DEF RefsInv
    <3>. QED  BY <3>1, <3>2, SameRow
  <2>3. \A q, r \in transferRows :
          (req[q].reference # NoRef /\ req[q].reference = req[r].reference) => q = r
    BY DEF RefsInv, TransfersIndexed
  <2>. QED  BY <2>2, <2>3 DEF OneEffectPerReference
<1>. QED  BY <1>1, RefsAreKept, PTL

-----------------------------------------------------------------------------
(* A handler that got past its checks passed them.                         *)
Permit(r, label) ==
  /\ label \in {"destination", "replay", "credit", "debit", "insertEntry", "commit"} \cup Staged
       => Owner[OwnSide(r)] = req[r].user
  /\ label \in {"insertTransfer", "debitLeg", "creditLeg"}
       => Currency[From(r)] = Currency[To(r)]
Permits == \A r \in Requests : Permit(r, pc[r])

(* A handler's move changes only what it is permitted.                     *)
LEMMA PermitMove ==
  ASSUME TypeOK, Permits, NEW r \in Requests, NEW label, Goto(r, label), req' = req,
         Permit(r, label)
  PROVE  Permits'
<1>. SUFFICES ASSUME NEW q \in Requests PROVE Permit(q, pc[q])'
  BY DEF Permits
<1>1. Permit(q, pc[q])' <=> Permit(q, pc'[q])
  BY DEF Permit, OwnSide, From, To
<1>2. pc'[q] = IF q = r THEN label ELSE pc[q]
  BY DEF TypeOK, Goto
<1>. QED  BY <1>1, <1>2 DEF Permits

(* Checks that were passed are of what does not change.                    *)
LEMMA PermitsStep ==
  ASSUME BooksInv, Permits, [Next]_vars
  PROVE  Permits'
<1>. USE DEF BooksInv
<1>1. ASSUME NEW r \in Requests, Goto(r, "sent"), req' = req PROVE Permits'
  BY <1>1, PermitMove DEF Permit, Staged
<1>2. ASSUME NEW r \in Requests, NEW label, Goto(r, label), req' = req,
             pc[r] \in {"replay", "credit", "debit", "insertEntry", "commit"} \cup Staged,
             label \in {"insertTransfer", "debitLeg", "creditLeg"} =>
               \/ pc[r] \in {"insertTransfer", "debitLeg", "creditLeg"}
               \/ Currency[From(r)] = Currency[To(r)]
      PROVE  Permits'
  <2>1. Permit(r, label)
    BY <1>2 DEF Permits, Permit
  <2>. QED  BY <1>2, <2>1, PermitMove
<1>3. ASSUME NEW r \in Requests, Receive(r) PROVE Permits'
  <2>1. Permit(r, "source") /\ Permit(r, "load")
    BY DEF Permit, Staged
  <2>. QED  BY <1>1, <1>3, <2>1, PermitMove DEF Receive, Refuse, Send
<1>4. ASSUME NEW r \in Requests, LoadOwnedWallet(r) PROVE Permits'
  <2>1. Owns(r, OwnSide(r)) => Permit(r, "replay")
    BY DEF Owns, Permit
  <2>. QED  BY <1>1, <1>4, <2>1, PermitMove DEF LoadOwnedWallet, Refuse, Send
<1>5. ASSUME NEW r \in Requests, LoadSource(r) PROVE Permits'
  <2>1. OwnSide(r) = From(r)
    BY <1>5 DEF LoadSource, Routed, RoutedAs, IsTransfer, OwnSide
  <2>2. Owns(r, From(r)) => Permit(r, "destination")
    BY <2>1 DEF Owns, Permit
  <2>. QED  BY <1>1, <1>5, <2>2, PermitMove DEF LoadSource, Refuse, Send
<1>6. ASSUME NEW r \in Requests, LoadDestination(r) PROVE Permits'
  <2>1. Permit(r, "replay")
    BY <1>6 DEF LoadDestination, Permits, Permit
  <2>. QED  BY <1>1, <1>6, <2>1, PermitMove DEF LoadDestination, Refuse, Send
<1>7. ASSUME NEW r \in Requests, FindByReference(r) PROVE Permits'
  <2>1. req[r].op \in Op
    BY BodyFacts
  <2>. QED  BY <1>1, <1>2, <1>7, <2>1 DEF FindByReference, Send, Op
<1>8. ASSUME NEW r \in Requests, NEW code, Rollback(r), Refuse(r, code) PROVE Permits'
  BY <1>1, <1>8 DEF Rollback, Refuse, Send
<1>9. ASSUME NEW r \in Requests, IncrementBalance(r) \/ GuardedDecrement(r) PROVE Permits'
  BY <1>2, <1>8, <1>9 DEF IncrementBalance, GuardedDecrement
<1>10. ASSUME NEW r \in Requests, InsertEntry(r) \/ InsertTransfer(r) \/ DebitLeg(r)
       PROVE  Permits'
  BY <1>2, <1>10 DEF InsertEntry, InsertTransfer, DebitLeg, Staged
<1>11. ASSUME NEW r \in Requests, LockFirst(r) \/ LockSecond(r) PROVE Permits'
  BY <1>2, <1>11 DEF LockFirst, LockSecond, LockRow, Staged
<1>12. ASSUME NEW r \in Requests, ValidateUnderLock(r) PROVE Permits'
  <2>1. Verdict(r) = "OK" => Currency[From(r)] = Currency[To(r)]
    BY DEF Verdict
  <2>. QED  BY <1>2, <1>8, <1>12, <2>1 DEF ValidateUnderLock, Staged
<1>13. ASSUME NEW r \in Requests, CreditLeg(r) PROVE Permits'
  BY <1>2, <1>8, <1>13 DEF CreditLeg, Staged
<1>14. ASSUME NEW r \in Requests,
              \/ GuardedDecrementNone(r) \/ InsertDuplicate(r) \/ Fail(r)
              \/ Commit(r) \/ CommitUnacknowledged(r)
       PROVE  Permits'
  BY <1>1, <1>8, <1>14 DEF GuardedDecrementNone, InsertDuplicate, Fail, Commit,
     CommitUnacknowledged, CommitTransaction, Refuse, Send
<1>15. CASE (\E w \in Wallets : SetStatus(w)) \/ UNCHANGED vars
  <2>1. UNCHANGED <<req, pc>>
    BY <1>15 DEF SetStatus, vars
  <2>. QED  BY <2>1 DEF Permits, Permit, OwnSide, From, To
<1>. QED
  BY <1>3, <1>4, <1>5, <1>6, <1>7, <1>9, <1>10, <1>11, <1>12, <1>13, <1>14, <1>15
  DEF Next, Handle, Quiescent

(* Each row written was permitted to the request that wrote it.            *)
Justified(w, e) ==
  e.by # NoRequest =>
    /\ e.type = "DEBIT" \/ e.transfer = NoRequest => req[e.by].user = Owner[w]
    /\ e.transfer # NoRequest => e.transfer = e.by /\ Currency[w] = Currency[From(e.by)]
Justifications ==
  \A w \in Wallets : \A i \in 1 .. Len(draft[w].ledger) : Justified(w, draft[w].ledger[i])

(* Rows are written by permitted handlers, and committed as they were      *)
(* written.                                                                *)
LEMMA JustifiedStep ==
  ASSUME BooksInv, GrowthInv, Committed, Permits, Justifications, [Next]_vars
  PROVE  Justifications'
<1>1. req' = req
  BY StepKinds
<1>2. (\A w \in Wallets : \A i \in 1 .. Len(draft'[w].ledger) :
          Justified(w, draft'[w].ledger[i])) => Justifications'
  BY <1>1 DEF Justifications, Justified, From
<1>3. CASE \A w \in Wallets : \A i \in 1 .. Len(draft'[w].ledger) :
             /\ i \in 1 .. Len(draft[w].ledger)
             /\ draft'[w].ledger[i] = draft[w].ledger[i]
  BY <1>2, <1>3 DEF Justifications
<1>4. ASSUME NEW r \in Requests, NEW w, NEW e, Writes(r, w, e), Justified(w, e)
      PROVE  Justifications'
  <2>. SUFFICES ASSUME NEW v \in Wallets, NEW i \in 1 .. Len(draft'[v].ledger)
                PROVE  Justified(v, draft'[v].ledger[i])
    BY <1>2
  <2>1. \/ i \in 1 .. Len(draft[v].ledger) /\ draft'[v].ledger[i] = draft[v].ledger[i]
        \/ v = w /\ i = Len(draft[w].ledger) + 1 /\ draft'[v].ledger[i] = e
    BY <1>4, WrittenRows
  <2>. QED  BY <1>4, <2>1 DEF Justifications
<1>5. CASE Quiet
  BY <1>3, <1>5 DEF Quiet
<1>6. ASSUME NEW r \in Requests, Abandons(r) PROVE Justifications'
  BY <1>3, <1>6, AbandonedRows
<1>7. ASSUME NEW r \in Requests, Settles(r) \/ InsertTransfer(r) PROVE Justifications'
  BY <1>3, <1>7 DEF Settles, CommitTransaction, InsertTransfer
<1>8. ASSUME NEW r \in Requests, InsertEntry(r) PROVE Justifications'
  <2>1. PICK e : Writes(r, OwnSide(r), e) /\ e.transfer = NoRequest
    BY <1>8, EntryWrites
  <2>2. Owner[OwnSide(r)] = req[r].user
    BY <1>8 DEF InsertEntry, Permits, Permit
  <2>3. Justified(OwnSide(r), e)
    BY <2>1, <2>2 DEF Justified, Writes
  <2>. QED  BY <1>4, <2>1, <2>3
<1>9. ASSUME NEW r \in Requests, Debits(r) \/ Credits(r) PROVE Justifications'
  <2>1. PICK w, e :
          /\ Writes(r, w, e) /\ e.transfer = r /\ IsTransfer(r)
          /\ w = From(r) \/ (w = To(r) /\ pc[r] = "creditLeg" /\ e.type = "CREDIT")
    BY <1>9, LegFacts
  <2>2. Owner[From(r)] = req[r].user
    BY <1>9, <2>1 DEF Debits, Credits, Leg, Permits, Permit, Staged, OwnSide, IsTransfer
  <2>3. pc[r] = "creditLeg" => Currency[To(r)] = Currency[From(r)]
    BY DEF Permits, Permit
  <2>4. Justified(w, e)
    BY <2>1, <2>2, <2>3, RequestAssumption DEF Justified, Writes
  <2>. QED  BY <1>4, <2>1, <2>4
<1>. QED  BY <1>5, <1>6, <1>7, <1>8, <1>9, StepKinds DEF Touches

(* Money moves only where its owner's request moves it, and between two    *)
(* wallets of one currency only, whatever interleaves.                     *)
THEOREM OnlyOwnersMoveMoney == Spec => []MovesAreAuthorised
<1>1. Init => Permits /\ Justifications
  BY DEF Init, Permits, Permit, Staged, Justifications, Justified
<1>2. BooksInv /\ GrowthInv /\ RefsInv /\ Permits /\ Justifications => MovesAreAuthorised
  <2>. SUFFICES ASSUME BooksInv, GrowthInv, Justifications,
                       NEW w \in Wallets, NEW i \in 1 .. Len(wallet[w].ledger)
                PROVE  LET e == wallet[w].ledger[i] IN
                       e.by # NoRequest =>
                         /\ e.type = "DEBIT" \/ e.transfer = NoRequest
                              => req[e.by].user = Owner[w]
                         /\ e.transfer # NoRequest
                              => /\ e.transfer = e.by
                                 /\ Currency[w] = Currency[From(e.by)]
    BY DEF MovesAreAuthorised
  <2>1. i \in 1 .. Len(draft[w].ledger) /\ draft[w].ledger[i] = wallet[w].ledger[i]
    BY CommittedRows DEF BooksInv
  <2>. QED  BY <2>1 DEF Justifications, Justified
<1>3. BooksInv /\ GrowthInv /\ RefsInv /\ Permits /\ Justifications /\ [Next]_vars
        => (Permits /\ Justifications)'
  BY PermitsStep, JustifiedStep DEF RefsInv
<1>. QED  BY <1>1, <1>2, <1>3, RefsAreKept, PTL DEF Spec
=============================================================================
