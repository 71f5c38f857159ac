------------------------- MODULE WalletLedgerProofs -------------------------
(***************************************************************************)
(* Theorems about WalletLedger, for every set of requests, wallets, ids,   *)
(* references and menus, with and without failures.                        *)
(***************************************************************************)
EXTENDS WalletLedgerProps, TLAPS

-----------------------------------------------------------------------------
(* What the operators on a row of wallets do.                              *)

(* The balance the rows of a ledger end in is a number.                    *)
LEMMA FinalBalanceType ==
  ASSUME NEW ledger \in Seq(Entry)
  PROVE  FinalBalance(ledger) \in Int
<1> DEFINE n == Len(ledger)
<1>1. n \in Nat
  OBVIOUS
<1>2. CASE n = 0
  BY <1>2 DEF FinalBalance, BalanceBefore
<1>3. CASE n # 0
  <2>1. ledger[n] \in Entry
    BY <1>1, <1>3
  <2>2. FinalBalance(ledger) = ledger[n].balanceAfter
    BY <1>1, <1>3 DEF FinalBalance, BalanceBefore
  <2> QED
    BY <2>1, <2>2 DEF Entry
<1> QED
  BY <1>2, <1>3

(* A balance update leaves a row of wallets a row of wallets.              *)
LEMMA AdjustedType ==
  ASSUME NEW a \in Account, NEW delta \in Int
  PROVE  /\ Adjusted(a, delta) \in Account
         /\ Adjusted(a, delta).balance = a.balance + delta
         /\ Adjusted(a, delta).ledger = a.ledger
BY DEF Account, Adjusted

(* The ledger row is of its type, and is appended after the others, which  *)
(* stay what they are.                                                     *)
LEMMA RecordedType ==
  ASSUME TypeOK, NEW a \in Account, NEW r \in Requests,
         NEW type \in {"CREDIT", "DEBIT"}, NEW reference \in RefValue,
         NEW transfer \in Requests \cup {NoRequest}
  PROVE  LET b == Recorded(a, r, type, reference, transfer) IN
         /\ b \in Account
         /\ b.balance = a.balance
         /\ Len(b.ledger) = Len(a.ledger) + 1
         /\ \A i \in 1 .. Len(a.ledger) : b.ledger[i] = a.ledger[i]
         /\ b.ledger[Len(b.ledger)].type = type
         /\ b.ledger[Len(b.ledger)].amount = req[r].amount
         /\ b.ledger[Len(b.ledger)].balanceAfter = a.balance
<1> DEFINE e == [by |-> r, type |-> type, amount |-> req[r].amount,
                 balanceAfter |-> a.balance, reference |-> reference,
                 transfer |-> transfer]
<1>1. e \in Entry
  BY MenuAssumption DEF TypeOK, Body, Entry, Account
<1>2. a.ledger \in Seq(Entry)
  BY DEF Account
<1>3. Recorded(a, r, type, reference, transfer).ledger = Append(a.ledger, e)
  BY DEF Recorded, Account
<1>4. Recorded(a, r, type, reference, transfer).balance = a.balance
  BY DEF Recorded, Account
<1> HIDE DEF e
<1>5. /\ Append(a.ledger, e) \in Seq(Entry)
      /\ Len(Append(a.ledger, e)) = Len(a.ledger) + 1
      /\ \A i \in 1 .. Len(a.ledger) : Append(a.ledger, e)[i] = a.ledger[i]
      /\ Append(a.ledger, e)[Len(a.ledger) + 1] = e
  BY <1>1, <1>2
<1>6. Recorded(a, r, type, reference, transfer) \in Account
  BY <1>1, <1>2, <1>5 DEF Recorded, Account, e
<1> QED
  BY <1>3, <1>4, <1>5, <1>6 DEF e

(* The rows of an account with one more row are explained, and end in its  *)
(* balance, when the balance was ahead of its rows by just that row.       *)
LEMMA RecordedExplained ==
  ASSUME TypeOK, NEW a \in Account, NEW r \in Requests,
         NEW type \in {"CREDIT", "DEBIT"}, NEW reference \in RefValue,
         NEW transfer \in Requests \cup {NoRequest},
         RowsExplained(a.ledger),
         a.balance = FinalBalance(a.ledger)
           + (IF type = "CREDIT" THEN req[r].amount ELSE -req[r].amount)
  PROVE  Explained(Recorded(a, r, type, reference, transfer))
<1> DEFINE b == Recorded(a, r, type, reference, transfer)
           n == Len(a.ledger)
<1>7. /\ b \in Account
      /\ b.balance = a.balance
      /\ Len(b.ledger) = Len(a.ledger) + 1
      /\ \A i \in 1 .. Len(a.ledger) : b.ledger[i] = a.ledger[i]
      /\ b.ledger[Len(b.ledger)].type = type
      /\ b.ledger[Len(b.ledger)].amount = req[r].amount
      /\ b.ledger[Len(b.ledger)].balanceAfter = a.balance
  BY RecordedType
<1> HIDE DEF b
<1>1. /\ b \in Account
      /\ b.balance = a.balance
      /\ Len(b.ledger) = n + 1
      /\ \A i \in 1 .. n : b.ledger[i] = a.ledger[i]
      /\ b.ledger[n + 1].type = type
      /\ b.ledger[n + 1].amount = req[r].amount
      /\ b.ledger[n + 1].balanceAfter = a.balance
  BY <1>7
<1>2. n \in Nat
  BY DEF Account
<1> HIDE DEF b, n
<1>3. \A i \in 1 .. n : BalanceBefore(b.ledger, i) = BalanceBefore(a.ledger, i)
  BY <1>1, <1>2 DEF BalanceBefore
<1>4. BalanceBefore(b.ledger, n + 1) = FinalBalance(a.ledger)
  BY <1>1, <1>2 DEF BalanceBefore, FinalBalance, n
<1>5. FinalBalance(b.ledger) = b.balance
  BY <1>1, <1>2 DEF BalanceBefore, FinalBalance
<1>6. ASSUME NEW i \in 1 .. Len(b.ledger)
      PROVE  b.ledger[i].balanceAfter =
               BalanceBefore(b.ledger, i) + Signed(b.ledger[i])
  <2>1. CASE i \in 1 .. n
    BY <1>1, <1>3, <2>1 DEF RowsExplained, Signed, n
  <2>2. CASE i = n + 1
    BY <1>1, <1>4, <2>2 DEF Signed
  <2> QED
    BY <1>1, <1>2, <2>1, <2>2
<1> QED
  BY <1>5, <1>6 DEF Explained, RowsExplained, b

(* A row written with a balance that is not negative leaves the account    *)
(* solvent.                                                                *)
LEMMA RecordedSolvent ==
  ASSUME TypeOK, NEW a \in Account, NEW r \in Requests,
         NEW type \in {"CREDIT", "DEBIT"}, NEW reference \in RefValue,
         NEW transfer \in Requests \cup {NoRequest}, Solvent(a)
  PROVE  Solvent(Recorded(a, r, type, reference, transfer))
<1> DEFINE b == Recorded(a, r, type, reference, transfer)
           n == Len(a.ledger)
<1>1. /\ b.balance = a.balance
      /\ Len(b.ledger) = n + 1
      /\ \A i \in 1 .. n : b.ledger[i] = a.ledger[i]
      /\ b.ledger[n + 1].balanceAfter = a.balance
  BY RecordedType
<1>2. n \in Nat
  BY DEF Account
<1> HIDE DEF b, n
<1> QED
  BY <1>1, <1>2 DEF Solvent, b, n

-----------------------------------------------------------------------------
(* Types.                                                                  *)

(* What a validated body holds, and that its ids denote rows or nothing.   *)
LEMMA BodyFacts ==
  ASSUME TypeOK, NEW r \in Requests
  PROVE  /\ req[r].op \in Op
         /\ req[r].amount \in Nat \ {0}
         /\ req[r].reference \in RefValue
         /\ req[r].from \in Ids /\ req[r].to \in Ids
         /\ From(r) \in Wallets \cup {NoWallet}
         /\ To(r) \in Wallets \cup {NoWallet}
BY MenuAssumption, WalletAssumption DEF TypeOK, Body, From, To

(* A response that is sent is a response.                                  *)
LEMMA SendType ==
  ASSUME TypeOK, NEW r \in Requests, NEW code \in Codes,
         NEW row \in Requests \cup {NoRequest}, NEW balance \in Int,
         Send(r, code, row, balance)
  PROVE  /\ pc' \in [Requests -> Labels]
         /\ answer' \in [Requests -> [code : Codes,
                        row : Requests \cup {NoRequest}, balance : Int]]
BY DEF TypeOK, Send, Goto, Labels

(* Undoing a transaction leaves tables, locks and indexes of their types.  *)
LEMMA RollbackType ==
  ASSUME TypeOK, NEW r \in Requests, Rollback(r),
         pc' \in [Requests -> Labels],
         answer' \in [Requests -> [code : Codes,
                        row : Requests \cup {NoRequest}, balance : Int]]
  PROVE  TypeOK'
BY DEF TypeOK, Rollback, Unlocked, Without

(* So does giving up with a 4xx, a 500 or no answer.                       *)
LEMMA RefusalType ==
  ASSUME TypeOK, NEW r \in Requests, NEW code \in Codes,
         Rollback(r), Refuse(r, code)
  PROVE  TypeOK'
BY SendType, RollbackType DEF Refuse

(* And so does a commit.                                                   *)
LEMMA CommitType ==
  ASSUME TypeOK, NEW r \in Requests, NEW code \in Codes,
         NEW row \in Requests \cup {NoRequest}, NEW balance \in Int,
         CommitTransaction(r), Send(r, code, row, balance)
  PROVE  TypeOK'
<1>1. /\ pc' \in [Requests -> Labels]
      /\ answer' \in [Requests -> [code : Codes,
                     row : Requests \cup {NoRequest}, balance : Int]]
  BY SendType
<1> QED
  BY <1>1 DEF TypeOK, CommitTransaction, Unlocked

(* The database and the handlers start with values of their types.         *)
LEMMA InitType == Init => TypeOK
<1> SUFFICES ASSUME Init PROVE TypeOK
  OBVIOUS
<1>1. wallet \in [Wallets -> Account]
  <2> SUFFICES ASSUME NEW w \in Wallets PROVE wallet[w] \in Account
    BY DEF Init
  <2>1. Opening[w] \in Nat
    BY OpeningAssumption
  <2>2. [by |-> NoRequest, type |-> "CREDIT", amount |-> Opening[w],
         balanceAfter |-> Opening[w], reference |-> NoRef,
         transfer |-> NoRequest] \in Entry
    BY <2>1 DEF Entry, RefValue
  <2> QED
    BY <2>1, <2>2 DEF Init, Account
<1> QED
  BY <1>1 DEF Init, TypeOK, Labels, Blank, Codes, WalletStatus

(* The updates of one row of wallets, by type.                             *)
LEMMA DraftType ==
  ASSUME TypeOK, NEW w \in Wallets, NEW a \in Account,
         draft' = [draft EXCEPT ![w] = a]
  PROVE  draft' \in [Wallets -> Account]
BY DEF TypeOK

(* So does a leg of a transfer.                                            *)
LEMMA LegType ==
  ASSUME TypeOK, NEW r \in Requests, NEW w \in Wallets,
         NEW type \in {"CREDIT", "DEBIT"}, NEW delta \in Int,
         WriteLeg(r, w, type, delta)
  PROVE  draft' \in [Wallets -> Account]
<1>1. /\ draft[w] \in Account
      /\ Adjusted(draft[w], delta) \in Account
  BY AdjustedType DEF TypeOK
<1>2. Recorded(Adjusted(draft[w], delta), r, type, NoRef, r) \in Account
  BY <1>1, RecordedType DEF RefValue
<1>3. draft' = [draft EXCEPT ![w] =
                 Recorded(Adjusted(draft[w], delta), r, type, NoRef, r)]
  BY DEF WriteLeg, TypeOK
<1> QED
  BY <1>2, <1>3, DraftType

(* A handler that reads moves on, or refuses.                              *)
LEMMA ReadType ==
  ASSUME TypeOK, NEW r \in Requests, UNCHANGED <<dbVars, req>>,
         \/ \E label \in Labels : Goto(r, label) /\ UNCHANGED answer
         \/ \E code \in Codes : Refuse(r, code)
  PROVE  TypeOK'
<1>1. CASE \E label \in Labels : Goto(r, label) /\ UNCHANGED answer
  BY <1>1 DEF Goto, TypeOK, dbVars
<1>2. ASSUME NEW code \in Codes, Refuse(r, code) PROVE TypeOK'
  <2>1. /\ pc' \in [Requests -> Labels]
        /\ answer' \in [Requests -> [code : Codes,
                       row : Requests \cup {NoRequest}, balance : Int]]
    BY <1>2, SendType DEF Refuse
  <2> QED
    BY <2>1 DEF TypeOK, dbVars
<1> QED
  BY <1>1, <1>2

(* Every step keeps the types.                                             *)
LEMMA TypeStep == BooksInv /\ [Next]_vars => TypeOK'
<1> SUFFICES ASSUME BooksInv, [Next]_vars PROVE TypeOK'
  OBVIOUS
<1> USE DEF BooksInv
<1> USE DEF Codes, Refusals, Broken, Labels
<1>1. ASSUME NEW r \in Requests, Receive(r) PROVE TypeOK'
  BY <1>1, ReadType DEF Receive
<1>2. ASSUME NEW r \in Requests, LoadOwnedWallet(r) PROVE TypeOK'
  BY <1>2, ReadType DEF LoadOwnedWallet
<1>3. ASSUME NEW r \in Requests, LoadSource(r) PROVE TypeOK'
  BY <1>3, ReadType DEF LoadSource
<1>4. ASSUME NEW r \in Requests, LoadDestination(r) PROVE TypeOK'
  BY <1>4, ReadType DEF LoadDestination
<1>5. ASSUME NEW r \in Requests, FindByReference(r) PROVE TypeOK'
  <2>1. CASE Truthy(req[r].reference) /\ RefTaken(r)
    <3> DEFINE q == RefIndex(r)[req[r].reference]
    <3>1. q \in commitLog /\ q \in Requests
      BY <2>1 DEF RefTaken, TypeOK
    <3>2. wallet[OwnSide(q)].balance \in Int
      BY <3>1 DEF Routed, RoutedAs, Known, TypeOK, Account
    <3>3. Send(r, "REPLAY", q, wallet[OwnSide(q)].balance)
      BY <1>5, <2>1 DEF FindByReference
    <3> HIDE DEF q
    <3> QED
      BY <1>5, <3>1, <3>2, <3>3, SendType DEF FindByReference, TypeOK, dbVars
  <2>2. CASE ~(Truthy(req[r].reference) /\ RefTaken(r))
    BY <1>5, <2>2, BodyFacts DEF FindByReference, Goto, TypeOK, Op, dbVars
  <2> QED
    BY <2>1, <2>2
<1>6. ASSUME NEW r \in Requests, IncrementBalance(r) PROVE TypeOK'
  <2> DEFINE w == To(r)
             sum == draft[w].balance + req[r].amount
  <2>1. CASE Rollback(r) /\ Refuse(r, "INTERNAL_ERROR")
    BY <2>1, RefusalType
  <2>2. CASE ~(Rollback(r) /\ Refuse(r, "INTERNAL_ERROR"))
    <3>1. /\ req[r].amount \in Int
          /\ w \in Wallets
      BY <1>6, BodyFacts DEF IncrementBalance, Routed, RoutedAs, Known, OwnSide
    <3>2. draft[w] \in Account /\ sum \in Int
      BY <3>1 DEF TypeOK, Account
    <3>3. draft' = [draft EXCEPT ![w] = Adjusted(draft[w], req[r].amount)]
      BY <1>6, <2>2, <3>1 DEF IncrementBalance, TypeOK
    <3>4. draft' \in [Wallets -> Account]
      BY <3>1, <3>2, <3>3, AdjustedType, DraftType
    <3> QED
      BY <1>6, <2>2, <3>1, <3>2, <3>4 DEF IncrementBalance, Goto, TypeOK
  <2> QED
    BY <2>1, <2>2
<1>7. ASSUME NEW r \in Requests, GuardedDecrementNone(r) PROVE TypeOK'
  BY <1>7, RefusalType DEF GuardedDecrementNone
<1>8. ASSUME NEW r \in Requests, GuardedDecrement(r) PROVE TypeOK'
  <2> DEFINE w == From(r)
  <2>1. /\ -req[r].amount \in Int
        /\ w \in Wallets
    BY <1>8, BodyFacts DEF GuardedDecrement, Routed, RoutedAs, Known, OwnSide
  <2>2. draft[w] \in Account /\ draft[w].balance - req[r].amount \in Int
    BY <2>1, BodyFacts DEF TypeOK, Account
  <2>3. draft' = [draft EXCEPT ![w] = Adjusted(draft[w], -req[r].amount)]
    BY <1>8, <2>1 DEF GuardedDecrement, TypeOK
  <2>4. draft' \in [Wallets -> Account]
    BY <2>1, <2>2, <2>3, AdjustedType, DraftType
  <2> QED
    BY <1>8, <2>1, <2>2, <2>4 DEF GuardedDecrement, Goto, TypeOK
<1>9. ASSUME NEW r \in Requests, InsertEntry(r) PROVE TypeOK'
  <2> DEFINE w == OwnSide(r)
             t == IF req[r].op = "deposit" THEN "CREDIT" ELSE "DEBIT"
  <2>1. w \in Wallets /\ draft[w] \in Account
    BY <1>9 DEF InsertEntry, Routed, RoutedAs, Known, TypeOK
  <2>2. Recorded(draft[w], r, t, req[r].reference, NoRequest) \in Account
    BY <2>1, BodyFacts, RecordedType
  <2>3. draft' = [draft EXCEPT ![w] =
                   Recorded(draft[w], r, t, req[r].reference, NoRequest)]
    BY <1>9, <2>1 DEF InsertEntry, TypeOK
  <2>4. draft' \in [Wallets -> Account]
    BY <2>1, <2>2, <2>3, DraftType
  <2> QED
    BY <1>9, <2>4 DEF InsertEntry, InsertRef, Goto, TypeOK
<1>10. ASSUME NEW r \in Requests, InsertDuplicate(r) PROVE TypeOK'
  BY <1>10, RefusalType DEF InsertDuplicate
<1>11. ASSUME NEW r \in Requests, LockFirst(r) \/ LockSecond(r) PROVE TypeOK'
  BY <1>11 DEF LockFirst, LockSecond, LockRow, Goto, TypeOK
<1>12. ASSUME NEW r \in Requests, ValidateUnderLock(r) PROVE TypeOK'
  <2>1. CASE Rollback(r) /\ Refuse(r, Verdict(r)) /\ Verdict(r) # "OK"
    BY <2>1, RefusalType DEF Verdict
  <2>2. CASE Goto(r, "insertTransfer") /\ UNCHANGED <<dbVars, req, answer>>
    BY <2>2 DEF Goto, TypeOK, dbVars
  <2> QED
    BY <1>12, <2>1, <2>2 DEF ValidateUnderLock
<1>13. ASSUME NEW r \in Requests, InsertTransfer(r) PROVE TypeOK'
  BY <1>13 DEF InsertTransfer, InsertRef, Goto, TypeOK
<1>14. ASSUME NEW r \in Requests, DebitLeg(r) PROVE TypeOK'
  <2>1. From(r) \in Wallets /\ -req[r].amount \in Int
    BY <1>14, BodyFacts DEF DebitLeg, Routed, RoutedAs, Known, OwnSide, IsTransfer, Staged
  <2>2. draft' \in [Wallets -> Account]
    BY <1>14, <2>1, LegType DEF DebitLeg
  <2>3. draft[From(r)].balance - req[r].amount \in Int
    BY <2>1, BodyFacts DEF TypeOK, Account
  <2> QED
    BY <1>14, <2>2, <2>3 DEF DebitLeg, Goto, TypeOK
<1>15. ASSUME NEW r \in Requests, CreditLeg(r) PROVE TypeOK'
  <2>1. CASE Rollback(r) /\ Refuse(r, "INTERNAL_ERROR")
    BY <2>1, RefusalType
  <2>2. CASE ~(Rollback(r) /\ Refuse(r, "INTERNAL_ERROR"))
    <3>1. To(r) \in Wallets /\ req[r].amount \in Int
      BY <1>15, BodyFacts DEF CreditLeg, Routed, RoutedAs, Known, Staged
    <3>2. draft' \in [Wallets -> Account]
      BY <1>15, <2>2, <3>1, LegType DEF CreditLeg
    <3> QED
      BY <1>15, <2>2, <3>2 DEF CreditLeg, Goto, TypeOK
  <2> QED
    BY <2>1, <2>2
<1>16. ASSUME NEW r \in Requests, Commit(r) PROVE TypeOK'
  <2>1. answer[r].balance \in Int
    BY DEF TypeOK
  <2> QED
    BY <1>16, <2>1, CommitType DEF Commit
<1>17. ASSUME NEW r \in Requests, Fail(r) PROVE TypeOK'
  BY <1>17, RefusalType DEF Fail
<1>18. ASSUME NEW r \in Requests, CommitUnacknowledged(r) PROVE TypeOK'
  BY <1>18, CommitType DEF CommitUnacknowledged, Refuse
<1>19. ASSUME NEW w \in Wallets, SetStatus(w) PROVE TypeOK'
  BY <1>19, StatusAssumption DEF SetStatus, TypeOK
<1>20. CASE UNCHANGED vars
  BY <1>20 DEF TypeOK, vars, dbVars
<1> QED
  BY <1>1, <1>2, <1>3, <1>4, <1>5, <1>6, <1>7, <1>8, <1>9, <1>10, <1>11, <1>12,
     <1>13, <1>14, <1>15, <1>16, <1>17, <1>18, <1>19, <1>20
     DEF Next, Handle, Quiescent

-----------------------------------------------------------------------------
(* Where handlers are.                                                     *)

(* A handler that moves to a label its operation leads to keeps Routed.    *)
LEMMA RoutedMove ==
  ASSUME TypeOK, Routed, NEW r \in Requests, NEW label \in Labels,
         pc' = [pc EXCEPT ![r] = label], req' = req,
         RoutedAs(r, label),
         commitLog' \subseteq commitLog \cup {r},
         r \in commitLog' => Known(r)
  PROVE  Routed'
<1> SUFFICES ASSUME NEW q \in Requests
             PROVE  RoutedAs(q, pc[q])' /\ (q \in commitLog' => Known(q)')
  BY DEF Routed
<1>1. /\ Known(q)' <=> Known(q)
      /\ RoutedAs(q, pc[q])' <=> RoutedAs(q, pc'[q])
  BY DEF Known, RoutedAs, OwnSide, IsTransfer, From, To
<1>2. pc'[q] = IF q = r THEN label ELSE pc[q]
  BY DEF TypeOK
<1> QED
  BY <1>1, <1>2 DEF Routed

(* Giving up keeps it.                                                     *)
LEMMA RoutedRefusal ==
  ASSUME TypeOK, Routed, NEW r \in Requests, NEW code, Refuse(r, code),
         UNCHANGED <<commitLog, req>>
  PROVE  Routed'
<1>1. RoutedAs(r, "sent") /\ "sent" \in Labels
  BY DEF RoutedAs, Staged, Labels
<1> QED
  BY <1>1, RoutedMove DEF Refuse, Send, Goto, Routed

(* Every step keeps handlers where their operation leads them.             *)
LEMMA RoutedStep == BooksInv /\ [Next]_vars => Routed'
<1> SUFFICES ASSUME BooksInv, [Next]_vars PROVE Routed'
  OBVIOUS
<1> USE DEF BooksInv
<1> USE DEF Labels, Goto, Staged
<1>1. ASSUME NEW r \in Requests, Receive(r) PROVE Routed'
  BY <1>1, RoutedRefusal, RoutedMove DEF Receive, RoutedAs, Routed, dbVars
<1>2. ASSUME NEW r \in Requests, LoadOwnedWallet(r) PROVE Routed'
  <2>1. CASE \E code : Refuse(r, code)
    BY <1>2, <2>1, RoutedRefusal DEF LoadOwnedWallet, dbVars
  <2>2. CASE Owns(r, OwnSide(r)) /\ Goto(r, "replay")
    <3>1. Known(r)
      BY <1>2, <2>2, BodyFacts
         DEF LoadOwnedWallet, Owns, Known, Routed, RoutedAs, OwnSide
    <3> QED
      BY <1>2, <2>2, <3>1, RoutedMove
         DEF LoadOwnedWallet, RoutedAs, Routed, dbVars
  <2> QED
    BY <1>2, <2>1, <2>2 DEF LoadOwnedWallet
<1>3. ASSUME NEW r \in Requests, LoadSource(r) PROVE Routed'
  <2>1. CASE \E code : Refuse(r, code)
    BY <1>3, <2>1, RoutedRefusal DEF LoadSource, dbVars
  <2>2. CASE Owns(r, From(r)) /\ Goto(r, "destination")
    <3>1. From(r) \in Wallets
      BY <2>2, BodyFacts DEF Owns
    <3> QED
      BY <1>3, <2>2, <3>1, RoutedMove DEF LoadSource, RoutedAs, Routed, dbVars
  <2> QED
    BY <1>3, <2>1, <2>2 DEF LoadSource
<1>4. ASSUME NEW r \in Requests, LoadDestination(r) PROVE Routed'
  <2>1. CASE \E code : Refuse(r, code)
    BY <1>4, <2>1, RoutedRefusal DEF LoadDestination, dbVars
  <2>2. CASE To(r) # NoWallet /\ Goto(r, "replay")
    <3>1. Known(r)
      BY <1>4, <2>2, BodyFacts
         DEF LoadDestination, Known, Routed, RoutedAs, OwnSide, IsTransfer
    <3> QED
      BY <1>4, <2>2, <3>1, RoutedMove
         DEF LoadDestination, RoutedAs, Routed, dbVars
  <2> QED
    BY <1>4, <2>1, <2>2 DEF LoadDestination
<1>5. ASSUME NEW r \in Requests, FindByReference(r) PROVE Routed'
  <2>1. RoutedAs(r, "sent") /\ Known(r)
    BY <1>5 DEF FindByReference, Routed, RoutedAs
  <2>2. CASE pc' = [pc EXCEPT ![r] = "sent"]
    BY <1>5, <2>1, <2>2, RoutedMove DEF FindByReference, dbVars
  <2>3. CASE req[r].op = "deposit" /\ pc' = [pc EXCEPT ![r] = "credit"]
    BY <1>5, <2>1, <2>3, RoutedMove
       DEF FindByReference, RoutedAs, IsTransfer, dbVars
  <2>4. CASE req[r].op = "withdraw" /\ pc' = [pc EXCEPT ![r] = "debit"]
    BY <1>5, <2>1, <2>4, RoutedMove
       DEF FindByReference, RoutedAs, IsTransfer, dbVars
  <2>5. CASE req[r].op = "transfer" /\ pc' = [pc EXCEPT ![r] = "lockFirst"]
    BY <1>5, <2>1, <2>5, RoutedMove
       DEF FindByReference, RoutedAs, IsTransfer, dbVars
  <2>6. \/ pc' = [pc EXCEPT ![r] = "sent"]
        \/ req[r].op = "deposit" /\ pc' = [pc EXCEPT ![r] = "credit"]
        \/ req[r].op = "withdraw" /\ pc' = [pc EXCEPT ![r] = "debit"]
        \/ req[r].op = "transfer" /\ pc' = [pc EXCEPT ![r] = "lockFirst"]
    BY <1>5, BodyFacts DEF FindByReference, Send, Op
  <2> QED
    BY <2>2, <2>3, <2>4, <2>5, <2>6
<1>6. ASSUME NEW r \in Requests, NEW code, Rollback(r), Refuse(r, code)
      PROVE  Routed'
  BY <1>6, RoutedRefusal DEF Rollback
<1>7. ASSUME NEW r \in Requests,
             \/ pc[r] \in {"credit", "debit"} /\ Goto(r, "insertEntry")
             \/ pc[r] = "insertEntry" /\ Goto(r, "commit")
             \/ pc[r] = "lockFirst" /\ Goto(r, "lockSecond")
             \/ pc[r] = "lockSecond" /\ Goto(r, "validate")
             \/ pc[r] = "validate" /\ Goto(r, "insertTransfer")
             \/ pc[r] = "insertTransfer" /\ Goto(r, "debitLeg")
             \/ pc[r] = "debitLeg" /\ Goto(r, "creditLeg")
             \/ pc[r] = "creditLeg" /\ Goto(r, "commit"),
             UNCHANGED <<commitLog, req>>
      PROVE  Routed'
  BY <1>7, RoutedMove DEF Routed, RoutedAs, IsTransfer
<1>8. ASSUME NEW r \in Requests, pc[r] = "commit", CommitTransaction(r),
             Goto(r, "sent")
      PROVE  Routed'
  BY <1>8, RoutedMove DEF CommitTransaction, Routed, RoutedAs
<1>9. CASE UNCHANGED <<commitLog, req, pc>>
  BY <1>9 DEF Routed, RoutedAs, Known, OwnSide, IsTransfer, From, To
<1>10. ASSUME NEW r \in Requests, Handle(r) PROVE Routed'
  <2>1. CASE LoadOwnedWallet(r) \/ LoadSource(r) \/ LoadDestination(r)
             \/ FindByReference(r)
    BY <2>1, <1>2, <1>3, <1>4, <1>5
  <2>2. CASE IncrementBalance(r)
    BY <2>2, <1>6, <1>7 DEF IncrementBalance
  <2>3. CASE GuardedDecrementNone(r) \/ InsertDuplicate(r)
    BY <2>3, <1>6 DEF GuardedDecrementNone, InsertDuplicate
  <2>4. CASE GuardedDecrement(r) \/ InsertEntry(r)
    BY <2>4, <1>7 DEF GuardedDecrement, InsertEntry
  <2>5. CASE LockFirst(r) \/ LockSecond(r)
    BY <2>5, <1>7 DEF LockFirst, LockSecond, LockRow
  <2>6. CASE ValidateUnderLock(r)
    BY <2>6, <1>6, <1>7 DEF ValidateUnderLock, dbVars
  <2>7. CASE InsertTransfer(r) \/ DebitLeg(r)
    BY <2>7, <1>7 DEF InsertTransfer, DebitLeg
  <2>8. CASE CreditLeg(r)
    BY <2>8, <1>6, <1>7 DEF CreditLeg
  <2>9. CASE Commit(r)
    BY <2>9, <1>8 DEF Commit, Send
  <2> QED
    BY <1>10, <2>1, <2>2, <2>3, <2>4, <2>5, <2>6, <2>7, <2>8, <2>9 DEF Handle
<1>11. ASSUME NEW r \in Requests, Fail(r) PROVE Routed'
  BY <1>11, <1>6 DEF Fail
<1>12. ASSUME NEW r \in Requests, CommitUnacknowledged(r) PROVE Routed'
  BY <1>12, <1>8 DEF CommitUnacknowledged, Refuse, Send
<1>13. CASE (\E w \in Wallets : SetStatus(w)) \/ UNCHANGED vars
  BY <1>13, <1>9 DEF SetStatus, vars, dbVars
<1> QED
  BY <1>1, <1>10, <1>11, <1>12, <1>13 DEF Next, Quiescent

-----------------------------------------------------------------------------
(* The rows of wallets, their locks and their ledgers.  Each lemma is one  *)
(* way a step of a handler can touch them.                                 *)

(* With the bodies unchanged, what a handler holds depends on its label.   *)
LEMMA HeldFrame ==
  ASSUME req' = req
  PROVE  /\ \A q \in Requests : HeldAs(q, pc[q])' = HeldAs(q, pc'[q])
         /\ \A q \in Requests : From(q)' = From(q)
BY DEF HeldAs, OwnSide, IsTransfer, From, To, FirstId

(* What a transaction that holds no row in mid-update finds in a row it    *)
(* may lock: nothing pending.                                              *)
LEMMA NothingAhead ==
  ASSUME TypeOK, NEW r \in Requests, NEW w \in Wallets, Grantable(r, w),
         pc[r] # "insertEntry"
  PROVE  Ahead(w) = 0
BY RequestAssumption DEF TypeOK, Grantable, Ahead

(* A step that reads: locks, rows and drafts stay.                         *)
LEMMA RowsRead ==
  ASSUME TypeOK, Routed, RowsInv, NEW r \in Requests, NEW label \in Labels,
         pc' = [pc EXCEPT ![r] = label],
         UNCHANGED <<wallet, draft, lock, req>>,
         HeldAs(r, label) = HeldAs(r, pc[r]),
         pc[r] # "insertEntry", label # "insertEntry",
         label \in {"insertTransfer", "debitLeg"} =>
           draft[From(r)].balance >= req[r].amount
  PROVE  RowsInv'
<1>1. \A q \in Requests : pc'[q] = IF q = r THEN label ELSE pc[q]
  BY DEF TypeOK
<1>2. LocksHeld'
  BY <1>1, HeldFrame DEF RowsInv, LocksHeld
<1>3. DraftsLocked' /\ LedgerExplainsBalance' /\ NeverNegative'
  BY DEF RowsInv, DraftsLocked, LedgerExplainsBalance, NeverNegative
<1>4. \A w \in Wallets : Ahead(w)' = Ahead(w)
  BY <1>1, RequestAssumption DEF Ahead, TypeOK
<1>5. DraftsExplained'
  BY <1>4 DEF RowsInv, DraftsExplained
<1>6. Funded'
  BY <1>1, HeldFrame DEF RowsInv, Funded
<1> QED
  BY <1>2, <1>3, <1>5, <1>6 DEF RowsInv

(* What r's transaction owes the ledger when it is at a label.             *)
Due(r, label) ==
  IF label # "insertEntry" THEN 0
  ELSE IF req[r].op = "deposit" THEN req[r].amount ELSE -req[r].amount

(* A step that writes, or only locks, one row that nobody else has locked. *)
LEMMA RowsWrite ==
  ASSUME TypeOK, Routed, RowsInv, NEW r \in Requests, NEW label \in Labels,
         NEW w \in Wallets, NEW a \in Account, Grantable(r, w),
         pc' = [pc EXCEPT ![r] = label],
         lock' = [lock EXCEPT ![w] = r],
         draft' = [draft EXCEPT ![w] = a],
         UNCHANGED <<wallet, req>>,
         HeldAs(r, label) = HeldAs(r, pc[r]) \cup {w},
         pc[r] = "insertEntry" \/ label = "insertEntry"
           => HeldAs(r, label) = {w},
         RowsExplained(a.ledger),
         a.balance = FinalBalance(a.ledger) + Due(r, label),
         Solvent(a),
         label \in {"insertTransfer", "debitLeg"} =>
           draft'[From(r)].balance >= req[r].amount
  PROVE  RowsInv'
<1>1. \A q \in Requests : pc'[q] = IF q = r THEN label ELSE pc[q]
  BY DEF TypeOK
<1>2. /\ \A v \in Wallets : lock'[v] = IF v = w THEN r ELSE lock[v]
      /\ \A v \in Wallets : draft'[v] = IF v = w THEN a ELSE draft[v]
  BY DEF TypeOK
<1>3. lock[w] \in {r, NoRequest} /\ r # NoRequest
  BY RequestAssumption DEF Grantable
<1>4. LocksHeld'
  <2> SUFFICES ASSUME NEW v \in Wallets, NEW q \in Requests
               PROVE  lock'[v] = q <=> v \in HeldAs(q, pc'[q])
    BY HeldFrame DEF LocksHeld
  <2>1. lock[v] = q <=> v \in HeldAs(q, pc[q])
    BY DEF RowsInv, LocksHeld
  <2> QED
    BY <1>1, <1>2, <1>3, <2>1, RequestAssumption
<1>5. DraftsLocked' /\ LedgerExplainsBalance' /\ NeverNegative'
  BY <1>2, <1>3
     DEF RowsInv, DraftsLocked, LedgerExplainsBalance, NeverNegative
<1>6. DraftsExplained'
  <2> SUFFICES ASSUME NEW v \in Wallets
               PROVE  /\ RowsExplained(draft'[v].ledger)
                      /\ draft'[v].balance =
                           FinalBalance(draft'[v].ledger) + Ahead(v)'
    BY DEF DraftsExplained
  <2>1. CASE v = w
    BY <1>1, <1>2, <1>3, <2>1 DEF Ahead, Due
  <2>2. CASE v # w
    <3>1. Ahead(v)' = Ahead(v)
      <4>1. CASE lock[v] = r
        <5>1. v \in HeldAs(r, pc[r])
          BY <4>1 DEF RowsInv, LocksHeld
        <5>2. pc[r] # "insertEntry" /\ label # "insertEntry"
          BY <5>1, <2>2
        <5> QED
          BY <1>1, <1>2, <1>3, <2>2, <4>1, <5>2 DEF Ahead
      <4>2. CASE lock[v] # r
        BY <1>1, <1>2, <2>2, <4>2 DEF Ahead, TypeOK
      <4> QED
        BY <4>1, <4>2
    <3> QED
      BY <1>2, <2>2, <3>1 DEF RowsInv, DraftsExplained
  <2> QED
    BY <2>1, <2>2
<1>7. Funded'
  <2> SUFFICES ASSUME NEW q \in Requests,
                      pc'[q] \in {"insertTransfer", "debitLeg"}
               PROVE  draft'[From(q)].balance >= req[q].amount
    BY HeldFrame DEF Funded
  <2>1. CASE q = r
    BY <1>1, <2>1
  <2>2. CASE q # r
    <3>1. pc[q] \in {"insertTransfer", "debitLeg"}
      BY <1>1, <2>2
    <3>2. From(q) \in Wallets /\ From(q) \in HeldAs(q, pc[q])
      BY <3>1 DEF Routed, RoutedAs, Known, Staged, OwnSide, IsTransfer, HeldAs
    <3>3. lock[From(q)] = q
      BY <3>2 DEF RowsInv, LocksHeld
    <3>4. From(q) # w
      BY <1>3, <2>2, <3>3, RequestAssumption
    <3> QED
      BY <1>2, <3>1, <3>2, <3>4 DEF RowsInv, Funded
  <2> QED
    BY <2>1, <2>2
<1> QED
  BY <1>4, <1>5, <1>6, <1>7 DEF RowsInv

(* A transaction that is undone gives its rows back as they were.          *)
LEMMA RowsRollback ==
  ASSUME TypeOK, Routed, RowsInv, NEW r \in Requests, NEW code,
         Rollback(r), Refuse(r, code)
  PROVE  RowsInv'
<1>1. /\ \A q \in Requests : pc'[q] = IF q = r THEN "sent" ELSE pc[q]
      /\ HeldAs(r, "sent") = {}
  BY DEF TypeOK, Refuse, Send, Goto, HeldAs, Staged
<1>2. /\ \A v \in Wallets : lock'[v] = IF lock[v] = r THEN NoRequest ELSE lock[v]
      /\ \A v \in Wallets : draft'[v] = IF lock[v] = r THEN wallet[v] ELSE draft[v]
      /\ UNCHANGED <<wallet, req>>
  BY DEF Rollback, Unlocked
<1>3. LocksHeld'
  <2> SUFFICES ASSUME NEW v \in Wallets, NEW q \in Requests
               PROVE  lock'[v] = q <=> v \in HeldAs(q, pc'[q])
    BY <1>2, HeldFrame DEF LocksHeld
  <2>1. lock[v] = q <=> v \in HeldAs(q, pc[q])
    BY DEF RowsInv, LocksHeld
  <2> QED
    BY <1>1, <1>2, <2>1, RequestAssumption
<1>4. DraftsLocked' /\ LedgerExplainsBalance' /\ NeverNegative'
  BY <1>2 DEF RowsInv, DraftsLocked, LedgerExplainsBalance, NeverNegative
<1>5. DraftsExplained'
  <2> SUFFICES ASSUME NEW v \in Wallets
               PROVE  /\ RowsExplained(draft'[v].ledger)
                      /\ draft'[v].balance =
                           FinalBalance(draft'[v].ledger) + Ahead(v)'
    BY DEF DraftsExplained
  <2>1. CASE lock[v] = r
    <3>1. draft'[v] = wallet[v] /\ Ahead(v)' = 0
      BY <1>2, <2>1 DEF Ahead
    <3>2. Explained(wallet[v]) /\ wallet[v].balance \in Int
      BY DEF RowsInv, LedgerExplainsBalance, TypeOK, Account
    <3> QED
      BY <3>1, <3>2 DEF Explained
  <2>2. CASE lock[v] # r
    <3>1. draft'[v] = draft[v] /\ Ahead(v)' = Ahead(v)
      BY <1>1, <1>2, <2>2 DEF Ahead, TypeOK
    <3> QED
      BY <3>1 DEF RowsInv, DraftsExplained
  <2> QED
    BY <2>1, <2>2
<1>6. Funded'
  <2> SUFFICES ASSUME NEW q \in Requests,
                      pc'[q] \in {"insertTransfer", "debitLeg"}
               PROVE  draft'[From(q)].balance >= req[q].amount
    BY <1>2, HeldFrame DEF Funded
  <2>1. q # r /\ pc[q] \in {"insertTransfer", "debitLeg"}
    BY <1>1
  <2>2. From(q) \in Wallets /\ From(q) \in HeldAs(q, pc[q])
    BY <2>1 DEF Routed, RoutedAs, Known, Staged, OwnSide, IsTransfer, HeldAs
  <2>3. lock[From(q)] = q
    BY <2>2 DEF RowsInv, LocksHeld
  <2> QED
    BY <1>2, <2>1, <2>2, <2>3 DEF RowsInv, Funded
<1> QED
  BY <1>3, <1>4, <1>5, <1>6 DEF RowsInv

(* A transaction that commits publishes rows that are explained.           *)
LEMMA RowsCommit ==
  ASSUME TypeOK, Routed, RowsInv, NEW r \in Requests, pc[r] = "commit",
         CommitTransaction(r), Goto(r, "sent")
  PROVE  RowsInv'
<1>1. /\ \A q \in Requests : pc'[q] = IF q = r THEN "sent" ELSE pc[q]
      /\ HeldAs(r, "sent") = {}
  BY DEF TypeOK, Goto, HeldAs, Staged
<1>2. /\ \A v \in Wallets : lock'[v] = IF lock[v] = r THEN NoRequest ELSE lock[v]
      /\ \A v \in Wallets : wallet'[v] = IF lock[v] = r THEN draft[v] ELSE wallet[v]
      /\ UNCHANGED <<draft, req>>
  BY DEF CommitTransaction, Unlocked
<1>3. LocksHeld'
  <2> SUFFICES ASSUME NEW v \in Wallets, NEW q \in Requests
               PROVE  lock'[v] = q <=> v \in HeldAs(q, pc'[q])
    BY <1>2, HeldFrame DEF LocksHeld
  <2>1. lock[v] = q <=> v \in HeldAs(q, pc[q])
    BY DEF RowsInv, LocksHeld
  <2> QED
    BY <1>1, <1>2, <2>1, RequestAssumption
<1>4. \A v \in Wallets : Ahead(v)' = Ahead(v)
  <2> SUFFICES ASSUME NEW v \in Wallets PROVE Ahead(v)' = Ahead(v)
    OBVIOUS
  <2>1. CASE lock[v] = r
    BY <1>2, <2>1, RequestAssumption DEF Ahead
  <2>2. CASE lock[v] # r
    BY <1>1, <1>2, <2>2 DEF Ahead, TypeOK
  <2> QED
    BY <2>1, <2>2
<1>5. DraftsExplained'
  BY <1>2, <1>4 DEF RowsInv, DraftsExplained
<1>6. LedgerExplainsBalance'
  <2> SUFFICES ASSUME NEW v \in Wallets PROVE Explained(wallet'[v])
    BY DEF LedgerExplainsBalance
  <2>1. CASE lock[v] = r
    <3>1. Ahead(v) = 0
      BY <2>1, RequestAssumption DEF Ahead
    <3>2. /\ RowsExplained(draft[v].ledger)
          /\ draft[v].balance = FinalBalance(draft[v].ledger) + 0
      BY <3>1 DEF RowsInv, DraftsExplained
    <3>3. FinalBalance(draft[v].ledger) \in Int
      BY FinalBalanceType DEF TypeOK, Account
    <3> QED
      BY <1>2, <2>1, <3>2, <3>3 DEF Explained
  <2>2. CASE lock[v] # r
    BY <1>2, <2>2 DEF RowsInv, LedgerExplainsBalance
  <2> QED
    BY <2>1, <2>2
<1>7. DraftsLocked' /\ NeverNegative'
  BY <1>2 DEF RowsInv, DraftsLocked, NeverNegative
<1>8. Funded'
  BY <1>1, <1>2, HeldFrame DEF RowsInv, Funded
<1> QED
  BY <1>3, <1>5, <1>6, <1>7, <1>8 DEF RowsInv

(* No row is locked, and the opening funds are explained, at the start.    *)
LEMMA InitRows == Init => Routed /\ RowsInv
<1> SUFFICES ASSUME Init PROVE Routed /\ RowsInv
  OBVIOUS
<1>1. TypeOK
  BY InitType
<1>2. Routed
  BY DEF Init, Routed, RoutedAs, Staged
<1>3. LocksHeld /\ DraftsLocked /\ Funded
  BY RequestAssumption
     DEF Init, LocksHeld, DraftsLocked, Funded, HeldAs, Staged
<1>4. ASSUME NEW w \in Wallets
      PROVE  Explained(wallet[w]) /\ Solvent(wallet[w])
  <2>1. Opening[w] \in Nat
    BY OpeningAssumption
  <2>2. CASE Opening[w] = 0
    <3>1. wallet[w] = [balance |-> 0, ledger |-> << >>]
      BY <2>2 DEF Init
    <3> QED
      BY <3>1
         DEF Explained, RowsExplained, FinalBalance, BalanceBefore, Solvent
  <2>3. CASE Opening[w] # 0
    <3>1. /\ wallet[w].balance = Opening[w]
          /\ Len(wallet[w].ledger) = 1
          /\ wallet[w].ledger[1].balanceAfter = Opening[w]
          /\ wallet[w].ledger[1].amount = Opening[w]
          /\ wallet[w].ledger[1].type = "CREDIT"
      BY <2>3 DEF Init
    <3> QED
      BY <2>1, <3>1 DEF Explained, RowsExplained, FinalBalance, BalanceBefore,
                        Signed, Solvent
  <2> QED
    BY <2>2, <2>3
<1>5. DraftsExplained
  <2> SUFFICES ASSUME NEW w \in Wallets
               PROVE  /\ RowsExplained(draft[w].ledger)
                      /\ draft[w].balance =
                           FinalBalance(draft[w].ledger) + Ahead(w)
    BY DEF DraftsExplained
  <2>1. draft[w] = wallet[w] /\ Ahead(w) = 0
    BY DEF Init, Ahead
  <2>2. draft[w].balance \in Int
    BY <1>1 DEF TypeOK, Account
  <2> QED
    BY <1>4, <2>1, <2>2 DEF Explained
<1>6. LedgerExplainsBalance /\ NeverNegative
  BY <1>4 DEF Init, LedgerExplainsBalance, NeverNegative
<1> QED
  BY <1>2, <1>3, <1>5, <1>6 DEF RowsInv

(* Steps that read or only record a reference.                             *)
LEMMA ReadSteps ==
  ASSUME BooksInv, NEW r \in Requests,
         \/ Receive(r) \/ LoadOwnedWallet(r) \/ LoadSource(r)
         \/ LoadDestination(r) \/ FindByReference(r)
         \/ ValidateUnderLock(r) /\ Verdict(r) = "OK"
         \/ InsertTransfer(r)
  PROVE  RowsInv'
<1> USE DEF BooksInv
<1>1. PICK label \in Labels :
        /\ pc' = [pc EXCEPT ![r] = label]
        /\ UNCHANGED <<wallet, draft, lock, req>>
        /\ \/ /\ pc[r] \in {"idle", "load", "source", "destination", "replay"}
              /\ label \in {"sent", "load", "source", "destination", "replay",
                            "credit", "debit", "lockFirst"}
           \/ /\ pc[r] = "validate" /\ label = "insertTransfer"
              /\ Verdict(r) = "OK"
           \/ pc[r] = "insertTransfer" /\ label = "debitLeg"
  <2> USE DEF Labels, Goto, dbVars
  <2>1. CASE Receive(r)
    BY <2>1 DEF Receive, Refuse, Send
  <2>2. CASE LoadOwnedWallet(r)
    BY <2>2 DEF LoadOwnedWallet, Refuse, Send
  <2>3. CASE LoadSource(r)
    BY <2>3 DEF LoadSource, Refuse, Send
  <2>4. CASE LoadDestination(r)
    BY <2>4 DEF LoadDestination, Refuse, Send
  <2>5. CASE FindByReference(r)
    BY <2>5, BodyFacts DEF FindByReference, Send, Op
  <2>6. CASE ValidateUnderLock(r) /\ Verdict(r) = "OK"
    BY <2>6 DEF ValidateUnderLock
  <2>7. CASE InsertTransfer(r)
    BY <2>7 DEF InsertTransfer
  <2> QED
    BY <2>1, <2>2, <2>3, <2>4, <2>5, <2>6, <2>7
<1>2. HeldAs(r, label) = HeldAs(r, pc[r])
  BY <1>1 DEF HeldAs, Staged
<1>3. label \in {"insertTransfer", "debitLeg"} =>
        draft[From(r)].balance >= req[r].amount
  <2>1. CASE Verdict(r) = "OK" /\ pc[r] = "validate"
    <3>1. ~(draft[From(r)].balance < req[r].amount)
      BY <2>1 DEF Verdict
    <3>2. From(r) \in Wallets
      BY <2>1 DEF Routed, RoutedAs, Known, Staged, OwnSide, IsTransfer
    <3>3. draft[From(r)] \in Account
      BY <3>2 DEF TypeOK
    <3>4. draft[From(r)].balance \in Int /\ req[r].amount \in Int
      BY <3>3, BodyFacts DEF Account
    <3> QED
      BY <3>1, <3>4
  <2>2. CASE pc[r] = "insertTransfer"
    BY <2>2 DEF RowsInv, Funded
  <2> QED
    BY <1>1, <2>1, <2>2
<1> QED
  BY <1>1, <1>2, <1>3, RowsRead

(* Where a handler of a transfer is past its reads, it has two wallets.    *)
LEMMA StagedFacts ==
  ASSUME TypeOK, Routed, NEW r \in Requests, pc[r] \in Staged
  PROVE  /\ IsTransfer(r) /\ OwnSide(r) = From(r)
         /\ From(r) \in Wallets /\ To(r) \in Wallets
         /\ WalletOf[FirstId(r)] \in {From(r), To(r)}
         /\ {WalletOf[FirstId(r)], WalletOf[SecondId(r)]} = {From(r), To(r)}
<1>1. IsTransfer(r) /\ OwnSide(r) = From(r)
  BY DEF Routed, RoutedAs, Staged, OwnSide, IsTransfer
<1>2. From(r) \in Wallets /\ To(r) \in Wallets
  BY <1>1 DEF Routed, RoutedAs, Staged, Known
<1>3. \/ WalletOf[FirstId(r)] = From(r) /\ WalletOf[SecondId(r)] = To(r)
      \/ WalletOf[FirstId(r)] = To(r) /\ WalletOf[SecondId(r)] = From(r)
  BY DEF FirstId, SecondId, From, To
<1> QED
  BY <1>1, <1>2, <1>3

(* Locking a row for a transfer changes nothing in it.                     *)
LEMMA LockSteps ==
  ASSUME BooksInv, NEW r \in Requests, LockFirst(r) \/ LockSecond(r)
  PROVE  RowsInv'
<1> USE DEF BooksInv
<1>1. PICK w \in Wallets, label \in {"lockSecond", "validate"} :
        /\ Grantable(r, w)
        /\ pc' = [pc EXCEPT ![r] = label]
        /\ lock' = [lock EXCEPT ![w] = r]
        /\ UNCHANGED <<wallet, draft, req>>
        /\ pc[r] # "insertEntry"
        /\ HeldAs(r, label) = HeldAs(r, pc[r]) \cup {w}
  <2>1. CASE LockFirst(r)
    <3>1. pc[r] = "lockFirst" /\ WalletOf[FirstId(r)] \in Wallets
      BY <2>1, StagedFacts DEF LockFirst, LockRow, Staged
    <3>2. HeldAs(r, "lockSecond") = HeldAs(r, pc[r]) \cup {WalletOf[FirstId(r)]}
      BY <3>1 DEF HeldAs, Staged
    <3> QED
      BY <2>1, <3>1, <3>2 DEF LockFirst, LockRow, Goto
  <2>2. CASE LockSecond(r)
    <3>1. /\ pc[r] = "lockSecond" /\ WalletOf[SecondId(r)] \in Wallets
          /\ {WalletOf[FirstId(r)], WalletOf[SecondId(r)]} = {From(r), To(r)}
      BY <2>2, StagedFacts DEF LockSecond, LockRow, Staged
    <3>2. HeldAs(r, "validate") = HeldAs(r, pc[r]) \cup {WalletOf[SecondId(r)]}
      BY <3>1 DEF HeldAs, Staged
    <3> QED
      BY <2>2, <3>1, <3>2 DEF LockSecond, LockRow, Goto
  <2> QED
    BY <2>1, <2>2
<1>2. Ahead(w) = 0
  BY <1>1, NothingAhead
<1>3. /\ draft[w] \in Account
      /\ draft' = [draft EXCEPT ![w] = draft[w]]
  BY <1>1 DEF TypeOK
<1>4. /\ RowsExplained(draft[w].ledger)
      /\ draft[w].balance = FinalBalance(draft[w].ledger) + Due(r, label)
      /\ Solvent(draft[w])
  BY <1>1, <1>2 DEF RowsInv, DraftsExplained, Due, NeverNegative
<1> QED
  BY <1>1, <1>3, <1>4, RowsWrite DEF Labels

(* The balance updates of deposits and withdrawals: from here to the       *)
(* ledger row, the balance runs ahead.                                     *)
LEMMA UpdateStep ==
  ASSUME BooksInv, NEW r \in Requests, NEW delta \in Int,
         pc[r] \in {"credit", "debit"},
         delta = Due(r, "insertEntry"),
         Grantable(r, OwnSide(r)),
         draft[OwnSide(r)].balance + delta >= 0,
         lock' = [lock EXCEPT ![OwnSide(r)] = r],
         draft' = [draft EXCEPT ![OwnSide(r)] = Adjusted(@, delta)],
         pc' = [pc EXCEPT ![r] = "insertEntry"],
         UNCHANGED <<wallet, req>>
  PROVE  RowsInv'
<1> USE DEF BooksInv
<1> DEFINE w == OwnSide(r)
           a == Adjusted(draft[w], delta)
<1>1. w \in Wallets
  BY DEF Routed, RoutedAs, Known
<1>2. draft[w] \in Account /\ draft' = [draft EXCEPT ![w] = a]
  BY <1>1 DEF TypeOK
<1>3. /\ a \in Account
      /\ a.balance = draft[w].balance + delta
      /\ a.ledger = draft[w].ledger
  BY <1>2, AdjustedType
<1>4. /\ RowsExplained(draft[w].ledger)
      /\ draft[w].balance = FinalBalance(draft[w].ledger) + 0
      /\ Solvent(draft[w])
  BY <1>1, NothingAhead DEF RowsInv, DraftsExplained, NeverNegative
<1>5. FinalBalance(draft[w].ledger) \in Int
  BY <1>2, FinalBalanceType DEF Account
<1>6. HeldAs(r, "insertEntry") = {w} /\ HeldAs(r, pc[r]) = {}
  BY DEF HeldAs, Staged
<1> HIDE DEF a, w
<1>7. a.balance = FinalBalance(a.ledger) + Due(r, "insertEntry")
  BY <1>3, <1>4, <1>5
<1>8. Solvent(a) /\ RowsExplained(a.ledger)
  BY <1>3, <1>4 DEF Solvent, w
<1>9. /\ Grantable(r, w)
      /\ lock' = [lock EXCEPT ![w] = r]
  BY DEF w
<1> QED
  BY <1>1, <1>2, <1>3, <1>6, <1>7, <1>8, <1>9, RowsWrite DEF Labels

(* The ledger row of a deposit or a withdrawal accounts for its update.    *)
LEMMA EntryStep ==
  ASSUME BooksInv, NEW r \in Requests, InsertEntry(r)
  PROVE  RowsInv'
<1> USE DEF BooksInv
<1> DEFINE w == OwnSide(r)
           t == IF req[r].op = "deposit" THEN "CREDIT" ELSE "DEBIT"
           a == Recorded(draft[w], r, t, req[r].reference, NoRequest)
<1>1. pc[r] = "insertEntry" /\ w \in Wallets /\ ~IsTransfer(r)
  BY DEF InsertEntry, Routed, RoutedAs, Known
<1>2. /\ HeldAs(r, "insertEntry") = {w}
      /\ HeldAs(r, "commit") = {w}
  BY <1>1 DEF HeldAs, Staged
<1>3. lock[w] = r
  BY <1>1, <1>2 DEF RowsInv, LocksHeld
<1>4. draft[w] \in Account /\ draft' = [draft EXCEPT ![w] = a]
  BY <1>1 DEF InsertEntry, TypeOK
<1>5. /\ lock' = [lock EXCEPT ![w] = r]
      /\ pc' = [pc EXCEPT ![r] = "commit"]
      /\ UNCHANGED <<wallet, req>>
      /\ Grantable(r, w)
  BY <1>3 DEF InsertEntry, Goto, TypeOK, Grantable
<1>6. Ahead(w) = IF t = "CREDIT" THEN req[r].amount ELSE -req[r].amount
  BY <1>1, <1>3, RequestAssumption DEF Ahead
<1>7. /\ RowsExplained(draft[w].ledger)
      /\ draft[w].balance = FinalBalance(draft[w].ledger) + Ahead(w)
      /\ Solvent(draft[w])
  BY <1>1 DEF RowsInv, DraftsExplained, NeverNegative
<1>8. a \in Account
  BY <1>4, BodyFacts, RecordedType
<1>9. Explained(a)
  BY <1>4, <1>6, <1>7, BodyFacts, RecordedExplained
<1>10. Solvent(a)
  BY <1>4, <1>7, BodyFacts, RecordedSolvent
<1>11. a.balance = FinalBalance(a.ledger) + Due(r, "commit")
  BY <1>8, <1>9 DEF Explained, Due, Account
<1> HIDE DEF a, w, t
<1> QED
  BY <1>1, <1>2, <1>4, <1>5, <1>8, <1>9, <1>10, <1>11, RowsWrite
     DEF Labels, Explained

(* A leg of a transfer updates a balance and accounts for it at once.      *)
LEMMA LegStep ==
  ASSUME BooksInv, NEW r \in Requests, NEW w \in Wallets,
         NEW type \in {"CREDIT", "DEBIT"}, NEW delta \in Int,
         NEW label \in {"creditLeg", "commit"},
         pc[r] \in {"debitLeg", "creditLeg"}, w \in {From(r), To(r)},
         delta = (IF type = "CREDIT" THEN req[r].amount ELSE -req[r].amount),
         draft[w].balance + delta >= 0,
         WriteLeg(r, w, type, delta),
         pc' = [pc EXCEPT ![r] = label],
         UNCHANGED <<wallet, lock, req>>
  PROVE  RowsInv'
<1> USE DEF BooksInv
<1> DEFINE b == Adjusted(draft[w], delta)
           a == Recorded(b, r, type, NoRef, r)
<1>1. HeldAs(r, pc[r]) = {From(r), To(r)} /\ HeldAs(r, label) = {From(r), To(r)}
  BY StagedFacts DEF HeldAs, Staged
<1>2. lock[w] = r
  BY <1>1 DEF RowsInv, LocksHeld
<1>3. draft[w] \in Account /\ draft' = [draft EXCEPT ![w] = a]
  BY DEF WriteLeg, TypeOK
<1>4. /\ lock' = [lock EXCEPT ![w] = r]
      /\ Grantable(r, w)
  BY <1>2 DEF TypeOK, Grantable
<1>5. /\ b \in Account
      /\ b.balance = draft[w].balance + delta
      /\ b.ledger = draft[w].ledger
  BY <1>3, AdjustedType
<1>6. /\ RowsExplained(draft[w].ledger)
      /\ draft[w].balance = FinalBalance(draft[w].ledger) + 0
      /\ Solvent(draft[w])
  BY <1>4, NothingAhead DEF RowsInv, DraftsExplained, NeverNegative
<1>7. FinalBalance(draft[w].ledger) \in Int
  BY <1>3, FinalBalanceType DEF Account
<1> HIDE DEF b
<1>8. RowsExplained(b.ledger) /\ Solvent(b)
  BY <1>5, <1>6 DEF Solvent
<1>9. b.balance = FinalBalance(b.ledger)
        + (IF type = "CREDIT" THEN req[r].amount ELSE -req[r].amount)
  BY <1>5, <1>6, <1>7
<1>10. a \in Account /\ Explained(a) /\ Solvent(a)
  BY <1>5, <1>8, <1>9, RecordedType, RecordedExplained, RecordedSolvent
     DEF RefValue
<1>11. a.balance = FinalBalance(a.ledger) + Due(r, label)
  BY <1>10 DEF Explained, Due, Account
<1>12. /\ HeldAs(r, label) = HeldAs(r, pc[r]) \cup {w}
       /\ pc[r] # "insertEntry" /\ label # "insertEntry"
       /\ label \notin {"insertTransfer", "debitLeg"} /\ label \in Labels
  BY <1>1 DEF Labels
<1> HIDE DEF a
<1> QED
  BY <1>3, <1>4, <1>10, <1>11, <1>12, RowsWrite DEF Explained

(* Every step keeps the rows, their locks and their ledgers in order.      *)
LEMMA RowsStep == BooksInv /\ [Next]_vars => RowsInv'
<1> SUFFICES ASSUME BooksInv, [Next]_vars PROVE RowsInv'
  OBVIOUS
<1> USE DEF BooksInv
<1>1. ASSUME NEW r \in Requests, NEW code, Rollback(r), Refuse(r, code)
      PROVE  RowsInv'
  BY <1>1, RowsRollback
<1>2. ASSUME NEW r \in Requests, Handle(r) PROVE RowsInv'
  <2>1. CASE \/ LoadOwnedWallet(r) \/ LoadSource(r) \/ LoadDestination(r)
             \/ FindByReference(r) \/ InsertTransfer(r)
    BY <2>1, ReadSteps
  <2>2. CASE IncrementBalance(r)
    <3>1. CASE Rollback(r) /\ Refuse(r, "INTERNAL_ERROR")
      BY <3>1, <1>1
    <3>2. CASE ~(Rollback(r) /\ Refuse(r, "INTERNAL_ERROR"))
      <4>1. /\ pc[r] = "credit" /\ req[r].op = "deposit"
            /\ OwnSide(r) = To(r) /\ To(r) \in Wallets
        BY <2>2 DEF IncrementBalance, Routed, RoutedAs, Known, OwnSide
      <4>2. draft[To(r)].balance \in Int /\ draft[To(r)].balance >= 0
        BY <4>1 DEF TypeOK, Account, RowsInv, NeverNegative, Solvent
      <4>3. /\ req[r].amount \in Int
            /\ req[r].amount = Due(r, "insertEntry")
            /\ draft[To(r)].balance + req[r].amount >= 0
        BY <4>1, <4>2, BodyFacts DEF Due
      <4> QED
        BY <2>2, <3>2, <4>1, <4>3, UpdateStep DEF IncrementBalance, Goto
    <3> QED
      BY <3>1, <3>2
  <2>3. CASE GuardedDecrementNone(r) \/ InsertDuplicate(r)
    BY <2>3, <1>1 DEF GuardedDecrementNone, InsertDuplicate
  <2>4. CASE GuardedDecrement(r)
    <3>1. /\ pc[r] = "debit" /\ req[r].op = "withdraw"
          /\ OwnSide(r) = From(r) /\ From(r) \in Wallets
      BY <2>4 DEF GuardedDecrement, Routed, RoutedAs, Known, OwnSide
    <3>2. draft[From(r)] = wallet[From(r)]
      <4>1. HeldAs(r, pc[r]) = {}
        BY <3>1 DEF HeldAs, Staged
      <4>2. lock[From(r)] = NoRequest
        BY <2>4, <3>1, <4>1 DEF GuardedDecrement, Grantable, RowsInv, LocksHeld
      <4> QED
        BY <3>1, <4>2 DEF RowsInv, DraftsLocked
    <3>3. draft[From(r)].balance \in Int
      BY <3>1 DEF TypeOK, Account
    <3>4. /\ -req[r].amount \in Int
          /\ -req[r].amount = Due(r, "insertEntry")
          /\ draft[From(r)].balance + (-req[r].amount) >= 0
      BY <2>4, <3>1, <3>2, <3>3, BodyFacts DEF Due, GuardedDecrement, Spendable
    <3> QED
      BY <2>4, <3>1, <3>4, UpdateStep DEF GuardedDecrement, Goto
  <2>5. CASE InsertEntry(r)
    BY <2>5, EntryStep
  <2>6. CASE LockFirst(r) \/ LockSecond(r)
    BY <2>6, LockSteps
  <2>7. CASE ValidateUnderLock(r)
    BY <2>7, <1>1, ReadSteps DEF ValidateUnderLock
  <2>8. CASE DebitLeg(r)
    <3>1. pc[r] = "debitLeg" /\ From(r) \in Wallets
      BY <2>8, StagedFacts DEF DebitLeg, Staged
    <3>2. draft[From(r)].balance \in Int
      BY <3>1 DEF TypeOK, Account
    <3>3. /\ -req[r].amount \in Int
          /\ draft[From(r)].balance + (-req[r].amount) >= 0
      BY <3>1, <3>2, BodyFacts DEF RowsInv, Funded
    <3> QED
      BY <2>8, <3>1, <3>3, LegStep DEF DebitLeg, Goto
  <2>9. CASE CreditLeg(r)
    <3>1. CASE Rollback(r) /\ Refuse(r, "INTERNAL_ERROR")
      BY <3>1, <1>1
    <3>2. CASE ~(Rollback(r) /\ Refuse(r, "INTERNAL_ERROR"))
      <4>1. pc[r] = "creditLeg" /\ To(r) \in Wallets
        BY <2>9, StagedFacts DEF CreditLeg, Staged
      <4>2. draft[To(r)].balance \in Int /\ draft[To(r)].balance >= 0
        BY <4>1 DEF TypeOK, Account, RowsInv, NeverNegative, Solvent
      <4>3. req[r].amount \in Int /\ draft[To(r)].balance + req[r].amount >= 0
        BY <4>2, BodyFacts
      <4> QED
        BY <2>9, <3>2, <4>1, <4>3, LegStep DEF CreditLeg, Goto
    <3> QED
      BY <3>1, <3>2
  <2>10. CASE Commit(r)
    BY <2>10, RowsCommit DEF Commit, Send
  <2> QED
    BY <1>2, <2>1, <2>2, <2>3, <2>4, <2>5, <2>6, <2>7, <2>8, <2>9, <2>10
       DEF Handle
<1>3. ASSUME NEW r \in Requests, Receive(r) PROVE RowsInv'
  BY <1>3, ReadSteps
<1>4. ASSUME NEW r \in Requests, Fail(r) PROVE RowsInv'
  BY <1>4, <1>1 DEF Fail
<1>5. ASSUME NEW r \in Requests, CommitUnacknowledged(r) PROVE RowsInv'
  BY <1>5, RowsCommit DEF CommitUnacknowledged, Refuse, Send
<1>6. CASE UNCHANGED <<wallet, draft, lock, req, pc>>
  <2>1. \A q \in Requests : HeldAs(q, pc[q])' = HeldAs(q, pc[q])
    BY <1>6, HeldFrame
  <2> QED
    BY <1>6, <2>1 DEF RowsInv, LocksHeld, DraftsLocked, DraftsExplained, Ahead,
                      LedgerExplainsBalance, Funded, NeverNegative, From
<1> QED
  BY <1>2, <1>3, <1>4, <1>5, <1>6 DEF Next, Quiescent, SetStatus, vars, dbVars

-----------------------------------------------------------------------------
(* The invariant holds of every behaviour: initially, and over each step.  *)
THEOREM BooksAreKept == Spec => []BooksInv
<1>1. Init => BooksInv
  BY InitType, InitRows DEF BooksInv
<1>2. BooksInv /\ [Next]_vars => BooksInv'
  BY TypeStep, RoutedStep, RowsStep DEF BooksInv
<1> QED
  BY <1>1, <1>2, PTL DEF Spec

(* Tables, locks, indexes, handlers and answers hold values of their types.*)
THEOREM TypeCorrect == Spec => []TypeOK
<1>1. BooksInv => TypeOK
  BY DEF BooksInv
<1> QED
  BY <1>1, BooksAreKept, PTL

(* Whatever interleaves and whatever fails, a wallet's committed balance   *)
(* is what its committed rows of transactions add up to.                   *)
THEOREM LedgerIsExact == Spec => []LedgerExplainsBalance
<1>1. BooksInv => LedgerExplainsBalance
  BY DEF BooksInv, RowsInv
<1> QED
  BY <1>1, BooksAreKept, PTL

(* No balance is ever negative, in a committed row, in a transaction that  *)
(* is still open, or in the history the ledger keeps.                      *)
THEOREM BalancesNeverNegative == Spec => []NeverNegative
<1>1. BooksInv => NeverNegative
  BY DEF BooksInv, RowsInv
<1> QED
  BY <1>1, BooksAreKept, PTL
=============================================================================
