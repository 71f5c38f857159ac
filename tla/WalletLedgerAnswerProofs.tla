---------------------- MODULE WalletLedgerAnswerProofs ----------------------
(***************************************************************************)
(* Transfers happen entirely or not at all, and answers are true of what   *)
(* is committed, for every value of the constants of WalletLedger.  Both   *)
(* are about the rows of one request: how many it has written follows from *)
(* where it is, until it has committed or given up.                        *)
(***************************************************************************)
EXTENDS WalletLedgerEffectProofs, FiniteSetTheorems

-----------------------------------------------------------------------------
(* The legs of a transfer, in the drafts and in the committed rows.        *)
LegsOf(ledger, r, type, amount) ==
  {i \in 1 .. Len(ledger) : /\ ledger[i].transfer = r /\ ledger[i].type = type
                            /\ ledger[i].amount = amount}
OneIff(S, condition) == IF condition THEN \E x : S = {x} ELSE S = {}

Debited(r) == IsTransfer(r) /\ (r \in commitLog \/ pc[r] \in {"creditLeg", "commit"})
Credited(r) == IsTransfer(r) /\ (r \in commitLog \/ pc[r] = "commit")
Inserted(r) == IsTransfer(r) /\ (r \in commitLog \/ pc[r] \in Written)
Settled(r) == IsTransfer(r) /\ r \in commitLog

DraftLegs ==
  \A r \in Requests, w \in Wallets :
    /\ OneIff(LegsOf(draft[w].ledger, r, "DEBIT", req[r].amount), Debited(r) /\ w = From(r))
    /\ OneIff(LegsOf(draft[w].ledger, r, "CREDIT", req[r].amount), Credited(r) /\ w = To(r))
CommittedLegs ==
  \A r \in Requests, w \in Wallets :
    /\ OneIff(LegsOf(wallet[w].ledger, r, "DEBIT", req[r].amount), Settled(r) /\ w = From(r))
    /\ OneIff(LegsOf(wallet[w].ledger, r, "CREDIT", req[r].amount), Settled(r) /\ w = To(r))
TransferRowsInv == \A r \in Requests : r \in transferRows <=> Inserted(r)
LegsInv == DraftLegs /\ CommittedLegs /\ TransferRowsInv

Extended(new, old, r, type, amount, condition) ==
  LegsOf(new, r, type, amount) =
    IF condition THEN LegsOf(old, r, type, amount) \cup {Len(old) + 1}
    ELSE LegsOf(old, r, type, amount)

(* A row that is appended adds itself to the legs it is one of, and to no  *)
(* other.                                                                  *)
LEMMA LegsAppend ==
  ASSUME NEW s \in Seq(Entry), NEW e \in Entry, NEW q, NEW type, NEW amount
  PROVE  Extended(Append(s, e), s, q, type, amount,
                  e.transfer = q /\ e.type = type /\ e.amount = amount)
<1>1. /\ Len(Append(s, e)) = Len(s) + 1 /\ Len(s) \in Nat
      /\ \A i \in 1 .. Len(s) : Append(s, e)[i] = s[i]
      /\ Append(s, e)[Len(s) + 1] = e
  BY Appended
<1>. QED  BY <1>1 DEF LegsOf, Extended

(* A transfer that has written holds both of its rows, until it ends.      *)
LEMMA HoldsBoth ==
  ASSUME BooksInv, NEW r \in Requests, IsTransfer(r), pc[r] \in Written
  PROVE  lock[From(r)] = r /\ lock[To(r)] = r
<1>1. From(r) \in Wallets /\ To(r) \in Wallets
  BY DEF Written, BooksInv, Routed, RoutedAs, Known, OwnSide, IsTransfer, Staged
<1>2. {From(r), To(r)} \subseteq HeldAs(r, pc[r])
  BY DEF Written, HeldAs, Staged
<1>. QED  BY <1>1, <1>2 DEF BooksInv, RowsInv, LocksHeld

(* Committed legs change only when their request commits.                  *)
LEMMA CommittedLegsStep ==
  ASSUME BooksInv, GrowthInv, LegsInv, [Next]_vars
  PROVE  CommittedLegs'
<1>1. req' = req
  BY StepKinds
<1>2. CASE UNCHANGED <<wallet, commitLog>>
  BY <1>1, <1>2 DEF LegsInv, CommittedLegs, Settled, IsTransfer, From, To
<1>3. ASSUME NEW r \in Requests, Settles(r) PROVE CommittedLegs'
  <2>1. pc[r] = "commit" /\ commitLog' = commitLog \cup {r}
    BY <1>3 DEF Settles, CommitTransaction
  <2>. SUFFICES ASSUME NEW q \in Requests, NEW w \in Wallets
                PROVE  /\ OneIff(LegsOf(wallet'[w].ledger, q, "DEBIT", req[q].amount),
                                 IsTransfer(q) /\ q \in commitLog' /\ w = From(q))
                       /\ OneIff(LegsOf(wallet'[w].ledger, q, "CREDIT", req[q].amount),
                                 IsTransfer(q) /\ q \in commitLog' /\ w = To(q))
    BY <1>1 DEF CommittedLegs, Settled, IsTransfer, From, To
  <2>2. q # r /\ IsTransfer(q) /\ w \in {From(q), To(q)} /\ lock[w] = r =>
          pc[q] \notin {"creditLeg", "commit"}
    BY HoldsBoth DEF Written
  <2>3. CASE lock[w] = r
    <3>1. wallet'[w] = draft[w]
      BY <1>3, <2>3 DEF Settles, CommitTransaction
    <3>. QED  BY <2>1, <2>2, <2>3, <3>1 DEF LegsInv, DraftLegs, Debited, Credited, OneIff
  <2>4. CASE lock[w] # r
    <3>1. wallet'[w] = wallet[w]
      BY <1>3, <2>4 DEF Settles, CommitTransaction
    <3>2. IsTransfer(r) => w \notin {From(r), To(r)}
      BY <2>1, <2>4, HoldsBoth DEF Written
    <3>. QED  BY <2>1, <3>1, <3>2 DEF LegsInv, CommittedLegs, Settled, OneIff
  <2>. QED  BY <2>3, <2>4
<1>4. ASSUME NEW r \in Requests,
             \/ Abandons(r) \/ InsertEntry(r) \/ InsertTransfer(r) \/ Debits(r) \/ Credits(r)
      PROVE  UNCHANGED <<wallet, commitLog>>
  BY <1>4 DEF Abandons, Rollback, InsertEntry, InsertTransfer, Debits, Credits, Leg
<1>. QED  BY <1>2, <1>3, <1>4, StepKinds DEF Quiet, Touches

(* Drafts have the legs that the handler's place says.                     *)
LEMMA DraftLegsStep ==
  ASSUME BooksInv, GrowthInv, LegsInv, [Next]_vars
  PROVE  DraftLegs'
<1>1. req' = req
  BY StepKinds
<1>. DEFINE Debited1(q) == IsTransfer(q) /\ (q \in commitLog' \/ pc'[q] \in {"creditLeg", "commit"})
            Credited1(q) == IsTransfer(q) /\ (q \in commitLog' \/ pc'[q] = "commit")
<1>2. ASSUME \A q \in Requests, w \in Wallets :
               /\ OneIff(LegsOf(draft'[w].ledger, q, "DEBIT", req[q].amount), Debited1(q) /\ w = From(q))
               /\ OneIff(LegsOf(draft'[w].ledger, q, "CREDIT", req[q].amount), Credited1(q) /\ w = To(q))
      PROVE  DraftLegs'
  BY <1>1, <1>2 DEF DraftLegs, Debited, Credited, IsTransfer, From, To
<1>3. CASE /\ \A w \in Wallets : draft'[w].ledger = draft[w].ledger
           /\ \A q \in Requests : /\ Debited1(q) <=> Debited(q)
                                  /\ Credited1(q) <=> Credited(q)
  <2>. HIDE DEF Debited1, Credited1
  <2>. SUFFICES ASSUME NEW q \in Requests, NEW w \in Wallets
                PROVE  /\ OneIff(LegsOf(draft'[w].ledger, q, "DEBIT", req[q].amount), Debited1(q) /\ w = From(q))
                       /\ OneIff(LegsOf(draft'[w].ledger, q, "CREDIT", req[q].amount), Credited1(q) /\ w = To(q))
    BY <1>2
  <2>1. /\ OneIff(LegsOf(draft[w].ledger, q, "DEBIT", req[q].amount), Debited(q) /\ w = From(q))
        /\ OneIff(LegsOf(draft[w].ledger, q, "CREDIT", req[q].amount), Credited(q) /\ w = To(q))
    BY DEF LegsInv, DraftLegs
  <2>. QED  BY <1>3, <2>1 DEF OneIff
<1>4. CASE Quiet
  <2>1. \A q \in Requests : (Debited1(q) <=> Debited(q)) /\ (Credited1(q) <=> Credited(q))
    BY <1>4 DEF Quiet, Debited, Credited, Written
  <2>. QED  BY <1>3, <1>4, <2>1 DEF Quiet
<1>5. ASSUME NEW r \in Requests, NEW label, Goto(r, label)
      PROVE  \A q \in Requests : pc'[q] = IF q = r THEN label ELSE pc[q]
  BY <1>5 DEF Goto, BooksInv, TypeOK
<1>6. ASSUME NEW r \in Requests, Abandons(r) PROVE DraftLegs'
  <2>1. r \notin commitLog /\ commitLog' = commitLog
    BY <1>6 DEF Abandons, Rollback, GrowthInv
  <2>2. \A q \in Requests : pc'[q] = IF q = r THEN "sent" ELSE pc[q]
    BY <1>5, <1>6 DEF Abandons
  <2>. SUFFICES ASSUME NEW q \in Requests, NEW w \in Wallets
                PROVE  /\ OneIff(LegsOf(draft'[w].ledger, q, "DEBIT", req[q].amount), Debited1(q) /\ w = From(q))
                       /\ OneIff(LegsOf(draft'[w].ledger, q, "CREDIT", req[q].amount), Credited1(q) /\ w = To(q))
    BY <1>2
  <2>3. IsTransfer(q) /\ w \in {From(q), To(q)} /\ pc[q] \in {"creditLeg", "commit"} => lock[w] = q
    BY HoldsBoth DEF Written
  <2>4. CASE lock[w] = r
    <3>1. draft'[w] = wallet[w]
      BY <1>6, <2>4 DEF Abandons, Rollback
    <3>. QED  BY <2>1, <2>2, <2>3, <2>4, <3>1 DEF LegsInv, CommittedLegs, Settled, OneIff
  <2>5. CASE lock[w] # r
    <3>1. draft'[w] = draft[w]
      BY <1>6, <2>5 DEF Abandons, Rollback
    <3>. QED
      BY <2>1, <2>2, <2>3, <2>5, <3>1 DEF LegsInv, DraftLegs, Debited, Credited, OneIff
  <2>. QED  BY <2>4, <2>5
<1>7. ASSUME NEW r \in Requests, Settles(r) PROVE DraftLegs'
  <2>1. pc[r] = "commit" /\ commitLog' = commitLog \cup {r} /\ draft' = draft
    BY <1>7 DEF Settles, CommitTransaction
  <2>2. \A q \in Requests : pc'[q] = IF q = r THEN "sent" ELSE pc[q]
    BY <1>5, <1>7 DEF Settles
  <2>3. \A q \in Requests : (Debited1(q) <=> Debited(q)) /\ (Credited1(q) <=> Credited(q))
    BY <2>1, <2>2 DEF Debited, Credited
  <2>. QED  BY <1>3, <2>1, <2>3
<1>8. ASSUME NEW r \in Requests, InsertTransfer(r) PROVE DraftLegs'
  <2>1. pc[r] = "insertTransfer" /\ commitLog' = commitLog /\ draft' = draft
    BY <1>8 DEF InsertTransfer
  <2>2. \A q \in Requests : pc'[q] = IF q = r THEN "debitLeg" ELSE pc[q]
    BY <1>5, <1>8 DEF InsertTransfer
  <2>3. \A q \in Requests : (Debited1(q) <=> Debited(q)) /\ (Credited1(q) <=> Credited(q))
    BY <2>1, <2>2 DEF Debited, Credited
  <2>. QED  BY <1>3, <2>1, <2>3
<1>9. ASSUME NEW r \in Requests, NEW v, NEW e, Writes(r, v, e)
      PROVE  \A q \in Requests, w \in Wallets, type \in {"DEBIT", "CREDIT"} :
               Extended(draft'[w].ledger, draft[w].ledger, q, type, req[q].amount,
                        w = v /\ e.transfer = q /\ e.type = type /\ e.amount = req[q].amount)
  <2>. TAKE q \in Requests, w \in Wallets, type \in {"DEBIT", "CREDIT"}
  <2>1. CASE w = v
    <3>1. draft[w].ledger \in Seq(Entry) /\ e \in Entry
      BY <1>9, Ledgers DEF Writes, BooksInv
    <3>2. draft'[w].ledger = Append(draft[w].ledger, e)
      BY <1>9, <2>1 DEF Writes
    <3>3. Extended(Append(draft[w].ledger, e), draft[w].ledger, q, type, req[q].amount,
                   e.transfer = q /\ e.type = type /\ e.amount = req[q].amount)
      BY <3>1, LegsAppend
    <3>. QED  BY <2>1, <3>2, <3>3 DEF Extended
  <2>2. CASE w # v
    BY <1>9, <2>2 DEF Writes, Extended
  <2>. QED  BY <2>1, <2>2
<1>10. ASSUME NEW r \in Requests, InsertEntry(r) PROVE DraftLegs'
  <2>1. PICK e : Writes(r, OwnSide(r), e) /\ e.transfer = NoRequest
    BY <1>10, EntryWrites
  <2>2. ~IsTransfer(r) /\ commitLog' = commitLog
    BY <1>10, EntryWrites DEF InsertEntry
  <2>3. \A q \in Requests : pc'[q] = IF q = r THEN "commit" ELSE pc[q]
    BY <1>5, <1>10 DEF InsertEntry
  <2>4. \A q \in Requests : (Debited1(q) <=> Debited(q)) /\ (Credited1(q) <=> Credited(q))
    BY <2>2, <2>3 DEF Debited, Credited
  <2>5. \A q \in Requests, w \in Wallets, type \in {"DEBIT", "CREDIT"} :
          LegsOf(draft'[w].ledger, q, type, req[q].amount) = LegsOf(draft[w].ledger, q, type, req[q].amount)
    <3>1. \A q \in Requests, w \in Wallets, type \in {"DEBIT", "CREDIT"} :
          Extended(draft'[w].ledger, draft[w].ledger, q, type, req[q].amount,
                   w = OwnSide(r) /\ e.transfer = q /\ e.type = type /\ e.amount = req[q].amount)
      BY <1>9, <2>1
    <3>2. \A q \in Requests : e.transfer # q
      BY <2>1, RequestAssumption
    <3>. QED  BY <3>1, <3>2 DEF Extended
  <2>. SUFFICES ASSUME NEW q \in Requests, NEW w \in Wallets
                PROVE  /\ OneIff(LegsOf(draft'[w].ledger, q, "DEBIT", req[q].amount), Debited1(q) /\ w = From(q))
                       /\ OneIff(LegsOf(draft'[w].ledger, q, "CREDIT", req[q].amount), Credited1(q) /\ w = To(q))
    BY <1>2
  <2>6. /\ LegsOf(draft'[w].ledger, q, "DEBIT", req[q].amount)
             = LegsOf(draft[w].ledger, q, "DEBIT", req[q].amount)
        /\ LegsOf(draft'[w].ledger, q, "CREDIT", req[q].amount)
             = LegsOf(draft[w].ledger, q, "CREDIT", req[q].amount)
    BY <2>5
  <2>. QED  BY <2>4, <2>6 DEF LegsInv, DraftLegs, OneIff
<1>11. ASSUME NEW r \in Requests, Debits(r) PROVE DraftLegs'
  <2>1. Leg(r, "debitLeg", From(r), "DEBIT", -req[r].amount, "creditLeg")
    BY <1>11 DEF Debits
  <2>2. -req[r].amount \in Int
    BY BodyFacts DEF BooksInv
  <2>3. PICK e : Writes(r, From(r), e) /\ e.type = "DEBIT" /\ e.transfer = r
    BY <2>1, <2>2, LegWrites
  <2>9. \A q \in Requests, w \in Wallets, type \in {"DEBIT", "CREDIT"} :
          Extended(draft'[w].ledger, draft[w].ledger, q, type, req[q].amount,
                   w = From(r) /\ e.transfer = q /\ e.type = type /\ e.amount = req[q].amount)
    BY <1>9, <2>3
  <2>4. IsTransfer(r) /\ commitLog' = commitLog /\ r \notin commitLog /\ pc[r] = "debitLeg"
    BY <2>1, <2>2, LegWrites DEF Leg, GrowthInv
  <2>5. \A q \in Requests : pc'[q] = IF q = r THEN "creditLeg" ELSE pc[q]
    BY <1>5, <2>1 DEF Leg
  <2>. SUFFICES ASSUME NEW q \in Requests, NEW w \in Wallets
                PROVE  /\ OneIff(LegsOf(draft'[w].ledger, q, "DEBIT", req[q].amount), Debited1(q) /\ w = From(q))
                       /\ OneIff(LegsOf(draft'[w].ledger, q, "CREDIT", req[q].amount), Credited1(q) /\ w = To(q))
    BY <1>2
  <2>6. LegsOf(draft'[w].ledger, q, "CREDIT", req[q].amount) = LegsOf(draft[w].ledger, q, "CREDIT", req[q].amount)
    BY <2>3, <2>9 DEF Extended
  <2>7. Credited1(q) <=> Credited(q)
    BY <2>4, <2>5 DEF Credited
  <2>8. OneIff(LegsOf(draft'[w].ledger, q, "DEBIT", req[q].amount), Debited1(q) /\ w = From(q))
    <3>1. CASE q = r /\ w = From(r)
      <4>1. LegsOf(draft[w].ledger, r, "DEBIT", req[r].amount) = {}
        BY <2>4 DEF LegsInv, DraftLegs, Debited, OneIff
      <4>2. LegsOf(draft'[w].ledger, r, "DEBIT", req[r].amount) = {Len(draft[w].ledger) + 1}
        BY <2>3, <2>9, <3>1, <4>1 DEF Writes, Extended
      <4>. QED  BY <2>4, <2>5, <3>1, <4>2 DEF OneIff
    <3>2. CASE ~(q = r /\ w = From(r))
      <4>1. LegsOf(draft'[w].ledger, q, "DEBIT", req[q].amount) = LegsOf(draft[w].ledger, q, "DEBIT", req[q].amount)
        BY <2>3, <2>9, <3>2 DEF Extended
      <4>. QED  BY <2>4, <2>5, <3>2, <4>1 DEF LegsInv, DraftLegs, Debited, OneIff
    <3>. QED  BY <3>1, <3>2
  <2>. QED  BY <2>6, <2>7, <2>8 DEF LegsInv, DraftLegs, OneIff
<1>12. ASSUME NEW r \in Requests, Credits(r) PROVE DraftLegs'
  <2>1. Leg(r, "creditLeg", To(r), "CREDIT", req[r].amount, "commit")
    BY <1>12 DEF Credits
  <2>2. req[r].amount \in Int
    BY BodyFacts DEF BooksInv
  <2>3. PICK e : Writes(r, To(r), e) /\ e.type = "CREDIT" /\ e.transfer = r
    BY <2>1, <2>2, LegWrites
  <2>9. \A q \in Requests, w \in Wallets, type \in {"DEBIT", "CREDIT"} :
          Extended(draft'[w].ledger, draft[w].ledger, q, type, req[q].amount,
                   w = To(r) /\ e.transfer = q /\ e.type = type /\ e.amount = req[q].amount)
    BY <1>9, <2>3
  <2>4. IsTransfer(r) /\ commitLog' = commitLog /\ r \notin commitLog /\ pc[r] = "creditLeg"
    BY <2>1, <2>2, LegWrites DEF Leg, GrowthInv
  <2>5. \A q \in Requests : pc'[q] = IF q = r THEN "commit" ELSE pc[q]
    BY <1>5, <2>1 DEF Leg
  <2>. SUFFICES ASSUME NEW q \in Requests, NEW w \in Wallets
                PROVE  /\ OneIff(LegsOf(draft'[w].ledger, q, "DEBIT", req[q].amount), Debited1(q) /\ w = From(q))
                       /\ OneIff(LegsOf(draft'[w].ledger, q, "CREDIT", req[q].amount), Credited1(q) /\ w = To(q))
    BY <1>2
  <2>6. LegsOf(draft'[w].ledger, q, "DEBIT", req[q].amount) = LegsOf(draft[w].ledger, q, "DEBIT", req[q].amount)
    BY <2>3, <2>9 DEF Extended
  <2>7. Debited1(q) <=> Debited(q)
    BY <2>4, <2>5 DEF Debited
  <2>8. OneIff(LegsOf(draft'[w].ledger, q, "CREDIT", req[q].amount), Credited1(q) /\ w = To(q))
    <3>1. CASE q = r /\ w = To(r)
      <4>1. LegsOf(draft[w].ledger, r, "CREDIT", req[r].amount) = {}
        BY <2>4 DEF LegsInv, DraftLegs, Credited, OneIff
      <4>2. LegsOf(draft'[w].ledger, r, "CREDIT", req[r].amount) = {Len(draft[w].ledger) + 1}
        BY <2>3, <2>9, <3>1, <4>1 DEF Writes, Extended
      <4>. QED  BY <2>4, <2>5, <3>1, <4>2 DEF OneIff
    <3>2. CASE ~(q = r /\ w = To(r))
      <4>1. LegsOf(draft'[w].ledger, q, "CREDIT", req[q].amount) = LegsOf(draft[w].ledger, q, "CREDIT", req[q].amount)
        BY <2>3, <2>9, <3>2 DEF Extended
      <4>. QED  BY <2>4, <2>5, <3>2, <4>1 DEF LegsInv, DraftLegs, Credited, OneIff
    <3>. QED  BY <3>1, <3>2
  <2>. QED  BY <2>6, <2>7, <2>8 DEF LegsInv, DraftLegs, OneIff
<1>. QED
  BY <1>4, <1>6, <1>7, <1>8, <1>10, <1>11, <1>12, StepKinds DEF Touches

(* The row of a transfer is there as long as its legs may be.              *)
LEMMA TransferRowsStep ==
  ASSUME BooksInv, GrowthInv, LegsInv, [Next]_vars
  PROVE  TransferRowsInv'
<1>1. req' = req
  BY StepKinds
<1>. DEFINE Inserted1(q) == IsTransfer(q) /\ (q \in commitLog' \/ pc'[q] \in Written)
<1>2. ASSUME \A q \in Requests : q \in transferRows' <=> Inserted1(q)
      PROVE  TransferRowsInv'
  BY <1>1, <1>2 DEF TransferRowsInv, Inserted, IsTransfer
<1>3. ASSUME NEW r \in Requests, NEW label, Goto(r, label)
      PROVE  \A q \in Requests : pc'[q] = IF q = r THEN label ELSE pc[q]
  BY <1>3 DEF Goto, BooksInv, TypeOK
<1>4. CASE Quiet
  BY <1>2, <1>4 DEF Quiet, LegsInv, TransferRowsInv, Inserted
<1>5. ASSUME NEW r \in Requests, Abandons(r) PROVE TransferRowsInv'
  <2>1. /\ transferRows' = transferRows \ {r} /\ commitLog' = commitLog /\ r \notin commitLog
        /\ \A q \in Requests : pc'[q] = IF q = r THEN "sent" ELSE pc[q]
    BY <1>3, <1>5 DEF Abandons, Rollback, GrowthInv
  <2>. QED  BY <1>2, <2>1 DEF LegsInv, TransferRowsInv, Inserted, Written
<1>6. ASSUME NEW r \in Requests, Settles(r) PROVE TransferRowsInv'
  <2>1. /\ transferRows' = transferRows /\ commitLog' = commitLog \cup {r} /\ pc[r] = "commit"
        /\ \A q \in Requests : pc'[q] = IF q = r THEN "sent" ELSE pc[q]
    BY <1>3, <1>6 DEF Settles, CommitTransaction
  <2>. QED  BY <1>2, <2>1 DEF LegsInv, TransferRowsInv, Inserted, Written
<1>7. ASSUME NEW r \in Requests, InsertEntry(r) PROVE TransferRowsInv'
  <2>1. /\ transferRows' = transferRows /\ commitLog' = commitLog /\ ~IsTransfer(r)
        /\ \A q \in Requests : pc'[q] = IF q = r THEN "commit" ELSE pc[q]
    BY <1>3, <1>7, EntryWrites DEF InsertEntry
  <2>. QED  BY <1>2, <2>1 DEF LegsInv, TransferRowsInv, Inserted
<1>8. ASSUME NEW r \in Requests, InsertTransfer(r) PROVE TransferRowsInv'
  <2>1. /\ transferRows' = transferRows \cup {r} /\ commitLog' = commitLog
        /\ \A q \in Requests : pc'[q] = IF q = r THEN "debitLeg" ELSE pc[q]
    BY <1>3, <1>8 DEF InsertTransfer
  <2>2. IsTransfer(r)
    BY <1>8 DEF InsertTransfer, BooksInv, Routed, RoutedAs, Staged
  <2>. QED  BY <1>2, <2>1, <2>2 DEF LegsInv, TransferRowsInv, Inserted, Written
<1>9. ASSUME NEW r \in Requests, Debits(r) \/ Credits(r) PROVE TransferRowsInv'
  <2>1. PICK label \in Written : Goto(r, label)
    BY <1>9 DEF Debits, Credits, Leg, Written
  <2>2. /\ transferRows' = transferRows /\ commitLog' = commitLog /\ pc[r] \in Written
        /\ \A q \in Requests : pc'[q] = IF q = r THEN label ELSE pc[q]
    BY <1>3, <1>9, <2>1 DEF Debits, Credits, Leg, Written
  <2>. QED  BY <1>2, <2>2 DEF LegsInv, TransferRowsInv, Inserted
<1>. QED  BY <1>4, <1>5, <1>6, <1>7, <1>8, <1>9, StepKinds DEF Touches

(* No transfer has a leg when the service starts.                          *)
LEMMA InitLegs == Init => LegsInv
<1>. SUFFICES ASSUME Init PROVE LegsInv
  OBVIOUS
<1>1. \A w \in Wallets : \A i \in 1 .. Len(wallet[w].ledger) :
        wallet[w].ledger[i].transfer = NoRequest
  BY DEF Init
<1>2. \A r \in Requests, w \in Wallets : \A type, amount :
        LegsOf(wallet[w].ledger, r, type, amount) = {}
  BY <1>1, RequestAssumption DEF LegsOf
<1>. QED
  BY <1>2 DEF Init, LegsInv, DraftLegs, CommittedLegs, TransferRowsInv, OneIff, Debited,
     Credited, Settled, Inserted, Written

(* The invariants that the legs rest on, and theirs.                       *)
LEMMA LegsAreKept == Spec => [](BooksInv /\ GrowthInv /\ RefsInv /\ LegsInv)
<1>1. BooksInv /\ GrowthInv /\ LegsInv /\ [Next]_vars => LegsInv'
  BY DraftLegsStep, CommittedLegsStep, TransferRowsStep DEF LegsInv
<1>. QED  BY <1>1, InitLegs, RefsAreKept, PTL DEF Spec

(* A transfer that committed has its row, one debit and one credit; one    *)
(* that did not has no leg anywhere, wherever it was interrupted.          *)
THEOREM TransfersAreWhole == Spec => []TransferAllOrNothing
<1>1. ASSUME NEW S, NEW condition \in BOOLEAN, OneIff(S, condition)
      PROVE  Cardinality(S) = IF condition THEN 1 ELSE 0
  BY <1>1, FS_Singleton, FS_EmptySet DEF OneIff
<1>2. BooksInv /\ LegsInv => TransferAllOrNothing
  <2>. SUFFICES ASSUME BooksInv, LegsInv, NEW r \in Requests, NEW w \in Wallets
                PROVE  /\ Cardinality(LegsOf(wallet[w].ledger, r, "DEBIT", req[r].amount))
                            = IF Settled(r) /\ w = From(r) THEN 1 ELSE 0
                       /\ Cardinality(LegsOf(wallet[w].ledger, r, "CREDIT", req[r].amount))
                            = IF Settled(r) /\ w = To(r) THEN 1 ELSE 0
                       /\ Settled(r) => r \in transferRows
    BY DEF TransferAllOrNothing, Positions, LegsOf, Settled
  <2>1. /\ OneIff(LegsOf(wallet[w].ledger, r, "DEBIT", req[r].amount), Settled(r) /\ w = From(r))
        /\ OneIff(LegsOf(wallet[w].ledger, r, "CREDIT", req[r].amount), Settled(r) /\ w = To(r))
    BY DEF LegsInv, CommittedLegs
  <2>2. (Settled(r) /\ w = From(r)) \in BOOLEAN /\ (Settled(r) /\ w = To(r)) \in BOOLEAN
    OBVIOUS
  <2>3. Settled(r) => r \in transferRows
    BY DEF LegsInv, TransferRowsInv, Inserted, Settled
  <2>. QED  BY <1>1, <2>1, <2>2, <2>3
<1>. QED  BY <1>2, LegsAreKept, PTL

-----------------------------------------------------------------------------
(* Rows are written by requests that have committed or are about to, and   *)
(* the indexes lead to the requests that carry the reference.              *)
Owned ==
  \A w \in Wallets : \A i \in 1 .. Len(draft[w].ledger) :
    \A r \in Requests :
      draft[w].ledger[i].by = r => r \in commitLog \/ pc[r] \in {"creditLeg", "commit"}
IndexKinds ==
  \A k \in Refs, r \in Requests :
    /\ txnRef[k] = r => req[r].reference = k /\ ~IsTransfer(r)
    /\ transferRef[k] = r => req[r].reference = k /\ IsTransfer(r)

(* Index entries belong to requests that carry the reference.              *)
LEMMA OwnedStep ==
  ASSUME BooksInv, GrowthInv, RefsInv, Owned, [Next]_vars
  PROVE  Owned'
<1>1. ASSUME NEW r \in Requests, NEW label, Goto(r, label)
      PROVE  \A q \in Requests : pc'[q] = IF q = r THEN label ELSE pc[q]
  BY <1>1 DEF Goto, BooksInv, TypeOK
<1>2. CASE Quiet
  BY <1>2 DEF Quiet, Owned, Written
<1>3. ASSUME NEW r \in Requests, Abandons(r) PROVE Owned'
  <2>1. /\ \A q \in Requests : pc'[q] = IF q = r THEN "sent" ELSE pc[q]
        /\ commitLog' = commitLog
    BY <1>1, <1>3 DEF Abandons, Rollback
  <2>2. \A w \in Wallets : \A i \in 1 .. Len(draft'[w].ledger) :
          /\ i \in 1 .. Len(draft[w].ledger) /\ draft'[w].ledger[i] = draft[w].ledger[i]
          /\ draft[w].ledger[i].by # r
    BY <1>3, AbandonedRows DEF RefsInv
  <2>. QED  BY <2>1, <2>2 DEF Owned
<1>4. ASSUME NEW r \in Requests, Settles(r) PROVE Owned'
  <2>1. /\ \A q \in Requests : pc'[q] = IF q = r THEN "sent" ELSE pc[q]
        /\ commitLog' = commitLog \cup {r} /\ draft' = draft
    BY <1>1, <1>4 DEF Settles, CommitTransaction
  <2>. QED  BY <2>1 DEF Owned
<1>5. ASSUME NEW r \in Requests, InsertTransfer(r) PROVE Owned'
  <2>1. /\ \A q \in Requests : pc'[q] = IF q = r THEN "debitLeg" ELSE pc[q]
        /\ commitLog' = commitLog /\ draft' = draft /\ pc[r] = "insertTransfer"
    BY <1>1, <1>5 DEF InsertTransfer
  <2>. QED  BY <2>1 DEF Owned
<1>6. ASSUME NEW r \in Requests, NEW w, NEW e, Writes(r, w, e),
             NEW label \in {"creditLeg", "commit"}, Goto(r, label)
      PROVE  Owned'
  <2>1. /\ \A q \in Requests : pc'[q] = IF q = r THEN label ELSE pc[q]
        /\ commitLog' = commitLog
    BY <1>1, <1>6 DEF Writes
  <2>. SUFFICES ASSUME NEW v \in Wallets, NEW i \in 1 .. Len(draft'[v].ledger),
                       NEW q \in Requests, draft'[v].ledger[i].by = q
                PROVE  q \in commitLog' \/ pc'[q] \in {"creditLeg", "commit"}
    BY DEF Owned
  <2>2. \/ i \in 1 .. Len(draft[v].ledger) /\ draft'[v].ledger[i] = draft[v].ledger[i]
        \/ v = w /\ i = Len(draft[w].ledger) + 1 /\ draft'[v].ledger[i] = e
    BY <1>6, WrittenRows
  <2>. QED  BY <1>6, <2>1, <2>2 DEF Owned, Writes
<1>7. ASSUME NEW r \in Requests, InsertEntry(r) PROVE Owned'
  <2>1. PICK e : Writes(r, OwnSide(r), e)
    BY <1>7, EntryWrites
  <2>2. Goto(r, "commit")
    BY <1>7 DEF InsertEntry
  <2>. QED  BY <1>6, <2>1, <2>2
<1>8. ASSUME NEW r \in Requests, Debits(r) \/ Credits(r) PROVE Owned'
  <2>1. PICK w, e : Writes(r, w, e)
    BY <1>8, LegFacts
  <2>2. Goto(r, "creditLeg") \/ Goto(r, "commit")
    BY <1>8 DEF Debits, Credits, Leg
  <2>. QED  BY <1>6, <2>1, <2>2
<1>. QED  BY <1>2, <1>3, <1>4, <1>5, <1>7, <1>8, StepKinds DEF Touches

(* An index holds entries of its own kind of operation.                    *)
LEMMA IndexKindsStep ==
  ASSUME BooksInv, IndexKinds, [Next]_vars
  PROVE  IndexKinds'
<1>1. req' = req
  BY StepKinds
<1>2. CASE UNCHANGED <<txnRef, transferRef>>
  BY <1>1, <1>2 DEF IndexKinds, IsTransfer
<1>3. ASSUME NEW r \in Requests, Abandons(r) PROVE IndexKinds'
  <2>1. \A k \in Refs : /\ txnRef'[k] \in {txnRef[k], NoRequest}
                        /\ transferRef'[k] \in {transferRef[k], NoRequest}
    BY <1>3 DEF Abandons, Rollback, Without
  <2>. QED  BY <1>1, <2>1, RequestAssumption DEF IndexKinds, IsTransfer
<1>4. ASSUME NEW r \in Requests, InsertEntry(r) PROVE IndexKinds'
  <2>1. ~IsTransfer(r) /\ transferRef' = transferRef /\ txnRef' = InsertRef(r, txnRef)
    BY <1>4, EntryWrites DEF InsertEntry
  <2>2. \A k \in Refs : txnRef'[k] = txnRef[k] \/ (k = req[r].reference /\ txnRef'[k] = r)
    BY <2>1 DEF InsertRef, BooksInv, TypeOK
  <2>. QED  BY <1>1, <2>1, <2>2 DEF IndexKinds, IsTransfer
<1>5. ASSUME NEW r \in Requests, InsertTransfer(r) PROVE IndexKinds'
  <2>1. IsTransfer(r) /\ txnRef' = txnRef /\ transferRef' = InsertRef(r, transferRef)
    BY <1>5 DEF InsertTransfer, BooksInv, Routed, RoutedAs, Staged
  <2>2. \A k \in Refs :
          transferRef'[k] = transferRef[k] \/ (k = req[r].reference /\ transferRef'[k] = r)
    BY <2>1 DEF InsertRef, BooksInv, TypeOK
  <2>. QED  BY <1>1, <2>1, <2>2 DEF IndexKinds, IsTransfer
<1>6. ASSUME NEW r \in Requests, Settles(r) \/ Debits(r) \/ Credits(r)
      PROVE  UNCHANGED <<txnRef, transferRef>>
  BY <1>6 DEF Settles, CommitTransaction, Debits, Credits, Leg
<1>. QED  BY <1>2, <1>3, <1>4, <1>5, <1>6, StepKinds DEF Quiet, Touches

-----------------------------------------------------------------------------
(* What a handler will answer is what it has written.                      *)
OwnRows(ledger, r, balance) ==
  {i \in 1 .. Len(ledger) : ledger[i].by = r /\ ledger[i].balanceAfter = balance}
Single(S) == \E x : S = {x}

AnswerOk(r) ==
  /\ answer[r].code # "none" => pc[r] = "sent"
  /\ answer[r].code = "CREATED" =>
       r \in commitLog /\ Single(OwnRows(wallet[OwnSide(r)].ledger, r, answer[r].balance))
  /\ answer[r].code \in Refusals \cup {"REPLAY"} => r \notin commitLog
  /\ answer[r].code = "REPLAY" =>
       /\ answer[r].row \in commitLog
       /\ Truthy(req[r].reference)
       /\ req[answer[r].row].reference = req[r].reference
       /\ IsTransfer(answer[r].row) = IsTransfer(r)
  /\ pc[r] \in {"insertEntry", "creditLeg"} => draft[OwnSide(r)].balance = answer[r].balance
  /\ pc[r] \in {"creditLeg", "commit"} =>
       Single(OwnRows(draft[OwnSide(r)].ledger, r, answer[r].balance))
AnswersInv == Owned /\ IndexKinds /\ \A r \in Requests : AnswerOk(r)

(* A handler that has written has locked the wallet whose balance it       *)
(* reports.                                                                *)
LEMMA HoldsOwnSide ==
  ASSUME BooksInv, NEW r \in Requests, pc[r] \in {"insertEntry", "creditLeg", "commit"}
  PROVE  OwnSide(r) \in Wallets /\ lock[OwnSide(r)] = r
<1>1. OwnSide(r) \in Wallets
  BY DEF BooksInv, Routed, RoutedAs, Known, Staged
<1>2. OwnSide(r) \in HeldAs(r, pc[r])
  BY DEF HeldAs, Staged, BooksInv, Routed, RoutedAs, OwnSide, IsTransfer
<1>. QED  BY <1>1, <1>2 DEF BooksInv, RowsInv, LocksHeld

(* What a request has committed stays.                                     *)
LEMMA OwnRowsStay ==
  ASSUME BooksInv, GrowthInv, [Next]_vars, NEW q \in commitLog, NEW w \in Wallets, NEW b
  PROVE  OwnRows(wallet'[w].ledger, q, b) = OwnRows(wallet[w].ledger, q, b)
<1>1. CASE wallet' = wallet
  BY <1>1
<1>2. ASSUME NEW r \in Requests, Settles(r), lock[w] = r
      PROVE  OwnRows(wallet'[w].ledger, q, b) = OwnRows(wallet[w].ledger, q, b)
  <2>1. r # q
    BY <1>2 DEF Settles, GrowthInv
  <2>2. wallet'[w] = draft[w] /\ Grown(wallet[w].ledger, draft[w].ledger, r)
    BY <1>2 DEF Settles, CommitTransaction, GrowthInv
  <2>3. wallet[w].ledger \in Seq(Entry) /\ draft[w].ledger \in Seq(Entry)
    BY Ledgers DEF BooksInv
  <2>. QED  BY <2>1, <2>2, <2>3 DEF Grown, OwnRows
<1>3. ASSUME NEW r \in Requests, Settles(r), lock[w] # r PROVE wallet'[w] = wallet[w]
  BY <1>3 DEF Settles, CommitTransaction
<1>4. ASSUME NEW r \in Requests,
             \/ Abandons(r) \/ InsertEntry(r) \/ InsertTransfer(r) \/ Debits(r) \/ Credits(r)
      PROVE  wallet' = wallet
  BY <1>4 DEF Abandons, Rollback, InsertEntry, InsertTransfer, Debits, Credits, Leg
<1>. QED  BY <1>1, <1>2, <1>3, <1>4, StepKinds DEF Quiet, Touches

(* A request is not disturbed by the steps of another.                     *)
Undisturbed(q) ==
  /\ pc'[q] = pc[q] /\ answer'[q] = answer[q]
  /\ q \in commitLog' <=> q \in commitLog
  /\ \A w \in Wallets : lock[w] = q => draft'[w] = draft[w]

(* What is true of a request that is not disturbed remains true.           *)
LEMMA AnswerFrame ==
  ASSUME BooksInv, GrowthInv, [Next]_vars, NEW q \in Requests, AnswerOk(q),
         Undisturbed(q), commitLog \subseteq commitLog'
  PROVE  AnswerOk(q)'
<1>1. req' = req
  BY StepKinds
<1>2. q \in commitLog =>
        OwnRows(wallet'[OwnSide(q)].ledger, q, answer[q].balance)
          = OwnRows(wallet[OwnSide(q)].ledger, q, answer[q].balance)
  BY OwnRowsStay DEF BooksInv, Routed, Known
<1>3. pc[q] \in {"insertEntry", "creditLeg", "commit"} =>
        draft'[OwnSide(q)] = draft[OwnSide(q)]
  BY HoldsOwnSide DEF Undisturbed
<1>4. OwnSide(q)' = OwnSide(q) /\ \A r : IsTransfer(r)' = IsTransfer(r)
  BY <1>1 DEF OwnSide, From, To, IsTransfer
<1>. QED  BY <1>1, <1>2, <1>3, <1>4 DEF AnswerOk, Undisturbed

(* What any step of a handler r leaves alone.                              *)
Acts(r) ==
  /\ \E label : Goto(r, label)
  /\ \A q \in Requests \ {r} : answer'[q] = answer[q]
  /\ commitLog' = commitLog \/ commitLog' = commitLog \cup {r}
  /\ \A w \in Wallets : lock[w] \notin {NoRequest, r} => draft'[w] = draft[w]
Stands == UNCHANGED <<pc, answer, commitLog, draft>>

(* A handler's step changes nothing of other handlers' requests.           *)
LEMMA StepActs ==
  ASSUME BooksInv, NEW r \in Requests,
         Receive(r) \/ Handle(r) \/ Fail(r) \/ CommitUnacknowledged(r)
  PROVE  Acts(r)
<1>. USE DEF BooksInv, TypeOK
<1>1. ASSUME NEW code, NEW row, NEW b, Send(r, code, row, b)
      PROVE  (\E label : Goto(r, label)) /\ \A q \in Requests \ {r} : answer'[q] = answer[q]
  BY <1>1 DEF Send
<1>2. ASSUME NEW label, Goto(r, label), UNCHANGED <<answer, draft, commitLog>> PROVE Acts(r)
  BY <1>2 DEF Acts
<1>3. ASSUME NEW code, NEW row, NEW b, Send(r, code, row, b), UNCHANGED <<draft, commitLog>>
      PROVE  Acts(r)
  BY <1>1, <1>3 DEF Acts
<1>4. ASSUME NEW code, Refuse(r, code), Rollback(r) PROVE Acts(r)
  BY <1>1, <1>4 DEF Acts, Refuse, Rollback
<1>5. ASSUME NEW code, NEW row, NEW b, Send(r, code, row, b), CommitTransaction(r)
      PROVE  Acts(r)
  BY <1>1, <1>5 DEF Acts, CommitTransaction
<1>6. ASSUME NEW w, NEW a, draft' = [draft EXCEPT ![w] = a], Grantable(r, w),
             NEW b, answer' = [answer EXCEPT ![r].balance = b] \/ answer' = answer,
             NEW label, Goto(r, label), commitLog' = commitLog
      PROVE  Acts(r)
  <2>1. \A v \in Wallets : lock[v] \notin {NoRequest, r} => draft'[v] = draft[v]
    BY <1>6 DEF Grantable
  <2>2. \A q \in Requests \ {r} : answer'[q] = answer[q]
    BY <1>6
  <2>. QED  BY <1>6, <2>1, <2>2 DEF Acts
<1>7. CASE Receive(r)
  BY <1>2, <1>3, <1>7 DEF Receive, Refuse, dbVars
<1>8. CASE LoadOwnedWallet(r) \/ LoadSource(r) \/ LoadDestination(r)
  BY <1>2, <1>3, <1>8 DEF LoadOwnedWallet, LoadSource, LoadDestination, Refuse, dbVars
<1>9. CASE FindByReference(r)
  <2>1. CASE \E row, b : Send(r, "REPLAY", row, b)
    BY <1>3, <1>9, <2>1 DEF FindByReference, dbVars
  <2>2. CASE (\E label : Goto(r, label)) /\ UNCHANGED answer
    BY <1>2, <1>9, <2>2 DEF FindByReference, dbVars
  <2>. QED  BY <1>9, <2>1, <2>2 DEF FindByReference
<1>10. CASE IncrementBalance(r)
  <2>1. CASE Rollback(r) /\ Refuse(r, "INTERNAL_ERROR")
    BY <1>4, <2>1
  <2>2. CASE ~(Rollback(r) /\ Refuse(r, "INTERNAL_ERROR"))
    <3>1. /\ draft' = [draft EXCEPT ![To(r)] = Adjusted(draft[To(r)], req[r].amount)]
          /\ Grantable(r, To(r)) /\ Goto(r, "insertEntry") /\ commitLog' = commitLog
          /\ \E b : answer' = [answer EXCEPT ![r].balance = b]
      BY <1>10, <2>2 DEF IncrementBalance
    <3>. QED  BY <1>6, <3>1
  <2>. QED  BY <2>1, <2>2
<1>11. CASE GuardedDecrement(r)
  <2>1. /\ draft' = [draft EXCEPT ![From(r)] = Adjusted(draft[From(r)], -req[r].amount)]
        /\ Grantable(r, From(r)) /\ Goto(r, "insertEntry") /\ commitLog' = commitLog
        /\ \E b : answer' = [answer EXCEPT ![r].balance = b]
    BY <1>11 DEF GuardedDecrement
  <2>. QED  BY <1>6, <2>1
<1>12. CASE GuardedDecrementNone(r) \/ InsertDuplicate(r) \/ Fail(r)
  BY <1>4, <1>12 DEF GuardedDecrementNone, InsertDuplicate, Fail
<1>13. CASE LockFirst(r) \/ LockSecond(r) \/ InsertTransfer(r)
  BY <1>2, <1>13 DEF LockFirst, LockSecond, LockRow, InsertTransfer
<1>14. CASE ValidateUnderLock(r)
  BY <1>2, <1>4, <1>14 DEF ValidateUnderLock, dbVars
<1>15. CASE InsertEntry(r)
  <2>1. Grantable(r, OwnSide(r))
    BY <1>15, HoldsOwnSide DEF InsertEntry, Grantable
  <2>2. /\ \E a : draft' = [draft EXCEPT ![OwnSide(r)] = a]
        /\ Goto(r, "commit") /\ commitLog' = commitLog /\ answer' = answer
    BY <1>15 DEF InsertEntry
  <2>. QED  BY <1>6, <2>1, <2>2
<1>16. CASE DebitLeg(r)
  <2>1. Grantable(r, From(r))
    BY <1>16, HoldsBoth DEF DebitLeg, Grantable, Written, Routed, RoutedAs, Staged
  <2>2. /\ \E a : draft' = [draft EXCEPT ![From(r)] = a]
        /\ Goto(r, "creditLeg") /\ commitLog' = commitLog
        /\ \E b : answer' = [answer EXCEPT ![r].balance = b]
    BY <1>16 DEF DebitLeg, WriteLeg
  <2>. QED  BY <1>6, <2>1, <2>2
<1>17. CASE CreditLeg(r)
  <2>1. CASE Rollback(r) /\ Refuse(r, "INTERNAL_ERROR")
    BY <1>4, <2>1
  <2>2. CASE ~(Rollback(r) /\ Refuse(r, "INTERNAL_ERROR"))
    <3>1. Grantable(r, To(r))
      BY <1>17, HoldsBoth DEF CreditLeg, Grantable, Written, Routed, RoutedAs, Staged
    <3>2. /\ \E a : draft' = [draft EXCEPT ![To(r)] = a]
          /\ Goto(r, "commit") /\ commitLog' = commitLog /\ answer' = answer
      BY <1>17, <2>2 DEF CreditLeg, WriteLeg
    <3>. QED  BY <1>6, <3>1, <3>2
  <2>. QED  BY <2>1, <2>2
<1>18. CASE Commit(r) \/ CommitUnacknowledged(r)
  BY <1>5, <1>18 DEF Commit, CommitUnacknowledged, Refuse
<1>. QED
  BY <1>7, <1>8, <1>9, <1>10, <1>11, <1>12, <1>13, <1>14, <1>15, <1>16, <1>17, <1>18 DEF Handle

(* So it disturbs no other request.                                        *)
LEMMA OthersUndisturbed ==
  ASSUME BooksInv, NEW r \in Requests, NEW q \in Requests, q # r \/ Stands, Acts(r) \/ Stands
  PROVE  Undisturbed(q) /\ commitLog \subseteq commitLog'
<1>1. CASE Stands
  BY <1>1 DEF Stands, Undisturbed
<1>2. CASE Acts(r) /\ q # r
  <2>1. pc'[q] = pc[q]
    BY <1>2 DEF Acts, Goto, BooksInv, TypeOK
  <2>2. \A w \in Wallets : lock[w] = q => draft'[w] = draft[w]
    BY <1>2, RequestAssumption DEF Acts
  <2>. QED  BY <1>2, <2>1, <2>2 DEF Acts, Undisturbed
<1>. QED  BY <1>1, <1>2

(* The cases of a handler's own answer.                                    *)
OnWay(r, label) ==
  /\ Goto(r, label) /\ UNCHANGED <<answer, commitLog>>
  /\ label \notin {"insertEntry", "creditLeg", "commit"}

(* A handler that goes on has no answer yet.                               *)
LEMMA AnswerOnWay ==
  ASSUME BooksInv, NEW r \in Requests, AnswerOk(r), pc[r] # "sent", NEW label, OnWay(r, label)
  PROVE  AnswerOk(r)'
<1>1. answer'[r].code = "none" /\ pc'[r] = label
  BY DEF AnswerOk, OnWay, Goto, BooksInv, TypeOK
<1>. QED  BY <1>1 DEF AnswerOk, OnWay, Refusals

(* A refusal is of a request that has not committed.                       *)
LEMMA AnswerRefused ==
  ASSUME BooksInv, GrowthInv, NEW r \in Requests, pc[r] # "sent",
         NEW code, Refuse(r, code),
         code \in Broken \/ (code \in Refusals /\ commitLog' = commitLog)
  PROVE  AnswerOk(r)'
<1>1. answer'[r].code = code /\ pc'[r] = "sent"
  BY DEF Refuse, Send, Goto, BooksInv, TypeOK
<1>2. code \in Broken => code \notin Refusals \cup {"none", "CREATED", "REPLAY"}
  BY DEF Broken, Refusals
<1>3. code \in Refusals => code \notin {"none", "CREATED", "REPLAY"} /\ r \notin commitLog'
  BY DEF Refusals, Broken, GrowthInv
<1>. QED  BY <1>1, <1>2, <1>3 DEF AnswerOk

(* A replay names a committed request with the same reference.             *)
LEMMA AnswerReplayed ==
  ASSUME BooksInv, GrowthInv, IndexKinds, NEW r \in Requests, AnswerOk(r), FindByReference(r)
  PROVE  AnswerOk(r)'
<1>1. pc[r] = "replay" /\ req' = req /\ commitLog' = commitLog /\ r \notin commitLog
  BY DEF FindByReference, dbVars, GrowthInv
<1>. DEFINE q == RefIndex(r)[req[r].reference]
<1>2. CASE Truthy(req[r].reference) /\ RefTaken(r) /\ Send(r, "REPLAY", q, wallet[OwnSide(q)].balance)
  <2>1. req[r].reference \in Refs
    BY <1>2, BodyFacts DEF Truthy, RefValue, BooksInv
  <2>2. q \in commitLog /\ q \in Requests
    BY <1>2, <2>1 DEF RefTaken, Truthy, BooksInv, TypeOK
  <2>3. /\ req[q].reference = req[r].reference /\ IsTransfer(q) = IsTransfer(r)
        /\ Truthy(req[r].reference)
    BY <1>2, <2>1, <2>2 DEF IndexKinds, RefIndex, IsTransfer
  <2>. HIDE DEF q
  <2>4. pc'[r] = "sent" /\ answer'[r].code = "REPLAY" /\ answer'[r].row = q
    BY <1>2 DEF Send, Goto, BooksInv, TypeOK
  <2>5. /\ \A p : IsTransfer(p)' = IsTransfer(p)
        /\ \A x : Truthy(x)' = Truthy(x)
    BY <1>1 DEF IsTransfer
  <2>. QED  BY <1>1, <2>2, <2>3, <2>4, <2>5 DEF AnswerOk, Refusals
<1>3. CASE ~(Truthy(req[r].reference) /\ RefTaken(r))
  <2>1. \E label \in {"credit", "debit", "lockFirst"} : OnWay(r, label)
    BY <1>1, <1>3, BodyFacts DEF FindByReference, OnWay, Op, BooksInv
  <2>. QED  BY <1>1, <2>1, AnswerOnWay
<1>. QED  BY <1>2, <1>3 DEF FindByReference

(* The balance that will be reported is the one written.                   *)
LEMMA AnswerCounted ==
  ASSUME BooksInv, GrowthInv, NEW r \in Requests, AnswerOk(r), pc[r] # "sent",
         OwnSide(r) \in Wallets, Goto(r, "insertEntry"), req' = req, commitLog' = commitLog,
         NEW b, answer' = [answer EXCEPT ![r].balance = b], draft'[OwnSide(r)].balance = b
  PROVE  AnswerOk(r)'
<1>1. answer'[r].code = "none" /\ answer'[r].balance = b /\ pc'[r] = "insertEntry"
  BY DEF AnswerOk, Goto, BooksInv, TypeOK
<1>2. OwnSide(r)' = OwnSide(r)
  BY DEF OwnSide, From, To
<1>. QED  BY <1>1, <1>2 DEF AnswerOk, Refusals

OwnExtended(new, old, e, r, b) ==
  OwnRows(new, r, b) =
    IF e.balanceAfter = b THEN OwnRows(old, r, b) \cup {Len(old) + 1} ELSE OwnRows(old, r, b)

(* A request's own row is the last one it has written.                     *)
LEMMA OwnAppend ==
  ASSUME NEW s \in Seq(Entry), NEW e \in Entry, NEW r, NEW b, e.by = r
  PROVE  OwnExtended(Append(s, e), s, e, r, b)
<1>1. /\ Len(Append(s, e)) = Len(s) + 1 /\ Len(s) \in Nat
      /\ \A i \in 1 .. Len(s) : Append(s, e)[i] = s[i]
      /\ Append(s, e)[Len(s) + 1] = e
  BY Appended
<1>. QED  BY <1>1 DEF OwnRows, OwnExtended

(* A handler's first row is its own side's, with the balance it reports.   *)
LEMMA AnswerRecorded ==
  ASSUME BooksInv, GrowthInv, Owned, NEW r \in Requests, AnswerOk(r),
         pc[r] \notin {"sent", "creditLeg", "commit"}, req' = req,
         NEW e, Writes(r, OwnSide(r), e), e.balanceAfter = answer'[r].balance,
         answer'[r].code = answer[r].code,
         NEW label \in {"creditLeg", "commit"}, Goto(r, label),
         label = "creditLeg" => draft'[OwnSide(r)].balance = answer'[r].balance
  PROVE  AnswerOk(r)'
<1>1. answer'[r].code = "none" /\ pc'[r] = label /\ r \notin commitLog
  BY DEF AnswerOk, Goto, BooksInv, TypeOK, GrowthInv
<1>2. OwnRows(draft[OwnSide(r)].ledger, r, answer'[r].balance) = {}
  BY <1>1 DEF OwnRows, Owned, Writes
<1>3. draft[OwnSide(r)].ledger \in Seq(Entry) /\ e \in Entry /\ e.by = r
  BY Ledgers DEF Writes, BooksInv
<1>4. draft'[OwnSide(r)].ledger = Append(draft[OwnSide(r)].ledger, e)
  BY DEF Writes
<1>5. Single(OwnRows(draft'[OwnSide(r)].ledger, r, answer'[r].balance))
  <2>1. OwnExtended(draft'[OwnSide(r)].ledger, draft[OwnSide(r)].ledger, e, r, answer'[r].balance)
    BY <1>3, <1>4, OwnAppend
  <2>. QED  BY <1>2, <2>1 DEF Single, OwnExtended
<1>6. OwnSide(r)' = OwnSide(r)
  BY DEF OwnSide, From, To
<1>. QED  BY <1>1, <1>5, <1>6 DEF AnswerOk, Refusals

(* The credit leg does not pass for the debit leg, even on one wallet.     *)
LEMMA AnswerCredited ==
  ASSUME BooksInv, GrowthInv, NEW r \in Requests, AnswerOk(r), Credits(r), req' = req,
         answer' = answer
  PROVE  AnswerOk(r)'
<1>1. Leg(r, "creditLeg", To(r), "CREDIT", req[r].amount, "commit") /\ pc[r] = "creditLeg"
  BY DEF Credits, Leg
<1>2. req[r].amount \in Nat \ {0} /\ req[r].amount \in Int
  BY BodyFacts DEF BooksInv
<1>3. PICK e : Writes(r, To(r), e) /\ e.balanceAfter = draft[To(r)].balance + req[r].amount
  BY <1>1, <1>2, LegWrites
<1>4. /\ answer[r].code = "none" /\ pc'[r] = "commit"
      /\ draft[OwnSide(r)].balance = answer[r].balance
      /\ Single(OwnRows(draft[OwnSide(r)].ledger, r, answer[r].balance))
      /\ OwnSide(r) \in Wallets /\ commitLog' = commitLog
  BY <1>1, HoldsOwnSide DEF AnswerOk, Leg, Goto, BooksInv, TypeOK
<1>5. Single(OwnRows(draft'[OwnSide(r)].ledger, r, answer[r].balance))
  <2>1. CASE OwnSide(r) # To(r)
    BY <1>3, <1>4, <2>1 DEF Writes
  <2>2. CASE OwnSide(r) = To(r)
    <3>1. draft[To(r)].ledger \in Seq(Entry) /\ e \in Entry /\ e.by = r
      BY <1>3, Ledgers DEF Writes, BooksInv
    <3>2. draft'[To(r)].ledger = Append(draft[To(r)].ledger, e)
      BY <1>3 DEF Writes
    <3>3. draft[To(r)].balance \in Int
      BY <1>4, <2>2 DEF BooksInv, TypeOK, Account
    <3>4. e.balanceAfter # answer[r].balance
      BY <1>2, <1>3, <1>4, <2>2, <3>3
    <3>5. OwnExtended(draft'[To(r)].ledger, draft[To(r)].ledger, e, r, answer[r].balance)
      BY <3>1, <3>2, OwnAppend
    <3>. QED  BY <1>4, <2>2, <3>4, <3>5 DEF OwnExtended
  <2>. QED  BY <2>1, <2>2
<1>6. OwnSide(r)' = OwnSide(r)
  BY DEF OwnSide, From, To
<1>. QED  BY <1>4, <1>5, <1>6 DEF AnswerOk, Refusals

(* A 201 is sent by the commit of what it reports.                         *)
LEMMA AnswerCommitted ==
  ASSUME BooksInv, GrowthInv, NEW r \in Requests, AnswerOk(r), Commit(r)
  PROVE  AnswerOk(r)'
<1>1. /\ pc[r] = "commit" /\ CommitTransaction(r) /\ Send(r, "CREATED", r, answer[r].balance)
      /\ req' = req
  BY DEF Commit, CommitTransaction
<1>2. /\ answer'[r].code = "CREATED" /\ answer'[r].balance = answer[r].balance
      /\ pc'[r] = "sent"
  BY <1>1 DEF Send, Goto, BooksInv, TypeOK
<1>3. OwnSide(r) \in Wallets /\ lock[OwnSide(r)] = r
  BY <1>1, HoldsOwnSide
<1>4. wallet'[OwnSide(r)] = draft[OwnSide(r)] /\ commitLog' = commitLog \cup {r}
  BY <1>1, <1>3 DEF CommitTransaction
<1>5. OwnSide(r)' = OwnSide(r)
  BY <1>1 DEF OwnSide, From, To
<1>. QED  BY <1>1, <1>2, <1>4, <1>5 DEF AnswerOk, Refusals

(* A handler's own step keeps its answer true, wherever it is.             *)
LEMMA OwnAnswerStep ==
  ASSUME BooksInv, GrowthInv, Owned, IndexKinds, NEW r \in Requests, AnswerOk(r),
         Receive(r) \/ Handle(r) \/ Fail(r) \/ CommitUnacknowledged(r)
  PROVE  AnswerOk(r)'
<1>1. ASSUME NEW code, Refuse(r, code), pc[r] # "sent",
             code \in Broken \/ (code \in Refusals /\ commitLog' = commitLog)
      PROVE  AnswerOk(r)'
  BY <1>1, AnswerRefused
<1>2. ASSUME NEW label, Goto(r, label), UNCHANGED <<answer, commitLog>>, pc[r] # "sent",
             label \notin {"insertEntry", "creditLeg", "commit"}
      PROVE  AnswerOk(r)'
  BY <1>2, AnswerOnWay DEF OnWay
<1>3. CASE Receive(r)
  BY <1>1, <1>2, <1>3 DEF Receive, dbVars, Refusals
<1>4. CASE LoadOwnedWallet(r) \/ LoadSource(r) \/ LoadDestination(r)
  BY <1>1, <1>2, <1>4 DEF LoadOwnedWallet, LoadSource, LoadDestination, dbVars, Refusals
<1>5. CASE FindByReference(r)
  BY <1>5, AnswerReplayed
<1>6. CASE IncrementBalance(r)
  <2>1. CASE Rollback(r) /\ Refuse(r, "INTERNAL_ERROR")
    BY <1>1, <1>6, <2>1 DEF IncrementBalance, Broken
  <2>2. CASE ~(Rollback(r) /\ Refuse(r, "INTERNAL_ERROR"))
    <3>1. /\ pc[r] = "credit" /\ Goto(r, "insertEntry") /\ UNCHANGED <<req, commitLog>>
          /\ draft' = [draft EXCEPT ![To(r)] = Adjusted(draft[To(r)], req[r].amount)]
          /\ answer' = [answer EXCEPT ![r].balance = draft[To(r)].balance + req[r].amount]
      BY <1>6, <2>2 DEF IncrementBalance
    <3>2. OwnSide(r) = To(r) /\ To(r) \in Wallets
      BY <3>1 DEF BooksInv, Routed, RoutedAs, Known, OwnSide
    <3>3. draft'[To(r)].balance = draft[To(r)].balance + req[r].amount
      BY <3>1, <3>2 DEF Adjusted, BooksInv, TypeOK, Account
    <3>. QED  BY <3>1, <3>2, <3>3, AnswerCounted
  <2>. QED  BY <2>1, <2>2
<1>7. CASE GuardedDecrement(r)
  <2>1. /\ pc[r] = "debit" /\ Goto(r, "insertEntry") /\ UNCHANGED <<req, commitLog>>
        /\ draft' = [draft EXCEPT ![From(r)] = Adjusted(draft[From(r)], -req[r].amount)]
        /\ answer' = [answer EXCEPT ![r].balance = draft[From(r)].balance - req[r].amount]
    BY <1>7 DEF GuardedDecrement
  <2>2. OwnSide(r) = From(r) /\ From(r) \in Wallets
    BY <2>1 DEF BooksInv, Routed, RoutedAs, Known, OwnSide
  <2>3. req[r].amount \in Int /\ draft[From(r)].balance \in Int
    BY <2>2, BodyFacts DEF BooksInv, TypeOK, Account
  <2>4. draft'[From(r)].balance = draft[From(r)].balance - req[r].amount
    BY <2>1, <2>2, <2>3 DEF Adjusted, BooksInv, TypeOK, Account
  <2>. QED  BY <2>1, <2>2, <2>4, AnswerCounted
<1>8. CASE GuardedDecrementNone(r) \/ InsertDuplicate(r)
  BY <1>1, <1>8 DEF GuardedDecrementNone, InsertDuplicate, Rollback, Refusals
<1>9. CASE Fail(r) \/ CommitUnacknowledged(r)
  BY <1>1, <1>9 DEF Fail, Running, CommitUnacknowledged
<1>10. CASE LockFirst(r) \/ LockSecond(r) \/ InsertTransfer(r)
  BY <1>2, <1>10 DEF LockFirst, LockSecond, LockRow, InsertTransfer
<1>11. CASE ValidateUnderLock(r)
  <2>1. Verdict(r) # "OK" => Verdict(r) \in Refusals
    BY DEF Verdict, Refusals
  <2>. QED  BY <1>1, <1>2, <1>11, <2>1 DEF ValidateUnderLock, Rollback, dbVars
<1>12. CASE InsertEntry(r)
  <2>1. PICK e : Writes(r, OwnSide(r), e) /\ e.balanceAfter = draft[OwnSide(r)].balance
    BY <1>12, EntryWrites
  <2>2. /\ pc[r] = "insertEntry" /\ Goto(r, "commit") /\ UNCHANGED <<req, answer>>
        /\ draft[OwnSide(r)].balance = answer[r].balance
    BY <1>12 DEF InsertEntry, AnswerOk
  <2>. QED  BY <2>1, <2>2, AnswerRecorded
<1>13. CASE DebitLeg(r)
  <2>1. Leg(r, "debitLeg", From(r), "DEBIT", -req[r].amount, "creditLeg")
    BY <1>13 DEF DebitLeg, Leg
  <2>2. req[r].amount \in Int /\ -req[r].amount \in Int
    BY BodyFacts DEF BooksInv
  <2>3. PICK e : Writes(r, From(r), e) /\ e.balanceAfter = draft[From(r)].balance + (-req[r].amount)
    BY <2>1, <2>2, LegWrites
  <2>4. OwnSide(r) = From(r) /\ From(r) \in Wallets
    BY <2>1, <2>2, LegWrites DEF OwnSide, IsTransfer
  <2>5. draft[From(r)].balance \in Int /\ draft[From(r)] \in Account
    BY <2>4 DEF BooksInv, TypeOK, Account
  <2>6. /\ pc[r] = "debitLeg" /\ Goto(r, "creditLeg") /\ UNCHANGED req
        /\ answer'[r].balance = draft[From(r)].balance - req[r].amount
        /\ answer'[r].code = answer[r].code
    BY <1>13 DEF DebitLeg, BooksInv, TypeOK
  <2>7. draft'[From(r)].balance = draft[From(r)].balance + (-req[r].amount)
    <3>1. draft'[From(r)] = Recorded(Adjusted(draft[From(r)], -req[r].amount), r, "DEBIT", NoRef, r)
      BY <2>1, <2>4 DEF Leg, WriteLeg, BooksInv, TypeOK
    <3>. QED  BY <2>5, <3>1 DEF Recorded, Adjusted, Account
  <2>8. e.balanceAfter = answer'[r].balance /\ draft'[From(r)].balance = answer'[r].balance
    BY <2>2, <2>3, <2>5, <2>6, <2>7
  <2>. QED  BY <2>3, <2>4, <2>6, <2>8, AnswerRecorded
<1>14. CASE CreditLeg(r)
  <2>1. CASE Rollback(r) /\ Refuse(r, "INTERNAL_ERROR")
    BY <1>1, <1>14, <2>1 DEF CreditLeg, Broken
  <2>2. CASE ~(Rollback(r) /\ Refuse(r, "INTERNAL_ERROR"))
    <3>1. Credits(r) /\ UNCHANGED <<req, answer>>
      BY <1>14, <2>2 DEF CreditLeg, Credits, Leg
    <3>. QED  BY <3>1, AnswerCredited
  <2>. QED  BY <2>1, <2>2
<1>15. CASE Commit(r)
  BY <1>15, AnswerCommitted
<1>. QED
  BY <1>3, <1>4, <1>5, <1>6, <1>7, <1>8, <1>9, <1>10, <1>11, <1>12, <1>13, <1>14, <1>15
  DEF Handle

(* No step makes an answer false.                                          *)
LEMMA AnswersStep ==
  ASSUME BooksInv, GrowthInv, RefsInv, AnswersInv, [Next]_vars
  PROVE  AnswersInv'
<1>1. Owned' /\ IndexKinds'
  BY OwnedStep, IndexKindsStep DEF AnswersInv
<1>2. ASSUME NEW r \in Requests, NEW q \in Requests,
             Receive(r) \/ Handle(r) \/ Fail(r) \/ CommitUnacknowledged(r)
      PROVE  AnswerOk(q)'
  <2>1. AnswerOk(q) /\ AnswerOk(r) /\ Owned /\ IndexKinds
    BY DEF AnswersInv
  <2>2. CASE q = r
    BY <1>2, <2>1, <2>2, OwnAnswerStep
  <2>3. CASE q # r
    <3>1. Undisturbed(q) /\ commitLog \subseteq commitLog'
      BY <1>2, <2>3, StepActs, OthersUndisturbed
    <3>. QED  BY <2>1, <3>1, AnswerFrame
  <2>. QED  BY <2>2, <2>3
<1>3. ASSUME NEW q \in Requests, (\E w \in Wallets : SetStatus(w)) \/ UNCHANGED vars
      PROVE  AnswerOk(q)'
  <2>1. Stands
    BY <1>3 DEF Stands, SetStatus, vars, dbVars
  <2>2. Undisturbed(q) /\ commitLog \subseteq commitLog'
    BY <2>1, OthersUndisturbed
  <2>. QED  BY <2>2, AnswerFrame DEF AnswersInv
<1>4. \A q \in Requests : AnswerOk(q)'
  BY <1>2, <1>3 DEF Next, Quiescent
<1>. QED  BY <1>1, <1>4 DEF AnswersInv

(* Nobody has an answer when the service starts.                           *)
LEMMA InitAnswers == Init => AnswersInv
<1>. SUFFICES ASSUME Init PROVE AnswersInv
  OBVIOUS
<1>1. Owned
  <2>1. \A w \in Wallets : \A i \in 1 .. Len(draft[w].ledger) :
          draft[w].ledger[i].by = NoRequest
    BY DEF Init
  <2>. QED  BY <2>1, RequestAssumption DEF Owned
<1>2. IndexKinds
  BY RequestAssumption DEF Init, IndexKinds
<1>3. \A r \in Requests : AnswerOk(r)
  BY DEF Init, Blank, AnswerOk, Refusals
<1>. QED  BY <1>1, <1>2, <1>3 DEF AnswersInv

(* A 201 is of one committed row and shows the balance that row recorded;  *)
(* a refused request has left nothing behind; a replayed row is committed, *)
(* of the same kind and with the reference sent.                           *)
THEOREM AnswersTellTheTruth == Spec => []AnswersAreTrue
<1>1. ASSUME BooksInv, GrowthInv, RefsInv, LegsInv, AnswersInv
      PROVE  AnswersAreTrue
  <2>. SUFFICES ASSUME NEW r \in Requests
                PROVE  /\ answer[r].code = "CREATED" =>
                            /\ r \in commitLog
                            /\ Cardinality(OwnRows(wallet[OwnSide(r)].ledger, r,
                                                   answer[r].balance)) = 1
                       /\ answer[r].code \in Refusals => ~Traces(r)
                       /\ answer[r].code = "REPLAY" =>
                            /\ ~Traces(r)
                            /\ answer[r].row \in commitLog
                            /\ req[answer[r].row].reference = req[r].reference
                            /\ IsTransfer(answer[r].row) = IsTransfer(r)
    BY DEF AnswersAreTrue, Positions, OwnRows
  <2>1. AnswerOk(r) /\ Owned
    BY <1>1 DEF AnswersInv
  <2>2. ASSUME NEW S, Single(S) PROVE Cardinality(S) = 1
    BY <2>2, FS_Singleton DEF Single
  <2>3. answer[r].code \in Refusals \cup {"REPLAY"} => ~Traces(r)
    <3>. SUFFICES ASSUME answer[r].code \in Refusals \cup {"REPLAY"} PROVE ~Traces(r)
      OBVIOUS
    <3>1. r \notin commitLog /\ pc[r] = "sent"
      BY <2>1 DEF AnswerOk, Refusals
    <3>2. r \notin transferRows
      BY <1>1, <3>1 DEF LegsInv, TransferRowsInv, Inserted, Written
    <3>3. \A w \in Wallets : \A i \in 1 .. Len(draft[w].ledger) : draft[w].ledger[i].by # r
      BY <2>1, <3>1 DEF Owned
    <3>. QED  BY <3>1, <3>2, <3>3 DEF Traces
  <2>. QED  BY <2>1, <2>2, <2>3 DEF AnswerOk
<1>2. BooksInv /\ GrowthInv /\ RefsInv /\ AnswersInv /\ [Next]_vars => AnswersInv'
  BY AnswersStep
<1>. QED  BY <1>1, <1>2, InitAnswers, LegsAreKept, PTL DEF Spec

(* No reference is used for two different operations of one table.         *)
OneBodyPerReference ==
  \A q, r \in Requests :
    (/\ Truthy(req[r].reference) /\ req[q].reference = req[r].reference
     /\ IsTransfer(q) = IsTransfer(r)) => req[q] = req[r]

(* The README's "replayed (same result)" holds of clients that use a       *)
(* reference for one operation only.  The lookup itself (findByReference)  *)
(* asks for neither the wallet, nor the caller, nor the direction.         *)
THEOREM ReplaysOfOwnBodies == Spec => [](OneBodyPerReference => ReplayIsOfTheRequest)
<1>1. ASSUME BooksInv, AnswersInv, OneBodyPerReference PROVE ReplayIsOfTheRequest
  <2>. SUFFICES ASSUME NEW r \in Requests, answer[r].code = "REPLAY"
                PROVE  req[answer[r].row] = req[r]
    BY DEF ReplayIsOfTheRequest
  <2>1. /\ answer[r].row \in commitLog /\ Truthy(req[r].reference)
        /\ req[answer[r].row].reference = req[r].reference
        /\ IsTransfer(answer[r].row) = IsTransfer(r)
    BY <1>1 DEF AnswersInv, AnswerOk
  <2>2. answer[r].row \in Requests
    BY <1>1, <2>1 DEF BooksInv, TypeOK
  <2>. QED  BY <1>1, <2>1, <2>2 DEF OneBodyPerReference
<1>2. BooksInv /\ GrowthInv /\ RefsInv /\ AnswersInv /\ [Next]_vars => AnswersInv'
  BY AnswersStep
<1>. QED  BY <1>1, <1>2, InitAnswers, LegsAreKept, PTL DEF Spec

-----------------------------------------------------------------------------
(* The handlers as WalletApi takes them to be.                             *)
Failures == {r \in Requests : answer[r].code \in Broken}
Outcomes(r) == Api!Early(Route[req[r].op]) \cup Api!Late(Route[req[r].op])

(* The controllers find what the middleware let through.                   *)
LEMMA BodyDelivered ==
  ASSUME BooksInv, NEW r \in Requests,
         NEW q, q = [route |-> Route[req[r].op], user |-> req[r].user, token |-> "valid",
                     form |-> "clear", fields |-> "valid", currency |-> "any",
                     id |-> req[r].from]
  PROVE  /\ Api!Delivered(q).route = Route[req[r].op]
         /\ Api!Readable(Api!Delivered(q)) /\ Api!Readable(q)
<1>1. Route[req[r].op] # "wallet:create"
  BY BodyFacts DEF Route, Op, BooksInv
<1>2. \A i : Api!Before(q, i) = q
  BY DEF Api!Before, Api!Opened
<1>3. Api!Delivered(q) = q
  BY <1>1, <1>2 DEF Api!Delivered, Api!Parsed
<1>. QED  BY <1>3 DEF Api!Readable

(* A handler that goes on is not seen to.                                  *)
LEMMA ApiStutters ==
  ASSUME BooksInv, UNCHANGED <<req, commitLog>>,
         \A q \in Requests : /\ pc'[q] = "sent" <=> pc[q] = "sent"
                             /\ answer'[q].code = answer[q].code
  PROVE  UNCHANGED Api!vars
<1>1. Failures' = Failures
  BY DEF Failures
<1>2. [r \in Requests |-> IF pc'[r] = "sent" THEN "sent" ELSE "move"]
        = [r \in Requests |-> IF pc[r] = "sent" THEN "sent" ELSE "move"]
  OBVIOUS
<1>3. [r \in Requests |-> [code |-> Heard(answer'[r].code), shows |-> {}]]
        = [r \in Requests |-> [code |-> Heard(answer[r].code), shows |-> {}]]
  OBVIOUS
<1>. QED  BY <1>1, <1>2, <1>3 DEF Api!vars, Failures

(* One that answers is.                                                    *)
LEMMA ApiResponds ==
  ASSUME BooksInv, NEW r \in Requests, pc[r] # "sent", answer[r].code = "none",
         NEW code, NEW row, NEW balance, Send(r, code, row, balance)
  PROVE  /\ Api!Respond(r, Heard(code), {})
         /\ Failures' = IF code \in Broken THEN Failures \cup {r} ELSE Failures
<1>1. /\ pc'[r] = "sent" /\ answer'[r].code = code
      /\ \A q \in Requests \ {r} : pc'[q] = pc[q] /\ answer'[q] = answer[q]
  BY DEF Send, Goto, BooksInv, TypeOK
<1>2. "none" \notin Broken
  BY DEF Broken
<1>3. Failures' = IF code \in Broken THEN Failures \cup {r} ELSE Failures
  BY <1>1, <1>2 DEF Failures
<1>4. [q \in Requests |-> IF pc'[q] = "sent" THEN "sent" ELSE "move"]
        = [[q \in Requests |-> IF pc[q] = "sent" THEN "sent" ELSE "move"]
             EXCEPT ![r] = "sent"]
  BY <1>1
<1>5. [q \in Requests |-> [code |-> Heard(answer'[q].code), shows |-> {}]]
        = [[q \in Requests |-> [code |-> Heard(answer[q].code), shows |-> {}]]
             EXCEPT ![r] = [code |-> Heard(code), shows |-> {}]]
  BY <1>1
<1>. QED  BY <1>3, <1>4, <1>5 DEF Api!Respond

(* A refusal with an error of the operation is a move that was refused,    *)
(* and a broken one a failed statement.                                    *)
LEMMA ApiRefuses ==
  ASSUME BooksInv, NEW r \in Requests, pc[r] # "sent", answer[r].code = "none",
         NEW code, Refuse(r, code), UNCHANGED <<req, commitLog>>
  PROVE  /\ code \in Outcomes(r) => Api!Move(r)
         /\ code \in Broken => Api!Fail(r)
<1>1. Api!Respond(r, Heard(code), {})
  BY ApiResponds DEF Refuse
<1>2. Failures' = IF code \in Broken THEN Failures \cup {r} ELSE Failures
  BY ApiResponds DEF Refuse
<1>3. CASE code \in Outcomes(r)
  <2>1. code \in Refusals
    BY <1>3 DEF Outcomes, Api!Early, Api!Late, Refusals
  <2>2. Heard(code) = code /\ code \notin Broken /\ Api!ErrorCode(code) = code
    BY <2>1 DEF Heard, Broken, Refusals, Api!ErrorCode, Api!AppErrors
  <2>3. Api!Throw(r, code)
    BY <1>1, <2>2 DEF Api!Throw
  <2>. QED
    BY <1>2, <1>3, <2>1, <2>2, <2>3, BodyDelivered DEF Api!Move, Outcomes, Failures, Refusals, Broken
<1>4. CASE code \in Broken
  <2>1. Heard(code) = "INTERNAL_ERROR" /\ Api!ErrorCode("ConnectionError") = "INTERNAL_ERROR"
    BY <1>4 DEF Heard, Broken, Api!ErrorCode, Api!AppErrors
  <2>2. Api!Throw(r, "ConnectionError")
    BY <1>1, <2>1 DEF Api!Throw
  <2>3. code \notin Outcomes(r)
    BY <1>4 DEF Broken, Outcomes, Api!Early, Api!Late
  <2>. QED  BY <1>2, <1>4, <2>2, <2>3 DEF Api!Fail, Failures
<1>. QED  BY <1>3, <1>4

(* A replay is a move that is acknowledged and changes nothing.            *)
LEMMA ApiReplays ==
  ASSUME BooksInv, NEW r \in Requests, pc[r] # "sent", answer[r].code = "none",
         NEW row, NEW balance, Send(r, "REPLAY", row, balance), UNCHANGED <<req, commitLog>>
  PROVE  Api!Move(r)
<1>1. Heard("REPLAY") = "CREATED" /\ "REPLAY" \notin Broken
  BY DEF Heard, Broken
<1>2. Api!Respond(r, "CREATED", {}) /\ Failures' = Failures
  BY <1>1, ApiResponds
<1>. QED  BY <1>2, BodyDelivered DEF Api!Move, Failures

(* A commit is the step in which a move takes effect, heard of or not.     *)
LEMMA ApiCommits ==
  ASSUME BooksInv, NEW r \in Requests, answer[r].code = "none"
  PROVE  /\ Commit(r) => Api!Move(r)
         /\ CommitUnacknowledged(r) => Api!MoveUnacknowledged(r)
<1>1. ASSUME Commit(r) PROVE Api!Move(r)
  <2>1. pc[r] # "sent" /\ Send(r, "CREATED", r, answer[r].balance)
    BY <1>1 DEF Commit
  <2>2. Heard("CREATED") = "CREATED" /\ "CREATED" \notin Broken
    BY DEF Heard, Broken
  <2>3. Api!Respond(r, "CREATED", {}) /\ Failures' = Failures
    BY <2>1, <2>2, ApiResponds
  <2>4. req' = req /\ commitLog' = commitLog \cup {r}
    BY <1>1 DEF Commit, CommitTransaction
  <2>. QED  BY <2>1, <2>3, <2>4, BodyDelivered DEF Api!Move, Failures
<1>2. ASSUME CommitUnacknowledged(r) PROVE Api!MoveUnacknowledged(r)
  <2>1. PICK code \in Broken : Refuse(r, code)
    BY <1>2 DEF CommitUnacknowledged
  <2>2. pc[r] # "sent" /\ req' = req /\ commitLog' = commitLog \cup {r}
    BY <1>2 DEF CommitUnacknowledged, CommitTransaction
  <2>3. Heard(code) = "INTERNAL_ERROR" /\ Api!ErrorCode("ConnectionError") = "INTERNAL_ERROR"
    BY DEF Heard, Broken, Api!ErrorCode, Api!AppErrors
  <2>4. Api!Respond(r, Heard(code), {}) /\ Failures' = Failures \cup {r}
    BY <2>1, <2>2, ApiResponds DEF Refuse
  <2>5. Api!Throw(r, "ConnectionError")
    BY <2>3, <2>4 DEF Api!Throw
  <2>. QED  BY <2>2, <2>4, <2>5, BodyDelivered DEF Api!MoveUnacknowledged, Failures
<1>. QED  BY <1>1, <1>2

(* What a handler refuses with is an error of its operation.               *)
LEMMA OwnErrors ==
  ASSUME BooksInv, NEW r \in Requests
  PROVE  /\ {"WALLET_NOT_FOUND", "DUPLICATE_REFERENCE"} \subseteq Outcomes(r)
         /\ IsTransfer(r) =>
              {"TRANSFER_SAME_WALLET", "WALLET_INACTIVE", "WALLET_CURRENCY_MISMATCH",
               "INSUFFICIENT_FUNDS"} \subseteq Outcomes(r)
         /\ ~IsTransfer(r) => "WALLET_INACTIVE" \in Outcomes(r)
         /\ req[r].op = "withdraw" => "INSUFFICIENT_FUNDS" \in Outcomes(r)
<1>1. req[r].op \in Op
  BY BodyFacts DEF BooksInv
<1>2. /\ Route[req[r].op] = "transfer:create" <=> IsTransfer(r)
      /\ req[r].op = "withdraw" => Route[req[r].op] # "txn:deposit"
  BY <1>1 DEF Route, Op, IsTransfer
<1>3. IsTransfer(r) => Route[req[r].op] # "txn:deposit"
  BY <1>2
<1>. QED  BY <1>2, <1>3 DEF Outcomes, Api!Early, Api!Late

(* A handler's step is a move, a failure, or not seen.                     *)
ApiStep(r) == \/ Api!Move(r) \/ Api!MoveUnacknowledged(r) \/ Api!Fail(r)
              \/ UNCHANGED Api!vars
LEMMA HandlerMoves ==
  ASSUME BooksInv, NEW r \in Requests, AnswerOk(r),
         Receive(r) \/ Handle(r) \/ Fail(r) \/ CommitUnacknowledged(r)
  PROVE  ApiStep(r)
<1>1. ASSUME NEW code, Refuse(r, code), pc[r] # "sent", code \in Outcomes(r) \cup Broken,
             UNCHANGED <<req, commitLog>>
      PROVE  ApiStep(r)
  BY <1>1, ApiRefuses DEF ApiStep, AnswerOk
<1>2. ASSUME NEW label, Goto(r, label), label # "sent", pc[r] # "sent",
             UNCHANGED <<req, commitLog>>,
             \/ answer' = answer
             \/ \E b : answer' = [answer EXCEPT ![r].balance = b]
      PROVE  ApiStep(r)
  <2>1. \A q \in Requests : /\ pc'[q] = "sent" <=> pc[q] = "sent"
                            /\ answer'[q].code = answer[q].code
    BY <1>2 DEF Goto, BooksInv, TypeOK
  <2>. QED  BY <1>2, <2>1, ApiStutters DEF ApiStep
<1>3. CASE Receive(r)
  BY <1>1, <1>2, <1>3, OwnErrors DEF Receive, dbVars
<1>4. CASE LoadOwnedWallet(r)
  <2>1. ~IsTransfer(r)
    BY <1>4 DEF LoadOwnedWallet, BooksInv, Routed, RoutedAs
  <2>. QED  BY <1>1, <1>2, <1>4, <2>1, OwnErrors DEF LoadOwnedWallet, dbVars
<1>5. CASE LoadSource(r) \/ LoadDestination(r)
  BY <1>1, <1>2, <1>5, OwnErrors DEF LoadSource, LoadDestination, dbVars
<1>6. CASE FindByReference(r)
  <2>1. ASSUME NEW row, NEW b, Send(r, "REPLAY", row, b) PROVE ApiStep(r)
    BY <1>6, <2>1, ApiReplays DEF FindByReference, dbVars, ApiStep, AnswerOk
  <2>2. ASSUME NEW label, label # "sent", Goto(r, label), UNCHANGED answer PROVE ApiStep(r)
    BY <1>2, <1>6, <2>2 DEF FindByReference, dbVars
  <2>3. req[r].op \in Op
    BY BodyFacts DEF BooksInv
  <2>. QED  BY <1>6, <2>1, <2>2, <2>3 DEF FindByReference, Op
<1>7. CASE IncrementBalance(r)
  <2>1. CASE Rollback(r) /\ Refuse(r, "INTERNAL_ERROR")
    BY <1>1, <1>7, <2>1 DEF IncrementBalance, Rollback, Broken
  <2>2. CASE ~(Rollback(r) /\ Refuse(r, "INTERNAL_ERROR"))
    BY <1>2, <1>7, <2>2 DEF IncrementBalance
  <2>. QED  BY <2>1, <2>2
<1>8. CASE GuardedDecrementNone(r)
  <2>1. req[r].op = "withdraw"
    BY <1>8 DEF GuardedDecrementNone, BooksInv, Routed, RoutedAs
  <2>. QED  BY <1>1, <1>8, <2>1, OwnErrors DEF GuardedDecrementNone, Rollback
<1>9. CASE GuardedDecrement(r) \/ InsertEntry(r)
  BY <1>2, <1>9 DEF GuardedDecrement, InsertEntry
<1>10. CASE InsertDuplicate(r)
  BY <1>1, <1>10, OwnErrors DEF InsertDuplicate, Rollback
<1>11. CASE LockFirst(r) \/ LockSecond(r) \/ InsertTransfer(r) \/ DebitLeg(r)
  BY <1>2, <1>11 DEF LockFirst, LockSecond, LockRow, InsertTransfer, DebitLeg
<1>12. CASE ValidateUnderLock(r)
  <2>1. IsTransfer(r)
    BY <1>12 DEF ValidateUnderLock, BooksInv, Routed, RoutedAs, Staged
  <2>2. Verdict(r) # "OK" => Verdict(r) \in Outcomes(r)
    BY <2>1, OwnErrors DEF Verdict
  <2>. QED  BY <1>1, <1>2, <1>12, <2>2 DEF ValidateUnderLock, Rollback, dbVars
<1>13. CASE CreditLeg(r)
  <2>1. CASE Rollback(r) /\ Refuse(r, "INTERNAL_ERROR")
    BY <1>1, <1>13, <2>1 DEF CreditLeg, Rollback, Broken
  <2>2. CASE ~(Rollback(r) /\ Refuse(r, "INTERNAL_ERROR"))
    BY <1>2, <1>13, <2>2 DEF CreditLeg
  <2>. QED  BY <2>1, <2>2
<1>14. CASE Commit(r) \/ CommitUnacknowledged(r)
  BY <1>14, ApiCommits DEF ApiStep, AnswerOk, Commit, CommitUnacknowledged
<1>15. CASE Fail(r)
  BY <1>1, <1>15 DEF Fail, Running, Rollback
<1>. QED
  BY <1>3, <1>4, <1>5, <1>6, <1>7, <1>8, <1>9, <1>10, <1>11, <1>12, <1>13, <1>14, <1>15
  DEF Handle

(* The handlers of deposits, withdrawals and transfers do what WalletApi   *)
(* takes them to do: what is proved there of the whole service rests on    *)
(* nothing that they do otherwise.                                         *)
THEOREM HandlersMoveAsTold == Spec => MovesAsTheApiSays
<1>1. ASSUME BooksInv, AnswersInv, [Next]_vars
      PROVE  [\E r \in Requests :
                Api!Move(r) \/ Api!MoveUnacknowledged(r) \/ Api!Fail(r)]_(Api!vars)
  <2>1. ASSUME NEW r \in Requests,
               Receive(r) \/ Handle(r) \/ Fail(r) \/ CommitUnacknowledged(r)
        PROVE  \/ \E q \in Requests :
                     Api!Move(q) \/ Api!MoveUnacknowledged(q) \/ Api!Fail(q)
               \/ UNCHANGED Api!vars
    BY <1>1, <2>1, HandlerMoves DEF AnswersInv, ApiStep
  <2>2. CASE (\E w \in Wallets : SetStatus(w)) \/ Quiescent \/ UNCHANGED vars
    BY <1>1, <2>2, ApiStutters DEF SetStatus, Quiescent, vars, dbVars
  <2>. QED  BY <1>1, <2>1, <2>2 DEF Next
<1>2. BooksInv /\ GrowthInv /\ RefsInv /\ AnswersInv /\ [Next]_vars => AnswersInv'
  BY AnswersStep
<1>. QED  BY <1>1, <1>2, InitAnswers, LegsAreKept, PTL DEF Spec, MovesAsTheApiSays
=============================================================================
