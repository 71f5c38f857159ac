---------------------- MODULE WalletLedgerAtomicProofs ----------------------
(***************************************************************************)
(* What holds of the requests of WalletLedger together.  When every wallet *)
(* has one spelling, as the ids the service prints have, transactions      *)
(* never wait in a circle, and the handlers implement AtomicLedger.        *)
(* However the ids are spelled, funds are conserved.                       *)
(***************************************************************************)
EXTENDS WalletLedgerAnswerProofs, WellFoundedInduction

(* Clients send the ids as they got them, and ids are finitely many.       *)
OneSpelling ==
  \A i, j \in Ids : WalletOf[i] = WalletOf[j] /\ WalletOf[i] \in Wallets => i = j
RanksBounded == \E n \in Nat : \A i \in Ids : IdRank[i] <= n

-----------------------------------------------------------------------------
(* The keys of open transactions, in the unique indexes.                   *)
KeysOpen ==
  \A k \in Refs, q \in Requests :
    txnRef[k] = q \/ transferRef[k] = q => q \in commitLog \/ pc[q] \in Written
KeysHeld ==
  \A q \in Requests :
    /\ q \in commitLog \/ pc[q] \in Written
    /\ req[q].reference # NoRef
    => RefIndex(q)[req[q].reference] = q
KeysInv == KeysOpen /\ KeysHeld

(* A step moves r to a label, commits it or not, and gives its keys up,    *)
(* inserts one, or leaves the indexes alone.                               *)
LEMMA KeysStep ==
  ASSUME BooksInv, GrowthInv, KeysInv, [Next]_vars
  PROVE  KeysInv'
<1>1. req' = req
  BY StepKinds
<1>2. ASSUME NEW r \in Requests, NEW label, Goto(r, label)
      PROVE  \A q \in Requests : pc'[q] = IF q = r THEN label ELSE pc[q]
  BY <1>2 DEF Goto, BooksInv, TypeOK
<1>. DEFINE Index1(q) == IF IsTransfer(q) THEN transferRef' ELSE txnRef'
<1>3. ASSUME /\ \A k \in Refs, q \in Requests :
                  txnRef'[k] = q \/ transferRef'[k] = q => q \in commitLog' \/ pc'[q] \in Written
             /\ \A q \in Requests :
                  (q \in commitLog' \/ pc'[q] \in Written) /\ req[q].reference # NoRef
                    => Index1(q)[req[q].reference] = q
      PROVE  KeysInv'
  BY <1>1, <1>3 DEF KeysInv, KeysOpen, KeysHeld, RefIndex, IsTransfer
<1>4. ASSUME UNCHANGED <<txnRef, transferRef>>,
             \A q \in Requests : (q \in commitLog' \/ pc'[q] \in Written)
                                   <=> (q \in commitLog \/ pc[q] \in Written)
      PROVE  KeysInv'
  BY <1>3, <1>4 DEF KeysInv, KeysOpen, KeysHeld, RefIndex
<1>5. CASE Quiet
  BY <1>4, <1>5 DEF Quiet
<1>6. ASSUME NEW r \in Requests, Abandons(r) PROVE KeysInv'
  <2>1. /\ commitLog' = commitLog /\ r \notin commitLog
        /\ \A q \in Requests : pc'[q] = IF q = r THEN "sent" ELSE pc[q]
        /\ \A k \in Refs : /\ txnRef'[k] = IF txnRef[k] = r THEN NoRequest ELSE txnRef[k]
                           /\ transferRef'[k] = IF transferRef[k] = r THEN NoRequest ELSE transferRef[k]
    BY <1>2, <1>6 DEF Abandons, Rollback, Without, GrowthInv
  <2>2. \A q \in Requests : req[q].reference # NoRef => req[q].reference \in Refs
    BY BodyFacts DEF BooksInv, RefValue
  <2>3. \A k \in Refs, q \in Requests :
          txnRef'[k] = q \/ transferRef'[k] = q => q # r /\ (txnRef[k] = q \/ transferRef[k] = q)
    BY <2>1, RequestAssumption
  <2>4. ASSUME NEW q \in Requests, q \in commitLog' \/ pc'[q] \in Written, req[q].reference # NoRef
        PROVE  Index1(q)[req[q].reference] = q
    <3>1. q # r /\ (q \in commitLog \/ pc[q] \in Written)
      BY <2>1, <2>4 DEF Written
    <3>2. RefIndex(q)[req[q].reference] = q
      BY <2>4, <3>1 DEF KeysInv, KeysHeld
    <3>. QED  BY <2>1, <2>2, <2>4, <3>1, <3>2 DEF RefIndex
  <2>5. \A k \in Refs, q \in Requests :
          txnRef'[k] = q \/ transferRef'[k] = q => q \in commitLog' \/ pc'[q] \in Written
    BY <2>1, <2>3 DEF KeysInv, KeysOpen
  <2>. QED  BY <1>3, <2>4, <2>5
<1>7. ASSUME NEW r \in Requests, Settles(r) PROVE KeysInv'
  <2>1. /\ UNCHANGED <<txnRef, transferRef>> /\ commitLog' = commitLog \cup {r}
        /\ pc[r] = "commit" /\ \A q \in Requests : pc'[q] = IF q = r THEN "sent" ELSE pc[q]
    BY <1>2, <1>7 DEF Settles, CommitTransaction
  <2>. QED  BY <1>4, <2>1 DEF Written
<1>8. ASSUME NEW r \in Requests, Debits(r) \/ Credits(r) PROVE KeysInv'
  <2>1. PICK label \in Written : Goto(r, label)
    BY <1>8 DEF Debits, Credits, Leg, Written
  <2>2. /\ UNCHANGED <<txnRef, transferRef, commitLog>> /\ pc[r] \in Written
        /\ \A q \in Requests : pc'[q] = IF q = r THEN label ELSE pc[q]
    BY <1>2, <1>8, <2>1 DEF Debits, Credits, Leg, Written
  <2>. QED  BY <1>4, <2>2
<1>9. ASSUME NEW r \in Requests, InsertEntry(r) \/ InsertTransfer(r) PROVE KeysInv'
  <2>1. /\ commitLog' = commitLog
        /\ \E label \in Written :
             \A q \in Requests : pc'[q] = IF q = r THEN label ELSE pc[q]
    BY <1>2, <1>9 DEF InsertEntry, InsertTransfer, Written
  <2>2. /\ IsTransfer(r) => transferRef' = InsertRef(r, transferRef) /\ txnRef' = txnRef
        /\ ~IsTransfer(r) => txnRef' = InsertRef(r, txnRef) /\ transferRef' = transferRef
    BY <1>9 DEF InsertEntry, InsertTransfer, BooksInv, Routed, RoutedAs, Staged
  <2>3. RefFree(r)
    BY <1>9 DEF InsertEntry, InsertTransfer
  <2>4. \A q \in Requests : req[q].reference # NoRef => req[q].reference \in Refs
    BY BodyFacts DEF BooksInv, RefValue
  <2>5. \A k \in Refs :
          /\ txnRef'[k] = IF ~IsTransfer(r) /\ k = req[r].reference THEN r ELSE txnRef[k]
          /\ transferRef'[k] = IF IsTransfer(r) /\ k = req[r].reference THEN r ELSE transferRef[k]
    BY <2>2, RefAssumption DEF InsertRef, BooksInv, TypeOK
  <2>6. ASSUME NEW q \in Requests, q \in commitLog' \/ pc'[q] \in Written, req[q].reference # NoRef
        PROVE  Index1(q)[req[q].reference] = q
    <3>1. CASE q = r
      BY <2>4, <2>5, <2>6, <3>1
    <3>2. CASE q # r
      <4>1. RefIndex(q)[req[q].reference] = q
        BY <2>1, <2>6, <3>2 DEF KeysInv, KeysHeld
      <4>. QED  BY <2>3, <2>4, <2>5, <2>6, <3>2, <4>1, RequestAssumption DEF RefIndex, RefFree
    <3>. QED  BY <3>1, <3>2
  <2>7. \A k \in Refs, q \in Requests :
          txnRef'[k] = q \/ transferRef'[k] = q => q \in commitLog' \/ pc'[q] \in Written
    BY <2>1, <2>5 DEF KeysInv, KeysOpen
  <2>. QED  BY <1>3, <2>6, <2>7
<1>. QED  BY <1>5, <1>6, <1>7, <1>8, <1>9, StepKinds DEF Touches

(* The indexes hold no entry when the service starts.                      *)
LEMMA InitKeys == Init => KeysInv
  BY RequestAssumption DEF Init, KeysInv, KeysOpen, KeysHeld, Written

-----------------------------------------------------------------------------
(* The order of the row locks.                                             *)
LEMMA HasLeast ==
  ASSUME NEW S, S \subseteq Nat, S # {}
  PROVE  \E m \in S : \A k \in S : m <= k
<1>. DEFINE R == OpToRel(<, Nat)
<1>1. IsWellFoundedOn(R, Nat)
  BY NatLessThanWellFounded, Zenon
<1>2. \A k, m \in Nat : k < m => <<k, m>> \in R
  BY DEF OpToRel
<1>. HIDE DEF R
<1>3. PICK m \in S : \A k \in S : ~ (<<k, m>> \in R)
  BY <1>1, WFMin
<1>4. \A k \in S : ~ (k < m)
  BY <1>2, <1>3
<1>5. \A k \in S : m <= k
  BY <1>4
<1>. QED  BY <1>5

(* A bounded set of numbers has a greatest one: the least of its distances *)
(* to the bound.                                                           *)
LEMMA HasGreatest ==
  ASSUME NEW S, S \subseteq Nat, S # {}, NEW n \in Nat, \A k \in S : k <= n
  PROVE  \E m \in S : \A k \in S : k <= m
<1>. DEFINE T == {n - k : k \in S}
<1>0. \A k \in S : n - k \in Nat
  OBVIOUS
<1>1. T \subseteq Nat /\ T # {}
  BY <1>0
<1>. HIDE DEF T
<1>2. PICK t \in T : \A k \in T : t <= k
  BY <1>1, HasLeast
<1>3. PICK m \in S : t = n - m
  BY <1>2 DEF T
<1>4. \A k \in S : n - m <= n - k
  BY <1>2, <1>3 DEF T
<1>5. \A k \in S : k <= m
  BY <1>4
<1>. QED  BY <1>5

(* Transfers lock the lesser id first.                                     *)
LEMMA IdsInOrder ==
  ASSUME BooksInv, NEW r \in Requests, req[r].from # req[r].to
  PROVE  /\ FirstId(r) \in Ids /\ SecondId(r) \in Ids
         /\ IdRank[FirstId(r)] < IdRank[SecondId(r)]
  BY BodyFacts, RankAssumption DEF FirstId, SecondId, BooksInv

(* Who has written waits for nobody; who inserts waits for one of those;   *)
(* who wants a row waits for a handler that holds it, and of these only    *)
(* one between its two locks may wait for a row as well.                   *)
LEMMA WritersWaitForNobody ==
  ASSUME NEW q, pc[q] \in Written
  PROVE  Blockers(q) = {}
  BY DEF Blockers, WantedRow, Written

(* Whoever waits for a key waits for a transaction that has every lock it  *)
(* will need.                                                              *)
LEMMA InserterWaitsForWriter ==
  ASSUME BooksInv, KeysInv, NEW r \in Requests, NEW q \in Requests,
         pc[r] \in {"insertEntry", "insertTransfer"}, q \in Blockers(r)
  PROVE  pc[q] \in Written
<1>1. WantedRow(r) = {}
  BY DEF WantedRow
<1>2. /\ req[r].reference # NoRef
      /\ q = RefIndex(r)[req[r].reference] /\ q \notin commitLog
  BY <1>1 DEF Blockers, RefFree
<1>3. req[r].reference \in Refs
  BY <1>2, BodyFacts DEF RefValue, BooksInv
<1>. QED  BY <1>2, <1>3 DEF KeysInv, KeysOpen, RefIndex

(* Whoever waits for a row waits for the handler that has locked it.       *)
LEMMA WantedIsWallet ==
  ASSUME BooksInv, NEW r \in Requests, NEW w \in WantedRow(r)
  PROVE  w \in Wallets
<1>1. Known(r)
  BY DEF WantedRow, BooksInv, Routed, RoutedAs, Staged
<1>2. pc[r] \in {"lockFirst", "lockSecond"} => IsTransfer(r)
  BY DEF BooksInv, Routed, RoutedAs, Staged
<1>3. pc[r] = "credit" => req[r].op = "deposit"
  BY DEF BooksInv, Routed, RoutedAs
<1>4. pc[r] = "debit" => req[r].op = "withdraw"
  BY DEF BooksInv, Routed, RoutedAs
<1>. QED
  BY <1>1, <1>2, <1>3, <1>4
  DEF WantedRow, Known, OwnSide, IsTransfer, FirstId, SecondId, From, To

LEMMA WaitsForHolder ==
  ASSUME BooksInv, NEW r \in Requests, NEW q \in Requests, q \in Blockers(r),
         pc[r] \notin {"insertEntry", "insertTransfer"}
  PROVE  \E w \in WantedRow(r) : w \in Wallets /\ lock[w] = q /\ q # r
<1>1. PICK w \in WantedRow(r) : lock[w] = q /\ q # r
  BY DEF Blockers
<1>. QED  BY <1>1, WantedIsWallet

(* A handler that has locked one row and waits for another has the first   *)
(* of its two.                                                             *)
LEMMA HolderThatWaits ==
  ASSUME BooksInv, NEW q \in Requests, NEW w \in Wallets, lock[w] = q,
         pc[q] \notin Written \cup {"insertEntry", "insertTransfer"}, Blockers(q) # {}
  PROVE  pc[q] = "lockSecond" /\ w = WalletOf[FirstId(q)]
<1>1. w \in HeldAs(q, pc[q])
  BY DEF BooksInv, RowsInv, LocksHeld
<1>2. WantedRow(q) # {}
  BY DEF Blockers, Written
<1>. QED  BY <1>1, <1>2 DEF HeldAs, WantedRow, Staged, Written

(* The next lock a handler wants is on a wallet of higher rank than the    *)
(* one it has, so a handler that blocks it at that point has a higher one. *)
LEMMA RanksRise ==
  ASSUME BooksInv, OneSpelling, NEW r \in Requests, NEW q \in Requests,
         pc[r] = "lockSecond", pc[q] = "lockSecond", q # r,
         NEW w \in WantedRow(r), w \in Wallets, lock[w] = q, w = WalletOf[FirstId(q)]
  PROVE  IdRank[FirstId(r)] < IdRank[FirstId(q)]
<1>1. w = WalletOf[SecondId(r)]
  BY DEF WantedRow
<1>2. FirstId(q) \in Ids /\ SecondId(r) \in Ids
  BY BodyFacts DEF FirstId, SecondId, BooksInv
<1>3. SecondId(r) = FirstId(q)
  BY <1>1, <1>2 DEF OneSpelling
<1>4. req[r].from # req[r].to
  <2>1. SUFFICES ASSUME req[r].from = req[r].to PROVE FALSE
    OBVIOUS
  <2>2. SecondId(r) = FirstId(r)
    BY <2>1 DEF FirstId, SecondId
  <2>3. w \in HeldAs(r, pc[r])
    BY <1>1, <2>2 DEF HeldAs
  <2>. QED  BY <2>3 DEF BooksInv, RowsInv, LocksHeld
<1>. QED  BY <1>3, <1>4, IdsInOrder

(* In a circle some handler would wait for the row of the greatest id,     *)
(* whose holder waits for nothing beyond it.                               *)
LEMMA NoCircle ==
  ASSUME BooksInv, KeysInv, OneSpelling, RanksBounded
  PROVE  NoWaitCycle
<1>. SUFFICES ASSUME NEW S \in SUBSET Requests, S # {},
                     \A r \in S : Blockers(r) \cap S # {}
              PROVE  FALSE
  BY DEF NoWaitCycle
<1>1. \A r \in S : pc[r] \notin Written
  BY WritersWaitForNobody
<1>2. \A r \in S : pc[r] \notin {"insertEntry", "insertTransfer"}
  BY <1>1, InserterWaitsForWriter
<1>3. \A r \in S : \E q \in S, w \in WantedRow(r) :
        /\ w \in Wallets /\ lock[w] = q /\ q # r
        /\ pc[q] = "lockSecond" /\ w = WalletOf[FirstId(q)]
  <2>. TAKE r \in S
  <2>1. PICK q \in S : q \in Blockers(r)
    OBVIOUS
  <2>2. PICK w \in WantedRow(r) : w \in Wallets /\ lock[w] = q /\ q # r
    BY <1>2, <2>1, WaitsForHolder
  <2>3. Blockers(q) # {} /\ pc[q] \notin Written \cup {"insertEntry", "insertTransfer"}
    BY <1>1, <1>2
  <2>4. pc[q] = "lockSecond" /\ w = WalletOf[FirstId(q)]
    BY <2>2, <2>3, HolderThatWaits
  <2>. QED  BY <2>2, <2>4
<1>. DEFINE T == {q \in S : pc[q] = "lockSecond"}
            N == {IdRank[FirstId(q)] : q \in T}
<1>4. T # {}
  BY <1>3
<1>5. \A r \in T : \E q \in T : IdRank[FirstId(r)] < IdRank[FirstId(q)]
  BY <1>3, RanksRise
<1>6. \A r \in Requests : FirstId(r) \in Ids /\ IdRank[FirstId(r)] \in Nat
  BY BodyFacts, RankAssumption DEF FirstId, BooksInv
<1>7. PICK n \in Nat : \A i \in Ids : IdRank[i] <= n
  BY DEF RanksBounded
<1>8. N \subseteq Nat /\ N # {} /\ \A k \in N : k <= n
  BY <1>4, <1>6, <1>7
<1>9. \A k \in N : \E m \in N : k < m
  BY <1>5
<1>. HIDE DEF N
<1>10. PICK m \in N : \A k \in N : k <= m
  BY <1>8, HasGreatest
<1>11. PICK k \in N : m < k
  BY <1>9
<1>. QED  BY <1>8, <1>10, <1>11

(* The invariants that the waiting rests on.                               *)
LEMMA KeysAreKept == Spec => [](BooksInv /\ GrowthInv /\ KeysInv)
  BY KeysStep, InitKeys, RefsAreKept, PTL DEF Spec

(* A retry that looks for its reference after the original committed finds *)
(* the original, and no other row: the key is the original's for good.     *)
THEOREM LateRetriesAreReplayed == Spec => RetriesAreReplayed
<1>1. ASSUME BooksInv, KeysInv, [Next]_vars, NEW r \in Requests, NEW q \in commitLog,
             pc[r] = "replay", pc'[r] # "replay", Truthy(req[r].reference),
             req[q].reference = req[r].reference, IsTransfer(q) = IsTransfer(r)
      PROVE  \/ answer'[r].code = "REPLAY" /\ answer'[r].row = q
             \/ answer'[r].code \in Broken
  <2>1. RefIndex(r)[req[r].reference] = q /\ RefTaken(r)
    <3>1. q \in Requests
      BY <1>1 DEF BooksInv, TypeOK
    <3>. QED  BY <1>1, <3>1 DEF KeysInv, KeysHeld, RefIndex, RefTaken, Truthy
  <2>2. FindByReference(r) \/ Fail(r)
    <3>1. ASSUME NEW p \in Requests, p # r, \E label : Goto(p, label) PROVE FALSE
      BY <1>1, <3>1 DEF Goto, BooksInv, TypeOK
    <3>2. ASSUME NEW p \in Requests,
                 Receive(p) \/ Handle(p) \/ Fail(p) \/ CommitUnacknowledged(p)
          PROVE  p = r
      BY <1>1, <3>1, <3>2, StepActs DEF Acts
    <3>3. Receive(r) \/ Handle(r) \/ Fail(r) \/ CommitUnacknowledged(r)
      BY <1>1, <3>2 DEF Next, SetStatus, Quiescent, vars
    <3>. QED
      BY <1>1, <3>3 DEF Receive, Handle, LoadOwnedWallet, LoadSource, LoadDestination,
         IncrementBalance, GuardedDecrementNone, GuardedDecrement, InsertEntry,
         InsertDuplicate, LockFirst, LockSecond, LockRow, ValidateUnderLock, InsertTransfer,
         DebitLeg, CreditLeg, Commit, CommitUnacknowledged
  <2>3. CASE FindByReference(r)
    <3>1. \E b : Send(r, "REPLAY", q, b)
      BY <1>1, <2>1, <2>3 DEF FindByReference
    <3>. QED  BY <1>1, <3>1 DEF Send, BooksInv, TypeOK
  <2>4. CASE Fail(r)
    <3>1. PICK code \in Broken : Send(r, code, NoRequest, 0)
      BY <2>4 DEF Fail, Refuse
    <3>. QED  BY <1>1, <3>1 DEF Send, BooksInv, TypeOK
  <2>. QED  BY <2>2, <2>3, <2>4
<1>2. BooksInv /\ KeysInv /\ [Next]_vars =>
        [\A r \in Requests, q \in commitLog :
           (/\ pc[r] = "replay" /\ pc'[r] # "replay"
            /\ Truthy(req[r].reference) /\ req[q].reference = req[r].reference
            /\ IsTransfer(q) = IsTransfer(r)) =>
             \/ answer'[r].code = "REPLAY" /\ answer'[r].row = q
             \/ answer'[r].code \in Broken]_vars
  BY <1>1
<1>. QED  BY <1>2, KeysAreKept, PTL DEF Spec, RetriesAreReplayed

(* Transactions never wait for each other in a circle, through row locks,  *)
(* the unique indexes or both, when every wallet has one spelling: sorting *)
(* the ids then orders the rows.  For any number of handlers and wallets.  *)
THEOREM NoDeadlock == (OneSpelling /\ RanksBounded) => (Spec => []NoWaitCycle)
<1>. SUFFICES ASSUME OneSpelling, RanksBounded PROVE Spec => []NoWaitCycle
  OBVIOUS
<1>1. BooksInv /\ KeysInv => NoWaitCycle
  BY NoCircle
<1>. QED  BY <1>1, KeysAreKept, PTL

-----------------------------------------------------------------------------
(* The guards of the statements that may have to wait: a row that can be   *)
(* locked, or fails the predicate, and a key that is free, or taken for    *)
(* good.  The other statements wait for nobody.                            *)
CanGo(r) ==
  /\ pc[r] = "credit" => Grantable(r, To(r))
  /\ pc[r] = "debit" => Grantable(r, From(r)) \/ ~Spendable(r, wallet[From(r)])
  /\ pc[r] = "lockFirst" => Grantable(r, WalletOf[FirstId(r)])
  /\ pc[r] = "lockSecond" => Grantable(r, WalletOf[SecondId(r)])
  /\ pc[r] \in {"insertEntry", "insertTransfer"} => RefFree(r) \/ RefTaken(r)
SomebodyCanGo ==
  (\E r \in Requests : Running(r)) => \E r \in Requests : Running(r) /\ CanGo(r)

(* Blockers are transactions that are open, and whoever has none can go.   *)
LEMMA BlockersAreRequests ==
  ASSUME BooksInv, NEW r \in Requests
  PROVE  Blockers(r) \subseteq Requests
<1>1. {lock[w] : w \in WantedRow(r)} \ {r, NoRequest} \subseteq Requests
  BY WantedIsWallet DEF BooksInv, TypeOK
<1>2. ~RefFree(r) => RefIndex(r)[req[r].reference] \in Requests
  <2>. SUFFICES ASSUME ~RefFree(r) PROVE RefIndex(r)[req[r].reference] \in Requests
    OBVIOUS
  <2>1. req[r].reference \in Refs
    BY BodyFacts DEF RefFree, RefValue, BooksInv
  <2>. QED  BY <2>1 DEF RefFree, RefIndex, BooksInv, TypeOK
<1>. QED  BY <1>1, <1>2 DEF Blockers

LEMMA BlockersRun ==
  ASSUME BooksInv, KeysInv, NEW r \in Requests, NEW q \in Requests, q \in Blockers(r)
  PROVE  Running(q)
<1>1. CASE pc[r] \in {"insertEntry", "insertTransfer"}
  BY <1>1, InserterWaitsForWriter DEF Running, Written
<1>2. CASE pc[r] \notin {"insertEntry", "insertTransfer"}
  <2>1. PICK w \in Wallets : lock[w] = q
    BY <1>2, WaitsForHolder
  <2>2. w \in HeldAs(q, pc[q])
    BY <2>1 DEF BooksInv, RowsInv, LocksHeld
  <2>. QED  BY <2>2 DEF HeldAs, Staged, Running
<1>. QED  BY <1>1, <1>2

LEMMA UnblockedCanGo ==
  ASSUME NEW r \in Requests, Blockers(r) = {}
  PROVE  CanGo(r)
<1>1. \A w \in WantedRow(r) : Grantable(r, w)
  BY DEF Blockers, Grantable
<1>2. pc[r] \in {"insertEntry", "insertTransfer"} => RefFree(r) \/ RefTaken(r)
  BY DEF Blockers, RefFree, RefTaken
<1>3. /\ pc[r] = "credit" => WantedRow(r) = {To(r)}
      /\ pc[r] = "debit" /\ Spendable(r, wallet[From(r)]) => WantedRow(r) = {From(r)}
      /\ pc[r] = "lockFirst" => WantedRow(r) = {WalletOf[FirstId(r)]}
      /\ pc[r] = "lockSecond" => WantedRow(r) = {WalletOf[SecondId(r)]}
  BY DEF WantedRow
<1>. QED  BY <1>1, <1>2, <1>3 DEF CanGo

(* As long as any request is unanswered, the next statement of one of them *)
(* need not wait, when every wallet has one spelling.  EveryRequestAnswered *)
(* rests on this, with the theorem below and fairness.                     *)
THEOREM SomebodyGoesOn == (OneSpelling /\ RanksBounded) => (Spec => []SomebodyCanGo)
<1>. SUFFICES ASSUME OneSpelling, RanksBounded PROVE Spec => []SomebodyCanGo
  OBVIOUS
<1>1. ASSUME BooksInv, KeysInv PROVE SomebodyCanGo
  <2>. SUFFICES ASSUME \E r \in Requests : Running(r)
                PROVE  \E r \in Requests : Running(r) /\ CanGo(r)
    BY DEF SomebodyCanGo
  <2>. DEFINE S == {r \in Requests : Running(r)}
  <2>1. PICK r \in S : Blockers(r) \cap S = {}
    <3>1. S \in SUBSET Requests /\ S # {}
      OBVIOUS
    <3>2. NoWaitCycle
      BY <1>1, NoCircle
    <3>. HIDE DEF S
    <3>. QED  BY <3>1, <3>2 DEF NoWaitCycle
  <2>2. Blockers(r) \subseteq Requests
    BY <1>1, BlockersAreRequests
  <2>3. Blockers(r) = {}
    BY <1>1, <2>1, <2>2, BlockersRun
  <2>. QED  BY <2>1, <2>3, UnblockedCanGo
<1>. QED  BY <1>1, KeysAreKept, PTL

(* How far a handler has come.                                             *)
Stage(label) ==
  CASE label = "idle" -> 0
    [] label \in {"load", "source"} -> 1
    [] label = "destination" -> 2
    [] label = "replay" -> 3
    [] label \in {"credit", "debit", "lockFirst"} -> 4
    [] label = "lockSecond" -> 5
    [] label = "validate" -> 6
    [] label \in {"insertEntry", "insertTransfer"} -> 7
    [] label = "debitLeg" -> 8
    [] label = "creditLeg" -> 9
    [] label = "commit" -> 10
    [] label = "sent" -> 11

(* No handler goes back, and every step of one takes it further: nothing   *)
(* is tried again by the service, so a handler is done after ten steps.    *)
HandlersAdvance ==
  [][\A r \in Requests :
       /\ Handle(r) => pc'[r] # pc[r]
       /\ pc'[r] # pc[r] => Stage(pc[r]) < Stage(pc'[r])]_vars

(* A step of r that goes to a later label does so.                         *)
LEMMA Advance ==
  ASSUME BooksInv, NEW r \in Requests, NEW label, Goto(r, label),
         Stage(pc[r]) < Stage(label), Stage(pc[r]) \in Nat
  PROVE  \A q \in Requests : /\ q = r => pc'[q] # pc[q]
                             /\ pc'[q] # pc[q] => Stage(pc[q]) < Stage(pc'[q])
<1>1. pc'[r] = label /\ \A q \in Requests \ {r} : pc'[q] = pc[q]
  BY DEF Goto, BooksInv, TypeOK
<1>2. pc'[r] # pc[r]
  BY <1>1
<1>. QED  BY <1>1, <1>2

LEMMA StageOfLabels ==
  /\ Stage("idle") = 0 /\ Stage("load") = 1 /\ Stage("source") = 1
  /\ Stage("destination") = 2 /\ Stage("replay") = 3
  /\ Stage("credit") = 4 /\ Stage("debit") = 4 /\ Stage("lockFirst") = 4
  /\ Stage("lockSecond") = 5 /\ Stage("validate") = 6
  /\ Stage("insertEntry") = 7 /\ Stage("insertTransfer") = 7
  /\ Stage("debitLeg") = 8 /\ Stage("creditLeg") = 9
  /\ Stage("commit") = 10 /\ Stage("sent") = 11
  BY DEF Stage

(* Every step of a handler, and the end of it, is one.                     *)
LEMMA HandlerAdvances ==
  ASSUME BooksInv, NEW r \in Requests,
         Receive(r) \/ Handle(r) \/ Fail(r) \/ CommitUnacknowledged(r)
  PROVE  \E label : /\ Goto(r, label)
                    /\ Stage(pc[r]) < Stage(label) /\ Stage(pc[r]) \in Nat
<1>1. CASE \/ Receive(r) \/ LoadOwnedWallet(r) \/ LoadSource(r)
          \/ LoadDestination(r)
  BY <1>1, StageOfLabels DEF Receive, LoadOwnedWallet, LoadSource, LoadDestination, Refuse, Send
<1>2. CASE FindByReference(r)
  <2>1. \E label \in {"sent", "credit", "debit", "lockFirst"} : Goto(r, label)
    BY <1>2, BodyFacts DEF FindByReference, Send, BooksInv, Op
  <2>. QED  BY <1>2, <2>1, StageOfLabels DEF FindByReference
<1>3. CASE \/ IncrementBalance(r) \/ GuardedDecrementNone(r) \/ GuardedDecrement(r)
          \/ InsertEntry(r) \/ InsertDuplicate(r)
  BY <1>3, StageOfLabels DEF IncrementBalance, GuardedDecrementNone, GuardedDecrement,
     InsertEntry, InsertDuplicate, Refuse, Send
<1>4. CASE \/ LockFirst(r) \/ LockSecond(r) \/ ValidateUnderLock(r) \/ InsertTransfer(r)
  BY <1>4, StageOfLabels DEF LockFirst, LockSecond, LockRow, ValidateUnderLock,
     InsertTransfer, Refuse, Send
<1>5. CASE \/ DebitLeg(r) \/ CreditLeg(r) \/ Commit(r) \/ CommitUnacknowledged(r)
  BY <1>5, StageOfLabels DEF DebitLeg, CreditLeg, Commit, CommitUnacknowledged, Refuse, Send
<1>6. CASE Fail(r)
  <2>1. Goto(r, "sent") /\ pc[r] \in Labels \ {"idle", "sent"}
    BY <1>6 DEF Fail, Running, Refuse, Send, BooksInv, TypeOK
  <2>. QED  BY <2>1, StageOfLabels DEF Labels
<1>. QED  BY <1>1, <1>2, <1>3, <1>4, <1>5, <1>6 DEF Handle

(* So a request is answered after ten steps of its handler, if it is not   *)
(* kept waiting for ever.                                                  *)
THEOREM HandlersGoForward == Spec => HandlersAdvance
<1>1. ASSUME BooksInv, [Next]_vars, NEW r \in Requests
      PROVE  /\ Handle(r) => pc'[r] # pc[r]
             /\ pc'[r] # pc[r] => Stage(pc[r]) < Stage(pc'[r])
  <2>1. ASSUME NEW q \in Requests,
               Receive(q) \/ Handle(q) \/ Fail(q) \/ CommitUnacknowledged(q)
        PROVE  /\ q = r => pc'[r] # pc[r]
               /\ pc'[r] # pc[r] => Stage(pc[r]) < Stage(pc'[r])
    <3>1. PICK label : /\ Goto(q, label)
                       /\ Stage(pc[q]) < Stage(label) /\ Stage(pc[q]) \in Nat
      BY <1>1, <2>1, HandlerAdvances
    <3>. QED  BY <1>1, <3>1, Advance
  <2>2. CASE (\E w \in Wallets : SetStatus(w)) \/ UNCHANGED vars
    <3>1. pc' = pc
      BY <2>2 DEF SetStatus, vars
    <3>2. ~Handle(r)
      <4>1. Handle(r) => pc'[r] # pc[r]
        BY <2>1
      <4>. QED  BY <3>1, <4>1
    <3>. QED  BY <3>1, <3>2
  <2>. QED  BY <1>1, <2>1, <2>2 DEF Next, Quiescent
<1>2. BooksInv /\ [Next]_vars =>
        [\A r \in Requests :
           /\ Handle(r) => pc'[r] # pc[r]
           /\ pc'[r] # pc[r] => Stage(pc[r]) < Stage(pc'[r])]_vars
  BY <1>1
<1>. QED  BY <1>2, BooksAreKept, PTL DEF Spec, HandlersAdvance

-----------------------------------------------------------------------------
(* The drafts of open transactions, as functions of the committed rows.    *)
Delta(r) == IF req[r].op = "deposit" THEN req[r].amount ELSE -req[r].amount
Side(r) == IF req[r].op = "deposit" THEN "CREDIT" ELSE "DEBIT"
Entered(a, r) == Recorded(Adjusted(a, Delta(r)), r, Side(r), req[r].reference, NoRequest)
Paid(a, r) == Recorded(Adjusted(a, -req[r].amount), r, "DEBIT", NoRef, r)
Received(a, r) == Recorded(Adjusted(a, req[r].amount), r, "CREDIT", NoRef, r)
Untouched == {"lockSecond", "validate", "insertTransfer", "debitLeg"}
Drawn(r, label, d, t) ==
  /\ label = "insertEntry" => d[OwnSide(r)] = Adjusted(t[OwnSide(r)], Delta(r))
  /\ label \in Untouched => \A w \in HeldAs(r, label) : d[w] = t[w]
  /\ label = "creditLeg" => d[From(r)] = Paid(t[From(r)], r) /\ d[To(r)] = t[To(r)]
  /\ label = "commit" /\ ~IsTransfer(r) => d[OwnSide(r)] = Entered(t[OwnSide(r)], r)
  /\ label = "commit" /\ IsTransfer(r) =>
       /\ d[From(r)] = Paid(t[From(r)], r) /\ d[To(r)] = Received(t[To(r)], r)
       /\ Currency[From(r)] = Currency[To(r)]
DrawnInv == \A r \in Requests : Drawn(r, pc[r], draft, wallet)

(* A transfer past its first check has two ids.                            *)
TwoIds ==
  \A r \in Requests :
    IsTransfer(r) /\ pc[r] \notin {"idle", "sent"} => req[r].from # req[r].to

(* The first check of a transfer is not undone.                            *)
LEMMA TwoIdsStep ==
  ASSUME BooksInv, TwoIds, [Next]_vars
  PROVE  TwoIds'
<1>1. req' = req
  BY StepKinds
<1>2. ASSUME NEW r \in Requests, Receive(r) PROVE TwoIds'
  <2>1. /\ \A q \in Requests \ {r} : pc'[q] = pc[q]
        /\ pc'[r] # "sent" /\ IsTransfer(r) => req[r].from # req[r].to
    BY <1>2 DEF Receive, Refuse, Send, Goto, BooksInv, TypeOK
  <2>. QED  BY <1>1, <2>1 DEF TwoIds, IsTransfer
<1>3. ASSUME NEW r \in Requests, pc[r] \notin {"idle", "sent"}, Acts(r) PROVE TwoIds'
  <2>1. \A q \in Requests \ {r} : pc'[q] = pc[q]
    BY <1>3 DEF Acts, Goto, BooksInv, TypeOK
  <2>. QED  BY <1>1, <1>3, <2>1 DEF TwoIds, IsTransfer
<1>4. ASSUME NEW r \in Requests, Handle(r) \/ Fail(r) \/ CommitUnacknowledged(r)
      PROVE  pc[r] \notin {"idle", "sent"}
  BY <1>4 DEF Handle, Fail, Running, CommitUnacknowledged, LoadOwnedWallet, LoadSource,
     LoadDestination, FindByReference, IncrementBalance, GuardedDecrementNone,
     GuardedDecrement, InsertEntry, InsertDuplicate, LockFirst, LockSecond, LockRow,
     ValidateUnderLock, InsertTransfer, DebitLeg, CreditLeg, Commit
<1>5. CASE (\E w \in Wallets : SetStatus(w)) \/ UNCHANGED vars
  BY <1>1, <1>5 DEF SetStatus, vars, TwoIds, IsTransfer
<1>. QED  BY <1>2, <1>3, <1>4, <1>5, StepActs DEF Next, Quiescent

(* With one spelling, two ids are two wallets.                             *)
LEMMA TwoWallets ==
  ASSUME OneSpelling, BooksInv, TwoIds, NEW r \in Requests, IsTransfer(r),
         pc[r] \in Staged \cup {"commit"}
  PROVE  From(r) \in Wallets /\ To(r) \in Wallets /\ From(r) # To(r)
<1>1. From(r) \in Wallets /\ To(r) \in Wallets
  BY DEF BooksInv, Routed, RoutedAs, Known, OwnSide, IsTransfer
<1>2. req[r].from # req[r].to
  BY DEF TwoIds, Staged
<1>3. req[r].from \in Ids /\ req[r].to \in Ids
  BY BodyFacts DEF BooksInv
<1>. QED  BY <1>1, <1>2, <1>3 DEF OneSpelling, From, To

(* Others' drafts and committed rows stay under the locks of a handler.    *)
LEMMA DrawnFrame ==
  ASSUME BooksInv, GrowthInv, [Next]_vars, NEW q \in Requests, Drawn(q, pc[q], draft, wallet),
         Undisturbed(q)
  PROVE  Drawn(q, pc[q], draft, wallet)'
<1>1. req' = req
  BY StepKinds
<1>2. \A w \in Wallets : w \in HeldAs(q, pc[q]) => draft'[w] = draft[w] /\ wallet'[w] = wallet[w]
  <2>1. \A w \in Wallets : w \in HeldAs(q, pc[q]) => lock[w] = q
    BY DEF BooksInv, RowsInv, LocksHeld
  <2>. QED  BY <2>1, WhoPublishes DEF Undisturbed
<1>3. HeldAs(q, pc[q]) \subseteq Wallets
  BY BodyFacts
  DEF HeldAs, Staged, BooksInv, Routed, RoutedAs, Known, OwnSide, IsTransfer, FirstId, SecondId,
      From, To
<1>4. \A w \in HeldAs(q, pc[q]) : draft'[w] = draft[w] /\ wallet'[w] = wallet[w]
  BY <1>2, <1>3
<1>5. /\ pc[q] = "insertEntry" => OwnSide(q) \in HeldAs(q, pc[q])
      /\ pc[q] = "creditLeg" => {From(q), To(q)} \subseteq HeldAs(q, pc[q])
      /\ pc[q] = "commit" /\ ~IsTransfer(q) => OwnSide(q) \in HeldAs(q, pc[q])
      /\ pc[q] = "commit" /\ IsTransfer(q) => {From(q), To(q)} \subseteq HeldAs(q, pc[q])
  BY DEF HeldAs, Staged
<1>6. Drawn(q, pc[q], draft', wallet')
  BY <1>4, <1>5 DEF Drawn
<1>7. pc'[q] = pc[q]
  BY DEF Undisturbed
<1>. QED
  BY <1>1, <1>6, <1>7
  DEF Drawn, OwnSide, IsTransfer, From, To, HeldAs, FirstId, SecondId, Delta, Side, Entered,
      Paid, Received, Recorded

(* Drawn speaks of the next state as it does of this one.                  *)
LEMMA DrawnNext ==
  ASSUME req' = req, NEW q \in Requests
  PROVE  Drawn(q, pc[q], draft, wallet)' <=> Drawn(q, pc'[q], draft', wallet')
  BY DEF Drawn, OwnSide, IsTransfer, From, To, HeldAs, FirstId, SecondId, Delta, Side,
     Entered, Paid, Received, Recorded

(* A wallet that nobody else has locked, and that the handler does not     *)
(* hold yet, is as it was committed.                                       *)
LEMMA FreshlyLocked ==
  ASSUME BooksInv, NEW r \in Requests, NEW w \in Wallets, Grantable(r, w),
         w \notin HeldAs(r, pc[r])
  PROVE  draft[w] = wallet[w]
  BY DEF Grantable, BooksInv, RowsInv, LocksHeld, DraftsLocked

Elsewhere == {"insertEntry", "creditLeg", "commit"} \cup Untouched

(* A handler's own step takes its drafts from what is committed.           *)
LEMMA OwnDrawnStep ==
  ASSUME BooksInv, GrowthInv, OneSpelling, TwoIds, Permits, NEW r \in Requests,
         Drawn(r, pc[r], draft, wallet),
         Receive(r) \/ Handle(r) \/ Fail(r) \/ CommitUnacknowledged(r), [Next]_vars
  PROVE  Drawn(r, pc[r], draft, wallet)'
<1>1. req' = req
  BY StepKinds
<1>2. SUFFICES Drawn(r, pc'[r], draft', wallet')
  BY <1>1, DrawnNext
<1>3. ASSUME NEW label, Goto(r, label) PROVE pc'[r] = label
  BY <1>3 DEF Goto, BooksInv, TypeOK
<1>4. ASSUME NEW label, Goto(r, label), label \notin Elsewhere PROVE Drawn(r, pc'[r], draft', wallet')
  BY <1>3, <1>4 DEF Drawn, Elsewhere
<1>5. ASSUME Goto(r, "sent") PROVE Drawn(r, pc'[r], draft', wallet')
  BY <1>4, <1>5 DEF Elsewhere, Untouched
<1>6. CASE \/ Receive(r) \/ LoadOwnedWallet(r) \/ LoadSource(r) \/ LoadDestination(r)
           \/ FindByReference(r)
  <2>1. \E label \in {"sent", "source", "load", "replay", "destination", "credit",
                      "debit", "lockFirst"} : Goto(r, label)
    BY <1>6, BodyFacts DEF Receive, LoadOwnedWallet, LoadSource, LoadDestination,
       FindByReference, Refuse, Send, BooksInv, Op
  <2>. QED  BY <1>4, <2>1 DEF Elsewhere, Untouched
<1>7. CASE IncrementBalance(r)
  <2>1. CASE Refuse(r, "INTERNAL_ERROR")
    BY <1>5, <2>1 DEF Refuse, Send
  <2>2. CASE ~Refuse(r, "INTERNAL_ERROR")
    <3>1. /\ pc[r] = "credit" /\ Goto(r, "insertEntry") /\ wallet' = wallet
          /\ Grantable(r, To(r))
          /\ draft' = [draft EXCEPT ![To(r)] = Adjusted(draft[To(r)], req[r].amount)]
      BY <1>7, <2>2 DEF IncrementBalance
    <3>2. OwnSide(r) = To(r) /\ To(r) \in Wallets /\ req[r].op = "deposit"
      BY <3>1 DEF BooksInv, Routed, RoutedAs, Known, OwnSide
    <3>3. draft[To(r)] = wallet[To(r)]
      BY <3>1, <3>2, FreshlyLocked DEF HeldAs, Staged
    <3>4. draft'[To(r)] = Adjusted(wallet'[To(r)], Delta(r))
      BY <3>1, <3>2, <3>3 DEF Delta, BooksInv, TypeOK
    <3>. QED  BY <1>3, <3>1, <3>2, <3>4 DEF Drawn, Untouched
  <2>. QED  BY <2>1, <2>2
<1>8. CASE GuardedDecrement(r)
  <2>1. /\ pc[r] = "debit" /\ Goto(r, "insertEntry") /\ wallet' = wallet
        /\ Grantable(r, From(r))
        /\ draft' = [draft EXCEPT ![From(r)] = Adjusted(draft[From(r)], -req[r].amount)]
    BY <1>8 DEF GuardedDecrement
  <2>2. OwnSide(r) = From(r) /\ From(r) \in Wallets /\ req[r].op # "deposit"
    BY <2>1 DEF BooksInv, Routed, RoutedAs, Known, OwnSide
  <2>3. draft[From(r)] = wallet[From(r)]
    BY <2>1, <2>2, FreshlyLocked DEF HeldAs, Staged
  <2>4. draft'[From(r)] = Adjusted(wallet'[From(r)], Delta(r))
    BY <2>1, <2>2, <2>3 DEF Delta, BooksInv, TypeOK
  <2>. QED  BY <1>3, <2>1, <2>2, <2>4 DEF Drawn, Untouched
<1>9. CASE GuardedDecrementNone(r) \/ InsertDuplicate(r) \/ Fail(r) \/ Commit(r) \/ CommitUnacknowledged(r)
  BY <1>5, <1>9 DEF GuardedDecrementNone, InsertDuplicate, Fail, Commit,
     CommitUnacknowledged, Refuse, Send
<1>10. CASE InsertEntry(r)
  <2>1. /\ pc[r] = "insertEntry" /\ Goto(r, "commit") /\ wallet' = wallet
        /\ draft' = [draft EXCEPT ![OwnSide(r)] =
             Recorded(draft[OwnSide(r)], r, Side(r), req[r].reference, NoRequest)]
    BY <1>10 DEF InsertEntry, Side
  <2>2. ~IsTransfer(r) /\ OwnSide(r) \in Wallets
    BY <1>10, EntryWrites
  <2>3. draft'[OwnSide(r)] = Entered(wallet'[OwnSide(r)], r)
    BY <2>1, <2>2 DEF Drawn, Entered, BooksInv, TypeOK
  <2>. QED  BY <1>3, <2>1, <2>2, <2>3 DEF Drawn, Untouched
<1>11. CASE LockFirst(r) \/ LockSecond(r)
  <2>1. IsTransfer(r) /\ From(r) \in Wallets /\ To(r) \in Wallets
    BY <1>11, TwoWallets DEF LockFirst, LockSecond, LockRow, BooksInv, Routed, RoutedAs, Staged
  <2>2. /\ {WalletOf[FirstId(r)], WalletOf[SecondId(r)]} = {From(r), To(r)}
    BY DEF FirstId, SecondId, From, To
  <2>3. CASE LockFirst(r)
    <3>1. /\ pc[r] = "lockFirst" /\ Goto(r, "lockSecond") /\ UNCHANGED <<wallet, draft>>
          /\ Grantable(r, WalletOf[FirstId(r)])
      BY <2>3 DEF LockFirst, LockRow
    <3>2. draft[WalletOf[FirstId(r)]] = wallet[WalletOf[FirstId(r)]]
      BY <2>1, <2>2, <3>1, FreshlyLocked DEF HeldAs, Staged
    <3>. QED  BY <1>3, <3>1, <3>2 DEF Drawn, HeldAs, Untouched
  <2>4. CASE LockSecond(r)
    <3>1. /\ pc[r] = "lockSecond" /\ Goto(r, "validate") /\ UNCHANGED <<wallet, draft>>
          /\ Grantable(r, WalletOf[SecondId(r)])
      BY <2>4 DEF LockSecond, LockRow
    <3>2. draft[WalletOf[FirstId(r)]] = wallet[WalletOf[FirstId(r)]]
      BY <3>1 DEF Drawn, HeldAs, Untouched
    <3>3. HeldAs(r, "lockSecond") = {WalletOf[FirstId(r)]}
      BY DEF HeldAs
    <3>4. draft[WalletOf[SecondId(r)]] = wallet[WalletOf[SecondId(r)]]
      BY <2>1, <2>2, <3>1, <3>2, <3>3, FreshlyLocked
    <3>5. HeldAs(r, "validate") = {WalletOf[FirstId(r)], WalletOf[SecondId(r)]}
      BY <2>2 DEF HeldAs, Staged
    <3>. QED  BY <1>3, <3>1, <3>2, <3>4, <3>5 DEF Drawn, Untouched
  <2>. QED  BY <1>11, <2>3, <2>4
<1>12. CASE ValidateUnderLock(r) \/ InsertTransfer(r)
  <2>1. CASE Goto(r, "sent")
    BY <1>5, <2>1
  <2>2. CASE ~Goto(r, "sent")
    <3>1. /\ pc[r] \in {"validate", "insertTransfer"} /\ UNCHANGED <<wallet, draft>>
          /\ Goto(r, "insertTransfer") \/ Goto(r, "debitLeg")
      BY <1>12, <2>2 DEF ValidateUnderLock, InsertTransfer, Refuse, Send, dbVars
    <3>2. \A label \in {"validate", "insertTransfer", "debitLeg"} : HeldAs(r, label) = {From(r), To(r)}
      BY DEF HeldAs, Staged
    <3>3. pc'[r] \in {"insertTransfer", "debitLeg"}
      BY <1>3, <3>1
    <3>. QED  BY <3>1, <3>2, <3>3 DEF Drawn, Untouched
  <2>. QED  BY <2>1, <2>2
<1>13. CASE DebitLeg(r)
  <2>1. /\ pc[r] = "debitLeg" /\ Goto(r, "creditLeg") /\ wallet' = wallet
        /\ draft' = [draft EXCEPT ![From(r)] = Paid(draft[From(r)], r)]
    BY <1>13 DEF DebitLeg, WriteLeg, Paid
  <2>2. From(r) \in Wallets /\ To(r) \in Wallets /\ From(r) # To(r)
    BY <2>1, TwoWallets DEF BooksInv, Routed, RoutedAs, Staged
  <2>3. draft[From(r)] = wallet[From(r)] /\ draft[To(r)] = wallet[To(r)]
    BY <2>1 DEF Drawn, Untouched, HeldAs, Staged
  <2>4. draft'[From(r)] = Paid(wallet'[From(r)], r) /\ draft'[To(r)] = wallet'[To(r)]
    BY <2>1, <2>2, <2>3 DEF BooksInv, TypeOK
  <2>. QED  BY <1>3, <2>1, <2>4 DEF Drawn, Untouched
<1>14. CASE CreditLeg(r)
  <2>1. CASE Refuse(r, "INTERNAL_ERROR")
    BY <1>5, <2>1 DEF Refuse, Send
  <2>2. CASE ~Refuse(r, "INTERNAL_ERROR")
    <3>1. /\ pc[r] = "creditLeg" /\ Goto(r, "commit") /\ wallet' = wallet
          /\ draft' = [draft EXCEPT ![To(r)] = Received(draft[To(r)], r)]
      BY <1>14, <2>2 DEF CreditLeg, WriteLeg, Received
    <3>2. From(r) \in Wallets /\ To(r) \in Wallets /\ From(r) # To(r) /\ IsTransfer(r)
      BY <3>1, TwoWallets DEF BooksInv, Routed, RoutedAs, Staged
    <3>3. draft[From(r)] = Paid(wallet[From(r)], r) /\ draft[To(r)] = wallet[To(r)]
      BY <3>1 DEF Drawn
    <3>4. draft'[From(r)] = Paid(wallet'[From(r)], r) /\ draft'[To(r)] = Received(wallet'[To(r)], r)
      BY <3>1, <3>2, <3>3 DEF BooksInv, TypeOK
    <3>5. Currency[From(r)] = Currency[To(r)]
      BY <3>1 DEF Permits, Permit
    <3>. QED  BY <1>3, <3>1, <3>2, <3>4, <3>5 DEF Drawn, Untouched
  <2>. QED  BY <2>1, <2>2
<1>. QED
  BY <1>6, <1>7, <1>8, <1>9, <1>10, <1>11, <1>12, <1>13, <1>14 DEF Handle

(* Other handlers' steps leave the rows it has locked alone.               *)
LEMMA DrawnStep ==
  ASSUME BooksInv, GrowthInv, OneSpelling, TwoIds, Permits, DrawnInv, [Next]_vars
  PROVE  DrawnInv'
<1>1. ASSUME NEW r \in Requests, NEW q \in Requests,
             Receive(r) \/ Handle(r) \/ Fail(r) \/ CommitUnacknowledged(r)
      PROVE  Drawn(q, pc[q], draft, wallet)'
  <2>1. Drawn(q, pc[q], draft, wallet) /\ Drawn(r, pc[r], draft, wallet)
    BY DEF DrawnInv
  <2>2. CASE q = r
    BY <1>1, <2>1, <2>2, OwnDrawnStep
  <2>3. CASE q # r
    <3>1. Undisturbed(q)
      BY <1>1, <2>3, StepActs, OthersUndisturbed
    <3>. QED  BY <2>1, <3>1, DrawnFrame
  <2>. QED  BY <2>2, <2>3
<1>2. ASSUME NEW q \in Requests, (\E w \in Wallets : SetStatus(w)) \/ UNCHANGED vars
      PROVE  Drawn(q, pc[q], draft, wallet)'
  <2>1. Stands
    BY <1>2 DEF Stands, SetStatus, vars, dbVars
  <2>2. Undisturbed(q)
    BY <2>1, OthersUndisturbed
  <2>. QED  BY <2>2, DrawnFrame DEF DrawnInv
<1>3. \A q \in Requests : Drawn(q, pc[q], draft, wallet)'
  BY <1>1, <1>2 DEF Next, Quiescent
<1>. QED  BY <1>3 DEF DrawnInv

(* No balance exceeds its column, in open transactions included.           *)
Capped ==
  \A w \in Wallets : draft[w].balance <= MaxBalance /\ wallet[w].balance <= MaxBalance

(* Every credit is held to the column's maximum.                           *)
LEMMA CappedStep ==
  ASSUME BooksInv, Capped, [Next]_vars
  PROVE  Capped'
<1>1. ASSUME UNCHANGED <<draft, wallet>> PROVE Capped'
  BY <1>1 DEF Capped
<1>2. ASSUME NEW r \in Requests, Rollback(r) PROVE Capped'
  BY <1>2 DEF Rollback, Capped
<1>3. ASSUME NEW r \in Requests, CommitTransaction(r) PROVE Capped'
  BY <1>3 DEF CommitTransaction, Capped
<1>4. ASSUME NEW w, NEW a, draft' = [draft EXCEPT ![w] = a], wallet' = wallet,
             a.balance <= MaxBalance
      PROVE  Capped'
  BY <1>4 DEF Capped, BooksInv, TypeOK
<1>5. ASSUME NEW r \in Requests,
             \/ Receive(r) \/ LoadOwnedWallet(r) \/ LoadSource(r) \/ LoadDestination(r)
             \/ FindByReference(r) \/ LockFirst(r) \/ LockSecond(r) \/ InsertTransfer(r)
      PROVE  Capped'
  BY <1>1, <1>5 DEF Receive, LoadOwnedWallet, LoadSource, LoadDestination, FindByReference,
     LockFirst, LockSecond, LockRow, InsertTransfer, dbVars
<1>6. ASSUME NEW r \in Requests,
             \/ GuardedDecrementNone(r) \/ InsertDuplicate(r) \/ Fail(r)
             \/ ValidateUnderLock(r) \/ Commit(r) \/ CommitUnacknowledged(r)
      PROVE  Capped'
  BY <1>1, <1>2, <1>3, <1>6 DEF GuardedDecrementNone, InsertDuplicate, Fail,
     ValidateUnderLock, Commit, CommitUnacknowledged, dbVars
<1>7. ASSUME NEW r \in Requests, NEW w \in Wallets
      PROVE  /\ draft[w] \in Account /\ draft[w].balance \in Int /\ MaxBalance \in Nat
             /\ req[r].amount \in Nat \ {0} /\ draft[w].balance <= MaxBalance
             /\ draft[w].balance + (-req[r].amount) <= MaxBalance
  BY BodyFacts, OpeningAssumption DEF Capped, BooksInv, TypeOK, Account
<1>8. ASSUME NEW r \in Requests, NEW w \in Wallets, NEW d \in Int
      PROVE  Adjusted(draft[w], d).balance = draft[w].balance + d
  BY <1>7 DEF Adjusted, Account
<1>9. ASSUME NEW r \in Requests, IncrementBalance(r) PROVE Capped'
  <2>1. CASE Rollback(r)
    BY <1>2, <2>1
  <2>2. CASE ~Rollback(r)
    <3>1. /\ pc[r] = "credit" /\ wallet' = wallet
          /\ draft[To(r)].balance + req[r].amount <= MaxBalance
          /\ draft' = [draft EXCEPT ![To(r)] = Adjusted(draft[To(r)], req[r].amount)]
      BY <1>9, <2>2 DEF IncrementBalance
    <3>2. To(r) \in Wallets
      BY <3>1 DEF BooksInv, Routed, RoutedAs, Known, OwnSide
    <3>3. Adjusted(draft[To(r)], req[r].amount).balance <= MaxBalance
      BY <1>7, <1>8, <3>1, <3>2
    <3>. QED  BY <1>4, <3>1, <3>3
  <2>. QED  BY <2>1, <2>2
<1>10. ASSUME NEW r \in Requests, GuardedDecrement(r) PROVE Capped'
  <2>1. /\ pc[r] = "debit" /\ wallet' = wallet
        /\ draft' = [draft EXCEPT ![From(r)] = Adjusted(draft[From(r)], -req[r].amount)]
    BY <1>10 DEF GuardedDecrement
  <2>2. From(r) \in Wallets
    BY <2>1 DEF BooksInv, Routed, RoutedAs, Known, OwnSide
  <2>3. -req[r].amount \in Int
    BY <1>7, <2>2
  <2>4. Adjusted(draft[From(r)], -req[r].amount).balance <= MaxBalance
    BY <1>7, <1>8, <2>2, <2>3
  <2>. QED  BY <1>4, <2>1, <2>4
<1>11. ASSUME NEW r, NEW a \in Account, NEW type, NEW reference, NEW transfer
       PROVE  Recorded(a, r, type, reference, transfer).balance = a.balance
  BY DEF Recorded, Account
<1>12. ASSUME NEW r \in Requests, NEW w \in Wallets, NEW d \in Int
       PROVE  Adjusted(draft[w], d) \in Account
  BY <1>7 DEF Adjusted, Account
<1>13. ASSUME NEW r \in Requests, InsertEntry(r) PROVE Capped'
  <2>1. OwnSide(r) \in Wallets
    BY <1>13, EntryWrites
  <2>2. PICK type, reference :
          /\ draft' = [draft EXCEPT ![OwnSide(r)] =
                        Recorded(draft[OwnSide(r)], r, type, reference, NoRequest)]
          /\ wallet' = wallet
    BY <1>13 DEF InsertEntry
  <2>3. Recorded(draft[OwnSide(r)], r, type, reference, NoRequest).balance <= MaxBalance
    BY <1>7, <1>11, <2>1
  <2>. QED  BY <1>4, <2>2, <2>3
<1>14. ASSUME NEW r \in Requests, NEW w \in Wallets, NEW type, NEW d \in Int, WriteLeg(r, w, type, d),
              wallet' = wallet, draft[w].balance + d <= MaxBalance
       PROVE  Capped'
  <2>1. draft' = [draft EXCEPT ![w] = Recorded(Adjusted(draft[w], d), r, type, NoRef, r)]
    BY <1>14 DEF WriteLeg, BooksInv, TypeOK
  <2>2. Adjusted(draft[w], d) \in Account /\ Adjusted(draft[w], d).balance = draft[w].balance + d
    BY <1>8, <1>12
  <2>3. Recorded(Adjusted(draft[w], d), r, type, NoRef, r).balance <= MaxBalance
    BY <1>11, <1>14, <2>2
  <2>. QED  BY <1>4, <1>14, <2>1, <2>3
<1>15. ASSUME NEW r \in Requests, DebitLeg(r) \/ CreditLeg(r) PROVE Capped'
  <2>1. From(r) \in Wallets /\ To(r) \in Wallets
    BY <1>15 DEF DebitLeg, CreditLeg, BooksInv, Routed, RoutedAs, Known, OwnSide,
       IsTransfer, Staged
  <2>2. req[r].amount \in Int /\ -req[r].amount \in Int
    BY <1>7, <2>1
  <2>3. CASE Rollback(r)
    BY <1>2, <2>3
  <2>4. CASE DebitLeg(r)
    BY <1>7, <1>14, <2>1, <2>2, <2>4 DEF DebitLeg
  <2>5. CASE CreditLeg(r) /\ ~Rollback(r)
    BY <1>14, <2>1, <2>2, <2>5 DEF CreditLeg
  <2>. QED  BY <1>15, <2>3, <2>4, <2>5
<1>16. CASE (\E w \in Wallets : SetStatus(w)) \/ UNCHANGED vars
  BY <1>1, <1>16 DEF SetStatus, vars, dbVars
<1>. QED
  BY <1>5, <1>6, <1>9, <1>10, <1>13, <1>15, <1>16 DEF Next, Handle, Quiescent

-----------------------------------------------------------------------------
(* Every step is a step of AtomicLedger, or changes nothing it knows of.   *)
AtomicInv ==
  /\ BooksInv /\ GrowthInv /\ KeysInv /\ TwoIds /\ Permits /\ DrawnInv /\ Capped
  /\ ActiveInv

(* Both specifications name a request's wallets alike.                     *)
LEMMA SameNames ==
  \A r : Atomic!From(r) = From(r) /\ Atomic!To(r) = To(r)
  BY DEF Atomic!From, Atomic!To, From, To

(* A row that AtomicLedger moves is one that the statements wrote.         *)
LEMMA MovedRows ==
  ASSUME NEW a \in Account, NEW r \in Requests, req[r].amount \in Nat, NEW reference,
         NEW transfer
  PROVE  /\ Atomic!Moved(a, r, "CREDIT", reference, transfer)
              = Recorded(Adjusted(a, req[r].amount), r, "CREDIT", reference, transfer)
         /\ Atomic!Moved(a, r, "DEBIT", reference, transfer)
              = Recorded(Adjusted(a, -req[r].amount), r, "DEBIT", reference, transfer)
<1>1. /\ a.balance \in Int /\ req[r].amount \in Int /\ -req[r].amount \in Int
      /\ a.balance + (-req[r].amount) = a.balance - req[r].amount
  BY DEF Account
<1>2. ASSUME NEW d \in Int
      PROVE  Adjusted(a, d) = [balance |-> a.balance + d, ledger |-> a.ledger]
  BY DEF Adjusted, Account
<1>3. ASSUME NEW d \in Int, NEW type
      PROVE  Recorded(Adjusted(a, d), r, type, reference, transfer) =
               [balance |-> a.balance + d,
                ledger |-> Append(a.ledger,
                  [by |-> r, type |-> type, amount |-> req[r].amount,
                   balanceAfter |-> a.balance + d, reference |-> reference,
                   transfer |-> transfer])]
  <2>1. ASSUME NEW b, NEW l
        PROVE  Recorded([balance |-> b, ledger |-> l], r, type, reference, transfer) =
                 [balance |-> b,
                  ledger |-> Append(l,
                    [by |-> r, type |-> type, amount |-> req[r].amount,
                     balanceAfter |-> b, reference |-> reference, transfer |-> transfer])]
    BY DEF Recorded
  <2>. QED  BY <1>2, <2>1
<1>4. /\ Recorded(Adjusted(a, req[r].amount), r, "CREDIT", reference, transfer) =
           [balance |-> a.balance + req[r].amount,
            ledger |-> Append(a.ledger,
              [by |-> r, type |-> "CREDIT", amount |-> req[r].amount,
               balanceAfter |-> a.balance + req[r].amount, reference |-> reference,
               transfer |-> transfer])]
      /\ Recorded(Adjusted(a, -req[r].amount), r, "DEBIT", reference, transfer) =
           [balance |-> a.balance - req[r].amount,
            ledger |-> Append(a.ledger,
              [by |-> r, type |-> "DEBIT", amount |-> req[r].amount,
               balanceAfter |-> a.balance - req[r].amount, reference |-> reference,
               transfer |-> transfer])]
  BY <1>1, <1>3
<1>. QED  BY <1>4 DEF Atomic!Moved

(* A request that commits has a reference that nothing committed has.      *)
LEMMA ReferenceIsFresh ==
  ASSUME BooksInv, GrowthInv, KeysInv, NEW r \in Requests, pc[r] = "commit"
  PROVE  r \notin commitLog /\ Atomic!FreshReference(r)
<1>1. r \notin commitLog
  BY DEF GrowthInv
<1>2. ASSUME req[r].reference # NoRef, NEW q \in commitLog, Atomic!SameTable(q, r),
             req[q].reference = req[r].reference
      PROVE  FALSE
  <2>1. q \in Requests /\ q # r
    BY <1>1 DEF BooksInv, TypeOK
  <2>2. RefIndex(q) = RefIndex(r)
    BY <1>2 DEF Atomic!SameTable, RefIndex, IsTransfer
  <2>3. RefIndex(q)[req[q].reference] = q /\ RefIndex(r)[req[r].reference] = r
    BY <1>2, <2>1 DEF KeysInv, KeysHeld, Written
  <2>. QED  BY <1>2, <2>1, <2>2, <2>3
<1>. QED  BY <1>1, <1>2 DEF Atomic!FreshReference

(* What a commit publishes is what the atomic operation does.              *)
LEMMA CommitTakesEffect ==
  ASSUME AtomicInv, OneSpelling, NEW r \in Requests, Settles(r), req' = req, status' = status
  PROVE  Atomic!TakeEffect(r)
<1>. USE DEF AtomicInv
<1>1. pc[r] = "commit" /\ CommitTransaction(r)
  BY DEF Settles
<1>2. /\ wallet' = [w \in Wallets |-> IF w \in HeldAs(r, "commit") THEN draft[w] ELSE wallet[w]]
      /\ commitLog' = commitLog \cup {r}
  <2>1. \A w \in Wallets : lock[w] = r <=> w \in HeldAs(r, "commit")
    BY <1>1 DEF BooksInv, RowsInv, LocksHeld
  <2>2. wallet' = [w \in Wallets |-> IF lock[w] = r THEN draft[w] ELSE wallet[w]]
    BY <1>1 DEF CommitTransaction
  <2>3. commitLog' = commitLog \cup {r}
    BY <1>1 DEF CommitTransaction
  <2>. QED  BY <2>1, <2>2, <2>3
<1>3. Drawn(r, "commit", draft, wallet)
  BY <1>1 DEF DrawnInv
<1>4. /\ req[r].amount \in Nat \ {0} /\ req[r].op \in Op
      /\ \A w \in Wallets : /\ wallet[w] \in Account /\ wallet[w].balance \in Int
                            /\ draft[w].balance >= 0 /\ draft[w].balance <= MaxBalance
  BY BodyFacts DEF BooksInv, TypeOK, Account, RowsInv, NeverNegative, Solvent, Capped
<1>5. ASSUME NEW w \in Wallets, NEW d \in Int, NEW type, NEW reference, NEW transfer
      PROVE  Recorded(Adjusted(wallet[w], d), r, type, reference, transfer).balance
               = wallet[w].balance + d
  BY <1>4 DEF Recorded, Adjusted, Account
<1>10. req[r].amount \in Int /\ -req[r].amount \in Int
  BY <1>4
<1>6. Known(r)
  BY <1>1 DEF BooksInv, Routed, RoutedAs
<1>7. CASE req[r].op = "deposit"
  <2>1. /\ ~IsTransfer(r) /\ OwnSide(r) = To(r) /\ To(r) \in Wallets
        /\ HeldAs(r, "commit") = {To(r)}
    BY <1>6, <1>7 DEF IsTransfer, OwnSide, Known, HeldAs, Staged
  <2>2. draft[To(r)] = Recorded(Adjusted(wallet[To(r)], req[r].amount), r, "CREDIT",
                                req[r].reference, NoRequest)
    BY <1>3, <1>7, <2>1 DEF Drawn, Entered, Delta, Side
  <2>3. draft[To(r)] = Atomic!Moved(wallet[To(r)], r, "CREDIT", req[r].reference, NoRequest)
    BY <1>4, <2>1, <2>2, MovedRows
  <2>4. wallet[To(r)].balance + req[r].amount <= MaxBalance
    BY <1>4, <1>5, <1>10, <2>1, <2>2
  <2>5. wallet' = [wallet EXCEPT ![To(r)] =
                     Atomic!Moved(wallet[To(r)], r, "CREDIT", req[r].reference, NoRequest)]
    BY <1>2, <2>1, <2>3 DEF BooksInv, TypeOK
  <2>6. Atomic!Deposit(r)
    BY <1>7, <2>4, <2>5, SameNames DEF Atomic!Deposit
  <2>. QED  BY <1>1, <1>2, <2>6, ReferenceIsFresh DEF Atomic!TakeEffect
<1>8. CASE req[r].op = "withdraw"
  <2>1. /\ ~IsTransfer(r) /\ OwnSide(r) = From(r) /\ From(r) \in Wallets
        /\ HeldAs(r, "commit") = {From(r)}
    BY <1>6, <1>8 DEF IsTransfer, OwnSide, Known, HeldAs, Staged
  <2>2. draft[From(r)] = Recorded(Adjusted(wallet[From(r)], -req[r].amount), r, "DEBIT",
                                  req[r].reference, NoRequest)
    BY <1>3, <1>8, <2>1 DEF Drawn, Entered, Delta, Side
  <2>3. draft[From(r)] = Atomic!Moved(wallet[From(r)], r, "DEBIT", req[r].reference, NoRequest)
    BY <1>4, <2>1, <2>2, MovedRows
  <2>4. wallet[From(r)].balance >= req[r].amount
    <3>1. draft[From(r)].balance = wallet[From(r)].balance + (-req[r].amount)
      BY <1>5, <1>10, <2>1, <2>2
    <3>. QED  BY <1>4, <2>1, <3>1
  <2>5. wallet' = [wallet EXCEPT ![From(r)] =
                     Atomic!Moved(wallet[From(r)], r, "DEBIT", req[r].reference, NoRequest)]
    BY <1>2, <2>1, <2>3 DEF BooksInv, TypeOK
  <2>6. status[From(r)] = "ACTIVE"
    BY <1>1, <1>8 DEF ActiveInv, ActiveAs
  <2>7. Atomic!Withdraw(r)
    BY <1>8, <2>4, <2>5, <2>6, SameNames DEF Atomic!Withdraw
  <2>. QED  BY <1>1, <1>2, <2>7, ReferenceIsFresh DEF Atomic!TakeEffect
<1>9. CASE req[r].op = "transfer"
  <2>1. /\ IsTransfer(r) /\ HeldAs(r, "commit") = {From(r), To(r)}
        /\ From(r) \in Wallets /\ To(r) \in Wallets /\ From(r) # To(r)
    BY <1>1, <1>9, TwoWallets DEF IsTransfer, HeldAs, Staged
  <2>2. /\ draft[From(r)] = Paid(wallet[From(r)], r) /\ draft[To(r)] = Received(wallet[To(r)], r)
        /\ Currency[From(r)] = Currency[To(r)]
    BY <1>3, <2>1 DEF Drawn
  <2>3. /\ draft[From(r)] = Atomic!Moved(wallet[From(r)], r, "DEBIT", NoRef, r)
        /\ draft[To(r)] = Atomic!Moved(wallet[To(r)], r, "CREDIT", NoRef, r)
    BY <1>4, <2>1, <2>2, MovedRows DEF Paid, Received
  <2>4. /\ wallet[From(r)].balance >= req[r].amount
        /\ wallet[To(r)].balance + req[r].amount <= MaxBalance
    <3>1. draft[From(r)].balance = wallet[From(r)].balance + (-req[r].amount)
      BY <1>5, <1>10, <2>1, <2>2 DEF Paid
    <3>2. draft[To(r)].balance = wallet[To(r)].balance + req[r].amount
      BY <1>5, <1>10, <2>1, <2>2 DEF Received
    <3>. QED  BY <1>4, <2>1, <3>1, <3>2
  <2>5. wallet' = [wallet EXCEPT
                     ![From(r)] = Atomic!Moved(wallet[From(r)], r, "DEBIT", NoRef, r),
                     ![To(r)] = Atomic!Moved(wallet[To(r)], r, "CREDIT", NoRef, r)]
    BY <1>2, <2>1, <2>3 DEF BooksInv, TypeOK
  <2>6. status[From(r)] = "ACTIVE" /\ status[To(r)] = "ACTIVE"
    BY <1>1, <1>9, <2>1 DEF ActiveInv, ActiveAs
  <2>7. Atomic!Transfer(r)
    BY <1>9, <2>1, <2>2, <2>4, <2>5, <2>6, SameNames DEF Atomic!Transfer
  <2>. QED  BY <1>1, <1>2, <2>7, ReferenceIsFresh DEF Atomic!TakeEffect
<1>. QED  BY <1>4, <1>7, <1>8, <1>9 DEF Op

(* Every step is one of AtomicLedger, or a stutter.                        *)
LEMMA AtomicStep ==
  ASSUME AtomicInv, OneSpelling, [Next]_vars
  PROVE  [Atomic!Next]_(Atomic!vars)
<1>1. req' = req
  BY StepKinds DEF AtomicInv
<1>2. ASSUME NEW r \in Requests, Commit(r) \/ CommitUnacknowledged(r)
      PROVE  Atomic!Next
  <2>1. Settles(r) /\ status' = status
    BY <1>2 DEF Settles, Commit, CommitUnacknowledged, CommitTransaction, Refuse, Send
  <2>2. Atomic!TakeEffect(r)
    BY <1>1, <2>1, CommitTakesEffect
  <2>. QED  BY <2>2 DEF Atomic!Next
<1>3. ASSUME NEW w \in Wallets, SetStatus(w) PROVE Atomic!Next
  <2>1. Atomic!SetStatus(w)
    BY <1>3 DEF SetStatus, Atomic!SetStatus
  <2>. QED  BY <2>1 DEF Atomic!Next
<1>4. ASSUME NEW q \in Requests,
             \/ Receive(q) \/ LoadOwnedWallet(q) \/ LoadSource(q) \/ LoadDestination(q)
             \/ FindByReference(q) \/ IncrementBalance(q) \/ GuardedDecrementNone(q)
             \/ GuardedDecrement(q) \/ InsertEntry(q) \/ InsertDuplicate(q)
      PROVE  UNCHANGED <<wallet, status, commitLog>>
  BY <1>4 DEF Receive, LoadOwnedWallet, LoadSource, LoadDestination, FindByReference,
     IncrementBalance, GuardedDecrementNone, GuardedDecrement, InsertEntry,
     InsertDuplicate, Rollback, dbVars
<1>5. ASSUME NEW q \in Requests,
             \/ LockFirst(q) \/ LockSecond(q) \/ ValidateUnderLock(q)
             \/ InsertTransfer(q) \/ DebitLeg(q) \/ CreditLeg(q) \/ Fail(q)
      PROVE  UNCHANGED <<wallet, status, commitLog>>
  BY <1>5 DEF LockFirst, LockSecond, LockRow, ValidateUnderLock, InsertTransfer,
     DebitLeg, CreditLeg, Fail, Rollback, dbVars
<1>6. CASE UNCHANGED vars
  BY <1>6 DEF vars, dbVars, Atomic!vars
<1>7. CASE UNCHANGED <<wallet, status, commitLog>>
  BY <1>1, <1>7 DEF Atomic!vars
<1>. QED
  BY <1>2, <1>3, <1>4, <1>5, <1>6, <1>7 DEF Next, Handle, Quiescent

(* The service starts as AtomicLedger does.                                *)
LEMMA InitAtomic ==
  ASSUME Init
  PROVE  Atomic!Init /\ TwoIds /\ Permits /\ DrawnInv /\ Capped /\ ActiveInv
<1>1. Atomic!Init
  BY DEF Init, Atomic!Init, Atomic!OpeningEntry
<1>2. \A w \in Wallets : Opening[w] <= MaxBalance
  BY OpeningAssumption
<1>3. TwoIds /\ Permits /\ ActiveInv
  BY DEF Init, TwoIds, Permits, Permit, Staged, ActiveInv, ActiveAs
<1>4. DrawnInv
  BY DEF Init, DrawnInv, Drawn, Untouched
<1>5. Capped
  BY <1>2 DEF Init, Capped
<1>. QED  BY <1>1, <1>3, <1>4, <1>5

(* The handlers implement the atomic ledger: whatever they interleave and  *)
(* whichever fails, each request takes effect at one instant, on the       *)
(* balances and under the conditions of that instant, or not at all.       *)
THEOREM HandlersAreAtomic == OneSpelling => (Spec => ImplementsAtomicLedger)
<1>. SUFFICES ASSUME OneSpelling PROVE Spec => Atomic!Spec
  BY DEF ImplementsAtomicLedger
<1>1. Init => Atomic!Init /\ TwoIds /\ Permits /\ DrawnInv /\ Capped /\ ActiveInv
  BY InitAtomic
<1>2. BooksInv /\ GrowthInv /\ KeysInv /\ TwoIds /\ Permits /\ DrawnInv /\ Capped /\ ActiveInv
        /\ [Next]_vars
        => (TwoIds /\ Permits /\ DrawnInv /\ Capped /\ ActiveInv)'
  BY TwoIdsStep, PermitsStep, DrawnStep, CappedStep, ActiveStep
<1>3. BooksInv /\ GrowthInv /\ KeysInv /\ TwoIds /\ Permits /\ DrawnInv /\ Capped /\ ActiveInv
        /\ [Next]_vars
        => [Atomic!Next]_(Atomic!vars)
  BY AtomicStep DEF AtomicInv
<1>. QED  BY <1>1, <1>2, <1>3, KeysAreKept, PTL DEF Spec, Atomic!Spec

-----------------------------------------------------------------------------
(* Sums over finite sets.  The library's fold takes one element after the  *)
(* other, in an order of its own.                                          *)
Taken(s) == CHOOSE x \in s : TRUE
Rest(s) == s \ {Taken(s)}
Adds(f, D, g) == g = [s \in D |-> IF s = {} THEN 0 ELSE f[Taken(s)] + g[Rest(s)]]

(* Among subsets of a finite set there is one of fewest elements: what is  *)
(* true of a set when it is true of all smaller ones has no least          *)
(* counterexample, and so is true.                                         *)
LEMMA SmallestSet ==
  ASSUME NEW S, IsFiniteSet(S), NEW B, B \subseteq SUBSET S, B # {}
  PROVE  \E T \in B : \A U \in B : Cardinality(T) <= Cardinality(U)
<1>1. \A T \in B : Cardinality(T) \in Nat
  BY FS_Subset, FS_CardinalityType
<1>. DEFINE N == {Cardinality(T) : T \in B}
<1>2. N \subseteq Nat /\ N # {}
  BY <1>1
<1>. HIDE DEF N
<1>3. PICK m \in N : \A k \in N : m <= k
  BY <1>2, HasLeast
<1>. QED  BY <1>3 DEF N

(* A set that loses an element is smaller by one.                          *)
LEMMA RestIsSmaller ==
  ASSUME NEW S, IsFiniteSet(S), NEW T \in SUBSET S, NEW x \in T
  PROVE  /\ T \ {x} \in SUBSET S
         /\ Cardinality(T) \in Nat /\ Cardinality(T \ {x}) = Cardinality(T) - 1
<1>1. IsFiniteSet(T)
  BY FS_Subset
<1>. QED  BY <1>1, FS_RemoveElement, FS_CardinalityType

(* The element taken first is one of the set.                              *)
LEMMA TakenIsMember ==
  ASSUME NEW T, T # {}
  PROVE  Taken(T) \in T
  BY DEF Taken

(* There is a function that adds up the subsets of a finite set: it is     *)
(* built up from the subsets of at most n elements.                        *)
LEMMA SumExists ==
  ASSUME NEW S, IsFiniteSet(S), NEW f
  PROVE  \E g : Adds(f, SUBSET S, g)
<1>. DEFINE D(n) == {s \in SUBSET S : Cardinality(s) <= n}
            Bad == {n \in Nat : ~ \E g : Adds(f, D(n), g)}
<1>1. Bad = {}
  <2>. SUFFICES ASSUME Bad # {} PROVE FALSE
    OBVIOUS
  <2>1. PICK n \in Bad : \A k \in Bad : n <= k
    BY HasLeast
  <2>. n \in Nat
    OBVIOUS
  <2>2. CASE n = 0
    <3>. DEFINE g == [s \in D(0) |-> 0]
    <3>1. \A s \in D(0) : s = {}
      BY FS_EmptySet, FS_Subset, FS_CardinalityType
    <3>2. Adds(f, D(0), g)
      BY <3>1 DEF Adds
    <3>. QED  BY <3>2, <2>1, <2>2
  <2>3. CASE n # 0
    <3>1. n - 1 \in Nat /\ n - 1 \notin Bad
      <4>. HIDE DEF Bad
      <4>. QED  BY <2>1, <2>3
    <3>2. PICK h : Adds(f, D(n - 1), h)
      BY <3>1
    <3>. DEFINE g == [s \in D(n) |-> IF s = {} THEN 0 ELSE f[Taken(s)] + h[Rest(s)]]
    <3>3. ASSUME NEW s \in D(n), s # {}
          PROVE  /\ Rest(s) \in D(n) /\ Rest(s) \in D(n - 1)
      BY <3>3, <2>1, TakenIsMember, RestIsSmaller DEF Rest
    <3>4. ASSUME NEW s \in D(n), s \in D(n - 1)
          PROVE  g[s] = h[s]
      <4>1. h[s] = IF s = {} THEN 0 ELSE f[Taken(s)] + h[Rest(s)]
        BY <3>2, <3>4 DEF Adds
      <4>. QED  BY <4>1
    <3>5. Adds(f, D(n), g)
      <4>. HIDE DEF D
      <4>. SUFFICES ASSUME NEW s \in D(n)
                    PROVE  g[s] = IF s = {} THEN 0 ELSE f[Taken(s)] + g[Rest(s)]
        BY DEF Adds
      <4>. QED  BY <3>3, <3>4
    <3>. QED  BY <3>5, <2>1
  <2>. QED  BY <2>2, <2>3
<1>2. Cardinality(S) \in Nat
  BY FS_CardinalityType
<1>3. D(Cardinality(S)) = SUBSET S
  BY <1>2, FS_Subset
<1>. QED  BY <1>1, <1>2, <1>3

(* The library's sum is the value of such a function.                      *)
LEMMA SumUnfolds ==
  ASSUME NEW S, IsFiniteSet(S), NEW f
  PROVE  \E g : Adds(f, SUBSET S, g) /\ SumFunctionOnSet(f, S) = g[S]
<1>. DEFINE g == CHOOSE g : g = [s \in SUBSET S |->
                     IF s = {} THEN 0 ELSE f[Taken(s)] + g[s \ {Taken(s)}]]
<1>1. SumFunctionOnSet(f, S) = g[S]
  BY DEF SumFunctionOnSet, FoldFunctionOnSet, MapThenFoldSet, Taken
<1>2. \E h : h = [s \in SUBSET S |->
                 IF s = {} THEN 0 ELSE f[Taken(s)] + h[s \ {Taken(s)}]]
  <2>1. PICK h : Adds(f, SUBSET S, h)
    BY SumExists
  <2>. QED  BY <2>1, Zenon DEF Adds, Rest
<1>3. Adds(f, SUBSET S, g)
  BY <1>2, Zenon DEF Adds, Rest
<1>. QED  BY <1>1, <1>3

(* The sum depends only on the terms.                                      *)
LEMMA SameTerms ==
  ASSUME NEW S, IsFiniteSet(S), NEW T, IsFiniteSet(T), NEW f, NEW g, NEW F, NEW G,
         Adds(f, SUBSET S, F), Adds(g, SUBSET T, G), NEW U \in SUBSET (S \cap T),
         \A x \in U : f[x] = g[x]
  PROVE  F[U] = G[U]
<1>. DEFINE B == {V \in SUBSET U : F[V] # G[V]}
<1>. SUFFICES ASSUME B # {} PROVE FALSE
  OBVIOUS
<1>1. IsFiniteSet(U)
  BY FS_Subset
<1>2. PICK V \in B : \A W \in B : Cardinality(V) <= Cardinality(W)
  BY <1>1, SmallestSet
<1>3. V \in SUBSET S /\ V \in SUBSET T /\ V \in SUBSET U
  BY <1>2
<1>4. F[V] = (IF V = {} THEN 0 ELSE f[Taken(V)] + F[Rest(V)])
  BY <1>3 DEF Adds
<1>5. G[V] = (IF V = {} THEN 0 ELSE g[Taken(V)] + G[Rest(V)])
  BY <1>3 DEF Adds
<1>6. CASE V = {}
  BY <1>2, <1>4, <1>5, <1>6
<1>7. CASE V # {}
  <2>1. Taken(V) \in V
    BY <1>7, TakenIsMember
  <2>2. /\ Rest(V) \in SUBSET U /\ Cardinality(V) \in Nat
        /\ Cardinality(Rest(V)) = Cardinality(V) - 1
    BY <1>1, <1>3, <2>1, RestIsSmaller DEF Rest
  <2>3. ~ (Cardinality(V) <= Cardinality(Rest(V)))
    BY <2>2
  <2>4. F[Rest(V)] = G[Rest(V)]
    BY <1>2, <2>2, <2>3
  <2>5. f[Taken(V)] = g[Taken(V)]
    BY <1>3, <2>1
  <2>. QED  BY <1>2, <1>4, <1>5, <1>7, <2>4, <2>5
<1>. QED  BY <1>6, <1>7

(* Sums of numbers are numbers.                                            *)
LEMMA SumIsInt ==
  ASSUME NEW S, IsFiniteSet(S), NEW f, NEW F, Adds(f, SUBSET S, F),
         \A x \in S : f[x] \in Int
  PROVE  \A U \in SUBSET S : F[U] \in Int
<1>. DEFINE B == {V \in SUBSET S : F[V] \notin Int}
<1>. SUFFICES ASSUME B # {} PROVE FALSE
  OBVIOUS
<1>2. PICK V \in B : \A W \in B : Cardinality(V) <= Cardinality(W)
  BY SmallestSet
<1>4. F[V] = (IF V = {} THEN 0 ELSE f[Taken(V)] + F[Rest(V)])
  BY <1>2 DEF Adds
<1>6. CASE V = {}
  BY <1>2, <1>4, <1>6
<1>7. CASE V # {}
  <2>1. Taken(V) \in V
    BY <1>7, TakenIsMember
  <2>2. /\ Rest(V) \in SUBSET S /\ Cardinality(V) \in Nat
        /\ Cardinality(Rest(V)) = Cardinality(V) - 1
    BY <1>2, <2>1, RestIsSmaller DEF Rest
  <2>3. ~ (Cardinality(V) <= Cardinality(Rest(V)))
    BY <2>2
  <2>4. F[Rest(V)] \in Int
    BY <1>2, <2>2, <2>3
  <2>5. f[Taken(V)] \in Int
    BY <1>2, <2>1
  <2>. QED  BY <1>2, <1>4, <1>7, <2>4, <2>5
<1>. QED  BY <1>6, <1>7

(* Any element may be taken first.                                         *)
LEMMA AnyFirst ==
  ASSUME NEW S, IsFiniteSet(S), NEW f, NEW F, Adds(f, SUBSET S, F),
         \A x \in S : f[x] \in Int
  PROVE  \A U \in SUBSET S, y \in S : y \in U => F[U] = f[y] + F[U \ {y}]
<1>. DEFINE Wrong(V) == \E x \in V : F[V] # f[x] + F[V \ {x}]
            B == {V \in SUBSET S : Wrong(V)}
<1>. SUFFICES ASSUME B # {} PROVE FALSE
  OBVIOUS
<1>0. \A U \in SUBSET S : F[U] \in Int
  BY SumIsInt
<1>2. PICK V \in B : \A W \in B : Cardinality(V) <= Cardinality(W)
  BY SmallestSet
<1>3. PICK x \in V : F[V] # f[x] + F[V \ {x}]
  BY <1>2
<1>. DEFINE c == Taken(V)
<1>4. c \in V
  BY <1>3, TakenIsMember
<1>5. F[V] = f[c] + F[V \ {c}]
  BY <1>2, <1>3 DEF Adds, Rest
<1>6. x # c
  BY <1>3, <1>5
<1>. HIDE DEF c
<1>7. ASSUME NEW y \in V, NEW z \in V \ {y}
      PROVE  F[V \ {y}] = f[z] + F[(V \ {y}) \ {z}]
  <2>1. /\ V \ {y} \in SUBSET S /\ Cardinality(V) \in Nat
        /\ Cardinality(V \ {y}) = Cardinality(V) - 1
    BY <1>2, RestIsSmaller
  <2>2. ~ (Cardinality(V) <= Cardinality(V \ {y}))
    BY <2>1
  <2>3. V \ {y} \notin B
    BY <1>2, <2>2
  <2>. QED  BY <2>1, <2>3
<1>8. F[V \ {c}] = f[x] + F[(V \ {c}) \ {x}] /\ F[V \ {x}] = f[c] + F[(V \ {x}) \ {c}]
  BY <1>4, <1>6, <1>7
<1>9. (V \ {c}) \ {x} = (V \ {x}) \ {c}
  OBVIOUS
<1>10. /\ f[x] \in Int /\ f[c] \in Int
       /\ (V \ {x}) \ {c} \in SUBSET S
  BY <1>2, <1>4
<1>11. F[(V \ {x}) \ {c}] \in Int
  BY <1>0, <1>10
<1>12. F[V] = f[c] + (f[x] + F[(V \ {x}) \ {c}])
  BY <1>5, <1>8, <1>9
<1>13. F[V] = f[x] + (f[c] + F[(V \ {x}) \ {c}])
  <2>. HIDE DEF B, Wrong
  <2>. QED  BY <1>12, <1>10, <1>11
<1>. QED  BY <1>3, <1>8, <1>13

(* What a sum over a finite set is: a number, 0 when it is empty, the same *)
(* for the same terms, and any term with the sum of the others.            *)
LEMMA SumType ==
  ASSUME NEW S, IsFiniteSet(S), NEW f, \A x \in S : f[x] \in Int
  PROVE  SumFunctionOnSet(f, S) \in Int
<1>1. PICK F : Adds(f, SUBSET S, F) /\ SumFunctionOnSet(f, S) = F[S]
  BY SumUnfolds
<1>2. \A U \in SUBSET S : F[U] \in Int
  BY <1>1, SumIsInt
<1>. QED  BY <1>1, <1>2

LEMMA SumEmpty ==
  ASSUME NEW f
  PROVE  SumFunctionOnSet(f, {}) = 0
<1>1. PICK g : Adds(f, SUBSET {}, g) /\ SumFunctionOnSet(f, {}) = g[{}]
  BY SumUnfolds, FS_EmptySet
<1>. QED  BY <1>1 DEF Adds

LEMMA SumSame ==
  ASSUME NEW S, IsFiniteSet(S), NEW f, NEW g, \A x \in S : f[x] = g[x]
  PROVE  SumFunctionOnSet(f, S) = SumFunctionOnSet(g, S)
<1>1. PICK F : Adds(f, SUBSET S, F) /\ SumFunctionOnSet(f, S) = F[S]
  BY SumUnfolds
<1>2. PICK G : Adds(g, SUBSET S, G) /\ SumFunctionOnSet(g, S) = G[S]
  BY SumUnfolds
<1>3. F[S] = G[S]
  BY <1>1, <1>2, SameTerms
<1>. QED  BY <1>1, <1>2, <1>3

LEMMA SumSplit ==
  ASSUME NEW S, IsFiniteSet(S), NEW f, \A y \in S : f[y] \in Int
  PROVE  \A x \in S : SumFunctionOnSet(f, S) = f[x] + SumFunctionOnSet(f, S \ {x})
<1>1. PICK F : Adds(f, SUBSET S, F) /\ SumFunctionOnSet(f, S) = F[S]
  BY SumUnfolds
<1>2. \A U \in SUBSET S, x \in S : x \in U => F[U] = f[x] + F[U \ {x}]
  BY <1>1, AnyFirst
<1>3. ASSUME NEW T \in SUBSET S
      PROVE  SumFunctionOnSet(f, T) = F[T]
  <2>1. IsFiniteSet(T) /\ T \in SUBSET (S \cap T)
    BY FS_Subset
  <2>2. PICK G : Adds(f, SUBSET T, G) /\ SumFunctionOnSet(f, T) = G[T]
    BY <2>1, SumUnfolds
  <2>3. Adds(f, SUBSET S, F) /\ Adds(f, SUBSET T, G) /\ IsFiniteSet(S) /\ IsFiniteSet(T)
    BY <1>1, <2>1, <2>2
  <2>4. F[T] = G[T]
    BY <2>1, <2>3, SameTerms
  <2>. QED  BY <2>2, <2>4
<1>. QED  BY <1>1, <1>2, <1>3

(* A sum of which one term changes.                                        *)
LEMMA SumChange ==
  ASSUME NEW S, IsFiniteSet(S), NEW f, NEW g, NEW x \in S,
         \A y \in S : f[y] \in Int /\ g[y] \in Int,
         \A y \in S \ {x} : g[y] = f[y]
  PROVE  SumFunctionOnSet(g, S) = SumFunctionOnSet(f, S) + (g[x] - f[x])
<1>1. IsFiniteSet(S \ {x})
  BY FS_RemoveElement
<1>2. SumFunctionOnSet(f, S \ {x}) = SumFunctionOnSet(g, S \ {x})
  BY <1>1, SumSame
<1>3. SumFunctionOnSet(f, S) = f[x] + SumFunctionOnSet(f, S \ {x})
  BY SumSplit
<1>4. SumFunctionOnSet(g, S) = g[x] + SumFunctionOnSet(g, S \ {x})
  BY SumSplit
<1>5. SumFunctionOnSet(f, S \ {x}) \in Int
  BY <1>1, SumType
<1>. QED  BY <1>2, <1>3, <1>4, <1>5
-----------------------------------------------------------------------------
(* What an open transaction of r has added so far to the balance of a row  *)
(* it holds, when it is at a label.  Two spellings of one id make both     *)
(* legs of a transfer fall on one row.                                     *)
Unsettled(r, label, w) ==
  LET paid == IF w = From(r) THEN -req[r].amount ELSE 0
      received == IF w = To(r) THEN req[r].amount ELSE 0
  IN CASE label \in {"insertEntry", "commit"} /\ ~IsTransfer(r) -> Delta(r)
       [] label = "creditLeg" -> paid
       [] label = "commit" /\ IsTransfer(r) -> paid + received
       [] OTHER -> 0
Balanced(r, label, d, t) ==
  \A w \in HeldAs(r, label) : d[w].balance = t[w].balance + Unsettled(r, label, w)
InFlight == \A r \in Requests : Balanced(r, pc[r], draft, wallet)

(* Balanced speaks of the next state as it does of this one.               *)
LEMMA BalancedNext ==
  ASSUME req' = req, NEW q \in Requests
  PROVE  Balanced(q, pc[q], draft, wallet)' <=> Balanced(q, pc'[q], draft', wallet')
  BY DEF Balanced, Unsettled, OwnSide, IsTransfer, From, To, HeldAs, FirstId, SecondId, Delta

(* Nobody else writes the rows that a handler holds, or commits to them.   *)
LEMMA HeldRowsStand ==
  ASSUME BooksInv, GrowthInv, [Next]_vars, NEW q \in Requests, Undisturbed(q)
  PROVE  \A w \in HeldAs(q, pc[q]) :
           w \in Wallets /\ draft'[w] = draft[w] /\ wallet'[w] = wallet[w]
<1>1. HeldAs(q, pc[q]) \subseteq Wallets
  BY BodyFacts
  DEF HeldAs, Staged, BooksInv, Routed, RoutedAs, Known, OwnSide, IsTransfer, FirstId, SecondId,
      From, To
<1>2. \A w \in HeldAs(q, pc[q]) : lock[w] = q
  BY <1>1 DEF BooksInv, RowsInv, LocksHeld
<1>. QED  BY <1>1, <1>2, WhoPublishes DEF Undisturbed

(* A handler outside its transaction, or at its start, holds no row.       *)
LEMMA HeldRowsFree ==
  ASSUME NEW r, NEW label, label \notin Staged \cup {"insertEntry", "commit"}
  PROVE  HeldAs(r, label) = {}
  BY DEF HeldAs, Staged

(* A handler's own step keeps account of what it has added.                *)
LEMMA OwnBalancedStep ==
  ASSUME BooksInv, GrowthInv, NEW r \in Requests, Balanced(r, pc[r], draft, wallet),
         Receive(r) \/ Handle(r) \/ Fail(r) \/ CommitUnacknowledged(r), [Next]_vars
  PROVE  Balanced(r, pc'[r], draft', wallet')
<1>1. ASSUME NEW label, Goto(r, label) PROVE pc'[r] = label
  BY <1>1 DEF Goto, BooksInv, TypeOK
<1>2. ASSUME NEW label, Goto(r, label), label \notin Staged \cup {"insertEntry", "commit"}
      PROVE  Balanced(r, pc'[r], draft', wallet')
  BY <1>1, <1>2, HeldRowsFree DEF Balanced
<1>3. ASSUME Goto(r, "sent") PROVE Balanced(r, pc'[r], draft', wallet')
  BY <1>2, <1>3 DEF Staged
<1>4. req[r].amount \in Int
  BY BodyFacts DEF BooksInv
<1>5. \A w \in Wallets : draft[w].balance \in Int /\ wallet[w].balance \in Int
  BY DEF BooksInv, TypeOK, Account
<1>6. CASE \/ Receive(r) \/ LoadOwnedWallet(r) \/ LoadSource(r) \/ LoadDestination(r)
           \/ FindByReference(r)
  <2>1. \E label \in {"sent", "source", "load", "replay", "destination", "credit",
                      "debit", "lockFirst"} : Goto(r, label)
    BY <1>6, BodyFacts DEF Receive, LoadOwnedWallet, LoadSource, LoadDestination,
       FindByReference, Refuse, Send, BooksInv, Op
  <2>2. HeldAs(r, "lockFirst") = {}
    BY DEF HeldAs, Staged
  <2>3. Goto(r, "lockFirst") => Balanced(r, pc'[r], draft', wallet')
    BY <1>1, <2>2 DEF Balanced
  <2>. QED  BY <1>2, <2>1, <2>3 DEF Staged
<1>7. CASE IncrementBalance(r)
  <2>1. CASE Refuse(r, "INTERNAL_ERROR")
    BY <1>3, <2>1 DEF Refuse, Send
  <2>2. CASE ~Refuse(r, "INTERNAL_ERROR")
    <3>1. /\ pc[r] = "credit" /\ Goto(r, "insertEntry") /\ wallet' = wallet
          /\ Grantable(r, To(r))
          /\ draft' = [draft EXCEPT ![To(r)] = Adjusted(draft[To(r)], req[r].amount)]
      BY <1>7, <2>2 DEF IncrementBalance
    <3>2. OwnSide(r) = To(r) /\ To(r) \in Wallets /\ req[r].op = "deposit"
      BY <3>1 DEF BooksInv, Routed, RoutedAs, Known, OwnSide
    <3>3. draft[To(r)] = wallet[To(r)]
      BY <3>1, <3>2, FreshlyLocked DEF HeldAs, Staged
    <3>4. draft'[To(r)].balance = wallet'[To(r)].balance + Delta(r)
      BY <3>1, <3>2, <3>3 DEF Delta, Adjusted, BooksInv, TypeOK, Account
    <3>5. HeldAs(r, "insertEntry") = {To(r)} /\ Unsettled(r, "insertEntry", To(r)) = Delta(r)
      BY <3>2 DEF HeldAs, Staged, Unsettled, IsTransfer
    <3>. QED  BY <1>1, <3>1, <3>4, <3>5 DEF Balanced
  <2>. QED  BY <2>1, <2>2
<1>8. CASE GuardedDecrement(r)
  <2>1. /\ pc[r] = "debit" /\ Goto(r, "insertEntry") /\ wallet' = wallet
        /\ Grantable(r, From(r))
        /\ draft' = [draft EXCEPT ![From(r)] = Adjusted(draft[From(r)], -req[r].amount)]
    BY <1>8 DEF GuardedDecrement
  <2>2. OwnSide(r) = From(r) /\ From(r) \in Wallets /\ req[r].op = "withdraw"
    BY <2>1 DEF BooksInv, Routed, RoutedAs, Known, OwnSide
  <2>3. draft[From(r)] = wallet[From(r)]
    BY <2>1, <2>2, FreshlyLocked DEF HeldAs, Staged
  <2>4. draft'[From(r)].balance = wallet'[From(r)].balance + Delta(r)
    BY <2>1, <2>2, <2>3 DEF Delta, Adjusted, BooksInv, TypeOK, Account
  <2>5. HeldAs(r, "insertEntry") = {From(r)} /\ Unsettled(r, "insertEntry", From(r)) = Delta(r)
    BY <2>2 DEF HeldAs, Staged, Unsettled, IsTransfer
  <2>. QED  BY <1>1, <2>1, <2>4, <2>5 DEF Balanced
<1>9. CASE GuardedDecrementNone(r) \/ InsertDuplicate(r) \/ Fail(r) \/ Commit(r) \/ CommitUnacknowledged(r)
  BY <1>3, <1>9 DEF GuardedDecrementNone, InsertDuplicate, Fail, Commit,
     CommitUnacknowledged, Refuse, Send
<1>10. CASE InsertEntry(r)
  <2>1. /\ pc[r] = "insertEntry" /\ Goto(r, "commit") /\ wallet' = wallet
        /\ draft' = [draft EXCEPT ![OwnSide(r)] =
             Recorded(draft[OwnSide(r)], r, Side(r), req[r].reference, NoRequest)]
    BY <1>10 DEF InsertEntry, Side
  <2>2. ~IsTransfer(r) /\ OwnSide(r) \in Wallets
    BY <1>10, EntryWrites
  <2>3. draft'[OwnSide(r)].balance = draft[OwnSide(r)].balance
    BY <2>1, <2>2 DEF Recorded, BooksInv, TypeOK, Account
  <2>4. \A label \in {"insertEntry", "commit"} :
          HeldAs(r, label) = {OwnSide(r)} /\ Unsettled(r, label, OwnSide(r)) = Delta(r)
    BY <2>2 DEF HeldAs, Staged, Unsettled
  <2>. QED  BY <1>1, <2>1, <2>3, <2>4 DEF Balanced
<1>11. CASE LockFirst(r) \/ LockSecond(r)
  <2>1. IsTransfer(r) /\ From(r) \in Wallets /\ To(r) \in Wallets
    BY <1>11 DEF LockFirst, LockSecond, LockRow, BooksInv, Routed, RoutedAs, Staged, Known,
       OwnSide, IsTransfer
  <2>2. {WalletOf[FirstId(r)], WalletOf[SecondId(r)]} = {From(r), To(r)}
    BY DEF FirstId, SecondId, From, To
  <2>3. \A label \in {"lockSecond", "validate"} : \A w : Unsettled(r, label, w) = 0
    BY DEF Unsettled
  <2>. DEFINE first == WalletOf[FirstId(r)]
              second == WalletOf[SecondId(r)]
  <2>6. first \in Wallets /\ second \in Wallets
    BY <2>1, <2>2
  <2>7. \A w \in {first, second} : wallet[w].balance = wallet[w].balance + 0
    BY <1>5, <2>6
  <2>8. HeldAs(r, "lockSecond") = {first} /\ HeldAs(r, "validate") = {first, second}
    BY <2>2 DEF HeldAs, Staged
  <2>. HIDE DEF first, second
  <2>4. CASE LockFirst(r)
    <3>1. /\ pc[r] = "lockFirst" /\ Goto(r, "lockSecond") /\ UNCHANGED <<wallet, draft>>
          /\ Grantable(r, first)
      BY <2>4 DEF LockFirst, LockRow, first
    <3>2. draft[first] = wallet[first]
      BY <2>6, <3>1, FreshlyLocked DEF HeldAs, Staged
    <3>. QED  BY <1>1, <2>3, <2>7, <2>8, <3>1, <3>2 DEF Balanced
  <2>5. CASE LockSecond(r)
    <3>1. /\ pc[r] = "lockSecond" /\ Goto(r, "validate") /\ UNCHANGED <<wallet, draft>>
          /\ Grantable(r, second)
      BY <2>5 DEF LockSecond, LockRow, second
    <3>2. draft[first].balance = wallet[first].balance
      BY <2>3, <2>7, <2>8, <3>1 DEF Balanced
    <3>3. draft[second].balance = wallet[second].balance
      BY <2>6, <2>8, <3>1, <3>2, FreshlyLocked
    <3>. QED  BY <1>1, <2>3, <2>7, <2>8, <3>1, <3>2, <3>3 DEF Balanced
  <2>. QED  BY <1>11, <2>4, <2>5
<1>12. CASE ValidateUnderLock(r) \/ InsertTransfer(r)
  <2>1. CASE Goto(r, "sent")
    BY <1>3, <2>1
  <2>2. CASE ~Goto(r, "sent")
    <3>1. /\ pc[r] \in {"validate", "insertTransfer"} /\ UNCHANGED <<wallet, draft>>
          /\ Goto(r, "insertTransfer") \/ Goto(r, "debitLeg")
      BY <1>12, <2>2 DEF ValidateUnderLock, InsertTransfer, Refuse, Send, dbVars
    <3>2. \A label \in {"validate", "insertTransfer", "debitLeg"} :
            HeldAs(r, label) = {From(r), To(r)} /\ \A w : Unsettled(r, label, w) = 0
      BY DEF HeldAs, Staged, Unsettled
    <3>3. pc'[r] \in {"insertTransfer", "debitLeg"}
      BY <1>1, <3>1
    <3>. QED  BY <3>1, <3>2, <3>3 DEF Balanced
  <2>. QED  BY <2>1, <2>2
<1>13. CASE DebitLeg(r)
  <2>1. /\ pc[r] = "debitLeg" /\ Goto(r, "creditLeg") /\ wallet' = wallet
        /\ draft' = [draft EXCEPT ![From(r)] = Paid(draft[From(r)], r)]
    BY <1>13 DEF DebitLeg, WriteLeg, Paid
  <2>2. From(r) \in Wallets /\ To(r) \in Wallets
    BY <2>1 DEF BooksInv, Routed, RoutedAs, Staged, Known, OwnSide, IsTransfer
  <2>3. \A w \in {From(r), To(r)} : draft[w].balance = wallet[w].balance
    BY <1>5, <2>1, <2>2 DEF Balanced, Unsettled, HeldAs, Staged
  <2>4. \A w \in {From(r), To(r)} :
          draft'[w].balance = draft[w].balance + (IF w = From(r) THEN -req[r].amount ELSE 0)
    BY <1>4, <1>5, <2>1, <2>2 DEF Paid, Adjusted, Recorded, BooksInv, TypeOK, Account
  <2>5. /\ HeldAs(r, "creditLeg") = {From(r), To(r)}
        /\ \A w : Unsettled(r, "creditLeg", w) = IF w = From(r) THEN -req[r].amount ELSE 0
    BY DEF HeldAs, Staged, Unsettled
  <2>. QED  BY <1>1, <2>1, <2>3, <2>4, <2>5 DEF Balanced
<1>14. CASE CreditLeg(r)
  <2>1. CASE Refuse(r, "INTERNAL_ERROR")
    BY <1>3, <2>1 DEF Refuse, Send
  <2>2. CASE ~Refuse(r, "INTERNAL_ERROR")
    <3>1. /\ pc[r] = "creditLeg" /\ Goto(r, "commit") /\ wallet' = wallet
          /\ draft' = [draft EXCEPT ![To(r)] = Received(draft[To(r)], r)]
      BY <1>14, <2>2 DEF CreditLeg, WriteLeg, Received
    <3>2. From(r) \in Wallets /\ To(r) \in Wallets /\ IsTransfer(r)
      BY <3>1 DEF BooksInv, Routed, RoutedAs, Staged, Known, OwnSide, IsTransfer
    <3>. DEFINE paid(w) == IF w = From(r) THEN -req[r].amount ELSE 0
                received(w) == IF w = To(r) THEN req[r].amount ELSE 0
    <3>3. \A w \in {From(r), To(r)} : draft[w].balance = wallet[w].balance + paid(w)
      BY <3>1 DEF Balanced, Unsettled, HeldAs, Staged
    <3>4. \A w \in {From(r), To(r)} : draft'[w].balance = draft[w].balance + received(w)
      BY <1>4, <1>5, <3>1, <3>2 DEF Received, Adjusted, Recorded, BooksInv, TypeOK, Account
    <3>5. \A w \in {From(r), To(r)} :
            draft'[w].balance = wallet[w].balance + (paid(w) + received(w))
      BY <1>4, <1>5, <3>2, <3>3, <3>4
    <3>6. /\ HeldAs(r, "commit") = {From(r), To(r)}
          /\ \A w : Unsettled(r, "commit", w) = paid(w) + received(w)
      BY <3>2 DEF HeldAs, Staged, Unsettled
    <3>. QED  BY <1>1, <3>1, <3>5, <3>6 DEF Balanced
  <2>. QED  BY <2>1, <2>2
<1>. QED
  BY <1>6, <1>7, <1>8, <1>9, <1>10, <1>11, <1>12, <1>13, <1>14 DEF Handle

(* Other handlers' steps leave the rows it holds alone.                    *)
LEMMA InFlightStep ==
  ASSUME BooksInv, GrowthInv, InFlight, [Next]_vars
  PROVE  InFlight'
<1>0. req' = req
  BY StepKinds
<1>1. ASSUME NEW q \in Requests, Undisturbed(q) PROVE Balanced(q, pc'[q], draft', wallet')
  BY <1>1, HeldRowsStand DEF InFlight, Balanced, Undisturbed
<1>2. ASSUME NEW r \in Requests, NEW q \in Requests,
             Receive(r) \/ Handle(r) \/ Fail(r) \/ CommitUnacknowledged(r)
      PROVE  Balanced(q, pc'[q], draft', wallet')
  <2>1. CASE q = r
    BY <1>2, <2>1, OwnBalancedStep DEF InFlight
  <2>2. CASE q # r
    BY <1>1, <1>2, <2>2, StepActs, OthersUndisturbed
  <2>. QED  BY <2>1, <2>2
<1>3. ASSUME NEW q \in Requests, (\E w \in Wallets : SetStatus(w)) \/ UNCHANGED vars
      PROVE  Balanced(q, pc'[q], draft', wallet')
  <2>1. Stands
    BY <1>3 DEF Stands, SetStatus, vars, dbVars
  <2>. QED  BY <1>1, <2>1, OthersUndisturbed
<1>4. \A q \in Requests : Balanced(q, pc'[q], draft', wallet')
  BY <1>2, <1>3 DEF Next, Quiescent
<1>. QED  BY <1>0, <1>4, BalancedNext DEF InFlight

(* A commit adds to the balances what the request brought in from outside, *)
(* or took there: the legs of a transfer cancel out.                       *)
LEMMA CommitAdds ==
  ASSUME BooksInv, InFlight, NEW r \in Requests, Settles(r)
  PROVE  SumFunctionOnSet(Balances', Wallets)
           = SumFunctionOnSet(Balances, Wallets) + External(r)
<1>. DEFINE b == Balances
            c == Balances'
            a == req[r].amount
            Sum(f) == SumFunctionOnSet(f, Wallets)
<1>1. IsFiniteSet(Wallets)
  BY WalletAssumption
<1>2. pc[r] = "commit" /\ CommitTransaction(r) /\ a \in Int
  BY BodyFacts DEF Settles, BooksInv
<1>3. \A w \in Wallets : b[w] \in Int
  BY DEF Balances, BooksInv, TypeOK, Account
<1>4. Known(r)
  BY <1>2 DEF BooksInv, Routed, RoutedAs
<1>5. ASSUME NEW w \in Wallets
      PROVE  c[w] = IF w \in HeldAs(r, "commit") THEN b[w] + Unsettled(r, "commit", w) ELSE b[w]
  <2>1. lock[w] = r <=> w \in HeldAs(r, "commit")
    BY <1>2 DEF BooksInv, RowsInv, LocksHeld
  <2>2. wallet'[w] = IF lock[w] = r THEN draft[w] ELSE wallet[w]
    BY <1>2 DEF CommitTransaction
  <2>3. w \in HeldAs(r, "commit") => draft[w].balance = wallet[w].balance + Unsettled(r, "commit", w)
    BY <1>2 DEF InFlight, Balanced
  <2>. QED  BY <2>1, <2>2, <2>3 DEF Balances
<1>6. CASE ~IsTransfer(r)
  <2>. DEFINE w == OwnSide(r)
  <2>1. w \in Wallets /\ HeldAs(r, "commit") = {w} /\ Unsettled(r, "commit", w) = Delta(r)
    BY <1>4, <1>6 DEF Known, HeldAs, Staged, Unsettled
  <2>2. Delta(r) = External(r) /\ Delta(r) \in Int
    BY <1>2, <1>6, BodyFacts DEF Delta, External, IsTransfer, BooksInv, Op
  <2>. HIDE DEF b, c, w
  <2>3. c[w] = b[w] + External(r) /\ \A v \in Wallets \ {w} : c[v] = b[v]
    BY <1>5, <2>1, <2>2
  <2>4. \A v \in Wallets : b[v] \in Int /\ c[v] \in Int
    BY <1>3, <2>1, <2>2, <2>3
  <2>5. Sum(c) = Sum(b) + (c[w] - b[w])
    BY <1>1, <2>1, <2>3, <2>4, SumChange
  <2>6. c[w] - b[w] = External(r)
    BY <1>3, <2>1, <2>2, <2>3
  <2>. QED  BY <2>5, <2>6 DEF b, c
<1>7. CASE IsTransfer(r)
  <2>. DEFINE v == From(r)
              w == To(r)
  <2>1. v \in Wallets /\ w \in Wallets /\ HeldAs(r, "commit") = {v, w} /\ External(r) = 0
    BY <1>4, <1>7 DEF Known, OwnSide, HeldAs, Staged, External, IsTransfer
  <2>2. \A u : Unsettled(r, "commit", u) =
                 (IF u = v THEN -a ELSE 0) + (IF u = w THEN a ELSE 0)
    BY <1>7 DEF Unsettled
  <2>. HIDE DEF a, b, c, v, w
  <2>3. CASE v = w
    <3>1. \A u \in Wallets : c[u] = b[u]
      BY <1>2, <1>3, <1>5, <2>1, <2>2, <2>3
    <3>2. Sum(c) = Sum(b)
      BY <1>1, <3>1, SumSame
    <3>3. Sum(b) \in Int
      BY <1>1, <1>3, SumType
    <3>. QED  BY <2>1, <3>2, <3>3 DEF b, c
  <2>4. CASE v # w
    <3>. DEFINE m == [u \in Wallets |-> IF u = v THEN b[u] - a ELSE b[u]]
    <3>1. \A u \in Wallets : m[u] \in Int
      BY <1>2, <1>3
    <3>2. m[v] = b[v] - a /\ m[w] = b[w] /\ \A u \in Wallets \ {v} : m[u] = b[u]
      BY <2>1, <2>4
    <3>3. c[w] = b[w] + a /\ c[v] = b[v] - a /\ \A u \in Wallets \ {v, w} : c[u] = b[u]
      BY <1>2, <1>3, <1>5, <2>1, <2>2, <2>4
    <3>4. \A u \in Wallets : c[u] \in Int
      BY <1>2, <1>3, <2>1, <3>3
    <3>. HIDE DEF m
    <3>5. \A u \in Wallets \ {w} : c[u] = m[u]
      BY <2>1, <3>2, <3>3
    <3>6. Sum(m) = Sum(b) + (m[v] - b[v])
      BY <1>1, <1>3, <2>1, <3>1, <3>2, SumChange
    <3>7. Sum(c) = Sum(m) + (c[w] - m[w])
      BY <1>1, <2>1, <3>1, <3>4, <3>5, SumChange
    <3>8. m[v] - b[v] = -a /\ c[w] - m[w] = a
      BY <1>2, <1>3, <2>1, <3>2, <3>3
    <3>9. Sum(b) \in Int
      BY <1>1, <1>3, SumType
    <3>10. Sum(c) = Sum(b)
      BY <1>2, <3>6, <3>7, <3>8, <3>9
    <3>. QED  BY <2>1, <3>9, <3>10 DEF b, c
  <2>. QED  BY <2>3, <2>4
<1>. QED  BY <1>6, <1>7

(* It adds the same to what the committed requests brought in.             *)
LEMMA LogAdds ==
  ASSUME BooksInv, NEW r \in Requests, r \notin commitLog, IsFiniteSet(commitLog)
  PROVE  LET E == [q \in Requests |-> External(q)]
         IN  /\ IsFiniteSet(commitLog \cup {r})
             /\ SumFunctionOnSet(E, commitLog \cup {r})
                  = SumFunctionOnSet(E, commitLog) + External(r)
             /\ SumFunctionOnSet(E, commitLog) \in Int /\ External(r) \in Int
<1>. DEFINE E == [q \in Requests |-> External(q)]
            S == commitLog \cup {r}
<1>1. IsFiniteSet(S) /\ S \ {r} = commitLog /\ r \in S
  BY FS_AddElement
<1>2. \A q \in Requests : E[q] \in Int
  BY BodyFacts DEF External, BooksInv
<1>3. S \subseteq Requests
  BY DEF BooksInv, TypeOK
<1>. HIDE DEF E, S
<1>4. \A q \in S : E[q] \in Int
  BY <1>2, <1>3
<1>5. SumFunctionOnSet(E, S) = E[r] + SumFunctionOnSet(E, S \ {r})
  BY <1>1, <1>4, SumSplit
<1>6. SumFunctionOnSet(E, commitLog) \in Int
  BY <1>1, <1>4, SumType
<1>7. E[r] \in Int
  BY <1>2
<1>8. SumFunctionOnSet(E, S) = E[r] + SumFunctionOnSet(E, commitLog)
  BY <1>1, <1>5
<1>9. SumFunctionOnSet(E, S) = SumFunctionOnSet(E, commitLog) + E[r]
  BY <1>6, <1>7, <1>8
<1>. QED  BY <1>1, <1>6, <1>7, <1>9 DEF E, S

(* Between two commits nothing that the sums add up changes.               *)
FundsInv == InFlight /\ IsFiniteSet(commitLog) /\ FundsConserved

LEMMA FundsStep ==
  ASSUME BooksInv, GrowthInv, FundsInv, [Next]_vars
  PROVE  FundsInv'
<1>1. InFlight'
  BY InFlightStep DEF FundsInv
<1>2. req' = req
  BY StepKinds
<1>3. Quiet \/ \E r \in Requests : Touches(r)
  BY StepKinds
<1>4. [q \in Requests |-> External(q)]' = [q \in Requests |-> External(q)]
  BY <1>2 DEF External
<1>5. CASE UNCHANGED <<wallet, commitLog>>
  BY <1>1, <1>4, <1>5 DEF FundsInv, FundsConserved, Balances
<1>6. ASSUME NEW r \in Requests, Settles(r) PROVE FundsInv'
  <2>1. r \notin commitLog /\ commitLog' = commitLog \cup {r}
    BY <1>6 DEF Settles, CommitTransaction, GrowthInv
  <2>. DEFINE E == [q \in Requests |-> External(q)]
  <2>2. /\ IsFiniteSet(commitLog')
        /\ SumFunctionOnSet(E, commitLog') = SumFunctionOnSet(E, commitLog) + External(r)
        /\ SumFunctionOnSet(E, commitLog) \in Int /\ External(r) \in Int
    BY <2>1, LogAdds DEF FundsInv
  <2>3. SumFunctionOnSet(Balances', Wallets)
          = SumFunctionOnSet(Balances, Wallets) + External(r)
    BY <1>6, CommitAdds DEF FundsInv
  <2>4. SumFunctionOnSet(Opening, Wallets) \in Int
    BY WalletAssumption, OpeningAssumption, SumType
  <2>. HIDE DEF E
  <2>5. SumFunctionOnSet(Balances, Wallets)
          = SumFunctionOnSet(Opening, Wallets) + SumFunctionOnSet(E, commitLog)
    BY DEF FundsInv, FundsConserved, E
  <2>6. SumFunctionOnSet(Balances', Wallets)
          = SumFunctionOnSet(Opening, Wallets) + SumFunctionOnSet(E, commitLog')
    BY <2>2, <2>3, <2>4, <2>5
  <2>7. FundsConserved'
    BY <1>4, <2>6 DEF FundsConserved, E
  <2>. QED  BY <1>1, <2>2, <2>7 DEF FundsInv
<1>7. ASSUME NEW r \in Requests, Touches(r), ~Settles(r) PROVE UNCHANGED <<wallet, commitLog>>
  BY <1>7 DEF Touches, Abandons, Rollback, InsertEntry, InsertTransfer, Debits, Credits, Leg
<1>. QED  BY <1>3, <1>5, <1>6, <1>7 DEF Quiet

(* At first the wallets hold what was there first.                         *)
LEMMA InitFunds == Init => FundsInv
<1>. SUFFICES ASSUME Init PROVE FundsInv
  OBVIOUS
<1>1. InFlight
  BY HeldRowsFree DEF Init, InFlight, Balanced, Staged
<1>2. IsFiniteSet(commitLog)
  BY FS_EmptySet DEF Init
<1>3. \A w \in Wallets : Balances[w] = Opening[w] /\ Opening[w] \in Int
  BY OpeningAssumption DEF Init, Balances
<1>4. SumFunctionOnSet(Balances, Wallets) = SumFunctionOnSet(Opening, Wallets)
  BY <1>3, WalletAssumption, SumSame
<1>5. SumFunctionOnSet(Opening, Wallets) \in Int
  BY <1>3, WalletAssumption, SumType
<1>6. commitLog = {}
  BY DEF Init
<1>7. SumFunctionOnSet([r \in Requests |-> External(r)], commitLog) = 0
  BY <1>6, SumEmpty
<1>8. FundsConserved
  BY <1>4, <1>5, <1>7 DEF FundsConserved
<1>. QED  BY <1>1, <1>2, <1>8 DEF FundsInv

(* Funds are conserved, however many handlers and wallets there are and    *)
(* however the clients spell the ids: what the wallets hold together is    *)
(* what was there first, plus the deposits and minus the withdrawals that  *)
(* committed.                                                              *)
THEOREM FundsAreConserved == Spec => []FundsConserved
<1>1. Init => FundsInv
  BY InitFunds
<1>2. BooksInv /\ GrowthInv /\ FundsInv /\ [Next]_vars => FundsInv'
  BY FundsStep
<1>3. FundsInv => FundsConserved
  BY DEF FundsInv
<1>. QED  BY <1>1, <1>2, <1>3, KeysAreKept, PTL DEF Spec
=============================================================================
