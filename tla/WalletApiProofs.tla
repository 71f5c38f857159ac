--------------------------- MODULE WalletApiProofs ---------------------------
(***************************************************************************)
(* For any number of requests of any kind: one wallet per user and         *)
(* currency, no effect without authentication and validation, and answers  *)
(* that are true of the database.                                          *)
(***************************************************************************)
EXTENDS WalletApi, TLAPS

-----------------------------------------------------------------------------
(* The unique index is enough, wherever the handlers are.                  *)
LEMMA InsertKeepsUnique ==
  ASSUME OneWalletPerCurrency, NEW r \in Requests, ~Conflicts(r),
         wallets' = wallets \cup {NewRow(r)}
  PROVE  OneWalletPerCurrency'
<1>. SUFFICES ASSUME NEW w \in wallets', NEW x \in wallets',
                     w.user = x.user, w.currency = x.currency
              PROVE  w = x
  BY DEF OneWalletPerCurrency
<1>1. NewRow(r).user = req[r].user /\ NewRow(r).currency = req[r].currency
  BY DEF NewRow
<1>2. CASE w \in wallets /\ x \in wallets
  BY <1>2 DEF OneWalletPerCurrency
<1>3. CASE w = NewRow(r) \/ x = NewRow(r)
  BY <1>1, <1>3 DEF Conflicts
<1>. QED  BY <1>2, <1>3

(* Rows of wallets are written by insertions only.                         *)
LEMMA OthersKeepWallets ==
  ASSUME Next
  PROVE  \/ wallets' = wallets
         \/ \E r \in Requests : ~Conflicts(r) /\ wallets' = wallets \cup {NewRow(r)}
<1>1. ASSUME NEW r \in Requests, Create(r) \/ CreateUnacknowledged(r)
      PROVE  \/ wallets' = wallets
             \/ ~Conflicts(r) /\ wallets' = wallets \cup {NewRow(r)}
  BY <1>1 DEF Create, CreateUnacknowledged
<1>2. ASSUME NEW r \in Requests,
             \/ Arrive(r) \/ Limit(r) \/ FindByUserAndCurrency(r) \/ ListWallets(r)
             \/ ListTransfers(r) \/ Move(r) \/ MoveUnacknowledged(r) \/ Fail(r)
      PROVE  wallets' = wallets
  BY <1>2 DEF Arrive, Limit, FindByUserAndCurrency, ListWallets, ListTransfers, Move,
     MoveUnacknowledged, Fail
<1>3. ASSUME NEW r \in Requests,
             GetWallet(r) \/ GetTransaction(r) \/ ListTransactions(r) \/ GetTransfer(r)
      PROVE  wallets' = wallets
  BY <1>3 DEF GetWallet, GetTransaction, ListTransactions, GetTransfer, Get
<1>4. Quiescent => wallets' = wallets
  BY DEF Quiescent, vars
<1>. QED  BY <1>1, <1>2, <1>3, <1>4 DEF Next, Handle

(* One wallet per user and currency (wallet.create.service.js, and the     *)
(* unique index behind it).                                                *)
THEOREM WalletsAreUnique == Spec => []OneWalletPerCurrency
<1>1. Init => OneWalletPerCurrency
  BY ApiAssumption DEF Init, OneWalletPerCurrency
<1>2. OneWalletPerCurrency /\ [Next]_vars => OneWalletPerCurrency'
  <2>1. CASE UNCHANGED vars
    BY <2>1 DEF vars, OneWalletPerCurrency
  <2>2. CASE Next
    BY <2>2, OthersKeepWallets, InsertKeepsUnique DEF OneWalletPerCurrency
  <2>. QED  BY <2>1, <2>2
<1>. QED  BY <1>1, <1>2, PTL DEF Spec

-----------------------------------------------------------------------------
(* What the chain of a route that writes lets through.                     *)
Sound(q) ==
  /\ q.token = "valid"
  /\ q.form = "clear" \/ (q.form = "sealed" /\ EncryptionEnabled)
  /\ q.fields # "invalid"
Writing == {"wallet:create"} \cup Moves

(* Every route that writes runs the same middleware.                       *)
LEMMA ChainOfWrites ==
  ASSUME NEW q, q.route \in Writing
  PROVE  Chain(q) = WithBody
<1>1. /\ DOMAIN WalletRoutes = {"wallet:create", "wallet:list", "wallet:get"}
      /\ DOMAIN TransactionRoutes = {"txn:deposit", "txn:withdraw", "txn:list", "txn:get"}
      /\ DOMAIN TransferRoutes = {"transfer:create", "transfer:list", "transfer:get"}
  BY DEF WalletRoutes, TransactionRoutes, TransferRoutes
<1>2. WalletRoutes["wallet:create"] = WithBody
  BY DEF WalletRoutes
<1>3. TransactionRoutes["txn:deposit"] = WithBody /\ TransactionRoutes["txn:withdraw"] = WithBody
  BY DEF TransactionRoutes, Moves
<1>4. TransferRoutes["transfer:create"] = WithBody
  BY DEF TransferRoutes, Moves
<1>5. CASE q.route = "wallet:create"
  BY <1>1, <1>2, <1>5 DEF Chain
<1>6. CASE q.route \in {"txn:deposit", "txn:withdraw"}
  <2>1. q.route \in DOMAIN TransactionRoutes /\ q.route \notin DOMAIN WalletRoutes
    BY <1>1, <1>6
  <2>2. TransactionRoutes[q.route] = WithBody
    BY <1>3, <1>6
  <2>3. q.route \notin DOMAIN TransferRoutes
    BY <1>1, <1>6
  <2>. QED  BY <2>1, <2>2, <2>3 DEF Chain
<1>7. CASE q.route = "transfer:create"
  BY <1>1, <1>4, <1>7 DEF Chain
<1>. QED  BY <1>5, <1>6, <1>7 DEF Writing, Moves

(* Only a valid token passes auth.                                         *)
LEMMA AuthPasses ==
  ASSUME NEW q \in Request, AuthError(q) = "next"
  PROVE  q.token = "valid"
<1>1. q.token \in {"missing", "invalid", "expired", "valid"}
  BY DEF Request
<1>2. q.token = "missing" => AuthError(q) = "AUTH_TOKEN_MISSING"
  BY DEF AuthError
<1>3. q.token = "expired" => AuthError(q) = "AUTH_TOKEN_EXPIRED"
  BY DEF AuthError
<1>4. q.token = "invalid" => AuthError(q) = "AUTH_TOKEN_INVALID"
  BY DEF AuthError
<1>. QED  BY <1>1, <1>2, <1>3, <1>4

(* What that chain admits is authenticated, decrypted and valid.           *)
LEMMA AdmittedIsSound ==
  ASSUME NEW q \in Request, q.route \in Writing, Admits(q)
  PROVE  Sound(q)
<1>1. Chain(q) = WithBody
  BY ChainOfWrites
<1>2. Len(Chain(q)) = 5 /\ Chain(q)[3] = "auth" /\ Chain(q)[4] = "encryption"
        /\ Chain(q)[5] = "validate"
  BY <1>1 DEF WithBody
<1>3. Result(q, 3) = "next" /\ Result(q, 5) = "next"
  BY <1>2 DEF Admits
<1>4. AuthError(q) = "next"
  BY <1>2, <1>3 DEF Result
<1>5. q.token = "valid"
  BY <1>4, AuthPasses
<1>6. Before(q, 5) = Opened(q)
  <2>1. 4 \in 1 .. 5 - 1
    BY SMT
  <2>2. \E j \in 1 .. 5 - 1 : Chain(q)[j] = "encryption"
    BY <1>2, <2>1, Zenon
  <2>. QED  BY <2>2 DEF Before
<1>7. ValidationError(Opened(q)) = "next"
  BY <1>2, <1>3, <1>6 DEF Result
<1>8. ValidAmount(Opened(q)) \/ ValidCurrency(Opened(q)) \/ ValidParams(Opened(q))
  BY <1>7 DEF ValidationError
<1>9. Opened(q).route = q.route /\ Opened(q).fields = q.fields
  BY DEF Opened, Request
<1>10. Opened(q).route \notin Gets
  BY <1>9 DEF Writing, Moves, Gets
<1>11. ValidAmount(Opened(q)) \/ ValidCurrency(Opened(q))
  BY <1>7, <1>10 DEF ValidationError
<1>12. Opened(q).form = "clear" /\ q.fields # "invalid"
  BY <1>9, <1>11 DEF ValidAmount, IsValidAmount, ValidCurrency
<1>13. q.form = "clear" \/ (q.form = "sealed" /\ EncryptionEnabled)
  BY <1>12 DEF Opened, Decrypts
<1>. QED  BY <1>5, <1>12, <1>13 DEF Sound

(* Handlers that may still write, and those that have written, were let    *)
(* through.                                                                *)
AdmissionInv ==
  /\ req \in [Requests -> Request]
  /\ \A r \in Requests : pc[r] = "limiter" => req[r].route # "none"
  /\ \A r \in Requests : pc[r] \in {"find", "insert", "move"} => Sound(req[r])
  /\ EffectsAdmitted

(* A handler leaves its place for another one, or for the end.             *)
LEMMA Leaves ==
  ASSUME NEW r \in Requests, NEW code, NEW ids, Respond(r, code, ids), NEW q \in Requests
  PROVE  /\ pc'[q] \in {"find", "insert", "move"} => pc[q] \in {"find", "insert", "move"}
         /\ pc'[q] = "limiter" => pc[q] = "limiter"
  BY DEF Respond

(* An answer changes nothing that an effect depends on.                    *)
LEMMA RespondKeeps ==
  ASSUME AdmissionInv, NEW r \in Requests, NEW code, NEW ids, Respond(r, code, ids),
         UNCHANGED req, EffectsAdmitted'
  PROVE  AdmissionInv'
  BY Leaves, Zenon DEF AdmissionInv

(* Neither does a step that writes nothing.                                *)
LEMMA EffectsKept ==
  ASSUME AdmissionInv, UNCHANGED <<req, wallets, moved>>
  PROVE  EffectsAdmitted'
  BY DEF AdmissionInv, EffectsAdmitted

(* A movement of a sound request is a sound effect.                        *)
LEMMA MovedKeeps ==
  ASSUME AdmissionInv, NEW r \in Requests, Sound(req[r]), UNCHANGED <<req, wallets>>,
         moved' = moved \cup {r}
  PROVE  EffectsAdmitted'
  BY DEF AdmissionInv, EffectsAdmitted, Sound

(* So is a wallet that a sound request creates.                            *)
LEMMA InsertedKeeps ==
  ASSUME AdmissionInv, NEW r \in Requests, Sound(req[r]), UNCHANGED <<req, moved>>,
         wallets' = wallets \cup {NewRow(r)}
  PROVE  EffectsAdmitted'
<1>1. NewRow(r).id = r
  BY DEF NewRow
<1>. QED  BY <1>1 DEF AdmissionInv, EffectsAdmitted, Sound

(* The controllers that write are those of the routes that write.          *)
LEMMA ReadsDoNotWrite ==
  ASSUME NEW q \in Request, q.route # "none",
         Controller(q.route) \in {"find", "insert", "move"}
  PROVE  q.route \in Writing
<1>1. q.route \in Routes
  BY DEF Request
<1>2. ASSUME q.route \in Gets PROVE Controller(q.route) = "read"
  <2>1. q.route # "wallet:create" /\ q.route \notin Moves
    BY <1>2 DEF Gets, Moves
  <2>. QED  BY <1>2, <2>1, Zenon DEF Controller
<1>. QED  BY <1>1, <1>2 DEF Routes, Writing

(* No step of a handler breaks the invariant.                              *)
LEMMA AdmissionStep ==
  ASSUME AdmissionInv, NEW r \in Requests,
         Arrive(r) \/ Limit(r) \/ Handle(r) \/ Fail(r)
  PROVE  AdmissionInv'
<1>1. CASE Arrive(r)
  <2>1. EffectsAdmitted'
    BY <1>1, EffectsKept DEF Arrive
  <2>2. req' = req
    BY <1>1 DEF Arrive
  <2>3. CASE Throw(r, "SyntaxError") \/ Throw(r, "NOT_FOUND")
    BY <2>1, <2>2, <2>3, RespondKeeps DEF Throw
  <2>4. CASE req[r].route # "none" /\ pc' = [pc EXCEPT ![r] = "limiter"]
    BY <2>1, <2>2, <2>4 DEF AdmissionInv
  <2>. QED  BY <1>1, <2>3, <2>4 DEF Arrive, Unrouted
<1>2. CASE Limit(r)
  <2>1. EffectsAdmitted' /\ req' = req
    BY <1>2, EffectsKept DEF Limit
  <2>0. req[r] \in Request /\ req[r].route # "none"
    BY <1>2 DEF Limit, AdmissionInv
  <2>2. CASE pc' = [pc EXCEPT ![r] = Controller(req[r].route)] /\ Admits(req[r])
    <3>1. Controller(req[r].route) \in {"find", "insert", "move"} => req[r].route \in Writing
      BY <2>0, ReadsDoNotWrite
    <3>2. Controller(req[r].route) \in {"find", "insert", "move"} => Sound(req[r])
      BY <2>0, <2>2, <3>1, AdmittedIsSound
    <3>3. Controller(req[r].route) # "limiter"
      BY <2>0 DEF Controller, Request, Routes, Moves, Gets
    <3>. QED  BY <2>1, <2>2, <3>2, <3>3 DEF AdmissionInv
  <2>3. CASE \E code : Throw(r, code)
    BY <2>1, <2>3, RespondKeeps DEF Throw
  <2>. QED  BY <1>2, <2>2, <2>3 DEF Limit
<1>3. CASE FindByUserAndCurrency(r)
  <2>1. EffectsAdmitted' /\ req' = req
    BY <1>3, EffectsKept DEF FindByUserAndCurrency
  <2>2. CASE Throw(r, "WALLET_ALREADY_EXISTS")
    BY <2>1, <2>2, RespondKeeps DEF Throw
  <2>3. CASE pc[r] = "find" /\ pc' = [pc EXCEPT ![r] = "insert"]
    BY <2>1, <2>3 DEF AdmissionInv
  <2>. QED  BY <1>3, <2>2, <2>3 DEF FindByUserAndCurrency
<1>4. CASE Create(r) \/ CreateUnacknowledged(r)
  <2>1. Sound(req[r])
    BY <1>4 DEF Create, CreateUnacknowledged, AdmissionInv
  <2>2. req' = req /\ moved' = moved
          /\ (wallets' = wallets \/ wallets' = wallets \cup {NewRow(r)})
    BY <1>4 DEF Create, CreateUnacknowledged
  <2>3. EffectsAdmitted'
    BY <2>1, <2>2, EffectsKept, InsertedKeeps
  <2>4. \E code, ids : Respond(r, code, ids)
    BY <1>4 DEF Create, CreateUnacknowledged, Throw
  <2>. QED  BY <2>2, <2>3, <2>4, RespondKeeps
<1>5. CASE \/ GetWallet(r) \/ GetTransaction(r) \/ ListTransactions(r) \/ GetTransfer(r)
           \/ ListWallets(r) \/ ListTransfers(r) \/ Fail(r)
  <2>1. UNCHANGED <<req, wallets, moved>> /\ \E code, ids : Respond(r, code, ids)
    BY <1>5 DEF GetWallet, GetTransaction, ListTransactions, GetTransfer, Get, ListWallets,
       ListTransfers, Fail, Throw
  <2>. QED  BY <2>1, EffectsKept, RespondKeeps
<1>6. CASE Move(r) \/ MoveUnacknowledged(r)
  <2>1. Sound(req[r])
    BY <1>6 DEF Move, MoveUnacknowledged, AdmissionInv
  <2>2. /\ UNCHANGED <<req, wallets>>
        /\ moved' = moved \/ moved' = moved \cup {r}
        /\ \E code, ids : Respond(r, code, ids)
    BY <1>6 DEF Move, MoveUnacknowledged, Throw
  <2>3. EffectsAdmitted'
    BY <2>1, <2>2, EffectsKept, MovedKeeps
  <2>. QED  BY <2>2, <2>3, RespondKeeps
<1>. QED  BY <1>1, <1>2, <1>3, <1>4, <1>5, <1>6 DEF Handle

(* Whatever clients send and however they interleave, what changes the     *)
(* database came authenticated and validated (README: request flow).       *)
THEOREM OnlyAdmittedTakeEffect == Spec => []EffectsAdmitted
<1>1. Init => AdmissionInv
  <2>. SUFFICES ASSUME Init PROVE AdmissionInv
    OBVIOUS
  <2>1. req \in [Requests -> Request]
    BY ApiAssumption DEF Init
  <2>2. EffectsAdmitted
    BY ApiAssumption DEF Init, EffectsAdmitted
  <2>. QED  BY <2>1, <2>2 DEF Init, AdmissionInv
<1>2. AdmissionInv /\ [Next]_vars => AdmissionInv'
  <2>1. ASSUME AdmissionInv, UNCHANGED vars PROVE AdmissionInv'
    BY <2>1 DEF vars, AdmissionInv, EffectsAdmitted
  <2>2. ASSUME AdmissionInv, Next PROVE AdmissionInv'
    BY <2>1, <2>2, AdmissionStep DEF Next, Quiescent
  <2>. QED  BY <2>1, <2>2
<1>3. AdmissionInv => EffectsAdmitted
  BY DEF AdmissionInv
<1>. QED  BY <1>1, <1>2, <1>3, PTL DEF Spec

-----------------------------------------------------------------------------
(* Every route that reads runs the query's middleware, or no validation.   *)
LEMMA ChainOfReads ==
  ASSUME NEW q, q.route \in Gets
  PROVE  Chain(q) = WithQuery \/ Chain(q) = <<"ipTracker", "rateLimiter", "auth">>
<1>1. /\ DOMAIN WalletRoutes = {"wallet:create", "wallet:list", "wallet:get"}
      /\ DOMAIN TransactionRoutes = {"txn:deposit", "txn:withdraw", "txn:list", "txn:get"}
      /\ DOMAIN TransferRoutes = {"transfer:create", "transfer:list", "transfer:get"}
  BY DEF WalletRoutes, TransactionRoutes, TransferRoutes
<1>2. /\ WalletRoutes["wallet:list"] = <<"ipTracker", "rateLimiter", "auth">>
      /\ WalletRoutes["wallet:get"] = WithQuery
  BY DEF WalletRoutes
<1>3. TransactionRoutes["txn:list"] = WithQuery /\ TransactionRoutes["txn:get"] = WithQuery
  BY DEF TransactionRoutes, Moves
<1>4. /\ TransferRoutes["transfer:list"] = WithQuery
      /\ TransferRoutes["transfer:get"] = WithQuery
  BY DEF TransferRoutes, Moves
<1>5. CASE q.route \in {"wallet:list", "wallet:get"}
  <2>1. Chain(q) = WalletRoutes[q.route]
    BY <1>1, <1>5 DEF Chain
  <2>. QED  BY <1>2, <1>5, <2>1
<1>6. CASE q.route \in {"txn:list", "txn:get"}
  <2>1. /\ q.route \in DOMAIN TransactionRoutes
        /\ q.route \notin DOMAIN WalletRoutes /\ q.route \notin DOMAIN TransferRoutes
    BY <1>1, <1>6
  <2>2. Chain(q) = TransactionRoutes[q.route]
    BY <2>1 DEF Chain
  <2>. QED  BY <1>3, <1>6, <2>2
<1>7. CASE q.route \in {"transfer:list", "transfer:get"}
  <2>1. /\ q.route \in DOMAIN TransferRoutes
        /\ q.route \notin DOMAIN WalletRoutes /\ q.route \notin DOMAIN TransactionRoutes
    BY <1>1, <1>7
  <2>2. Chain(q) = TransferRoutes[q.route]
    BY <2>1 DEF Chain
  <2>. QED  BY <1>4, <1>7, <2>2
<1>. QED  BY <1>5, <1>6, <1>7 DEF Gets

(* Every chain has auth in its third place, the reads' as well.            *)
LEMMA AdmittedIsAuthenticated ==
  ASSUME NEW q \in Request, q.route # "none", Admits(q)
  PROVE  q.token = "valid"
<1>1. Chain(q) \in {WithBody, WithQuery, <<"ipTracker", "rateLimiter", "auth">>}
  BY ChainOfWrites, ChainOfReads DEF Request, Routes, Writing
<1>2. 3 \in 1 .. Len(Chain(q)) /\ Chain(q)[3] = "auth"
  <2>1. CASE Chain(q) = WithBody
    BY <2>1 DEF WithBody
  <2>2. CASE Chain(q) = WithQuery
    BY <2>2 DEF WithQuery
  <2>3. CASE Chain(q) = <<"ipTracker", "rateLimiter", "auth">>
    BY <2>3
  <2>. QED  BY <1>1, <2>1, <2>2, <2>3
<1>3. Result(q, 3) = "next"
  BY <1>2 DEF Admits
<1>4. AuthError(q) = "next"
  BY <1>2, <1>3 DEF Result
<1>. QED  BY <1>4, AuthPasses

(* The middleware refuses with its own errors, and no others.              *)
Refusals ==
  {"AUTH_TOKEN_MISSING", "AUTH_TOKEN_EXPIRED", "AUTH_TOKEN_INVALID", "ENCRYPTION_ERROR",
   "VALIDATION_ERROR"}
LEMMA RefusalCodes ==
  ASSUME NEW q \in Request, NEW code, Refuses(q, code)
  PROVE  code \in Refusals
<1>1. PICK i \in 1 .. Len(Chain(q)) : code = Result(q, i) /\ code # "next"
  BY DEF Refuses
<1>2. AuthError(q) \in Refusals \cup {"next"}
  BY DEF AuthError, Request, Refusals
<1>3. EncryptionError(q) \in Refusals \cup {"next"}
  BY DEF EncryptionError, Refusals
<1>4. ValidationError(Before(q, i)) \in Refusals \cup {"next"}
  BY DEF ValidationError, Refusals
<1>. QED  BY <1>1, <1>2, <1>3, <1>4 DEF Result

(* What is called invalid is invalid once it is decrypted.                 *)
Unfit(q) ==
  q.fields = "invalid" \/ q.form = "garbled" \/ (q.form = "sealed" /\ ~EncryptionEnabled)
LEMMA InvalidIsUnfit ==
  ASSUME NEW q \in Request, q.route # "none", q.form # "malformed",
         Refuses(q, "VALIDATION_ERROR")
  PROVE  Unfit(q)
<1>1. PICK i \in 1 .. Len(Chain(q)) : "VALIDATION_ERROR" = Result(q, i)
  BY DEF Refuses
<1>2. AuthError(q) # "VALIDATION_ERROR" /\ EncryptionError(q) # "VALIDATION_ERROR"
  BY DEF AuthError, EncryptionError, Request
<1>3. Chain(q)[i] = "validate" /\ ValidationError(Before(q, i)) = "VALIDATION_ERROR"
  BY <1>1, <1>2 DEF Result
<1>4. CASE q.route \in Writing
  <2>1. Chain(q) = WithBody
    BY <1>4, ChainOfWrites
  <2>2. Len(Chain(q)) = 5 /\ i = 5 /\ Chain(q)[4] = "encryption"
    BY <1>1, <1>3, <2>1 DEF WithBody
  <2>3. Before(q, i) = Opened(q)
    <3>1. 4 \in 1 .. i - 1
      BY <2>2
    <3>. QED  BY <2>2, <3>1, Zenon DEF Before
  <2>4. Opened(q).route = q.route /\ Opened(q).fields = q.fields
    BY DEF Opened, Request
  <2>5. ~ValidAmount(Opened(q)) \/ ~ValidCurrency(Opened(q))
    BY <1>3, <1>4, <2>3, <2>4 DEF ValidationError, Writing
  <2>6. Opened(q).form # "clear" \/ q.fields = "invalid"
    BY <2>4, <2>5 DEF ValidAmount, IsValidAmount, ValidCurrency, Request
  <2>. QED  BY <2>6 DEF Opened, Decrypts, Unfit, Request
<1>5. CASE q.route \in Gets
  <2>1. \A j \in 1 .. i - 1 : Chain(q)[j] # "encryption"
    BY <1>1, <1>5, ChainOfReads DEF WithQuery
  <2>2. Before(q, i) = q
    BY <2>1 DEF Before
  <2>. QED  BY <1>3, <1>5, <2>2 DEF ValidationError, ValidParams, Unfit
<1>. QED  BY <1>4, <1>5 DEF Request, Routes, Writing

(* What the error handler sends is a code.                                 *)
LEMMA ErrorCodes ==
  /\ \A err : ErrorCode(err) \in Codes \ {"none", "OK", "CREATED"}
  /\ \A err \in AppErrors : ErrorCode(err) = err
  /\ \A err \in {"SyntaxError", "P2002", "ConnectionError", "DecimalError"} :
       ErrorCode(err) = "INTERNAL_ERROR"
BY DEF ErrorCode, AppErrors, Codes

(* Only an error that is no AppError has the status 500.                   *)
LEMMA ServerErrors ==
  \A code \in Codes : Status(code) >= 500 => code = "INTERNAL_ERROR"
BY DEF Status, Codes, AppErrors

-----------------------------------------------------------------------------
(* What is so of a request when the answer (code, ids) is sent, and stays  *)
(* so: the conjuncts of the properties below, of one request.              *)
HasRow(i) == \E w \in wallets : w.id = i /\ w.user = req[i].user
ShowsMine(r, ids) == \A i \in ids : Mine(r, i)
CreatedThat(r, code, ids) == code = "CREATED" => \A i \in ids : i = r /\ HasRow(r)
ExistsThere(r, code) ==
  code = "WALLET_ALREADY_EXISTS" =>
    \E w \in wallets : w.id # r /\ w.user = req[r].user /\ w.currency = req[r].currency
NothingDone(r) == r \notin moved /\ \A w \in wallets : w.id # r
ChangedNothing(r, code) ==
  (code \notin {"none", "CREATED"} /\ r \notin failed) => NothingDone(r)
SeesKnown(r, code, ids) ==
  \A i \in known[r] : req[i].user = req[r].user =>
    /\ (req[r].route = "wallet:list" /\ code = "OK") => i \in ids
    /\ req[r].id = i => code # "WALLET_NOT_FOUND" \/ req[r].route \in Moves
Caused(r) ==
  \/ r \in failed
  \/ req[r].form = "malformed"
  \/ req[r].route \in Moves /\ req[r].fields = "padded"
  \/ req[r].route = "wallet:create" /\ Taken(r) # {}
Truthful(r, code, ids) ==
  /\ code \in Codes \cup {"none"} /\ ids \subseteq Ids
  /\ CreatedThat(r, code, ids) /\ ShowsMine(r, ids)
  /\ ExistsThere(r, code)
  /\ ChangedNothing(r, code)
  /\ code = "VALIDATION_ERROR" => Unfit(req[r])
  /\ code \in {"OK", "CREATED"} => req[r].token = "valid"
  /\ SeesKnown(r, code, ids)
  /\ code = "INTERNAL_ERROR" => Caused(r)

(* Where a handler is says what it may still do, and that it did nothing.  *)
Placed(r) ==
  /\ pc[r] \notin {"unsent", "sent"} => req[r].form # "malformed" /\ req[r].route # "none"
  /\ pc[r] \notin {"unsent", "limiter", "sent"} => req[r].token = "valid"
  /\ pc[r] \in {"find", "insert"} => req[r].route = "wallet:create"
  /\ pc[r] = "move" => req[r].route \in Moves
  /\ pc[r] # "sent" => answer[r] = None /\ r \notin failed /\ NothingDone(r)
Knows(r) == \A i \in known[r] : i \in Requests /\ HasRow(i)

(* Rows are seeded, or of a creation that was told of its row or failed.   *)
RowsInv ==
  \A w \in wallets :
    \/ w \in Seeded
    \/ /\ w.id \in Requests /\ w.user = req[w.id].user
       /\ answer[w.id].code = "CREATED" \/ w.id \in failed

ApiInv ==
  /\ TypeOK
  /\ RowsInv
  /\ \A r \in Requests :
       Placed(r) /\ Knows(r) /\ Truthful(r, answer[r].code, answer[r].shows)

(* A request's own row is its own; other rows stay what they are.          *)
Adds(r) ==
  /\ req' = req
  /\ wallets' = wallets \/ wallets' = wallets \cup {NewRow(r)}
  /\ moved' = moved \/ moved' = moved \cup {r}
  /\ failed' = failed \/ failed' = failed \cup {r}

LEMMA RowsGrow ==
  ASSUME NEW r \in Requests, Adds(r)
  PROVE  /\ wallets \subseteq wallets'
         /\ \A w \in wallets' : w \in wallets \/ (w.id = r /\ w = NewRow(r))
         /\ \A i : HasRow(i) => HasRow(i)'
         /\ \A q, i : Mine(q, i) => Mine(q, i)'
         /\ \A q : Taken(q) # {} => (Taken(q))' # {}
<1>1. /\ req' = req /\ wallets \subseteq wallets'
      /\ \A w \in wallets' : w \in wallets \/ w = NewRow(r)
  BY DEF Adds
<1>2. NewRow(r).id = r
  BY DEF NewRow
<1>3. \A q : Taken(q) \subseteq (Taken(q))'
  BY <1>1 DEF Taken
<1>. QED  BY <1>1, <1>2, <1>3 DEF HasRow, Mine

(* What was answered to one request stays true when another one acts.      *)
LEMMA StaysTrue ==
  ASSUME NEW r \in Requests, Adds(r), NEW q \in Requests, q # r,
         UNCHANGED known[q],
         NEW code, NEW ids, Truthful(q, code, ids)
  PROVE  Truthful(q, code, ids)'
<1>1. req' = req
  BY DEF Adds
<1>2. CreatedThat(q, code, ids)' /\ ShowsMine(q, ids)'
  BY RowsGrow DEF Truthful, CreatedThat, ShowsMine
<1>3. ExistsThere(q, code)'
  BY <1>1, RowsGrow DEF Truthful, ExistsThere
<1>4. NothingDone(q) => NothingDone(q)'
  BY RowsGrow DEF NothingDone, Adds
<1>5. ChangedNothing(q, code)'
  BY <1>4 DEF Truthful, ChangedNothing, Adds
<1>6. SeesKnown(q, code, ids)'
  BY <1>1 DEF Truthful, SeesKnown
<1>7. code = "INTERNAL_ERROR" => Caused(q)'
  BY <1>1, RowsGrow DEF Truthful, Caused, Adds
<1>. QED  BY <1>1, <1>2, <1>3, <1>5, <1>6, <1>7 DEF Truthful

(* So does everything else that is known of the others.                    *)
LEMMA OthersKeep ==
  ASSUME ApiInv, NEW r \in Requests, Adds(r), NEW q \in Requests, q # r,
         UNCHANGED <<known[q], pc[q], answer[q]>>
  PROVE  Placed(q)' /\ Knows(q)' /\ Truthful(q, answer[q].code, answer[q].shows)'
<1>1. req' = req
  BY DEF Adds
<1>2. NothingDone(q) => NothingDone(q)'
  BY RowsGrow DEF NothingDone, Adds
<1>3. Placed(q)'
  BY <1>1, <1>2 DEF ApiInv, Placed, Adds
<1>4. Knows(q)'
  BY RowsGrow DEF ApiInv, Knows
<1>5. Truthful(q, answer[q].code, answer[q].shows)'
  <2>1. PICK code, ids : code = answer[q].code /\ ids = answer[q].shows
    OBVIOUS
  <2>2. Truthful(q, code, ids)
    BY <2>1 DEF ApiInv
  <2>3. Truthful(q, code, ids)'
    BY <2>2, StaysTrue
  <2>4. answer'[q].code = code /\ answer'[q].shows = ids
    BY <2>1
  <2>. QED  BY <2>3, <2>4 DEF Truthful, CreatedThat, ShowsMine, ExistsThere,
                              ChangedNothing, SeesKnown
<1>. QED  BY <1>3, <1>4, <1>5

(* The step of a handler keeps the invariant if it keeps the handler's own *)
(* part of it, and tells of the row that it adds.                          *)
LEMMA HandlerKeeps ==
  ASSUME ApiInv, NEW r \in Requests, Adds(r), TypeOK', pc[r] # "sent",
         \A q \in Requests \ {r} : UNCHANGED <<known[q], pc[q], answer[q]>>,
         wallets' # wallets => answer'[r].code = "CREATED" \/ r \in failed',
         Placed(r)' /\ Knows(r)' /\ Truthful(r, answer[r].code, answer[r].shows)'
  PROVE  ApiInv'
<1>1. \A w \in wallets : w.id # r
  BY DEF ApiInv, Placed, NothingDone
<1>2. RowsInv'
  <2>. SUFFICES ASSUME NEW w \in wallets', w \notin Seeded
                PROVE  /\ w.id \in Requests /\ w.user = req'[w.id].user
                       /\ answer'[w.id].code = "CREATED" \/ w.id \in failed'
    BY DEF RowsInv
  <2>1. CASE w \in wallets
    BY <1>1, <2>1 DEF ApiInv, RowsInv, Adds
  <2>2. CASE w \notin wallets
    <3>1. w = NewRow(r) /\ wallets' # wallets
      BY <2>2, RowsGrow
    <3>2. w.id = r /\ w.user = req[r].user
      BY <3>1 DEF NewRow
    <3>. QED  BY <3>1, <3>2 DEF Adds
  <2>. QED  BY <2>1, <2>2
<1>. QED  BY <1>2, OthersKeep DEF ApiInv

(* A handler that answers keeps the invariant if the answer is true.       *)
LEMMA Answers ==
  ASSUME ApiInv, NEW r \in Requests, NEW code, NEW ids, Respond(r, code, ids),
         Adds(r), pc[r] # "sent",
         known' \in [Requests -> SUBSET Ids],
         \A q \in Requests \ {r} : UNCHANGED known[q],
         wallets' # wallets => code = "CREATED" \/ r \in failed',
         Knows(r)', code # "none", Truthful(r, code, ids)'
  PROVE  ApiInv'
<1>1. answer[r] = None /\ TypeOK
  BY DEF ApiInv, Placed
<1>2. /\ answer' = [answer EXCEPT ![r] = [code |-> code, shows |-> ids]]
      /\ pc' = [pc EXCEPT ![r] = "sent"]
  BY DEF Respond
<1>3. answer'[r].code = code /\ answer'[r].shows = ids /\ pc'[r] = "sent"
  BY <1>1, <1>2 DEF TypeOK
<1>4. \A q \in Requests \ {r} : UNCHANGED <<known[q], pc[q], answer[q]>>
  BY <1>2
<1>5. TypeOK'
  <2>1. code \in Codes /\ ids \subseteq Ids
    BY DEF Truthful
  <2>2. /\ answer' \in [Requests -> [code : Codes \cup {"none"}, shows : SUBSET Ids]]
        /\ pc' \in [Requests -> {"unsent", "limiter", "find", "insert", "read", "move", "sent"}]
    BY <1>1, <1>2, <2>1 DEF TypeOK
  <2>3. NewRow(r) \in Row
    BY <1>1, ApiAssumption DEF TypeOK, NewRow, Row, Request
  <2>. QED  BY <1>1, <2>2, <2>3 DEF TypeOK, Adds
<1>6. Placed(r)'
  BY <1>3 DEF Placed
<1>7. Truthful(r, answer[r].code, answer[r].shows)'
  BY <1>3 DEF Truthful, CreatedThat, ShowsMine, ExistsThere, ChangedNothing, SeesKnown
<1>. QED  BY <1>3, <1>4, <1>5, <1>6, <1>7, HandlerKeeps

(* A handler that goes on keeps it if it may be where it goes.             *)
LEMMA GoesOn ==
  ASSUME ApiInv, NEW r \in Requests, NEW label \in {"limiter", "find", "insert", "read", "move"},
         pc' = [pc EXCEPT ![r] = label], pc[r] # "sent",
         UNCHANGED <<req, wallets, moved, failed, answer>>,
         known' \in [Requests -> SUBSET Ids],
         \A q \in Requests \ {r} : UNCHANGED known[q],
         Knows(r)', req[r].form # "malformed", req[r].route # "none",
         label \in {"find", "insert"} => req[r].route = "wallet:create",
         label = "move" => req[r].route \in Moves,
         label = "limiter" \/ req[r].token = "valid"
  PROVE  ApiInv'
<1>1. answer[r] = None /\ r \notin failed /\ NothingDone(r) /\ TypeOK
  BY DEF ApiInv, Placed
<1>2. pc'[r] = label /\ \A q \in Requests \ {r} : UNCHANGED <<known[q], pc[q], answer[q]>>
  BY <1>1 DEF TypeOK
<1>3. TypeOK'
  BY <1>1 DEF TypeOK
<1>4. Placed(r)'
  BY <1>1, <1>2 DEF Placed, NothingDone
<1>5. Truthful(r, answer[r].code, answer[r].shows)'
  BY <1>1 DEF None, Truthful, CreatedThat, ShowsMine, ExistsThere, ChangedNothing,
     SeesKnown, Codes
<1>6. Adds(r) /\ wallets' = wallets
  BY DEF Adds
<1>. QED  BY <1>2, <1>3, <1>4, <1>5, <1>6, HandlerKeeps

(* An error is truly answered by a handler that has changed nothing, or    *)
(* has failed.                                                             *)
LEMMA Refusal ==
  ASSUME ApiInv, NEW r \in Requests, NEW code,
         Respond(r, code, {}), Adds(r), pc[r] # "sent",
         known' \in [Requests -> SUBSET Ids],
         \A q \in Requests \ {r} : UNCHANGED known[q], Knows(r)',
         code \in Codes \ {"OK", "CREATED"},
         UNCHANGED <<wallets, moved, failed>> \/ (r \in failed' /\ code = "INTERNAL_ERROR"),
         code = "WALLET_ALREADY_EXISTS" => Taken(r) # {},
         code = "VALIDATION_ERROR" => Unfit(req[r]),
         code = "WALLET_NOT_FOUND" => \/ req[r].route \in Moves
                                      \/ ~WalletVisible(r) /\ known' = known,
         code = "INTERNAL_ERROR" => Caused(r)'
  PROVE  ApiInv'
<1>1. NothingDone(r) /\ TypeOK /\ Knows(r)
  BY DEF ApiInv, Placed
<1>2. req' = req /\ (code # "INTERNAL_ERROR" => UNCHANGED <<wallets, moved, failed>>)
  BY DEF Adds
<1>3. CreatedThat(r, code, {})' /\ ShowsMine(r, {})'
  BY DEF CreatedThat, ShowsMine
<1>4. ExistsThere(r, code)'
  BY <1>1, <1>2 DEF ExistsThere, Taken, NothingDone
<1>5. ChangedNothing(r, code)'
  BY <1>1 DEF ChangedNothing, NothingDone
<1>6. SeesKnown(r, code, {})'
  <2>. SUFFICES ASSUME NEW i \in known'[r], req[i].user = req[r].user,
                       req[r].id = i, code = "WALLET_NOT_FOUND"
                PROVE  req[r].route \in Moves
    BY <1>2 DEF SeesKnown
  <2>1. CASE known' = known /\ ~WalletVisible(r)
    BY <1>1, <2>1 DEF Knows, HasRow, WalletVisible
  <2>. QED  BY <2>1
<1>7. Truthful(r, code, {})'
  BY <1>2, <1>3, <1>4, <1>5, <1>6 DEF Truthful, Codes
<1>. QED  BY <1>7, Answers DEF Codes, AppErrors

(* express.json(), notFound, or the limiter; what was answered before is   *)
(* in the database.                                                        *)
LEMMA ArriveKeeps ==
  ASSUME ApiInv, NEW r \in Requests, Arrive(r)
  PROVE  ApiInv'
<1>1. /\ pc[r] = "unsent" /\ known' = [known EXCEPT ![r] = Created]
      /\ UNCHANGED <<req, wallets, moved, failed>> /\ TypeOK
  BY DEF Arrive, ApiInv
<1>2. ASSUME NEW i \in Created PROVE i \in Requests /\ HasRow(i) /\ i \in Ids
  <2>1. PICK q \in Requests : answer[q].code = "CREATED" /\ i \in answer[q].shows
    BY <1>2 DEF Created
  <2>. QED  BY <2>1 DEF ApiInv, Truthful, CreatedThat
<1>3. Knows(r)'
  BY <1>1, <1>2 DEF Knows, HasRow, TypeOK
<1>4. /\ known' \in [Requests -> SUBSET Ids]
      /\ \A q \in Requests \ {r} : UNCHANGED known[q]
  BY <1>1, <1>2 DEF TypeOK
<1>5. Adds(r)
  BY <1>1 DEF Adds
<1>6. CASE Unparsable(r) /\ Throw(r, "SyntaxError")
  <2>1. Respond(r, "INTERNAL_ERROR", {})
    BY <1>6, ErrorCodes DEF Throw
  <2>2. Caused(r)'
    BY <1>1, <1>6 DEF Caused, Unparsable
  <2>. QED  BY <1>1, <1>3, <1>4, <1>5, <2>1, <2>2, Refusal DEF Codes
<1>7. CASE Throw(r, "NOT_FOUND")
  <2>1. Respond(r, "NOT_FOUND", {})
    BY <1>7, ErrorCodes DEF Throw, AppErrors
  <2>. QED  BY <1>1, <1>3, <1>4, <1>5, <2>1, Refusal DEF Codes, AppErrors
<1>8. CASE /\ ~Unparsable(r) /\ ~Unrouted(r)
           /\ pc' = [pc EXCEPT ![r] = "limiter"] /\ UNCHANGED answer
  BY <1>1, <1>3, <1>4, <1>8, GoesOn DEF Unparsable, Unrouted
<1>. QED  BY <1>6, <1>7, <1>8 DEF Arrive

(* A step that neither writes nor learns of others' creations.             *)
LEMMA StaysKnown ==
  ASSUME ApiInv, NEW r \in Requests, Adds(r), known' = known
  PROVE  /\ known' \in [Requests -> SUBSET Ids]
         /\ \A q \in Requests \ {r} : UNCHANGED known[q]
         /\ Knows(r)'
BY RowsGrow DEF ApiInv, TypeOK, Knows

(* The limiter and the middleware behind it.                               *)
LEMMA LimitKeeps ==
  ASSUME ApiInv, NEW r \in Requests, Limit(r)
  PROVE  ApiInv'
<1>1. /\ pc[r] = "limiter" /\ UNCHANGED <<req, wallets, moved, failed, known>>
      /\ req[r].form # "malformed" /\ req[r].route # "none" /\ req[r] \in Request
  BY DEF Limit, ApiInv, Placed, TypeOK
<1>2. /\ Adds(r) /\ known' \in [Requests -> SUBSET Ids]
      /\ \A q \in Requests \ {r} : UNCHANGED known[q]
      /\ Knows(r)'
  BY <1>1, StaysKnown DEF Adds
<1>3. CASE Throw(r, "RATE_LIMITED")
  <2>1. Respond(r, "RATE_LIMITED", {})
    BY <1>3, ErrorCodes DEF Throw, AppErrors
  <2>. QED  BY <1>1, <1>2, <2>1, Refusal DEF Codes, AppErrors
<1>4. ASSUME NEW code \in AppErrors, Refuses(req[r], code), Throw(r, code) PROVE ApiInv'
  <2>1. Respond(r, code, {}) /\ code \in Refusals
    BY <1>1, <1>4, ErrorCodes, RefusalCodes DEF Throw
  <2>2. code = "VALIDATION_ERROR" => Unfit(req[r])
    BY <1>1, <1>4, InvalidIsUnfit
  <2>3. /\ code \in Codes \ {"OK", "CREATED", "INTERNAL_ERROR"}
        /\ code # "WALLET_ALREADY_EXISTS" /\ code # "WALLET_NOT_FOUND"
    BY <2>1 DEF Refusals, Codes, AppErrors
  <2>. QED  BY <1>1, <1>2, <2>1, <2>2, <2>3, Refusal
<1>5. CASE /\ pc' = [pc EXCEPT ![r] = Controller(req[r].route)] /\ UNCHANGED answer
           /\ Admits(req[r])
  <2>0. req[r].token = "valid"
    BY <1>1, <1>5, AdmittedIsAuthenticated
  <2>1. req[r].route \in {"wallet:create"} \cup Moves \cup Gets
    BY <1>1 DEF Request, Routes
  <2>2. /\ req[r].route = "wallet:create" => Controller(req[r].route) = "find"
        /\ req[r].route \in Moves => Controller(req[r].route) = "move"
        /\ req[r].route \in Gets => Controller(req[r].route) = "read"
    BY DEF Controller, Moves, Gets
  <2>. QED  BY <1>1, <1>2, <1>5, <2>0, <2>1, <2>2, GoesOn
<1>. QED  BY <1>3, <1>4, <1>5 DEF Limit

(* The look before a creation.                                             *)
LEMMA FindKeeps ==
  ASSUME ApiInv, NEW r \in Requests, FindByUserAndCurrency(r)
  PROVE  ApiInv'
<1>1. /\ pc[r] = "find" /\ UNCHANGED <<req, wallets, moved, failed, known>>
      /\ req[r].form # "malformed" /\ req[r].route = "wallet:create"
      /\ req[r].token = "valid"
  BY DEF FindByUserAndCurrency, ApiInv, Placed
<1>2. /\ Adds(r) /\ known' \in [Requests -> SUBSET Ids]
      /\ \A q \in Requests \ {r} : UNCHANGED known[q]
      /\ Knows(r)'
  BY <1>1, StaysKnown DEF Adds
<1>3. CASE Taken(r) # {} /\ Throw(r, "WALLET_ALREADY_EXISTS")
  <2>1. Respond(r, "WALLET_ALREADY_EXISTS", {})
    BY <1>3, ErrorCodes DEF Throw, AppErrors
  <2>. QED  BY <1>1, <1>2, <1>3, <2>1, Refusal DEF Codes, AppErrors
<1>4. CASE pc' = [pc EXCEPT ![r] = "insert"] /\ UNCHANGED answer
  BY <1>1, <1>2, <1>4, GoesOn
<1>. QED  BY <1>3, <1>4 DEF FindByUserAndCurrency

(* The insertion of a creation.                                            *)
LEMMA CreateKeeps ==
  ASSUME ApiInv, NEW r \in Requests, Create(r) \/ CreateUnacknowledged(r)
  PROVE  ApiInv'
<1>1. /\ pc[r] = "insert" /\ known' = known /\ Adds(r) /\ req' = req
      /\ req[r].route = "wallet:create" /\ req[r].token = "valid"
  BY DEF Create, CreateUnacknowledged, Adds, ApiInv, Placed
<1>2. /\ known' \in [Requests -> SUBSET Ids]
      /\ \A q \in Requests \ {r} : UNCHANGED known[q]
      /\ Knows(r)'
  BY <1>1, StaysKnown
<1>3. CASE Conflicts(r) /\ Throw(r, "P2002") /\ UNCHANGED <<wallets, moved, failed>>
  <2>1. Respond(r, "INTERNAL_ERROR", {})
    BY <1>3, ErrorCodes DEF Throw
  <2>2. Caused(r)'
    BY <1>1, <1>3 DEF Caused, Taken, Conflicts
  <2>. QED  BY <1>1, <1>2, <1>3, <2>1, <2>2, Refusal DEF Codes
<1>4. CASE Create(r) /\ wallets' = wallets \cup {NewRow(r)} /\ Respond(r, "CREATED", {r})
  <2>1. HasRow(r)'
    <3>1. NewRow(r) \in wallets'
      BY <1>4
    <3>2. NewRow(r).id = r /\ NewRow(r).user = req'[r].user
      BY <1>1 DEF NewRow
    <3>. QED  BY <3>1, <3>2 DEF HasRow
  <2>2. Mine(r, r)'
    BY <2>1 DEF Mine, HasRow
  <2>3. Truthful(r, "CREATED", {r})'
    BY <1>1, <2>1, <2>2, ApiAssumption DEF Truthful, CreatedThat, ShowsMine, ExistsThere,
       ChangedNothing, SeesKnown, Codes
  <2>. QED  BY <1>1, <1>2, <1>4, <2>3, Answers
<1>5. CASE CreateUnacknowledged(r)
  <2>1. Respond(r, "INTERNAL_ERROR", {}) /\ r \in failed'
    BY <1>5, ErrorCodes DEF Throw, CreateUnacknowledged
  <2>2. Caused(r)'
    BY <2>1 DEF Caused
  <2>. QED  BY <1>1, <1>2, <2>1, <2>2, Refusal DEF Codes
<1>. QED  BY <1>3, <1>4, <1>5 DEF Create

(* The reads of one row.                                                   *)
LEMMA GetKeeps ==
  ASSUME ApiInv, NEW r \in Requests,
         \/ GetWallet(r) \/ ListTransactions(r)
         \/ GetTransaction(r) \/ GetTransfer(r)
  PROVE  ApiInv'
<1>1. /\ pc[r] = "read" /\ UNCHANGED <<req, wallets, moved, failed, known>>
      /\ req[r].route \in Gets /\ req[r].route # "wallet:list" /\ req[r] \in Request
      /\ req[r].token = "valid"
  BY DEF GetWallet, ListTransactions, GetTransaction, GetTransfer, Get, ApiInv, TypeOK, Gets,
     Placed
<1>2. /\ Adds(r) /\ known' \in [Requests -> SUBSET Ids]
      /\ \A q \in Requests \ {r} : UNCHANGED known[q]
      /\ Knows(r)' /\ NothingDone(r)
  BY <1>1, StaysKnown DEF Adds, ApiInv, Placed
<1>3. ASSUME Mine(r, req[r].id), Respond(r, "OK", {req[r].id}) PROVE ApiInv'
  <2>1. PICK ids : ids = {req[r].id}
    OBVIOUS
  <2>2. ShowsMine(r, ids)'
    BY <1>1, <1>3, <2>1 DEF ShowsMine, Mine
  <2>3. Truthful(r, "OK", ids)'
    BY <1>1, <1>2, <2>1, <2>2 DEF Truthful, CreatedThat, ExistsThere, ChangedNothing,
       NothingDone, SeesKnown, Codes, Request
  <2>. QED  BY <1>1, <1>2, <1>3, <2>1, <2>3, Answers
<1>4. CASE GetWallet(r) \/ ListTransactions(r)
  <2>1. CASE WalletVisible(r) /\ Respond(r, "OK", {req[r].id})
    BY <1>3, <2>1 DEF WalletVisible, Mine
  <2>2. CASE ~WalletVisible(r) /\ Throw(r, "WALLET_NOT_FOUND")
    <3>1. Respond(r, "WALLET_NOT_FOUND", {})
      BY <2>2, ErrorCodes DEF Throw, AppErrors
    <3>. QED  BY <1>1, <1>2, <2>2, <3>1, Refusal DEF Codes, AppErrors
  <2>. QED  BY <1>4, <2>1, <2>2 DEF GetWallet, ListTransactions, Get
<1>5. CASE GetTransaction(r) \/ GetTransfer(r)
  <2>1. CASE OwnsTransaction(r) /\ Respond(r, "OK", {req[r].id})
    BY <1>3, <2>1 DEF OwnsTransaction, Mine
  <2>2. ASSUME NEW code \in {"TRANSACTION_NOT_FOUND", "TRANSFER_NOT_FOUND"}, Throw(r, code)
        PROVE  ApiInv'
    <3>1. Respond(r, code, {})
      BY <2>2, ErrorCodes DEF Throw, AppErrors
    <3>. QED  BY <1>1, <1>2, <3>1, Refusal DEF Codes, AppErrors
  <2>3. OwnsTransaction(r) <=> IsParty(r)
    BY DEF OwnsTransaction, IsParty
  <2>. QED  BY <1>5, <2>1, <2>2, <2>3 DEF GetTransaction, GetTransfer, Get
<1>. QED  BY <1>4, <1>5

(* The lists.                                                              *)
LEMMA ListKeeps ==
  ASSUME ApiInv, NEW r \in Requests, ListWallets(r) \/ ListTransfers(r)
  PROVE  ApiInv'
<1>1. /\ pc[r] = "read" /\ UNCHANGED <<req, wallets, moved, failed, known>> /\ TypeOK
      /\ req[r].token = "valid"
  BY DEF ListWallets, ListTransfers, ApiInv, Placed
<1>2. /\ Adds(r) /\ known' \in [Requests -> SUBSET Ids]
      /\ \A q \in Requests \ {r} : UNCHANGED known[q]
      /\ Knows(r)' /\ Knows(r) /\ NothingDone(r)
  BY <1>1, StaysKnown DEF Adds, ApiInv, Placed
<1>3. PICK ids : /\ Respond(r, "OK", ids) /\ ids \subseteq {w.id : w \in Listed(r)}
                 /\ req[r].route = "wallet:list" => ids = {w.id : w \in Listed(r)}
  BY DEF ListWallets, ListTransfers
<1>4. ids \subseteq Ids
  BY <1>1, <1>3 DEF Listed, TypeOK, Row
<1>5. ShowsMine(r, ids)'
  BY <1>1, <1>3 DEF ShowsMine, Mine, Listed
<1>6. SeesKnown(r, "OK", ids)'
  BY <1>1, <1>2, <1>3 DEF SeesKnown, Knows, HasRow, Listed
<1>7. Truthful(r, "OK", ids)'
  BY <1>1, <1>2, <1>4, <1>5, <1>6 DEF Truthful, CreatedThat, ExistsThere, ChangedNothing,
     NothingDone, Codes
<1>. QED  BY <1>1, <1>2, <1>3, <1>7, Answers

(* The money operations.                                                   *)
LEMMA MoveKeeps ==
  ASSUME ApiInv, NEW r \in Requests, Move(r) \/ MoveUnacknowledged(r)
  PROVE  ApiInv'
<1>1. /\ pc[r] = "move" /\ UNCHANGED <<req, wallets, known>> /\ Adds(r)
      /\ req[r].route \in Moves /\ req[r] \in Request /\ req[r].token = "valid"
  BY DEF Move, MoveUnacknowledged, Adds, ApiInv, Placed, TypeOK
<1>2. /\ known' \in [Requests -> SUBSET Ids]
      /\ \A q \in Requests \ {r} : UNCHANGED known[q]
      /\ Knows(r)'
  BY <1>1, StaysKnown
<1>3. CASE Respond(r, "CREATED", {})
  <2>1. Truthful(r, "CREATED", {})'
    BY <1>1 DEF Truthful, CreatedThat, ShowsMine, ExistsThere, ChangedNothing, SeesKnown,
       Codes
  <2>. QED  BY <1>1, <1>2, <1>3, <2>1, Answers
<1>4. ASSUME NEW code \in Early(Delivered(req[r]).route) \cup Late(Delivered(req[r]).route),
             Throw(r, code), UNCHANGED <<moved, failed>>
      PROVE  ApiInv'
  <2>1. code \in {"WALLET_NOT_FOUND", "TRANSFER_SAME_WALLET", "WALLET_INACTIVE",
                  "DUPLICATE_REFERENCE", "INSUFFICIENT_FUNDS", "WALLET_CURRENCY_MISMATCH"}
    BY <1>4 DEF Early, Late
  <2>2. Respond(r, code, {})
    BY <1>4, <2>1, ErrorCodes DEF Throw, AppErrors
  <2>. QED  BY <1>1, <1>2, <1>4, <2>1, <2>2, Refusal DEF Codes, AppErrors
<1>5. CASE /\ ~Readable(Delivered(req[r])) /\ Throw(r, "DecimalError")
           /\ UNCHANGED <<moved, failed>>
  <2>1. Respond(r, "INTERNAL_ERROR", {})
    BY <1>5, ErrorCodes DEF Throw
  <2>2. Delivered(req[r]).fields = req[r].fields
    BY <1>1 DEF Delivered, Parsed, Before, Opened, Moves, Request
  <2>3. Caused(r)'
    BY <1>1, <1>5, <2>2 DEF Caused, Readable
  <2>. QED  BY <1>1, <1>2, <1>5, <2>1, <2>3, Refusal DEF Codes
<1>6. CASE MoveUnacknowledged(r)
  <2>1. Respond(r, "INTERNAL_ERROR", {}) /\ r \in failed'
    BY <1>6, ErrorCodes DEF Throw, MoveUnacknowledged
  <2>2. Caused(r)'
    BY <2>1 DEF Caused
  <2>. QED  BY <1>1, <1>2, <2>1, <2>2, Refusal DEF Codes
<1>. QED  BY <1>3, <1>4, <1>5, <1>6 DEF Move

(* A failed statement is a 500, and changed nothing.                       *)
LEMMA FailKeeps ==
  ASSUME ApiInv, NEW r \in Requests, Fail(r)
  PROVE  ApiInv'
<1>1. /\ pc[r] # "sent" /\ known' = known /\ Adds(r)
      /\ r \in failed' /\ Respond(r, "INTERNAL_ERROR", {})
  BY ErrorCodes DEF Fail, Adds, Throw
<1>2. Caused(r)'
  BY <1>1 DEF Caused
<1>. QED  BY <1>1, <1>2, StaysKnown, Refusal DEF Codes

(* So it holds from the start to the end.                                  *)
LEMMA ApiStart == Init => ApiInv
<1>. SUFFICES ASSUME Init PROVE ApiInv
  OBVIOUS
<1>1. TypeOK
  BY ApiAssumption DEF Init, TypeOK, None
<1>2. \A r \in Requests : Placed(r) /\ Knows(r)
  BY ApiAssumption DEF Init, Placed, Knows, NothingDone
<1>3. \A r \in Requests : Truthful(r, "none", {})
  BY DEF Truthful, CreatedThat, ShowsMine, ExistsThere, ChangedNothing, SeesKnown, Codes
<1>4. \A r \in Requests : answer[r].code = "none" /\ answer[r].shows = {}
  BY DEF Init, None
<1>. QED  BY <1>1, <1>2, <1>3, <1>4 DEF Init, ApiInv, RowsInv

LEMMA ApiAlways == Spec => []ApiInv
<1>1. ApiInv /\ [Next]_vars => ApiInv'
  <2>1. ASSUME ApiInv, UNCHANGED vars PROVE ApiInv'
    <3>1. UNCHANGED <<req, pc, wallets, moved, failed, known, answer>>
      BY <2>1 DEF vars
    <3>2. TypeOK' /\ RowsInv'
      BY <2>1, <3>1 DEF ApiInv, TypeOK, RowsInv
    <3>3. ASSUME NEW r \in Requests
          PROVE  Placed(r)' /\ Knows(r)' /\ Truthful(r, answer[r].code, answer[r].shows)'
      BY <2>1, <3>1 DEF ApiInv, Placed, Knows, NothingDone, HasRow, Mine, Taken, Truthful,
         CreatedThat, ShowsMine, ExistsThere, ChangedNothing, SeesKnown, Caused
    <3>. QED  BY <3>2, <3>3 DEF ApiInv
  <2>2. ASSUME ApiInv, Next PROVE ApiInv'
    BY <2>1, <2>2, ArriveKeeps, LimitKeeps, FindKeeps, CreateKeeps, GetKeeps, ListKeeps,
       MoveKeeps, FailKeeps DEF Next, Handle, Quiescent
  <2>. QED  BY <2>1, <2>2
<1>. QED  BY <1>1, ApiStart, PTL DEF Spec

-----------------------------------------------------------------------------
(* The types.                                                              *)
THEOREM ApiTypes == Spec => []TypeOK
  BY ApiAlways, PTL DEF ApiInv

(* Answers are true of the database, of whatever was sent and whatever     *)
(* fails (wallet.create.service.js, errorHandler.js, the reads).           *)
THEOREM ApiAnswersAreTrue == Spec => []AnswersAreTrue
<1>1. ApiInv => AnswersAreTrue
  <2>. SUFFICES ASSUME ApiInv, NEW r \in Requests,
                       Truthful(r, answer[r].code, answer[r].shows)
                PROVE  /\ \A i \in answer[r].shows : Mine(r, i)
                       /\ ExistsThere(r, answer[r].code)
                       /\ ChangedNothing(r, answer[r].code)
                       /\ answer[r].code = "VALIDATION_ERROR" => Unfit(req[r])
                       /\ answer[r].code \in {"OK", "CREATED"} => req[r].token = "valid"
    BY DEF AnswersAreTrue, ApiInv, ExistsThere, ChangedNothing, NothingDone, Unfit
  <2>. QED  BY DEF Truthful, ShowsMine
<1>. QED  BY <1>1, ApiAlways, PTL

(* Clients find the wallets whose creation was answered before they asked. *)
THEOREM ClientsReadTheirWrites == Spec => []CreatedIsSeen
<1>1. ApiInv => CreatedIsSeen
  BY DEF ApiInv, Truthful, SeesKnown, CreatedIsSeen
<1>. QED  BY <1>1, ApiAlways, PTL

(* The service answers 500 for one of four reasons only.                   *)
THEOREM NoFailureOfItsOwn == Spec => []InternalErrorHasCause
<1>1. ApiInv => InternalErrorHasCause
  <2>. SUFFICES ASSUME ApiInv, NEW r \in Requests,
                       answer[r].code # "none", Status(answer[r].code) >= 500
                PROVE  Caused(r)
    BY DEF InternalErrorHasCause, Caused
  <2>1. answer[r].code = "INTERNAL_ERROR"
    BY ServerErrors DEF ApiInv, Truthful
  <2>. QED  BY <2>1 DEF ApiInv, Truthful
<1>. QED  BY <1>1, ApiAlways, PTL

(* Creations of one wallet do not stop each other: whoever is refused, one *)
(* of them was told that it succeeded.                                     *)
THEOREM OneCreationSucceeds == Spec => []CreationNotLost
<1>1. ApiInv => CreationNotLost
  <2>. SUFFICES ASSUME ApiInv, NEW r \in Requests, req[r].route = "wallet:create",
                       answer[r].code \in {"WALLET_ALREADY_EXISTS", "INTERNAL_ERROR"},
                       req[r].form # "malformed", failed = {}
                PROVE  \E w \in Taken(r) : w \in Seeded \/ answer[w.id].code = "CREATED"
    BY DEF CreationNotLost, Creates
  <2>2. Taken(r) # {}
    <3>1. ExistsThere(r, "WALLET_ALREADY_EXISTS") => Taken(r) # {}
      BY DEF ExistsThere, Taken
    <3>2. Caused(r) => Taken(r) # {}
      BY DEF Caused, Moves
    <3>3. /\ answer[r].code = "WALLET_ALREADY_EXISTS" => ExistsThere(r, "WALLET_ALREADY_EXISTS")
          /\ answer[r].code = "INTERNAL_ERROR" => Caused(r)
      BY DEF ApiInv, Truthful, ExistsThere
    <3>. QED  BY <3>1, <3>2, <3>3
  <2>3. PICK w : w \in Taken(r)
    BY <2>2
  <2>. QED  BY <2>3 DEF ApiInv, RowsInv, Taken
<1>. QED  BY <1>1, ApiAlways, PTL
=============================================================================
