---------------------------- MODULE HttpPipeline ----------------------------
(***************************************************************************)
(* The middleware in front of the services, as functions of the request:   *)
(* which of them a route runs and in which order, what each makes of a     *)
(* request, and how errors become responses.  A request is abstracted to   *)
(* what they look at:                                                      *)
(*                                                                         *)
(*   route    the RATE_LIMIT key of its route, or "none"                   *)
(*   token    its Authorization header, and `user' the sub of the token    *)
(*   form     of the body: "malformed" is not JSON, "clear" holds the      *)
(*            fields, "sealed" an { encrypted } that decrypts to them, and *)
(*            "garbled" one that does not                                  *)
(*   fields   what validate finds in params, query and body; "padded" are  *)
(*            valid ones but for blanks around the amount or the currency  *)
(*   currency, id   what the services read                                 *)
(*                                                                         *)
(* A definition named X_Y is X with the mistake Y; see WalletLedger.       *)
(***************************************************************************)
EXTENDS Naturals, Sequences

CONSTANTS
  Users,
  Currencies,
  Ids,                \* ids of rows
  EncryptionEnabled   \* ENCRYPTION_ENABLED

ASSUME EncryptionIsASwitch == EncryptionEnabled \in BOOLEAN

Moves == {"txn:deposit", "txn:withdraw", "transfer:create"}
Gets == {"wallet:list", "wallet:get", "txn:list", "txn:get", "transfer:list",
         "transfer:get"}
Routes == {"wallet:create"} \cup Moves \cup Gets

Request ==
  [route : Routes \cup {"none"}, user : Users,
   token : {"missing", "invalid", "expired", "valid"},
   form : {"malformed", "clear", "sealed", "garbled"},
   fields : {"valid", "invalid", "padded"},
   currency : Currencies, id : Ids]

(* What runs, per route, between the router and the controller.            *)
WithBody_NoAuth == <<"ipTracker", "rateLimiter", "encryption", "validate">>
WithBody == <<"ipTracker", "rateLimiter", "auth", "encryption", "validate">>
WithQuery == <<"ipTracker", "rateLimiter", "auth", "validate">>
WalletRoutes ==
  [route \in {"wallet:create", "wallet:list", "wallet:get"} |->
     CASE route = "wallet:create" -> WithBody
       [] route = "wallet:list" -> <<"ipTracker", "rateLimiter", "auth">>
       [] route = "wallet:get" -> WithQuery]
TransactionRoutes ==
  [route \in {"txn:deposit", "txn:withdraw", "txn:list", "txn:get"} |->
     IF route \in Moves THEN WithBody ELSE WithQuery]
TransferRoutes ==
  [route \in {"transfer:create", "transfer:list", "transfer:get"} |->
     IF route \in Moves THEN WithBody ELSE WithQuery]
Chain(q) ==
  CASE q.route \in DOMAIN WalletRoutes -> WalletRoutes[q.route]
    [] q.route \in DOMAIN TransactionRoutes -> TransactionRoutes[q.route]
    [] q.route \in DOMAIN TransferRoutes -> TransferRoutes[q.route]

-----------------------------------------------------------------------------
(* The middleware.  Each calls next(), or next(err) with the error's code. *)

(* jsonwebtoken checks the signature and the expiry.                       *)
AuthError(q) ==
  CASE q.token = "missing" -> "AUTH_TOKEN_MISSING"
    [] q.token = "expired" -> "AUTH_TOKEN_EXPIRED"
    [] q.token = "invalid" -> "AUTH_TOKEN_INVALID"
    [] q.token = "valid" -> "next"

(* `req.body.encrypted' is replaced by what it decrypts to, if it is there *)
(* and carries the tag of AES-256-GCM.                                     *)
Decrypts(q) == q.form = "sealed"
EncryptionError(q) ==
  IF EncryptionEnabled /\ q.form \in {"sealed", "garbled"} /\ ~Decrypts(q)
  THEN "ENCRYPTION_ERROR" ELSE "next"
Opened(q) ==
  IF EncryptionEnabled /\ Decrypts(q) THEN [q EXCEPT !.form = "clear"] ELSE q

(* The schemas.  They are strict: a body that is still { encrypted } has   *)
(* an unknown key.  An amount is trimmed before it is looked at, and       *)
(* handed on as it came; a currency is handed on trimmed.  A GET has       *)
(* neither, so that for one "padded" is "valid".                           *)
IsValidAmount(q) == q.fields \in {"valid", "padded"}
ValidAmount(q) == q.form = "clear" /\ IsValidAmount(q)
ValidCurrency(q) == q.form = "clear" /\ q.fields \in {"valid", "padded"}
ValidParams(q) == q.fields # "invalid"
ValidationError(q) ==
  IF \/ q.route \in Moves /\ ValidAmount(q)
     \/ q.route = "wallet:create" /\ ValidCurrency(q)
     \/ q.route \in Gets /\ ValidParams(q)
  THEN "next" ELSE "VALIDATION_ERROR"
Parsed(q) ==
  IF q.route = "wallet:create" THEN [q EXCEPT !.fields = "valid"] ELSE q

(* The request as the i-th middleware of its chain finds it, and what that *)
(* one makes of it.  The limiter is the await of WalletApi!Limit, and      *)
(* ipTracker only sets req.clientIp.                                       *)
Before(q, i) ==
  IF \E j \in 1 .. i - 1 : Chain(q)[j] = "encryption" THEN Opened(q) ELSE q
Result(q, i) ==
  CASE Chain(q)[i] = "auth" -> AuthError(q)
    [] Chain(q)[i] = "encryption" -> EncryptionError(q)
    [] Chain(q)[i] = "validate" -> ValidationError(Before(q, i))
    [] OTHER -> "next"

(* The first one that does not call next() decides.                        *)
Admits(q) == \A i \in 1 .. Len(Chain(q)) : Result(q, i) = "next"
Refuses(q, code) ==
  \E i \in 1 .. Len(Chain(q)) :
    /\ code = Result(q, i) /\ code # "next"
    /\ \A j \in 1 .. i - 1 : Result(q, j) = "next"

(* The request the controller finds.                                       *)
Delivered(q) == Parsed(Before(q, Len(Chain(q)) + 1))

-----------------------------------------------------------------------------
(* The errors the code throws, and the status each is sent with.  Any      *)
(* other one (a failed statement, a violated unique index, an amount that  *)
(* Prisma.Decimal does not read, a body that is not JSON) is no AppError.  *)
AppErrors ==
  {"VALIDATION_ERROR", "INSUFFICIENT_FUNDS", "TRANSFER_SAME_WALLET", "NOT_FOUND",
   "WALLET_NOT_FOUND", "TRANSACTION_NOT_FOUND", "TRANSFER_NOT_FOUND",
   "WALLET_ALREADY_EXISTS", "WALLET_INACTIVE", "WALLET_CURRENCY_MISMATCH",
   "DUPLICATE_REFERENCE", "RATE_LIMITED", "ENCRYPTION_ERROR",
   "AUTH_TOKEN_MISSING", "AUTH_TOKEN_EXPIRED", "AUTH_TOKEN_INVALID"}
ErrorCode_AsThrown(err) == err
ErrorCode(err) == IF err \in AppErrors THEN err ELSE "INTERNAL_ERROR"
Status(code) ==
  CASE code \in {"VALIDATION_ERROR", "INSUFFICIENT_FUNDS", "TRANSFER_SAME_WALLET"} -> 422
    [] code \in {"NOT_FOUND", "WALLET_NOT_FOUND", "TRANSACTION_NOT_FOUND",
                 "TRANSFER_NOT_FOUND"} -> 404
    [] code \in {"WALLET_ALREADY_EXISTS", "WALLET_INACTIVE",
                 "WALLET_CURRENCY_MISMATCH", "DUPLICATE_REFERENCE"} -> 409
    [] code = "RATE_LIMITED" -> 429
    [] code = "ENCRYPTION_ERROR" -> 400
    [] code \in {"AUTH_TOKEN_MISSING", "AUTH_TOKEN_EXPIRED",
                 "AUTH_TOKEN_INVALID"} -> 401
    [] code = "OK" -> 200
    [] code = "CREATED" -> 201
    [] OTHER -> 500
=============================================================================
