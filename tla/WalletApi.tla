----------------------------- MODULE WalletApi -----------------------------
(***************************************************************************)
(* Every endpoint of the service behind its middleware, for requests that  *)
(* run side by side: wallets are created, listed and read in full, one     *)
(* action per await; transactions and transfers are read by id among those *)
(* of Parties.  What the money operations do to the books is WalletLedger, *)
(* what the lists hold LedgerPaging and what the limiter counts            *)
(* RateLimiter: here they take effect or are refused.                      *)
(*                                                                         *)
(* A wallet's id is the request that created it, or one of Seeded.         *)
(***************************************************************************)
EXTENDS HttpPipeline

CONSTANTS
  Requests,
  Menu,      \* what each client may send
  Seeded,    \* rows of wallets at the start
  Parties    \* users whose wallets a transaction or transfer touches, by id

Row == [id : Ids, user : Users, currency : Currencies]

ASSUME ApiAssumption ==
  /\ Menu \in [Requests -> SUBSET Request]
  /\ Requests \subseteq Ids
  /\ DOMAIN Parties \subseteq Ids \ Requests
  /\ \A i \in DOMAIN Parties : Parties[i] \subseteq Users
  /\ Seeded \subseteq Row
  /\ \A w, x \in Seeded :
       /\ w.id \notin Requests
       /\ (w.id = x.id \/ (w.user = x.user /\ w.currency = x.currency)) => w = x

VARIABLES
  req,       \* what each client sends
  pc,        \* what each handler awaits
  wallets,   \* committed rows of wallets
  moved,     \* requests whose movement is committed
  failed,    \* requests with a failed statement
  known,     \* wallets whose creation was answered before the request was sent
  answer     \* the response: its error code or OK, and the ids it shows

vars == <<req, pc, wallets, moved, failed, known, answer>>

None == [code |-> "none", shows |-> {}]
Codes == AppErrors \cup {"INTERNAL_ERROR", "OK", "CREATED"}
TypeOK ==
  /\ req \in [Requests -> Request]
  /\ pc \in [Requests -> {"unsent", "limiter", "find", "insert", "read", "move",
                          "sent"}]
  /\ wallets \subseteq Row
  /\ moved \subseteq Requests
  /\ failed \subseteq Requests
  /\ known \in [Requests -> SUBSET Ids]
  /\ answer \in [Requests -> [code : Codes \cup {"none"}, shows : SUBSET Ids]]

Init ==
  /\ req \in [Requests -> UNION {Menu[r] : r \in Requests}]
  /\ \A r \in Requests : req[r] \in Menu[r]
  /\ pc = [r \in Requests |-> "unsent"]
  /\ wallets = Seeded
  /\ moved = {}
  /\ failed = {}
  /\ known = [r \in Requests |-> {}]
  /\ answer = [r \in Requests |-> None]

-----------------------------------------------------------------------------
(* The response, or the error handler at the end of every chain;           *)
(* asyncHandler hands it what a controller throws.                         *)
Respond(r, code, ids) ==
  /\ answer' = [answer EXCEPT ![r] = [code |-> code, shows |-> ids]]
  /\ pc' = [pc EXCEPT ![r] = "sent"]
Throw_Unhandled(r, err) == UNCHANGED <<answer, pc>>
Throw(r, err) == Respond(r, ErrorCode(err), {})

(* express.json() runs before everything, notFound after every route.      *)
Unparsable(r) == req[r].form = "malformed"
Unrouted(r) == req[r].route = "none"
Created == UNION {answer[r].shows : r \in {q \in Requests : answer[q].code = "CREATED"}}
Arrive(r) ==
  /\ pc[r] = "unsent"
  /\ known' = [known EXCEPT ![r] = Created]
  /\ \/ Unparsable(r) /\ Throw(r, "SyntaxError")
     \/ ~Unparsable(r) /\ Unrouted(r) /\ Throw(r, "NOT_FOUND")
     \/ /\ ~Unparsable(r) /\ ~Unrouted(r)
        /\ pc' = [pc EXCEPT ![r] = "limiter"]
        /\ UNCHANGED answer
  /\ UNCHANGED <<req, wallets, moved, failed>>

(* The limiter's commands, which may also fail, and then the rest of the   *)
(* chain without another await.  Redis need not answer them: without a     *)
(* connection the handler waits here (maxRetriesPerRequest: null).         *)
Controller(route) ==
  CASE route = "wallet:create" -> "find"
    [] route \in Moves -> "move"
    [] route \in Gets -> "read"
Limit(r) ==
  /\ pc[r] = "limiter"
  /\ \/ Throw(r, "RATE_LIMITED")
     \/ \E code \in AppErrors : Refuses(req[r], code) /\ Throw(r, code)
     \/ /\ Admits(req[r])
        /\ pc' = [pc EXCEPT ![r] = Controller(req[r].route)]
        /\ UNCHANGED answer
  /\ UNCHANGED <<req, wallets, moved, failed, known>>

-----------------------------------------------------------------------------
(* wallet.create.service.js and wallet.repository.js                       *)
NewRow(r) == [id |-> r, user |-> req[r].user, currency |-> req[r].currency]
Taken(r) ==
  {w \in wallets : w.user = req[r].user /\ w.currency = req[r].currency}

FindByUserAndCurrency(r) ==
  /\ pc[r] = "find"
  /\ \/ Taken(r) # {} /\ Throw(r, "WALLET_ALREADY_EXISTS")
     \/ /\ Taken(r) = {}
        /\ pc' = [pc EXCEPT ![r] = "insert"]
        /\ UNCHANGED answer
  /\ UNCHANGED <<req, wallets, moved, failed, known>>

(* The unique index on (user_id, currency).                                *)
Conflicts_NoIndex(r) == FALSE
Conflicts_OnCurrency(r) == \E w \in wallets : w.currency = req[r].currency
Conflicts(r) ==
  \E w \in wallets : w.user = req[r].user /\ w.currency = req[r].currency

Create(r) ==
  /\ pc[r] = "insert"
  /\ \/ Conflicts(r) /\ Throw(r, "P2002") /\ UNCHANGED wallets
     \/ /\ ~Conflicts(r)
        /\ wallets' = wallets \cup {NewRow(r)}
        /\ Respond(r, "CREATED", {r})
  /\ UNCHANGED <<req, moved, failed, known>>

(* The row is committed and the answer of the database is lost.            *)
CreateUnacknowledged(r) ==
  /\ pc[r] = "insert" /\ ~Conflicts(r)
  /\ wallets' = wallets \cup {NewRow(r)}
  /\ failed' = failed \cup {r}
  /\ Throw(r, "ConnectionError")
  /\ UNCHANGED <<req, moved, known>>

-----------------------------------------------------------------------------
(* Reads.  A row that is not the caller's is not found.                    *)
Listed_OneOnly(r) ==
  {w \in wallets : w.user = req[r].user /\ w.currency = req[r].currency}
Listed(r) == {w \in wallets : w.user = req[r].user}
WalletVisible_Anyone(r) == \E w \in wallets : w.id = req[r].id
WalletVisible(r) == \E w \in wallets : w.id = req[r].id /\ w.user = req[r].user
OwnsTransaction(r) ==
  req[r].id \in DOMAIN Parties /\ req[r].user \in Parties[req[r].id]
IsParty(r) ==
  req[r].id \in DOMAIN Parties /\ req[r].user \in Parties[req[r].id]

(* The handler looks an id up and shows its row, or throws its own 404.    *)
Get(r, route, visible, error) ==
  /\ pc[r] = "read" /\ req[r].route = route
  /\ \/ visible /\ Respond(r, "OK", {req[r].id})
     \/ ~visible /\ Throw(r, error)
  /\ UNCHANGED <<req, wallets, moved, failed, known>>
GetWallet(r) == Get(r, "wallet:get", WalletVisible(r), "WALLET_NOT_FOUND")
GetTransaction_NoNullCheck(r) ==
  Get(r, "txn:get", OwnsTransaction(r),
      IF req[r].id \in DOMAIN Parties THEN "TRANSACTION_NOT_FOUND" ELSE "TypeError")
GetTransaction(r) == Get(r, "txn:get", OwnsTransaction(r), "TRANSACTION_NOT_FOUND")
GetTransfer(r) == Get(r, "transfer:get", IsParty(r), "TRANSFER_NOT_FOUND")

ListWallets(r) ==
  /\ pc[r] = "read" /\ req[r].route = "wallet:list"
  /\ Respond(r, "OK", {w.id : w \in Listed(r)})
  /\ UNCHANGED <<req, wallets, moved, failed, known>>

(* The ledger of a wallet; loadOwnedWallet comes first.                    *)
ListTransactions(r) == Get(r, "txn:list", WalletVisible(r), "WALLET_NOT_FOUND")

(* Transfers of the caller, who need not have any.                         *)
ListTransfers(r) ==
  /\ pc[r] = "read" /\ req[r].route = "transfer:list"
  /\ Respond(r, "OK", {})
  /\ UNCHANGED <<req, wallets, moved, failed, known>>

-----------------------------------------------------------------------------
(* The money operations, from the outside.  They refuse before they look   *)
(* for a replay, replay, or open a transaction; that one reads the amount  *)
(* as it came, refuses, or takes effect.                                   *)
Early(route) ==
  {"WALLET_NOT_FOUND"} \cup
    (IF route = "transfer:create" THEN {"TRANSFER_SAME_WALLET"} ELSE {"WALLET_INACTIVE"})
Late(route) ==
  {"DUPLICATE_REFERENCE"}
    \cup (IF route = "txn:deposit" THEN {} ELSE {"INSUFFICIENT_FUNDS"})
    \cup (IF route = "transfer:create"
          THEN {"WALLET_NOT_FOUND", "WALLET_INACTIVE", "WALLET_CURRENCY_MISMATCH"}
          ELSE {})
Readable(q) == q.fields # "padded"
Move(r) ==
  LET q == Delivered(req[r])
  IN /\ pc[r] = "move"
     /\ \/ /\ \/ \E code \in Early(q.route) : Throw(r, code)
              \/ Respond(r, "CREATED", {})
              \/ ~Readable(q) /\ Throw(r, "DecimalError")
              \/ Readable(q) /\ \E code \in Late(q.route) : Throw(r, code)
           /\ UNCHANGED moved
        \/ /\ Readable(q)
           /\ moved' = moved \cup {r}
           /\ Respond(r, "CREATED", {})
     /\ UNCHANGED <<req, wallets, failed, known>>

(* COMMIT takes effect and nobody hears of it.                             *)
MoveUnacknowledged(r) ==
  /\ pc[r] = "move" /\ Readable(req[r])
  /\ moved' = moved \cup {r}
  /\ failed' = failed \cup {r}
  /\ Throw(r, "ConnectionError")
  /\ UNCHANGED <<req, wallets, known>>

(* A statement fails; the limiter's failures let the request pass.         *)
Fail(r) ==
  /\ pc[r] \in {"find", "insert", "read", "move"}
  /\ failed' = failed \cup {r}
  /\ Throw(r, "ConnectionError")
  /\ UNCHANGED <<req, wallets, moved, known>>

Quiescent == (\A r \in Requests : pc[r] = "sent") /\ UNCHANGED vars

(* The awaits behind the limiter, all of PostgreSQL.                       *)
Handle(r) ==
  \/ FindByUserAndCurrency(r) \/ Create(r) \/ CreateUnacknowledged(r)
  \/ GetWallet(r) \/ ListWallets(r)
  \/ GetTransaction(r) \/ ListTransactions(r)
  \/ GetTransfer(r) \/ ListTransfers(r)
  \/ Move(r) \/ MoveUnacknowledged(r)

Next ==
  \/ \E r \in Requests : Arrive(r) \/ Limit(r) \/ Handle(r) \/ Fail(r)
  \/ Quiescent

Spec == Init /\ [][Next]_vars

(* Handlers behind the limiter go on; nothing promises that one in front   *)
(* of it hears of Redis, so Limit is not fair.                             *)
FairSpec == Spec /\ \A r \in Requests : WF_vars(Handle(r))

-----------------------------------------------------------------------------
(* One wallet per user and currency (wallet.create.service.js), however    *)
(* many creations run between each other's look and insertion.             *)
OneWalletPerCurrency ==
  \A w, x \in wallets : (w.user = x.user /\ w.currency = x.currency) => w = x

(* An answer is true of the database: what was created is there, what is   *)
(* said to exist exists, a success is of an authenticated caller and shows *)
(* what is his, a refusal or a 500 to which nothing failed has changed     *)
(* nothing, and what is called invalid is invalid once it is decrypted.    *)
Mine(r, i) ==
  \/ \E w \in wallets : w.id = i /\ w.user = req[r].user
  \/ i \in DOMAIN Parties /\ req[r].user \in Parties[i]
AnswersAreTrue ==
  \A r \in Requests :
    /\ \A i \in answer[r].shows : Mine(r, i)
    /\ answer[r].code \in {"OK", "CREATED"} => req[r].token = "valid"
    /\ answer[r].code = "WALLET_ALREADY_EXISTS" =>
         \E w \in wallets : w.id # r /\ w.user = req[r].user /\ w.currency = req[r].currency
    /\ (answer[r].code \notin {"none", "CREATED"} /\ r \notin failed) =>
         r \notin moved /\ \A w \in wallets : w.id # r
    /\ answer[r].code = "VALIDATION_ERROR" =>
         \/ req[r].fields = "invalid"
         \/ req[r].form = "garbled"
         \/ req[r].form = "sealed" /\ ~EncryptionEnabled

(* Clients read their writes: who lists or gets wallets after a creation   *)
(* was answered finds the wallet, whichever worker answers.                *)
CreatedIsSeen ==
  \A r \in Requests, i \in Requests :
    (i \in known[r] /\ req[i].user = req[r].user) =>
      /\ (req[r].route = "wallet:list" /\ answer[r].code = "OK") => i \in answer[r].shows
      /\ req[r].id = i => answer[r].code # "WALLET_NOT_FOUND" \/ req[r].route \in Moves

(* What changed the database came from an authenticated client, and in a   *)
(* body that is clear once it is decrypted and whose fields are valid      *)
(* (README: ipTracker, rateLimiter, auth, encryption, validate).           *)
EffectsAdmitted ==
  \A r \in Requests :
    (r \in moved \/ \E w \in wallets : w.id = r) =>
      /\ req[r].token = "valid"
      /\ req[r].form = "clear" \/ (req[r].form = "sealed" /\ EncryptionEnabled)
      /\ req[r].fields # "invalid"

(* The service fails on no request of its own accord: a 500 has a failed   *)
(* statement, a body that is not JSON, an amount with blanks around it, or *)
(* a creation that lost a race for its wallet.                             *)
InternalErrorHasCause ==
  \A r \in Requests :
    (answer[r].code # "none" /\ Status(answer[r].code) >= 500) =>
      \/ r \in failed
      \/ req[r].form = "malformed"
      \/ req[r].route \in Moves /\ req[r].fields = "padded"
      \/ req[r].route = "wallet:create" /\ Taken(r) # {}

(* Of clients that create one wallet at once, unless something fails, one  *)
(* is told that it was created: they do not stop each other.               *)
Creates(r) == req[r].route = "wallet:create" /\ answer[r].code # "none"
CreationNotLost ==
  \A r \in Requests :
    (Creates(r) /\ answer[r].code \in {"WALLET_ALREADY_EXISTS", "INTERNAL_ERROR"}
       /\ req[r].form # "malformed" /\ failed = {}) =>
      \E w \in Taken(r) : w \in Seeded \/ answer[w.id].code = "CREATED"

(* Every request that has got past the limiter is answered, whatever it    *)
(* finds, fails on or throws (asyncHandler, errorHandler.js).  One in      *)
(* front of the limiter may wait for Redis for ever.                       *)
EveryRequestAnswered ==
  \A r \in Requests : (pc[r] \notin {"unsent", "limiter"}) ~> (pc[r] = "sent")
=============================================================================
