---------------------------- MODULE RateLimiter ----------------------------
(***************************************************************************)
(* The fixed-window limiter in front of every route: one counter in Redis  *)
(* (one route, one client), used by the handlers of several worker         *)
(* processes, each over one ioredis connection.  A command is executed by  *)
(* Redis in one step and answered in another, for the connection may be    *)
(* lost in between: ioredis then waits for the next connection, for ever   *)
(* if need be (maxRetriesPerRequest: null), and sends the command again.   *)
(*                                                                         *)
(* A definition named X_Y is X with the mistake Y; see WalletLedger.       *)
(***************************************************************************)
EXTENDS Integers, FiniteSets

CONSTANTS
  Requests,   \* requests of one client on one route
  Workers,    \* worker processes
  WorkerOf,   \* [Requests -> Workers]
  Max,        \* RATE_LIMIT.max of the route
  Window,     \* windowSec, in ticks of the model's clock
  Faults,     \* how many failures there are,
  FaultKinds  \* and of what: connections, commands, workers

ASSUME WorkerAssumption == WorkerOf \in [Requests -> Workers]
ASSUME LimitAssumption == Max \in Nat /\ Window \in Nat \ {0}
ASSUME FaultsAssumption ==
  Faults \in Nat /\ FaultKinds \subseteq {"connection", "command", "worker"}

Absent == -2     \* what TTL answers of a key that does not exist,
Persistent == -1 \* and of one that does not expire

VARIABLES
  count,    \* the counter; 0 when the key does not exist
  ttl,      \* its time to live
  window,   \* requests whose last INCR is in the counter
  link,     \* the connection of each worker
  pc,       \* where each handler is
  value,    \* what its last INCR answered
  faults    \* failures so far

vars == <<count, ttl, window, link, pc, value, faults>>

Labels == {"idle", "incr", "counted", "expire", "expiring", "ttl",
           "passed", "opened", "refused", "lost"}
Decided == {"passed", "opened", "refused", "lost"}

TypeOK ==
  /\ count \in Nat
  /\ ttl \in {Absent, Persistent} \cup 1 .. Window
  /\ window \subseteq Requests
  /\ link \in [Workers -> {"up", "down"}]
  /\ pc \in [Requests -> Labels]
  /\ value \in [Requests -> Nat]
  /\ faults \in 0 .. Faults

Init ==
  /\ count = 0
  /\ ttl = Absent
  /\ window = {}
  /\ link = [w \in Workers |-> "up"]
  /\ pc = [r \in Requests |-> "idle"]
  /\ value = [r \in Requests |-> 0]
  /\ faults = 0

Goto(r, label) == pc' = [pc EXCEPT ![r] = label]
Connected(r) == link[WorkerOf[r]] = "up"

(* The middleware is entered and calls redis.incr.                         *)
Arrive(r) ==
  /\ pc[r] = "idle"
  /\ Goto(r, "incr")
  /\ UNCHANGED <<count, ttl, window, link, value, faults>>

(* Redis executes INCR, which makes a missing key, without an expiry.      *)
Successor_Stale(n) == IF n = 0 THEN 1 ELSE n
Successor(n) == n + 1
Incr(r) ==
  /\ pc[r] = "incr"
  /\ Connected(r)
  /\ count' = Successor(count)
  /\ ttl' = IF count = 0 THEN Persistent ELSE ttl
  /\ window' = window \cup {r}
  /\ value' = [value EXCEPT ![r] = Successor(count)]
  /\ Goto(r, "counted")
  /\ UNCHANGED <<link, faults>>

(* `count > max' sends the handler for the TTL, any other count to next(). *)
AfterLimit_OffByOne(r) == IF value[r] > Max + 1 THEN "ttl" ELSE "passed"
AfterLimit_Inclusive(r) == IF value[r] >= Max THEN "ttl" ELSE "passed"
AfterLimit_NoNext(r) == IF value[r] > Max THEN "ttl" ELSE "counted"
AfterLimit(r) == IF value[r] > Max THEN "ttl" ELSE "passed"

(* The answer of INCR: the first count of a window sets its expiry.        *)
SetsExpiry_Never(n) == FALSE
SetsExpiry(n) == n = 1
Counted(r) ==
  /\ pc[r] = "counted"
  /\ Connected(r)
  /\ Goto(r, IF SetsExpiry(value[r]) THEN "expire" ELSE AfterLimit(r))
  /\ UNCHANGED <<count, ttl, window, link, value, faults>>

(* Redis executes EXPIRE, which does nothing to a missing key.             *)
Expire(r) ==
  /\ pc[r] = "expire"
  /\ Connected(r)
  /\ ttl' = IF count = 0 THEN ttl ELSE Window
  /\ Goto(r, "expiring")
  /\ UNCHANGED <<count, window, link, value, faults>>

Expiring(r) ==
  /\ pc[r] = "expiring"
  /\ Connected(r)
  /\ Goto(r, AfterLimit(r))
  /\ UNCHANGED <<count, ttl, window, link, value, faults>>

(* redis.ttl, which the 429 repeats as Retry-After.                        *)
ReadTtl(r) ==
  /\ pc[r] = "ttl"
  /\ Connected(r)
  /\ Goto(r, "refused")
  /\ UNCHANGED <<count, ttl, window, link, value, faults>>

(* A second passes; Redis removes a key whose time is over.                *)
Tick ==
  /\ ttl > 0
  /\ IF ttl = 1
     THEN ttl' = Absent /\ count' = 0 /\ window' = {}
     ELSE ttl' = ttl - 1 /\ UNCHANGED <<count, window>>
  /\ UNCHANGED <<link, pc, value, faults>>

-----------------------------------------------------------------------------
AnotherFault(kind) ==
  /\ kind \in FaultKinds /\ faults < Faults
  /\ faults' = faults + 1

(* Redis answers a command with an error (out of memory, read-only         *)
(* replica, failed snapshot): the catch block lets the request through.    *)
CommandFails(r) ==
  /\ AnotherFault("command")
  /\ pc[r] \in {"incr", "expire", "ttl"}
  /\ Connected(r)
  /\ Goto(r, "opened")
  /\ UNCHANGED <<count, ttl, window, link, value>>

(* A connection is lost: commands that were executed and not answered are  *)
(* sent again later.                                                       *)
Unanswered(label) ==
  CASE label = "counted" -> "incr"
    [] label = "expiring" -> "expire"
    [] OTHER -> label
LinkDown(w) ==
  /\ AnotherFault("connection")
  /\ link[w] = "up"
  /\ link' = [link EXCEPT ![w] = "down"]
  /\ pc' = [r \in Requests |->
              IF WorkerOf[r] = w THEN Unanswered(pc[r]) ELSE pc[r]]
  /\ UNCHANGED <<count, ttl, window, value>>

LinkUp(w) ==
  /\ link[w] = "down"
  /\ link' = [link EXCEPT ![w] = "up"]
  /\ UNCHANGED <<count, ttl, window, pc, value, faults>>

(* A worker dies with its requests; the primary starts another.            *)
Crash(w) ==
  /\ AnotherFault("worker")
  /\ link' = [link EXCEPT ![w] = "up"]
  /\ pc' = [r \in Requests |->
              IF WorkerOf[r] = w /\ pc[r] \notin {"idle"} \cup Decided
              THEN "lost" ELSE pc[r]]
  /\ pc' # pc
  /\ UNCHANGED <<count, ttl, window, value>>

(* The client sent nothing more and the window is over, or never ends.     *)
Quiescent ==
  /\ \A r \in Requests : pc[r] \in Decided
  /\ ttl <= 0
  /\ UNCHANGED vars

Handle(r) == \/ Incr(r) \/ Counted(r) \/ Expire(r) \/ Expiring(r) \/ ReadTtl(r)

Next ==
  \/ \E r \in Requests : Arrive(r) \/ Handle(r) \/ CommandFails(r)
  \/ \E w \in Workers : LinkDown(w) \/ LinkUp(w) \/ Crash(w)
  \/ Tick
  \/ Quiescent

Spec == Init /\ [][Next]_vars

(* Handlers go on while they are connected, and time passes; nothing       *)
(* promises that a connection comes back.                                  *)
FairSpec == Spec /\ WF_vars(Tick) /\ \A r \in Requests : WF_vars(Handle(r))

-----------------------------------------------------------------------------
(* At most Max requests of a window pass by their count, whatever was sent *)
(* twice, lost or let through by an error (rateLimiter.js: count > max).   *)
AtMostMaxPass == Cardinality({r \in window : pc[r] = "passed"}) <= Max

(* Requests counted in one window have counts of their own.                *)
OneCountEach ==
  \A q, r \in window :
    /\ value[r] \in 1 .. count
    /\ q # r => value[q] # value[r]

(* A request that passed by its count was counted at most Max.             *)
PassedByCount == \A r \in Requests : pc[r] = "passed" => value[r] <= Max

(* The inductive invariant: types, and the counts that differ however many *)
(* workers and repeated commands there are.                                *)
LimiterInv == TypeOK /\ OneCountEach /\ PassedByCount

(* Unless something failed, a counter that does not expire is about to be  *)
(* given an expiry by the request that made it (rateLimiter.js:            *)
(* count === 1).                                                           *)
CounterExpires ==
  (faults = 0 /\ ttl = Persistent) =>
    \E r \in Requests : value[r] = 1 /\ pc[r] \in {"counted", "expire"}

(* While its window lasts and nothing has failed, a request is refused     *)
(* only when Max others were counted in it: the counter does not run ahead *)
(* of the requests, and a window that ended is not held against anybody.   *)
RefusedOnlyBeyondMax ==
  [][\A r \in window :
       (faults = 0 /\ pc[r] # "ttl" /\ pc'[r] = "ttl")
         => Cardinality(window \ {r}) >= Max]_vars

(* Unless something fails, every window ends.                              *)
WindowEnds == (count > 0) ~> (count = 0 \/ faults > 0)

(* Every request is decided, by its count or by failing open, if only its  *)
(* worker is connected to Redis.                                           *)
EveryRequestDecided ==
  \A r \in Requests :
    (pc[r] # "idle") ~> (pc[r] \in Decided \/ ~Connected(r))

-----------------------------------------------------------------------------
(* Every window ends: a client that was refused is let in again            *)
(* ("fixed-window"; "Please try again later").                             *)
RefusedAreLetInAgain == (count > 0) ~> (count = 0)
=============================================================================
