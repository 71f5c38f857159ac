------------------------- MODULE RateLimiterProofs -------------------------
(***************************************************************************)
(* The rate limiter admits at most Max requests per window, for any number *)
(* of requests, workers and failures, and as long as nothing fails every   *)
(* counter is given its expiry and nobody is refused too early; a counter  *)
(* that lost its expiry at the maximum never gets one again.               *)
(***************************************************************************)
EXTENDS RateLimiter, FiniteSetTheorems, TLAPS

USE DEF Labels, Decided, Absent, Persistent

(* The invariant holds when the service starts.                            *)
LEMMA LimiterInit == Init => LimiterInv
  BY WorkerAssumption, LimitAssumption, FaultsAssumption
     DEF Init, LimiterInv, TypeOK, OneCountEach, PassedByCount

(* No step of a handler, of Redis, of a connection or of a worker breaks   *)
(* it.                                                                     *)
LEMMA LimiterStep == LimiterInv /\ [Next]_vars => LimiterInv'
  <1> SUFFICES ASSUME LimiterInv, [Next]_vars
               PROVE  LimiterInv'
    OBVIOUS
  <1> USE DEF LimiterInv, TypeOK, OneCountEach, PassedByCount
  <1>1. ASSUME NEW r \in Requests, Arrive(r)
        PROVE  LimiterInv'
    BY <1>1 DEF Arrive, Goto
  <1>2. ASSUME NEW r \in Requests, Incr(r)
        PROVE  LimiterInv'
    <2>1. /\ count' = count + 1
          /\ ttl' \in {Persistent, ttl}
          /\ window' = window \cup {r}
          /\ value' = [value EXCEPT ![r] = count + 1]
          /\ pc' = [pc EXCEPT ![r] = "counted"]
          /\ UNCHANGED <<link, faults>>
      BY <1>2 DEF Incr, Goto, Successor
    <2>2. TypeOK'
      BY <2>1
    <2>3. ASSUME NEW q \in window', NEW s \in window'
          PROVE  /\ value'[s] \in 1 .. count'
                 /\ q # s => value'[q] # value'[s]
      BY <2>1, <2>3
    <2>4. PassedByCount'
      BY <2>1
    <2> QED
      BY <2>2, <2>3, <2>4
  <1>3. ASSUME NEW r \in Requests, Counted(r) \/ Expiring(r)
        PROVE  LimiterInv'
    <2>1. PICK label \in {"expire", "ttl", "passed"} :
            /\ pc' = [pc EXCEPT ![r] = label]
            /\ label = "passed" => value[r] <= Max
      BY <1>3, LimitAssumption
         DEF Counted, Expiring, AfterLimit, SetsExpiry, Goto
    <2>2. UNCHANGED <<count, ttl, window, link, value, faults>>
      BY <1>3 DEF Counted, Expiring
    <2> QED
      BY <2>1, <2>2
  <1>4. ASSUME NEW r \in Requests, Expire(r) \/ ReadTtl(r)
        PROVE  LimiterInv'
    <2>1. PICK label \in {"expiring", "refused"} :
            pc' = [pc EXCEPT ![r] = label]
      BY <1>4 DEF Expire, ReadTtl, Goto
    <2>2. /\ UNCHANGED <<count, window, link, value, faults>>
          /\ ttl' \in {ttl, Window}
      BY <1>4 DEF Expire, ReadTtl
    <2> QED
      BY <2>1, <2>2, LimitAssumption
  <1>5. CASE Tick
    <2>1. UNCHANGED <<link, pc, value, faults>>
      BY <1>5 DEF Tick
    <2>2. CASE ttl = 1
      BY <1>5, <2>1, <2>2 DEF Tick
    <2>3. CASE ttl # 1
      BY <1>5, <2>1, <2>3, LimitAssumption DEF Tick
    <2> QED
      BY <2>2, <2>3
  <1>6. ASSUME NEW r \in Requests, CommandFails(r)
        PROVE  LimiterInv'
    BY <1>6, FaultsAssumption DEF CommandFails, AnotherFault, Goto
  <1>7. ASSUME NEW w \in Workers, LinkDown(w)
        PROVE  LimiterInv'
    BY <1>7, FaultsAssumption DEF LinkDown, AnotherFault, Unanswered
  <1>8. ASSUME NEW w \in Workers, LinkUp(w)
        PROVE  LimiterInv'
    BY <1>8 DEF LinkUp
  <1>9. ASSUME NEW w \in Workers, Crash(w)
        PROVE  LimiterInv'
    BY <1>9, FaultsAssumption DEF Crash, AnotherFault
  <1>10. CASE Quiescent \/ UNCHANGED vars
    BY <1>10 DEF Quiescent, vars
  <1> QED
    BY <1>1, <1>2, <1>3, <1>4, <1>5, <1>6, <1>7, <1>8, <1>9, <1>10
       DEF Next, Handle

(* Counts of one window differ and lie between 1 and the counter, for any  *)
(* number of requests, workers and failures.                               *)
THEOREM CountsDiffer == Spec => []LimiterInv
  BY LimiterInit, LimiterStep, PTL DEF Spec

(* What the counts are for: at most Max requests of a window pass.         *)
LEMMA CountsBoundPasses == LimiterInv => AtMostMaxPass
  <1> SUFFICES ASSUME LimiterInv
               PROVE  AtMostMaxPass
    OBVIOUS
  <1> DEFINE P == {r \in window : pc[r] = "passed"}
             f == [r \in P |-> value[r]]
  <1>1. f \in Injection(P, 1 .. Max)
    <2>1. f \in [P -> 1 .. Max]
      BY LimitAssumption DEF LimiterInv, TypeOK, OneCountEach, PassedByCount
    <2>2. \A q, r \in P : f[q] = f[r] => q = r
      BY DEF LimiterInv, OneCountEach
    <2> QED
      BY <2>1, <2>2 DEF Injection, IsInjective
  <1>2. IsFiniteSet(1 .. Max) /\ Cardinality(1 .. Max) = Max
    BY FS_Interval, LimitAssumption
  <1>3. Cardinality(P) <= Cardinality(1 .. Max)
    BY <1>1, <1>2, FS_Injection
  <1> QED
    BY <1>2, <1>3 DEF AtMostMaxPass

(* However many workers there are and whatever is sent twice, no window    *)
(* admits more than Max requests by their count.                           *)
THEOREM LimitIsKept == Spec => []AtMostMaxPass
  BY CountsDiffer, CountsBoundPasses, PTL

-----------------------------------------------------------------------------
(* The key is gone exactly when its time to live says so.                  *)
ExpiryInv == (count = 0 <=> ttl = Absent) /\ CounterExpires

(* The invariant holds when the service starts.                            *)
LEMMA ExpiryInit == Init => ExpiryInv
  BY DEF Init, ExpiryInv, CounterExpires

(* The request that made the counter stays on its way to EXPIRE until it   *)
(* gets there or something fails.                                          *)
LEMMA ExpiryStep == LimiterInv /\ ExpiryInv /\ [Next]_vars => ExpiryInv'
  <1> SUFFICES ASSUME LimiterInv, ExpiryInv, [Next]_vars
               PROVE  ExpiryInv'
    OBVIOUS
  <1> USE DEF LimiterInv, TypeOK, ExpiryInv, CounterExpires
  <1>1. ASSUME NEW r \in Requests, Incr(r)
        PROVE  ExpiryInv'
    <2>1. CASE count = 0
      BY <1>1, <2>1 DEF Incr, Goto, Successor
    <2>2. CASE count # 0
      BY <1>1, <2>2 DEF Incr, Goto, Successor
    <2> QED
      BY <2>1, <2>2
  <1>2. ASSUME NEW r \in Requests, Counted(r)
        PROVE  ExpiryInv'
    BY <1>2 DEF Counted, Goto, SetsExpiry, AfterLimit
  <1>3. ASSUME NEW r \in Requests, Expire(r)
        PROVE  ExpiryInv'
    BY <1>3, LimitAssumption DEF Expire, Goto
  <1>4. ASSUME NEW r \in Requests, Arrive(r) \/ Expiring(r) \/ ReadTtl(r)
        PROVE  ExpiryInv'
    <2>1. /\ UNCHANGED <<count, ttl, value, faults>>
          /\ pc[r] \notin {"counted", "expire"}
          /\ \A q \in Requests \ {r} : pc'[q] = pc[q]
      BY <1>4 DEF Arrive, Expiring, ReadTtl, Goto
    <2> QED
      BY <2>1
  <1>5. CASE Tick
    BY <1>5, LimitAssumption DEF Tick
  <1>6. ASSUME NEW kind, AnotherFault(kind), UNCHANGED <<count, ttl>>
        PROVE  ExpiryInv'
    BY <1>6, FaultsAssumption DEF AnotherFault
  <1>7. ASSUME NEW w \in Workers, LinkUp(w)
        PROVE  ExpiryInv'
    BY <1>7 DEF LinkUp
  <1>8. CASE Quiescent \/ UNCHANGED vars
    BY <1>8 DEF Quiescent, vars
  <1> QED
    BY <1>1, <1>2, <1>3, <1>4, <1>5, <1>6, <1>7, <1>8
       DEF Next, Handle, CommandFails, LinkDown, Crash

(* As long as nothing fails, whoever makes a counter is about to give it   *)
(* its expiry (rateLimiter.js: count === 1), for any number of requests    *)
(* and workers.                                                            *)
THEOREM CounterIsGivenExpiry == Spec => []CounterExpires
  <1>1. Spec => []ExpiryInv
    BY CountsDiffer, ExpiryInit, ExpiryStep, PTL DEF Spec
  <1>2. ExpiryInv => CounterExpires
    BY DEF ExpiryInv
  <1> QED
    BY <1>1, <1>2, PTL

-----------------------------------------------------------------------------
(* As long as nothing fails, every request is counted once: the counter is *)
(* the number of requests in the window.                                   *)
CountedOnce ==
  /\ IsFiniteSet(window)
  /\ faults = 0 => /\ count = Cardinality(window)
                   /\ \A r \in window : pc[r] \notin {"idle", "incr"}

(* The invariant holds when the service starts.                            *)
LEMMA CountedOnceInit == Init => CountedOnce
  BY FS_EmptySet DEF Init, CountedOnce

(* A request is added when it is counted, and never sent back to INCR.     *)
LEMMA CountedOnceStep == LimiterInv /\ CountedOnce /\ [Next]_vars => CountedOnce'
  <1> SUFFICES ASSUME LimiterInv, CountedOnce, [Next]_vars
               PROVE  CountedOnce'
    OBVIOUS
  <1> USE DEF LimiterInv, TypeOK, CountedOnce
  <1>1. ASSUME NEW r \in Requests, Incr(r)
        PROVE  CountedOnce'
    <2>1. /\ pc[r] = "incr" /\ count' = count + 1 /\ window' = window \cup {r}
          /\ pc' = [pc EXCEPT ![r] = "counted"] /\ faults' = faults
      BY <1>1 DEF Incr, Goto, Successor
    <2>2. IsFiniteSet(window')
      BY <2>1, FS_AddElement
    <2>3. faults = 0 => r \notin window
      BY <2>1
    <2>4. r \notin window => Cardinality(window') = Cardinality(window) + 1
      BY <2>1, FS_AddElement
    <2> QED
      BY <2>1, <2>2, <2>3, <2>4
  <1>2. ASSUME NEW r \in Requests,
               Arrive(r) \/ Counted(r) \/ Expire(r) \/ Expiring(r) \/ ReadTtl(r)
        PROVE  CountedOnce'
    <2>1. /\ UNCHANGED <<count, window, faults>>
          /\ pc[r] # "idle" => pc'[r] \notin {"idle", "incr"}
          /\ \A q \in Requests \ {r} : pc'[q] = pc[q]
      BY <1>2 DEF Arrive, Counted, Expire, Expiring, ReadTtl, Goto, AfterLimit
    <2> QED
      BY <2>1
  <1>3. CASE Tick
    <2>1. CASE ttl = 1
      BY <1>3, <2>1, FS_EmptySet DEF Tick
    <2>2. CASE ttl # 1
      BY <1>3, <2>2 DEF Tick
    <2> QED
      BY <2>1, <2>2
  <1>4. ASSUME NEW kind, AnotherFault(kind), window' = window
        PROVE  CountedOnce'
    BY <1>4, FaultsAssumption DEF AnotherFault
  <1>5. CASE Quiescent \/ (\E w \in Workers : LinkUp(w)) \/ UNCHANGED vars
    BY <1>5 DEF Quiescent, LinkUp, vars
  <1> QED
    BY <1>1, <1>2, <1>3, <1>4, <1>5
       DEF Next, Handle, CommandFails, LinkDown, Crash

(* A refusal comes of a count beyond Max.                                  *)
LEMMA RefusalStep ==
  ASSUME LimiterInv, CountedOnce, [Next]_vars,
         NEW r \in window, faults = 0, pc[r] # "ttl", pc'[r] = "ttl"
  PROVE  value[r] > Max
  <1> USE DEF LimiterInv, TypeOK
  <1>1. ASSUME NEW q \in Requests, Counted(q) \/ Expiring(q)
        PROVE  value[r] > Max
    <2>1. q = r
      BY <1>1 DEF Counted, Expiring, Goto
    <2> QED
      BY <1>1, <2>1 DEF Counted, Expiring, Goto, AfterLimit
  <1>2. ASSUME NEW q \in Requests,
               Arrive(q) \/ Incr(q) \/ Expire(q) \/ ReadTtl(q) \/ CommandFails(q)
        PROVE  FALSE
    BY <1>2 DEF Arrive, Incr, Expire, ReadTtl, CommandFails, Goto
  <1>3. ASSUME NEW w \in Workers, LinkDown(w) \/ LinkUp(w) \/ Crash(w)
        PROVE  FALSE
    BY <1>3 DEF LinkDown, LinkUp, Crash, Unanswered
  <1>4. CASE Tick \/ Quiescent \/ UNCHANGED vars
    BY <1>4 DEF Tick, Quiescent, vars
  <1> QED
    BY <1>1, <1>2, <1>3, <1>4 DEF Next, Handle

(* As long as nothing fails, a request is refused only when Max others     *)
(* were counted in its window (rateLimiter.js: count > max), for any       *)
(* number of requests and workers.                                         *)
THEOREM RefusalsAreDue == Spec => RefusedOnlyBeyondMax
  <1>1. ASSUME LimiterInv, CountedOnce, [Next]_vars
        PROVE  [\A r \in window :
                  (faults = 0 /\ pc[r] # "ttl" /\ pc'[r] = "ttl")
                    => Cardinality(window \ {r}) >= Max]_vars
    <2> SUFFICES ASSUME NEW r \in window, faults = 0, pc[r] # "ttl", pc'[r] = "ttl"
                 PROVE  Cardinality(window \ {r}) >= Max
      OBVIOUS
    <2>1. value[r] > Max /\ value[r] \in 1 .. count
      BY <1>1, RefusalStep DEF LimiterInv, OneCountEach
    <2>2. IsFiniteSet(window) /\ count = Cardinality(window)
      BY <1>1 DEF CountedOnce
    <2>3. Cardinality(window \ {r}) = Cardinality(window) - 1
      BY <2>2, FS_RemoveElement
    <2>4. count \in Nat
      BY <1>1 DEF LimiterInv, TypeOK
    <2> QED
      BY <2>1, <2>2, <2>3, <2>4, LimitAssumption
  <1>2. Spec => []CountedOnce
    BY CountsDiffer, CountedOnceInit, CountedOnceStep, PTL DEF Spec
  <1> QED
    BY <1>1, <1>2, CountsDiffer, PTL DEF Spec, RefusedOnlyBeyondMax

-----------------------------------------------------------------------------
(* The counter has reached the maximum and has no expiry, and nobody is on *)
(* the way to give it one.  The run limiter_eternal gets there when a      *)
(* worker dies between INCR and EXPIRE; a failed EXPIRE and an INCR that   *)
(* is sent twice, so that no answer is 1, lead there as well.              *)
LockedOut ==
  /\ ttl = Persistent /\ count >= Max /\ count >= 1
  /\ \A r \in Requests : /\ pc[r] \notin {"expire", "expiring"}
                         /\ pc[r] = "counted" => value[r] # 1

(* From then on the client stays locked out, and whoever is counted is     *)
(* counted beyond the maximum: no request that comes, no step of a worker  *)
(* and no time ends it (rateLimiter.js: only count === 1 sets the expiry). *)
LockoutLasts ==
  [][LockedOut =>
       /\ LockedOut'
       /\ \A r \in Requests :
            (pc[r] = "incr" /\ pc'[r] = "counted") => value'[r] > Max]_vars
THEOREM LockoutIsForEver == Spec => LockoutLasts
  <1>1. ASSUME LimiterInv, [Next]_vars, LockedOut
        PROVE  /\ LockedOut'
               /\ \A r \in Requests :
                    (pc[r] = "incr" /\ pc'[r] = "counted") => value'[r] > Max
    <2> USE <1>1, LimitAssumption DEF LimiterInv, TypeOK, LockedOut
    <2>1. ASSUME NEW r \in Requests, Incr(r)
          PROVE  /\ LockedOut'
                 /\ \A q \in Requests :
                      (pc[q] = "incr" /\ pc'[q] = "counted") => value'[q] > Max
      BY <2>1 DEF Incr, Goto, Successor
    <2>2. ASSUME NEW r \in Requests, Counted(r)
          PROVE  /\ LockedOut'
                 /\ \A q \in Requests : pc[q] = "incr" => pc'[q] = "incr"
      BY <2>2 DEF Counted, Goto, SetsExpiry, AfterLimit
    <2>3. ASSUME NEW r \in Requests, Expire(r) \/ Expiring(r) PROVE FALSE
      BY <2>3 DEF Expire, Expiring
    <2>4. ASSUME NEW r \in Requests, Arrive(r) \/ ReadTtl(r) \/ CommandFails(r)
          PROVE  /\ LockedOut'
                 /\ \A q \in Requests : pc[q] = "incr" => pc'[q] # "counted"
      BY <2>4 DEF Arrive, ReadTtl, CommandFails, Goto
    <2>5. ASSUME NEW w \in Workers, LinkDown(w) \/ LinkUp(w) \/ Crash(w)
          PROVE  /\ LockedOut'
                 /\ \A q \in Requests : pc[q] = "incr" => pc'[q] # "counted"
      BY <2>5 DEF LinkDown, LinkUp, Crash, Unanswered
    <2>6. CASE Tick
      BY <2>6 DEF Tick
    <2>7. CASE Quiescent \/ UNCHANGED vars
      BY <2>7 DEF Quiescent, vars
    <2> QED
      BY <2>1, <2>2, <2>3, <2>4, <2>5, <2>6, <2>7 DEF Next, Handle
  <1>2. LimiterInv /\ [Next]_vars =>
          [LockedOut =>
             /\ LockedOut'
             /\ \A r \in Requests :
                  (pc[r] = "incr" /\ pc'[r] = "counted") => value'[r] > Max]_vars
    BY <1>1
  <1> QED
    BY <1>2, CountsDiffer, PTL DEF Spec, LockoutLasts
=============================================================================
