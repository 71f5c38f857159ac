--------------------------- MODULE LifecycleProofs ---------------------------
(***************************************************************************)
(* No worker disconnects before it has answered what it accepted, for any  *)
(* number of workers, requests and faults; and none drops a request on a   *)
(* signal unless the primary is gone.                                      *)
(***************************************************************************)
EXTENDS Lifecycle, TLAPS

(* No worker serves and no request was sent when the service starts.       *)
LEMMA Initially == Init => LifecycleInv
  BY LifecycleAssumption, SMTT(30)
     DEF Init, LifecycleInv, TypeOK, AnsweredBeforeDisconnect, States

(* A worker that exits leaves no open request, and gives those it drops    *)
(* its reason.                                                             *)
LEMMA ExitKeepsTypes ==
  ASSUME TypeOK, NEW w \in Workers, faults' \in 0 .. Faults,
         NEW why \in {"signal", "timer", "exit", "primary", "death"}, Exit(w, why)
  PROVE  TypeOK'
  BY SMTT(30) DEF TypeOK, Exit, Become, States, Open

(* A worker that exits drops what it has open; it may do so by itself only *)
(* when nothing is.                                                        *)
LEMMA ExitDrops ==
  ASSUME LifecycleInv, NEW w \in Workers, faults' \in 0 .. Faults,
         NEW why \in {"signal", "timer", "exit", "primary", "death"}, Exit(w, why),
         why \in {"signal", "exit"} => Open(w) = {}
  PROVE  LifecycleInv'
<1>1. TypeOK'
  BY ExitKeepsTypes DEF LifecycleInv
<1>2. ASSUME NEW r \in Requests
      PROVE  /\ pc'[r] = "open" => on'[r] \in Workers
                                     /\ worker'[on'[r]] \in {"serving", "closing"}
             /\ cause'[r] \notin {"exit", "signal"}
  <2>1. pc'[r] = "open" => pc[r] = "open" /\ on[r] # w
    BY SMT DEF Exit, Open, LifecycleInv, TypeOK
  <2>2. worker' = [worker EXCEPT ![w] = "gone"] /\ on' = on
    BY DEF Exit, Become
  <2>3. cause'[r] \notin {"exit", "signal"}
    <3>1. CASE r \in Open(w)
      BY <3>1, SMT DEF Exit, LifecycleInv, TypeOK
    <3>2. CASE r \notin Open(w)
      BY <3>2, SMT DEF Exit, LifecycleInv, TypeOK, AnsweredBeforeDisconnect
    <3>. QED  BY <3>1, <3>2
  <2>. QED
    BY <2>1, <2>2, <2>3, SMT DEF LifecycleInv, TypeOK, AnsweredBeforeDisconnect
<1>. QED
  BY <1>1, <1>2 DEF LifecycleInv, AnsweredBeforeDisconnect

(* Only serving and closing workers have open requests.                    *)
LEMMA OthersHaveNone ==
  ASSUME LifecycleInv, NEW w \in Workers, worker[w] \notin {"serving", "closing"}
  PROVE  Open(w) = {}
  BY DEF LifecycleInv, AnsweredBeforeDisconnect, Open

(* What workers and the primary do with them.                              *)
LEMMA WorkerStep ==
  ASSUME LifecycleInv, NEW w \in Workers, Run(w) \/ Signal(w) \/ Death(w)
  PROVE  LifecycleInv'
<1>0. faults \in 0 .. Faults /\ Faults \in Nat
  BY LifecycleAssumption DEF LifecycleInv, TypeOK
<1>1. CASE Start(w)
  BY <1>1, SMTT(30) DEF Start, Become, requests, LifecycleInv, TypeOK, States,
     AnsweredBeforeDisconnect
<1>2. CASE StartFails(w)
  <2>1. Open(w) = {}
    BY <1>2, OthersHaveNone DEF StartFails
  <2>. QED  BY <1>0, <1>2, <2>1, ExitDrops, Zenon DEF StartFails
<1>3. CASE Close(w)
  BY <1>3, SMTT(30) DEF Close, Drained, Open, Become, requests, LifecycleInv, TypeOK,
     States, AnsweredBeforeDisconnect
<1>4. CASE Quit(w)
  <2>1. Open(w) = {}
    BY <1>4, OthersHaveNone DEF Quit
  <2>. QED  BY <1>0, <1>4, <2>1, ExitDrops, Zenon DEF Quit
<1>5. CASE Timeout(w)
  BY <1>0, <1>5, ExitDrops, Zenon DEF Timeout
<1>6. CASE Refork(w)
  BY <1>6, SMTT(30) DEF Refork, Become, requests, LifecycleInv, TypeOK, States,
     AnsweredBeforeDisconnect
<1>7. CASE Orphaned(w)
  BY <1>0, <1>7, ExitDrops, Zenon DEF Orphaned
<1>8. CASE Death(w)
  <2>1. faults' \in 0 .. Faults
    BY <1>0, <1>8, SMT DEF Death, Fault
  <2>. QED  BY <1>8, <2>1, ExitDrops, Zenon DEF Death
<1>9. CASE Signal(w)
  <2>1. faults' \in 0 .. Faults
    BY <1>0, <1>9, SMT DEF Signal, Fault
  <2>2. CASE worker[w] = "starting" /\ Exit(w, "signal")
    <3>1. Open(w) = {}
      BY <2>2, OthersHaveNone
    <3>. QED  BY <2>1, <2>2, <3>1, ExitDrops, Zenon
  <2>3. CASE worker[w] = "serving" /\ Become(w, "closing")
               /\ UNCHANGED <<primary, requests, leftover, up>>
    BY <2>1, <2>3, SMTT(30) DEF Become, requests, LifecycleInv, TypeOK, States,
       AnsweredBeforeDisconnect
  <2>. QED  BY <1>9, <2>2, <2>3 DEF Signal
<1>. QED
  BY <1>1, <1>2, <1>3, <1>4, <1>5, <1>6, <1>7, <1>8, <1>9 DEF Run

(* What requests and their clients do.                                     *)
LEMMA RequestStep ==
  ASSUME LifecycleInv, NEW r \in Requests,
         Handle(r) \/ Abandon(r) \/ \E w \in Workers : Arrive(r, w)
  PROVE  LifecycleInv'
<1>1. ASSUME NEW service, Hear(r, service)
      PROVE  LifecycleInv'
  <2>1. needs' \in [Requests -> SUBSET {"redis", "database"}]
    <3>1. needs[r] \ {service} \in SUBSET {"redis", "database"}
      BY DEF LifecycleInv, TypeOK
    <3>. QED  BY <1>1, <3>1, Zenon DEF Hear, LifecycleInv, TypeOK
  <2>. QED
    BY <1>1, <2>1 DEF Hear, LifecycleInv, TypeOK, AnsweredBeforeDisconnect
<1>4. CASE Answer(r)
  BY <1>4, SMTT(60) DEF Answer, LifecycleInv, TypeOK, AnsweredBeforeDisconnect
<1>2. CASE Abandon(r)
  BY <1>2, SMTT(60) DEF Abandon, LifecycleInv, TypeOK, States, AnsweredBeforeDisconnect
<1>3. ASSUME NEW w \in Workers, Arrive(r, w) PROVE LifecycleInv'
  BY <1>3, SMTT(60) DEF Arrive, LifecycleInv, TypeOK, States, AnsweredBeforeDisconnect
<1>. QED  BY <1>1, <1>2, <1>3, <1>4 DEF Handle

(* A signal to the primary, outages and their ends touch no request.       *)
LEMMA EnvironmentStep ==
  ASSUME LifecycleInv,
         \/ SignalPrimary
         \/ \E service \in {"redis", "database"} : Fails(service) \/ Returns(service)
         \/ UNCHANGED vars
  PROVE  LifecycleInv'
<1>0. Faults \in Nat
  BY LifecycleAssumption
<1>1. CASE SignalPrimary
  BY <1>0, <1>1, SMTT(30) DEF SignalPrimary, Fault, requests, LifecycleInv, TypeOK, States,
     AnsweredBeforeDisconnect
<1>2. ASSUME NEW service \in {"redis", "database"}, Fails(service) \/ Returns(service)
      PROVE  LifecycleInv'
  <2>1. UNCHANGED <<primary, worker, requests>>
    BY <1>2 DEF Fails, Returns
  <2>2. leftover' \subseteq Workers /\ up' \subseteq {"redis", "database"}
    BY <1>2, Zenon DEF Fails, Returns, LifecycleInv, TypeOK
  <2>3. faults' \in 0 .. Faults
    BY <1>0, <1>2, SMT DEF Fails, Returns, Fault, LifecycleInv, TypeOK
  <2>. QED
    BY <2>1, <2>2, <2>3 DEF requests, LifecycleInv, TypeOK, AnsweredBeforeDisconnect
<1>3. CASE UNCHANGED vars
  BY <1>3 DEF vars, requests, LifecycleInv, TypeOK, AnsweredBeforeDisconnect
<1>. QED  BY <1>1, <1>2, <1>3

(* No request is open at a worker that disconnects, exits or starts, and   *)
(* none is dropped by a worker that exits by itself (server.js).           *)
THEOREM WorkersDrain == Spec => []LifecycleInv
<1>1. LifecycleInv /\ [Next]_vars => LifecycleInv'
  BY WorkerStep, RequestStep, EnvironmentStep DEF Next, Quiescent
<1>. QED  BY Initially, <1>1, PTL DEF Spec

-----------------------------------------------------------------------------
(* Who lost his request because the primary went, lost it after that.      *)
LostToPrimary == \A r \in Requests : cause[r] = "primary" => primary = "gone"

(* A worker that exits without losing its primary adds no such loss.       *)
LEMMA ExitKeepsLosses ==
  ASSUME TypeOK, LostToPrimary, NEW w \in Workers, NEW why, Exit(w, why),
         why = "primary" => primary = "gone"
  PROVE  LostToPrimary'
  BY SMTT(30) DEF TypeOK, LostToPrimary, Exit

LEMMA LossesStep == LifecycleInv /\ LostToPrimary /\ [Next]_vars => LostToPrimary'
<1> SUFFICES ASSUME LifecycleInv, LostToPrimary, [Next]_vars PROVE LostToPrimary'
  OBVIOUS
<1>0. TypeOK
  BY DEF LifecycleInv
<1>1. ASSUME NEW w \in Workers, Run(w) \/ Signal(w) \/ Death(w)
      PROVE  LostToPrimary'
  <2>1. CASE \E why \in {"signal", "timer", "exit", "death"} : Exit(w, why)
    BY <1>0, <2>1, ExitKeepsLosses
  <2>2. CASE Orphaned(w)
    BY <1>0, <2>2, ExitKeepsLosses DEF Orphaned
  <2>3. CASE UNCHANGED <<primary, requests>>
    BY <2>3 DEF requests, LostToPrimary
  <2>. QED
    BY <1>1, <2>1, <2>2, <2>3
       DEF Run, Start, StartFails, Close, Quit, Timeout, Refork, Signal, Death
<1>2. ASSUME NEW r \in Requests,
             Handle(r) \/ Abandon(r) \/ \E w \in Workers : Arrive(r, w)
      PROVE  LostToPrimary'
  <2>1. CASE Abandon(r)
    BY <1>0, <2>1, SMT DEF Abandon, TypeOK, LostToPrimary
  <2>2. CASE UNCHANGED <<primary, cause>>
    BY <2>2 DEF LostToPrimary
  <2>. QED
    BY <1>2, <2>1, <2>2 DEF Handle, Hear, Answer, Arrive
<1>3. CASE SignalPrimary
  BY <1>3 DEF SignalPrimary, requests, LostToPrimary
<1>4. CASE \E service \in {"redis", "database"} : Fails(service) \/ Returns(service)
  BY <1>4 DEF Fails, Returns, requests, LostToPrimary
<1>5. CASE UNCHANGED vars
  BY <1>5 DEF vars, LostToPrimary
<1>. QED
  BY <1>1, <1>2, <1>3, <1>4, <1>5 DEF Next, Quiescent

(* The README's "graceful shutdown" holds as long as the primary lives, or *)
(* there is none: its death is all that makes signals drop requests that   *)
(* did not outlast the ten seconds (cluster.js has no handler for them).   *)
THEOREM GracefulWithoutPrimaryLoss == Spec => [](primary # "gone" => ShutdownIsGraceful)
<1>1. LifecycleInv /\ LostToPrimary => (primary # "gone" => ShutdownIsGraceful)
  BY SMT DEF LifecycleInv, TypeOK, AnsweredBeforeDisconnect, LostToPrimary, ShutdownIsGraceful
<1>2. Init => LostToPrimary
  BY DEF Init, LostToPrimary
<1>. QED
  BY <1>1, <1>2, WorkersDrain, LossesStep, PTL DEF Spec
=============================================================================
