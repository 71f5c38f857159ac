----------------------------- MODULE Lifecycle -----------------------------
(***************************************************************************)
(* The processes of the service: a cluster primary, if CLUSTER_ENABLED,    *)
(* and workers that connect to the database, listen, answer requests, shut *)
(* down when they are signalled and are forked again when they exit, while *)
(* the database and Redis come and go.                                     *)
(*                                                                         *)
(*   starting   connectDatabase(); no signal handler is installed yet      *)
(*   serving                                                               *)
(*   closing    server.close() waits for the requests in flight, and a     *)
(*              timer of ten seconds runs                                  *)
(*   quitting   the callback of server.close(): the database and Redis are *)
(*              disconnected                                               *)
(*   gone       exited                                                     *)
(*                                                                         *)
(* A request in flight needs Redis (the limiter, or the health check's     *)
(* ping) and the database.  A definition named X_Y is X with the mistake   *)
(* Y; see WalletLedger.                                                    *)
(***************************************************************************)
EXTENDS Naturals

CONSTANTS
  Workers,
  NoWorker,
  Requests,
  HealthChecks,   \* those that are GET /health
  Faults          \* bound on signals, deaths and outages

ASSUME LifecycleAssumption ==
  /\ NoWorker \notin Workers
  /\ HealthChecks \subseteq Requests
  /\ Faults \in Nat

VARIABLES
  primary,   \* "none" when the service is one process, "up" or "gone"
  worker,    \* the state of each slot
  pc,        \* "unsent", "open", "answered" or "dropped", for each request
  on,        \* the worker that has the request
  needs,     \* the services a request has still to hear of
  cause,     \* why a request was dropped
  leftover,  \* workers with Redis commands that nobody waits for any more
  up,        \* services that can be reached
  faults

vars == <<primary, worker, pc, on, needs, cause, leftover, up, faults>>
requests == <<pc, on, needs, cause>>

States == {"starting", "serving", "closing", "quitting", "gone"}
TypeOK ==
  /\ primary \in {"none", "up", "gone"}
  /\ worker \in [Workers -> States]
  /\ pc \in [Requests -> {"unsent", "open", "answered", "dropped"}]
  /\ on \in [Requests -> Workers \cup {NoWorker}]
  /\ needs \in [Requests -> SUBSET {"redis", "database"}]
  /\ cause \in [Requests -> {"none", "client", "signal", "timer", "exit",
                             "primary", "death"}]
  /\ leftover \subseteq Workers
  /\ up \subseteq {"redis", "database"}
  /\ faults \in 0 .. Faults

(* Without a cluster there is one worker, and nobody to fork it again.     *)
Init ==
  /\ primary \in {"none", "up"}
  /\ worker \in [Workers -> {"starting", "gone"}]
  /\ IF primary = "up"
     THEN \A w \in Workers : worker[w] = "starting"
     ELSE \A v, w \in Workers : worker[v] = "starting" /\ worker[w] = "starting" => v = w
  /\ pc = [r \in Requests |-> "unsent"]
  /\ on = [r \in Requests |-> NoWorker]
  /\ needs = [r \in Requests |-> {"redis", "database"}]
  /\ cause = [r \in Requests |-> "none"]
  /\ leftover = {}
  /\ up = {"redis", "database"}
  /\ faults = 0

Fault == faults < Faults /\ faults' = faults + 1
Become(w, state) == worker' = [worker EXCEPT ![w] = state]
Open(w) == {r \in Requests : on[r] = w /\ pc[r] = "open"}

(* process.exit() and death alike: the connections are closed.             *)
Exit(w, why) ==
  /\ Become(w, "gone")
  /\ pc' = [r \in Requests |-> IF r \in Open(w) THEN "dropped" ELSE pc[r]]
  /\ cause' = [r \in Requests |-> IF r \in Open(w) THEN why ELSE cause[r]]
  /\ leftover' = leftover \ {w}
  /\ UNCHANGED <<primary, on, needs, up>>

-----------------------------------------------------------------------------
(* server.js: start                                                        *)
Start(w) ==
  /\ worker[w] = "starting" /\ "database" \in up
  /\ Become(w, "serving")
  /\ UNCHANGED <<primary, requests, leftover, up, faults>>

StartFails(w) ==
  /\ worker[w] = "starting" /\ "database" \notin up
  /\ Exit(w, "exit") /\ UNCHANGED faults

(* SIGTERM or SIGINT.  Before the handlers are installed it kills; after   *)
(* the first one, shutdown() runs once more and changes nothing.           *)
Signal(w) ==
  /\ Fault
  /\ \/ worker[w] = "starting" /\ Exit(w, "signal")
     \/ /\ worker[w] = "serving"
        /\ Become(w, "closing")
        /\ UNCHANGED <<primary, requests, leftover, up>>

Drained_NoWait(w) == TRUE
Drained(w) == Open(w) = {}
Close(w) ==
  /\ worker[w] = "closing" /\ Drained(w)
  /\ Become(w, "quitting")
  /\ UNCHANGED <<primary, requests, leftover, up, faults>>

(* redis.quit() waits behind the commands that wait for a connection.      *)
Disconnected(w) == "redis" \in up \/ w \notin leftover
Quit(w) ==
  /\ worker[w] = "quitting" /\ Disconnected(w)
  /\ Exit(w, "exit") /\ UNCHANGED faults

TimerRuns_UntilClosed(w) == worker[w] = "closing"
TimerRuns(w) == worker[w] \in {"closing", "quitting"}
Timeout(w) == TimerRuns(w) /\ Exit(w, "timer") /\ UNCHANGED faults

-----------------------------------------------------------------------------
(* cluster.js.  The primary handles no signal: it is terminated.           *)
Refork_LogsOnly(w) == primary = "up" /\ worker[w] = "gone" /\ UNCHANGED vars
Refork(w) ==
  /\ primary = "up" /\ worker[w] = "gone"
  /\ Become(w, "starting")
  /\ UNCHANGED <<primary, requests, leftover, up, faults>>

SignalPrimary ==
  /\ Fault /\ primary = "up"
  /\ primary' = "gone"
  /\ UNCHANGED <<worker, requests, leftover, up>>

(* Node's cluster module exits when the channel to the primary closes.     *)
Orphaned(w) ==
  /\ primary = "gone" /\ worker[w] # "gone"
  /\ Exit(w, "primary") /\ UNCHANGED faults

Death(w) == Fault /\ worker[w] # "gone" /\ Exit(w, "death")

-----------------------------------------------------------------------------
(* Requests.  A closing server accepts no connection, but those that are   *)
(* open may carry another request.                                         *)
Arrive(r, w) ==
  /\ pc[r] = "unsent"
  /\ worker[w] = "serving" \/ (worker[w] = "closing" /\ Open(w) # {})
  /\ pc' = [pc EXCEPT ![r] = "open"]
  /\ on' = [on EXCEPT ![r] = w]
  /\ UNCHANGED <<primary, worker, needs, cause, leftover, up, faults>>

(* The health check asks both at once, any other handler the limiter       *)
(* first.  A command waits for Redis; a statement fails without the        *)
(* database, which is answered too (500, or 503 by the health check).      *)
Settles_IfUp(service) == service \in up
Settles(service) == service = "redis" => "redis" \in up
Asks(r) == IF r \in HealthChecks \/ "redis" \notin needs[r] THEN needs[r] ELSE {"redis"}
Hear(r, service) ==
  /\ pc[r] = "open" /\ service \in Asks(r)
  /\ Settles(service)
  /\ needs' = [needs EXCEPT ![r] = @ \ {service}]
  /\ UNCHANGED <<primary, worker, pc, on, cause, leftover, up, faults>>

(* A request that the limiter or a middleware behind it refuses is         *)
(* answered without the database.                                          *)
Answer(r) ==
  /\ pc[r] = "open"
  /\ needs[r] = {} \/ (r \notin HealthChecks /\ "redis" \notin needs[r])
  /\ pc' = [pc EXCEPT ![r] = "answered"]
  /\ UNCHANGED <<primary, worker, on, needs, cause, leftover, up, faults>>

(* A client gives up; its command stays in ioredis's queue.                *)
Abandon(r) ==
  /\ pc[r] = "open"
  /\ pc' = [pc EXCEPT ![r] = "dropped"]
  /\ cause' = [cause EXCEPT ![r] = "client"]
  /\ leftover' = IF "redis" \in needs[r] \ up THEN leftover \cup {on[r]} ELSE leftover
  /\ UNCHANGED <<primary, worker, on, needs, up, faults>>

Fails(service) ==
  /\ Fault /\ service \in up
  /\ up' = up \ {service}
  /\ UNCHANGED <<primary, worker, requests, leftover>>
Returns(service) ==
  /\ service \notin up
  /\ up' = up \cup {service}
  /\ leftover' = IF service = "redis" THEN {} ELSE leftover
  /\ UNCHANGED <<primary, worker, requests, faults>>

Quiescent ==
  /\ \A w \in Workers : worker[w] \in {"serving", "gone"}
  /\ \A r \in Requests : pc[r] # "open"
  /\ UNCHANGED vars

Run(w) ==
  Start(w) \/ StartFails(w) \/ Close(w) \/ Quit(w) \/ Timeout(w) \/ Refork(w)
    \/ Orphaned(w)
Handle(r) == Hear(r, "redis") \/ Hear(r, "database") \/ Answer(r)

Next ==
  \/ \E w \in Workers : Run(w) \/ Signal(w) \/ Death(w)
  \/ SignalPrimary
  \/ \E r \in Requests : Handle(r) \/ Abandon(r) \/ \E w \in Workers : Arrive(r, w)
  \/ \E service \in {"redis", "database"} : Fails(service) \/ Returns(service)
  \/ Quiescent

Spec == Init /\ [][Next]_vars

(* Processes run, handlers go on, and the timer expires; no service is     *)
(* promised to return.                                                     *)
FairSpec ==
  /\ Spec
  /\ \A w \in Workers : WF_vars(Run(w))
  /\ \A r \in Requests : WF_vars(Handle(r))

-----------------------------------------------------------------------------
(* A worker disconnects from the database only when every request it       *)
(* accepted is answered (server.js: server.close), although connections    *)
(* that are open bring new ones while it closes; so it drops none when it  *)
(* exits by itself, nor when it cannot start.                              *)
AnsweredBeforeDisconnect ==
  \A r \in Requests :
    /\ pc[r] = "open" => on[r] \in Workers /\ worker[on[r]] \in {"serving", "closing"}
    /\ cause[r] \notin {"exit", "signal"}
LifecycleInv == TypeOK /\ AnsweredBeforeDisconnect

(* A worker that was told to stop stops, whatever becomes of its requests, *)
(* the database and Redis (server.js: the timer).                          *)
StopsWhenTold ==
  \A w \in Workers : (worker[w] \in {"closing", "quitting"}) ~> (worker[w] = "gone")

(* A cluster heals: after any number of deaths, signals and failed starts  *)
(* every worker serves again, once the database is there to stay and while *)
(* the primary lives (cluster.js: exit).                                   *)
ClusterHeals ==
  <>[](primary = "up" /\ "database" \in up) =>
    \A w \in Workers : <>[](worker[w] \in {"serving", "closing", "quitting"})

(* Every request is answered, health checks included, unless its client    *)
(* gives up, its process is killed or runs out of its ten seconds, or      *)
(* Redis is away.                                                          *)
AcceptedIsAnswered ==
  \A r \in Requests :
    (pc[r] = "open") ~>
      (pc[r] = "answered" \/ cause[r] # "none" \/ "redis" \notin up)

-----------------------------------------------------------------------------
(* "cluster + graceful shutdown" (README, server.js): where nothing died,  *)
(* signals drop only the requests that outlast the ten seconds.            *)
ShutdownIsGraceful ==
  \A r \in Requests : cause[r] \in {"none", "client", "timer", "death"}
=============================================================================
