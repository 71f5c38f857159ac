\* Two workers, lost connections, failing commands, dying workers.
SPECIFICATION FairSpec
CONSTANTS
  a1 = a1
  a2 = a2
  b1 = b1
  b2 = b2
  A = A
  B = B
  Requests = {a1, a2, b1}
  Workers = {A, B}
  WorkerOf <- MCWorkerOf
  Max = 1
  Window = 2
  Faults = 2
  FaultKinds = {"connection", "command", "worker"}
INVARIANTS
  LimiterInv
  AtMostMaxPass
  CounterExpires
PROPERTIES
  RefusedOnlyBeyondMax
  WindowEnds
  EveryRequestDecided
