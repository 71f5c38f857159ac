\* A worker that dies between INCR and EXPIRE: the only failure there is.
SPECIFICATION FairSpec
CONSTANTS
  a1 = a1
  a2 = a2
  b1 = b1
  b2 = b2
  A = A
  B = B
  Requests = {a1, b1}
  Workers = {A, B}
  WorkerOf <- MCWorkerOf
  Max = 1
  Window = 2
  Faults = 1
  FaultKinds = {"worker"}
PROPERTY RefusedAreLetInAgain
