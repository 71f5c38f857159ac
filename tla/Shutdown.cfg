\* A signal to the primary.
SPECIFICATION Spec
CONSTANTS
  Workers = {A, B}
  NoWorker = NoWorker
  Requests = {api, health}
  HealthChecks = {health}
  Faults = 1
INVARIANT ShutdownIsGraceful
