\* Two workers, a request and a health check, three signals, deaths or outages.
SPECIFICATION FairSpec
CONSTANTS
  Workers = {A, B}
  NoWorker = NoWorker
  Requests = {api, health}
  HealthChecks = {health}
  Faults = 3
INVARIANT LifecycleInv
PROPERTIES
  StopsWhenTold
  ClusterHeals
  AcceptedIsAnswered
