SPECIFICATION Spec
CONSTANTS
  Requests <- MCRequests
  Manifests <- MCManifests
  Contents = {"a", "b"}
  Models = {"pump"}
  Tenants = {"plant"}
  Times <- MCTimes
  Interval = 2
  W = 30
  Horizon = 2
  Fraction = 2
  Digits = 3
  MaxExchanges = 2
INVARIANTS
  TypeOK
  ReplayStable
  RetryAccepted
  ForecastContinuesHistory
  OneDeployment
CHECK_DEADLOCK FALSE
