SPECIFICATION Spec
CONSTANTS
  j1 = j1
  w1 = w1
  c1 = c1
  informer = informer
  Jobs = {j1}
  Identity = eq1
  ModelTypes = {informer}
  Workers = {w1}
  NoJob = NoJob
  MaxCrashes = 1
  CliRuns = {c1}
  Tables = {"train_record"}
INVARIANT RowAndManifestAgree
PROPERTIES ImplementsRuns AcceptedSettles
CHECK_DEADLOCK FALSE
