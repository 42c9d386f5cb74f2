SPECIFICATION FairSpec
CONSTANTS
  w1 = w1
  c1 = c1
  c2 = c2
  r1 = r1
  WorkerRuns = {w1}
  CliRuns = {c1}
  ModelTypes = {informer}
  informer = informer
  autoformer = autoformer
  Readers = {r1}
  NoRun = NoRun
  Tables = {"train_record", "model_info"}
  Visible = {w1, c1}
INVARIANT PlatformTellsTruth
PROPERTY RunSettles
CHECK_DEADLOCK FALSE
