SPECIFICATION Spec
CONSTANTS
  w1 = w1
  c1 = c1
  c2 = c2
  r1 = r1
  WorkerRuns = {}
  CliRuns = {c1}
  ModelTypes = {informer}
  informer = informer
  autoformer = autoformer
  Readers = {r1}
  NoRun = NoRun
  Tables = {"train_record"}
  Visible = {c1}
PROPERTY FinishedStaysFinished
CHECK_DEADLOCK FALSE
