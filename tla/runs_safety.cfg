SPECIFICATION Spec
CONSTANTS
  w1 = w1
  c1 = c1
  c2 = c2
  r1 = r1
  WorkerRuns = {w1}
  CliRuns = {c1}
  ModelTypes = {informer, autoformer}
  informer = informer
  autoformer = autoformer
  Readers = {r1}
  NoRun = NoRun
  Tables = {"train_record"}
  Visible = {w1, c1}
SYMMETRY Symmetry
INVARIANTS TypeOK OneAtATime SucceededIsReal InterruptedMeansGone AnswerIsTrue
PROPERTY DirectoryKeepsOwner
CHECK_DEADLOCK FALSE
