SPECIFICATION Spec
CONSTANTS
  j1 = j1
  j2 = j2
  w1 = w1
  w2 = w2
  Jobs = {j1, j2}
  Identities = {eq1}
  eq1 = eq1
  ModelTypes = {informer, autoformer}
  informer = informer
  autoformer = autoformer
  Workers = {w1, w2}
  NoJob = NoJob
  MaxCrashes = 1
SYMMETRY Symmetry
INVARIANTS TypeOK AtMostOnce OneRunPerIdentity NoSilentOrphan OutcomeMatchesRow AnswersHold
PROPERTY ImplementsJobLifecycle
CHECK_DEADLOCK FALSE
