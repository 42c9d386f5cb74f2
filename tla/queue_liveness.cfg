SPECIFICATION FairSpec
CONSTANTS
  j1 = j1
  j2 = j2
  w1 = w1
  w2 = w2
  Jobs = {j1, j2}
  Identities = {eq1}
  eq1 = eq1
  ModelTypes = {informer}
  informer = informer
  Workers = {w1, w2}
  NoJob = NoJob
  MaxCrashes = 1
PROPERTY AcceptedSettles
CHECK_DEADLOCK FALSE
