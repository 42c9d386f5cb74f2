SPECIFICATION Spec
CONSTANTS
  Runs = {r1, r2}
  informer = informer
  autoformer = autoformer
  Placements <- MCPlacements
  Paths = {informer, autoformer}
  Losses <- MCLosses
  NoNumber = NoNumber
  r1 = r1
  r2 = r2
  Epochs <- MCEpochs
  Patience = 2
  Last = 2
  q1 = q1
  q2 = q2
  Requests = {q1, q2}
  Cached = {informer}
  Nobody = Nobody
INVARIANTS
  TypeOK
  TornOnlyByOverlap
  StaleOnlyFromMemory
  ReturnedBestIsOnDisk
  StopsWhenOutOfPatience
PROPERTIES
  OneModelPerProcess
  RequestsEnd
CHECK_DEADLOCK FALSE
