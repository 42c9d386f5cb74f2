SPECIFICATION Spec
CONSTANTS
  Callers = {c1}
  Text <- MCText
  Rows <- MCRows
  Entries <- MCEntries
  Defaults <- MCDefaults
  Requests <- MCRequests
  Releases <- MCReleases
  ModelDefaults <- MCModelDefaults
  NotGiven = NotGiven
  NoBlock = NoBlock
  BadRow = BadRow
  NoPlan = NoPlan
  MaxEdits = 2
INVARIANTS
  TypeOK
  WholeBlocks
  CliTrainsWhatItRecords
PROPERTIES
  ImplementsConfirmation
  RejectsOnlyOtherParameters
CHECK_DEADLOCK FALSE
