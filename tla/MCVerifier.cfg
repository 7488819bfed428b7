\* Three files out of twenty documents of a history, read in every order, one of them
\* possibly named a second time on the command line; or two files out of thirty-one
\* exhibits, under every choice of the tests about them.
CONSTANTS
  k1 = k1
  k2 = k2
  Ref <- MCRef
  KeyId = {k1, k2}
  Body <- MCBody
  NoLink = NoLink
  Dangling = Dangling
  NoDue = NoDue
  BadDue = BadDue
  NoCeiling = NoCeiling
  Malformed = Malformed
  NoFile = NoFile
  NoReport = NoReport
  NoQuestion = NoQuestion
  Directory = Directory
  Docs <- MCDocs
  Times <- MCTimes
  Path <- MCPath
  Arguments <- MCArguments
  Requests <- MCRequests
  MaxFiles = 4
SPECIFICATION MCSpec
PROPERTIES
  ImplementsCatalog
  RunEnds
INVARIANTS
  TypeOK
  PostregsPlacedOnce
  CountingRule
  KeyConsistExact
  PassMeansWhole
  WitnessesHold
CHECK_DEADLOCK FALSE
