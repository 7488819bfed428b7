\* Up to three files added one by one, each torn for a while, while the directory is
\* verified over and over across the deadline of its prereg.
CONSTANTS
  k1 = k1
  k2 = k2
  Ref <- MCRef
  KeyId = {k1, k2}
  Body <- MCBody
  NoLink = NoLink
  Dangling = Dangling
  NoDue = NoDue
  BadDue = BadDue
  NoCeiling = NoCeiling
  Malformed = Malformed
  NoFile = NoFile
  NoReport = NoReport
  Directory = Directory
  Docs <- MCDocs
  Times <- MCTimes
  Path <- MCPath
  Arguments <- MCArguments
  Requests <- MCRequests
  Shelves <- MCShelves
  MaxFiles = 4
SPECIFICATION ArchiveSpec
INVARIANTS
  ChainIsLinear
PROPERTIES
  CountedStaysCounted
  BrokenStaysBroken
  NoReprieve
CHECK_DEADLOCK FALSE
