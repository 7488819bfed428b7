\* A subject that cannot be looked up: the run ends without a result.
CONSTANTS
  k1 = k1
  k2 = k2
  Ref <- MCRef
  KeyId = {k1, k2}
  Body <- MCBody
  NoLink = NoLink
  Dangling = Dangling
  NoDue = NoDue
  BadDue = BadDue
  NoCeiling = NoCeiling
  Malformed = Malformed
  NoFile = NoFile
  NoReport = NoReport
  NoQuestion = NoQuestion
  Directory = Directory
  Docs <- UnnameableDocs
  Times = {1}
  Path <- MCPath
  Arguments <- MCArguments
  Requests <- ExhibitRequests
  MaxFiles = 4
SPECIFICATION Spec
INVARIANTS
  NoErrorState
CHECK_DEADLOCK FALSE
