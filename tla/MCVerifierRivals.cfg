\* Two preregs with one body and two keys: the documented rule fails.
CONSTANTS
  k1 = k1
  k2 = k2
  Ref <- MCRef
  KeyId = {k1, k2}
  Body <- MCBody
  NoLink = NoLink
  Dangling = Dangling
  NoDue = NoDue
  BadDue = BadDue
  NoCeiling = NoCeiling
  Malformed = Malformed
  NoFile = NoFile
  NoReport = NoReport
  NoQuestion = NoQuestion
  Directory = Directory
  Docs <- RivalDocs
  Times = {1}
  Path <- MCPath
  Arguments <- MCArguments
  Requests <- MCRequests
  MaxFiles = 4
SPECIFICATION Spec
INVARIANTS
  CountingRuleAlways
CHECK_DEADLOCK FALSE
