\* A prereg is written to the file that a postreg is reading.
CONSTANTS
  k1 = k1
  old = old
  bad = bad
  loose = loose
  husk = husk
  new = new
  first = first
  second = second
  Ref <- MCRef
  KeyId = {k1}
  Body <- MCBody
  NoLink = NoLink
  Dangling = Dangling
  NoDue = NoDue
  BadDue = BadDue
  NoCeiling = NoCeiling
  Malformed = Malformed
  NoFile = NoFile
  Empty = Empty
  NoTerms = NoTerms
  Committer <- MCCommitter
  Path <- MCPath
  Plan <- OverwritePlan
  Shelf <- MCShelf
SPECIFICATION Spec
INVARIANTS
  InheritsFromFulfilled
CHECK_DEADLOCK FALSE
