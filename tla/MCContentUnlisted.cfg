\* A directory that cannot be listed is left out of a digest.
CONSTANTS
  f1 = f1  f2 = f2  out = out  g1 = g1  g2 = g2
  top = top  below = below  other = other
  work = work  elsewhere = elsewhere  single = single
  File = {f1, f2, out, g1, g2}
  Rel <- MCRel
  Directory = {top, below, other}
  In <- MCIn
  Place = {work, elsewhere, single}
  IsDir <- MCIsDir
  FilesOf <- MCFilesOf
  Name <- MCName
  NoPlace = NoPlace
  NoFile = NoFile
  Block = {1, 2}
  FileLength = 2
  Scenes <- MCScenes
  Faulty = {below}
  Undecodable = {4}
  MaxWrites = 2
SPECIFICATION Spec
INVARIANTS
  MatchPinsAlways
CHECK_DEADLOCK FALSE
