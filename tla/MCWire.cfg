\* Packets of up to eight words and a remainder, and paths of up to three hashes.
CONSTANTS
  n1 = n1  n2 = n2  n3 = n3
  Word = {0, 1, 2, 3, 4}
  Ascii = {0, 2, 3, 4}
  MaxTags = 3
  Magic <- MCMagic
  VER = 2
  NONC = 3
  ZZZZ = 4
  Version = 1
  RequestMin = 8
  MaxWords = 8
  Nonce = {n1, n2, n3}
  Trees <- MCTrees
  Hashes <- MCHashes
  Indices = {0, 1, 2, 3, 4, 5, 6, 7}
  MaxPath = 3
SPECIFICATION Spec
INVARIANTS
  Canonical
  FramingTransparent
  RequestReadable
  OpeningExact
CHECK_DEADLOCK FALSE
