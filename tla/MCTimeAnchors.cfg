\* Two commands race through mirrors, servers and a network that does as it likes.
CONSTANTS
  c1 = c1  c2 = c2
  w1 = w1  w2 = w2
  k1 = k1  k2 = k2  k3 = k3
  Genesis = 1
  Period = 2
  Forged = Forged
  Witness = {w1, w2}
  Key = {k1, k2, k3}
  NoKey = NoKey
  Nonce = {c1, c2}
  Committer = {c1, c2}
  WithFloor = {c2}
  BestEffort = {c2}
  MirrorCount = 2
  Servers <- MCServers
  SignerPins <- MCKeyOf
  KeyOf <- MCKeyOf
  Window <- MCWindow
  Radius <- MCRadius
  VerifierPins <- MCVerifierPins
  NoFloor = NoFloor
  NoCeiling = NoCeiling
  MaxTime = 3
  MaxAnswers = 1
SPECIFICATION FairSpec
PROPERTIES
  FetchEnds
INVARIANTS
  TypeOK
  NoEarlierThan
  NoLaterThan
  FetchedVerifies
  RoundClock
CHECK_DEADLOCK FALSE
