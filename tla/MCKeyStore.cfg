\* Five interchangeable processes without --force, from every state of the two files.
CONSTANTS
  Keygen = {a, b, c, d, e}
  Forced = {}
  Earlier = Earlier
  NoFile = NoFile
  Torn = Torn
SPECIFICATION Spec
INVARIANTS
  TypeOK
  DoneMeansPair
  RefusalLeavesNoHalf
  OneSigner
PROPERTIES
  UnforcedNeverOverwrites
SYMMETRY Interchangeable
CHECK_DEADLOCK FALSE
