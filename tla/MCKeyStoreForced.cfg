\* One process with --force races one without.
CONSTANTS
  Keygen = {a, b}
  Forced = {b}
  Earlier = Earlier
  NoFile = NoFile
  Torn = Torn
SPECIFICATION Spec
PROPERTIES
  UnforcedLeavesPairs
CHECK_DEADLOCK FALSE
