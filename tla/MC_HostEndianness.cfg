CONSTANTS
  Layouts <- MC_Layouts

SPECIFICATION Spec

INVARIANT NeverUnknown
CHECK_DEADLOCK FALSE
