CONSTANTS
  NameCap = 4
  Junk = Junk
  Formats <- MC_AsciiFormat
  MaxSolids = 2
  MaxFacets = 1
  NameLens <- MC_AllNames
  HintChoices <- MC_SmallHints
  MemblockSizes <- MC_Memblocks

SPECIFICATION Spec

INVARIANT SolidNameTerminated
CHECK_DEADLOCK FALSE
