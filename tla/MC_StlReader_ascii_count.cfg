CONSTANTS
  NameCap = 4
  Junk = Junk
  Formats <- MC_AsciiFormat
  MaxSolids = 2
  MaxFacets = 3
  NameLens <- MC_FitNames
  HintChoices <- MC_SizedHints
  MemblockSizes <- MC_Memblocks

SPECIFICATION Spec

INVARIANT MeshHoldsSolid
CHECK_DEADLOCK FALSE
