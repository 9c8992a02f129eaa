CONSTANTS
  NameCap = 4
  Junk = Junk
  Formats <- MC_BinaryFormats
  MaxSolids = 2
  MaxFacets = 5
  NameLens <- MC_FitNames
  HintChoices <- MC_SizedHints
  MemblockSizes <- MC_Memblocks

SPECIFICATION FairSpec

INVARIANT StoresInBounds
INVARIANT MeshHoldsSolid
PROPERTY ReadEnds
CHECK_DEADLOCK FALSE
