CONSTANTS
  NameCap = 4
  Junk = Junk
  Formats <- MC_AllFormats
  MaxSolids = 2
  MaxFacets = 10
  NameLens <- MC_FitNames
  HintChoices <- MC_SizedHints
  MemblockSizes <- MC_Memblocks

SPECIFICATION FairSpec

INVARIANT TypeOK
INVARIANT StoresInBounds
INVARIANT TrianglesKept
PROPERTY ReadEnds
CHECK_DEADLOCK FALSE
