CONSTANTS
  a = a
  b = b
  sp = sp
  EOS = EOS
  Nul = Nul
  Junk = Junk
  Letters <- MC_Letters
  Spaces <- MC_Spaces
  MaxText = 5
  BufCap = 2
  OutCap = 3

SPECIFICATION FairSpec

INVARIANT TypeOK
INVARIANT WritesInBounds
PROPERTY TextCursorSpec
PROPERTY EatWordReturns
