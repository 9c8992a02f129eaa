CONSTANTS
  s1 = s1
  s2 = s2
  i1 = i1
  i2 = i2
  Null = Null
  N = 3
  SpanIds <- MC_SpanIds
  IterIds <- MC_IterIds
  Checked = TRUE
  AssignLive = TRUE

SYMMETRY MC_Symmetry

SPECIFICATION Spec

INVARIANT AccessesInArray
