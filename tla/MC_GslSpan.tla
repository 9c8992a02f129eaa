----------------------------- MODULE MC_GslSpan -----------------------------
(* Model-checking instances of GslSpan: an array of 3 elements, two span  *)
(* objects and two iterators, which is enough for a subview of a subview, *)
(* an assignment of a span to itself (s = s.last(1)) and two iterators of  *)
(* one span.  Span and iterator objects are interchangeable slots.        *)
EXTENDS GslSpan, TLC

CONSTANTS s1, s2, i1, i2

MC_SpanIds == {s1, s2}
MC_IterIds == {i1, i2}

MC_Symmetry == Permutations(MC_SpanIds) \cup Permutations(MC_IterIds)

=============================================================================
