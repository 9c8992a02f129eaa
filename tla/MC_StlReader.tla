---------------------------- MODULE MC_StlReader ----------------------------
(* Model-checking instances of StlReader.  NameCap is 4 (a 3-byte name   *)
(* fits with its null byte, a 4-byte one does not).  Binary files hold up *)
(* to 5 triangles with memblocks of 1 and 2 triangles, so that the last   *)
(* batch is partial and streams may be short or longer than N.  ASCII     *)
(* files have up to 2 solids of up to 10 facets: with a stream size of    *)
(* 1600 or 1800 bytes the first guess is 8 slots, so ids 8 and 9 take the *)
(* capacity >> 3 growth twice.                                            *)
EXTENDS StlReader

MC_BinaryFormats == {"binary"}
MC_AllFormats == {"ascii", "binary"}
MC_AsciiFormat == {"ascii"}

(* Sized streams of at least 1600 bytes, names that fit.                  *)
MC_SizedHints == {1600, 1800}
MC_FitNames == {-1, 0, 3}

(* Streams of unknown size (0) or of a few hundred bytes.                 *)
MC_SmallHints == {0, 400}
MC_AllNames == {-1, 0, 3, 4, 6}

MC_Memblocks == {40, 50, 100, 120}

=============================================================================
