------------------------------ MODULE StlReader ------------------------------
(***************************************************************************)
(* The STL readers driving a mesh creator (spec sections 4.6 and 4.8),    *)
(* composed with the gmio_stl_data_t creator of tests/stl_utils.c         *)
(* (StlData).  The readers are not part of the sources: their callback    *)
(* protocol is modelled from the spec.                                     *)
(*                                                                         *)
(* Binary: the 80-byte header and the count N are read, then              *)
(* func_binary_begin_solid(N), then the triangles in batches of           *)
(* floor(memblock size / 50): each batch is one stream read, followed by  *)
(* one func_add_triangle per decoded triangle; a short read stops the     *)
(* read with no callback for that batch.                                  *)
(* ASCII: per solid, func_ascii_begin_solid(stream size, name), one       *)
(* func_add_triangle per facet with ids restarting at 0, func_end_solid.  *)
(*                                                                         *)
(* A triangle is represented by its place in the file, <<solid, index>>, *)
(* so that a triangle stored in the wrong slot, lost or duplicated shows. *)
(* The facet text is abstracted to its length.                            *)
(***************************************************************************)
EXTENDS StlData, Sequences

CONSTANTS
  Formats,        \* subset of {"ascii", "binary"} the run reads
  MaxSolids,      \* most solids in an ASCII file
  MaxFacets,      \* most facets in a solid (and triangles in a binary file)
  NameLens,       \* lengths of solid names; -1 is a solid with no name
  HintChoices,    \* stream sizes the ASCII reader may pass (0: unknown)
  MemblockSizes   \* sizes of the memblock the binary reader is given

ASSUME ReaderAssumption ==
  /\ Formats \subseteq {"ascii", "binary"}
  /\ MaxSolids \in Nat \ {0}
  /\ MaxFacets \in Nat
  /\ NameLens \subseteq Int
  /\ HintChoices \subseteq Nat
  /\ MemblockSizes \subseteq Nat

VARIABLES
  fmt,       \* format of the stream
  facets,    \* ASCII: facets of each solid; binary: << N >>
  names,     \* ASCII: name length of each solid
  present,   \* binary: triangles the stream really holds after the header
  hdrOk,     \* binary: the stream holds the 84 header and count bytes
  hint,      \* ASCII: stream size passed to func_ascii_begin_solid
  mblock,    \* binary: memblock size
  phase,     \* "start", "tris", "done", "error"
  solid,     \* index of the solid being read
  next,      \* next tri_id
  avail      \* binary: decoded triangles of the batch not yet delivered

readerVars == <<fmt, facets, names, present, hdrOk, hint, mblock,
                phase, solid, next, avail>>
vars == <<readerVars, dataVars>>

(* On-wire size of a binary triangle, and the smallest ASCII texts.      *)
TriangleRawSize == 50
SolidMinBytes == 15    \* "solid\n" and "endsolid\n"
FacetMinBytes == 86    \* one facet with single-digit coordinates

(* Fewest bytes an ASCII file with these facet counts can have.          *)
AsciiMinBytes(f) ==
  LET total[k \in 0 .. Len(f)] ==
        IF k = 0 THEN 0
        ELSE total[k - 1] + SolidMinBytes + FacetMinBytes * f[k]
  IN  total[Len(f)]

AsciiFiles ==
  UNION {[1 .. n -> 0 .. MaxFacets] : n \in 1 .. MaxSolids}

(* Triangles in a batch: floor(memblock size / 50).                      *)
BatchTris == mblock \div TriangleRawSize

Init ==
  /\ DataInit
  /\ phase = "start"
  /\ solid = 1
  /\ next = 0
  /\ avail = 0
  /\ fmt \in Formats
  /\ \/ /\ fmt = "ascii"
        /\ facets \in AsciiFiles
        /\ names \in [1 .. Len(facets) -> NameLens]
        /\ hint \in {h \in HintChoices : h = 0 \/ h >= AsciiMinBytes(facets)}
        /\ present = 0 /\ hdrOk = TRUE /\ mblock = 0
     \/ /\ fmt = "binary"
        /\ facets \in [{1} -> 0 .. MaxFacets]
        /\ present \in 0 .. MaxFacets
        /\ hdrOk \in BOOLEAN
        /\ mblock \in MemblockSizes
        /\ names = << >> /\ hint = 0

-----------------------------------------------------------------------------
(* Binary reader.                                                         *)

(* The memblock must hold one triangle (gmio_check_memblock_size), the   *)
(* header and count must be read, then func_binary_begin_solid(N).        *)
BinaryStart ==
  /\ fmt = "binary" /\ phase = "start"
  /\ \/ /\ BatchTris = 0 \/ ~hdrOk
        /\ phase' = "error"
        /\ UNCHANGED dataVars
     \/ /\ BatchTris > 0 /\ hdrOk
        /\ BinaryBeginSolid(facets[1])
        /\ phase' = "tris"
  /\ UNCHANGED <<fmt, facets, names, present, hdrOk, hint, mblock,
                 solid, next, avail>>

(* Mutant of BinaryReadBatch: the last batch is read whole, past N.       *)
BinaryReadBatch_FullLastBatch ==
  /\ fmt = "binary" /\ phase = "tris"
  /\ avail = 0 /\ next < facets[1]
  /\ IF next + BatchTris <= present
     THEN avail' = BatchTris /\ UNCHANGED phase
     ELSE phase' = "error" /\ UNCHANGED avail
  /\ UNCHANGED <<fmt, facets, names, present, hdrOk, hint, mblock,
                 solid, next, dataVars>>

(* Mutant of BinaryReadBatch: a short read is retried instead of         *)
(* stopping the read.                                                      *)
BinaryReadBatch_RetryShort ==
  LET k == MinOf(BatchTris, facets[1] - next)
  IN  /\ fmt = "binary" /\ phase = "tris"
      /\ avail = 0 /\ next < facets[1]
      /\ \/ next + k <= present /\ avail' = k /\ UNCHANGED phase
         \/ next + k > present /\ UNCHANGED <<phase, avail>>
      /\ UNCHANGED <<fmt, facets, names, present, hdrOk, hint, mblock,
                     solid, next, dataVars>>

(* One stream read of min(batch, N - next) triangles; short: error.       *)
BinaryReadBatch ==
  LET k == MinOf(BatchTris, facets[1] - next)
  IN  /\ fmt = "binary" /\ phase = "tris"
      /\ avail = 0 /\ next < facets[1]
      /\ \/ next + k <= present /\ avail' = k /\ UNCHANGED phase
         \/ next + k > present /\ phase' = "error" /\ UNCHANGED avail
      /\ UNCHANGED <<fmt, facets, names, present, hdrOk, hint, mblock,
                     solid, next, dataVars>>

(* Decode one triangle of the batch and call func_add_triangle.          *)
BinaryAddTriangle ==
  /\ fmt = "binary" /\ phase = "tris"
  /\ avail > 0
  /\ AddTriangle(next, <<1, next>>)
  /\ next' = next + 1
  /\ avail' = avail - 1
  /\ UNCHANGED <<fmt, facets, names, present, hdrOk, hint, mblock,
                 phase, solid>>

(* All N triangles delivered: func_end_solid (NULL here) and done.        *)
BinaryEnd ==
  /\ fmt = "binary" /\ phase = "tris"
  /\ avail = 0 /\ next = facets[1]
  /\ phase' = "done"
  /\ UNCHANGED <<fmt, facets, names, present, hdrOk, hint, mblock,
                 solid, next, avail, dataVars>>

-----------------------------------------------------------------------------
(* ASCII reader.                                                          *)

(* "solid [name]": func_ascii_begin_solid(stream size, name).            *)
AsciiStart ==
  /\ fmt = "ascii" /\ phase = "start"
  /\ AsciiBeginSolid(hint, names[solid])
  /\ phase' = "tris"
  /\ next' = 0
  /\ UNCHANGED <<fmt, facets, names, present, hdrOk, hint, mblock,
                 solid, avail>>

(* One "facet ... endfacet" parsed: func_add_triangle(next).             *)
AsciiAddTriangle ==
  /\ fmt = "ascii" /\ phase = "tris"
  /\ next < facets[solid]
  /\ AddTriangle(next, <<solid, next>>)
  /\ next' = next + 1
  /\ UNCHANGED <<fmt, facets, names, present, hdrOk, hint, mblock,
                 phase, solid, avail>>

(* Mutant of AsciiEnd: the solid index is not advanced.                 *)
AsciiEnd_SameSolid ==
  /\ fmt = "ascii" /\ phase = "tris"
  /\ next = facets[solid]
  /\ IF solid < Len(facets)
     THEN phase' = "start" /\ UNCHANGED solid
     ELSE phase' = "done" /\ UNCHANGED solid
  /\ UNCHANGED <<fmt, facets, names, present, hdrOk, hint, mblock,
                 next, avail, dataVars>>

(* "endsolid": func_end_solid (NULL), then the next "solid" or the end.  *)
AsciiEnd ==
  /\ fmt = "ascii" /\ phase = "tris"
  /\ next = facets[solid]
  /\ IF solid < Len(facets)
     THEN solid' = solid + 1 /\ phase' = "start"
     ELSE phase' = "done" /\ UNCHANGED solid
  /\ UNCHANGED <<fmt, facets, names, present, hdrOk, hint, mblock,
                 next, avail, dataVars>>

Next ==
  \/ BinaryStart \/ BinaryReadBatch \/ BinaryAddTriangle \/ BinaryEnd
  \/ AsciiStart \/ AsciiAddTriangle \/ AsciiEnd

(* A read ends in "done" or "error" and the reader returns: no step  *)
(* follows, so the runs do not check deadlock.                           *)
Spec == Init /\ [][Next]_vars

(* gmio_stl_read is one call on the caller's thread that runs until it   *)
(* returns: while a step of the reader is possible, one is taken.         *)
FairSpec == Spec /\ WF_vars(Next)

-----------------------------------------------------------------------------
(* Type invariant.                                                        *)
TypeOK ==
  /\ fmt \in {"ascii", "binary"}
  /\ phase \in {"start", "tris", "done", "error"}
  /\ solid \in 1 .. Len(facets)
  /\ next \in 0 .. MaxFacets
  /\ avail \in Nat
  /\ capacity \in Nat
  /\ DOMAIN arr = 0 .. capacity - 1
  /\ count \in Nat
  /\ nameLen \in 0 .. NameCap

(* func_add_triangle never stores past the block tri_array.ptr points    *)
(* to: the begin_solid callback sizes the block, and the growth by       *)
(* capacity >> 3 must make room for the next tri_id the reader sends.     *)
StoresInBounds == ~overrun

(* After a successful read, the mesh gmio_stl_data_mesh hands back to a  *)
(* writer is the last solid read: triangle_count is its facet count and  *)
(* func_get_triangle(k) returns its k-th triangle.                        *)
MeshHoldsSolid ==
  phase = "done" =>
    /\ MeshTriangleCount = facets[solid]
    /\ \A k \in 0 .. facets[solid] - 1 : GetTriangle(k) = <<solid, k>>

(* While a solid is read and after the read, func_get_triangle(k) for    *)
(* every tri_id k already delivered returns the k-th triangle of the      *)
(* current solid: the realloc of func_add_triangle's capacity >> 3 growth *)
(* keeps the slots stored before it, and no later store lands elsewhere. *)
TrianglesKept ==
  phase \in {"tris", "done"} =>
    \A k \in 0 .. next - 1 : GetTriangle(k) = <<solid, k>>

(* After func_ascii_begin_solid, solid_name is a null-terminated string: *)
(* fewer than sizeof(solid_name) bytes were copied over the zeroed array. *)
SolidNameTerminated == nameLen < NameCap

(* Every read returns: the binary loop delivers min(batch, N - next) > 0  *)
(* triangles per stream read until N, and the ASCII reader moves to the   *)
(* next solid after each "endsolid", so it stops in "done" or "error".    *)
ReadEnds == <>(phase \in {"done", "error"})

=============================================================================
