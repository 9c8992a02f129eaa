--------------------------- MODULE StlReaderProofs ---------------------------
(***************************************************************************)
(* Proofs about the binary STL reader driving the gmio_stl_data_t         *)
(* creator, for every MaxFacets and every memblock size: no triangle is   *)
(* stored past the array, and a read that finishes leaves exactly the     *)
(* file's triangles in the mesh.                                           *)
(*                                                                         *)
(* Both rest on what binary_begin_solid establishes and the batches keep: *)
(* from then on capacity = count = N, next + avail <= N (a batch never    *)
(* delivers past N), and the slots below next hold the triangles read.    *)
(* The add_triangle of the binary reader therefore never takes the        *)
(* realloc branch, and its count update is the identity.                  *)
(***************************************************************************)
EXTENDS StlReader, TLAPS

(* The reader the theorems are about.                                      *)
BinaryOnly == Formats = {"binary"}

(* Triangles and their slots.                                              *)
Slots == {Junk} \cup (Nat \X Nat)

(* The inductive invariant of the binary reader.                           *)
BInv ==
  /\ fmt = "binary" /\ solid = 1
  /\ facets \in [{1} -> Nat] /\ mblock \in Nat /\ hdrOk \in BOOLEAN
  /\ phase \in {"start", "tris", "done", "error"}
  /\ next \in Nat /\ avail \in Nat
  /\ capacity \in Nat /\ count \in Nat
  /\ arr \in [0 .. capacity - 1 -> Slots]
  /\ phase = "start" => next = 0 /\ avail = 0
  /\ phase \in {"tris", "done"} =>
       /\ capacity = facets[1] /\ count = facets[1]
       /\ next + avail <= facets[1]
       /\ \A k \in 0 .. next - 1 : arr[k] = <<1, k>>
  /\ phase = "done" => next = facets[1]
  /\ ~overrun

USE ReaderAssumption, NameCapAssumption

(* The invariant holds initially.                                          *)
LEMMA InitBInv == BinaryOnly /\ Init => BInv
<1> SUFFICES ASSUME BinaryOnly, Init PROVE BInv
  OBVIOUS
<1>1. fmt = "binary"
  BY DEF BinaryOnly, Init
<1>2. /\ facets \in [{1} -> 0 .. MaxFacets] /\ mblock \in MemblockSizes
      /\ solid = 1 /\ phase = "start" /\ next = 0 /\ avail = 0
  BY <1>1 DEF Init
<1>3. /\ capacity = 0 /\ count = 0 /\ overrun = FALSE
      /\ arr = [k \in {} |-> Junk]
  BY DEF Init, DataInit
<1>4. arr \in [0 .. capacity - 1 -> Slots]
  <2>1. 0 .. 0 - 1 = {}
    OBVIOUS
  <2>. QED  BY <1>3, <2>1
<1>5. facets \in [{1} -> Nat] /\ mblock \in Nat /\ hdrOk \in BOOLEAN
  BY <1>1, <1>2 DEF Init
<1>. QED  BY <1>1, <1>2, <1>3, <1>4, <1>5 DEF BInv

(* func_add_triangle at an id below the capacity and the count stores     *)
(* the triangle in its slot and changes nothing else: no realloc, and      *)
(* count = max(count, id + 1) is count.                                    *)
LEMMA AddTriangleInside ==
  ASSUME NEW cp \in Nat, NEW ct \in Nat, capacity = cp, count = ct,
         arr \in [0 .. cp - 1 -> Slots],
         NEW id \in Nat, id < cp, id + 1 <= ct,
         NEW t \in Slots,
         AddTriangle(id, t)
  PROVE  /\ arr' = [arr EXCEPT ![id] = t]
         /\ capacity' = cp /\ count' = ct
         /\ UNCHANGED <<nameLen, overrun>>
<1>1. ~(id >= capacity)
  OBVIOUS
<1>2. [k \in 0 .. cp - 1 |-> IF k < cp THEN arr[k] ELSE Junk] = arr
  OBVIOUS
<1>3. MaxOf(ct, id + 1) = ct
  BY DEF MaxOf
<1>. QED  BY <1>1, <1>2, <1>3 DEF AddTriangle

(* Every step of the binary reader keeps the invariant.                   *)
LEMMA NextBInv == BinaryOnly /\ BInv /\ [Next]_vars => BInv'
<1> SUFFICES ASSUME BinaryOnly, BInv, [Next]_vars PROVE BInv'
  OBVIOUS
<1> USE DEF BInv
<1>1. CASE BinaryStart
  <2>1. CASE BatchTris = 0 \/ ~hdrOk
    <3>1. phase' = "error" /\ UNCHANGED dataVars
      BY <1>1, <2>1 DEF BinaryStart
    <3>. QED  BY <1>1, <3>1 DEF BinaryStart, dataVars
  <2>2. CASE BatchTris > 0 /\ hdrOk
    <3>1. /\ BinaryBeginSolid(facets[1]) /\ phase' = "tris"
      BY <1>1, <2>2 DEF BinaryStart
    <3>2. /\ arr' = [k \in 0 .. facets[1] - 1 |-> Junk]
          /\ capacity' = facets[1] /\ count' = facets[1]
          /\ UNCHANGED <<nameLen, overrun>>
      BY <3>1 DEF BinaryBeginSolid, TriangleArrayMalloc
    <3>3. next = 0 /\ avail = 0 /\ facets[1] \in Nat
      BY <1>1 DEF BinaryStart
    <3>. QED  BY <1>1, <3>1, <3>2, <3>3 DEF BinaryStart, Slots
  <2>3. BatchTris \in Nat
    BY DEF BatchTris, TriangleRawSize
  <2>. QED  BY <2>1, <2>2, <2>3
<1>2. CASE BinaryReadBatch
  <2>1. BatchTris \in Nat
    BY DEF BatchTris, TriangleRawSize
  <2>2. MinOf(BatchTris, facets[1] - next) <= facets[1] - next
    BY <2>1 DEF MinOf
  <2>3. MinOf(BatchTris, facets[1] - next) \in Nat
    BY <1>2, <2>1 DEF BinaryReadBatch, MinOf
  <2>4. /\ phase = "tris" /\ avail = 0
        /\ UNCHANGED <<fmt, facets, hdrOk, mblock, solid, next, dataVars>>
    BY <1>2 DEF BinaryReadBatch
  <2>5. CASE avail' = MinOf(BatchTris, facets[1] - next) /\ UNCHANGED phase
    BY <2>2, <2>3, <2>4, <2>5 DEF dataVars
  <2>6. CASE phase' = "error" /\ UNCHANGED avail
    BY <2>4, <2>6 DEF dataVars
  <2>. QED  BY <1>2, <2>5, <2>6 DEF BinaryReadBatch
<1>3. CASE BinaryAddTriangle
  <2>1. /\ phase = "tris" /\ avail > 0
        /\ next < capacity /\ next + 1 <= count
    BY <1>3 DEF BinaryAddTriangle
  <2>2. <<1, next>> \in Slots
    BY DEF Slots
  <2>3. /\ arr' = [arr EXCEPT ![next] = <<1, next>>]
        /\ capacity' = capacity /\ count' = count
        /\ UNCHANGED <<nameLen, overrun>>
    BY <1>3, <2>1, <2>2, AddTriangleInside DEF BinaryAddTriangle
  <2>4. \A k \in 0 .. next : arr'[k] = <<1, k>>
    BY <2>1, <2>3
  <2>. QED  BY <1>3, <2>1, <2>2, <2>3, <2>4 DEF BinaryAddTriangle
<1>4. CASE BinaryEnd
  BY <1>4 DEF BinaryEnd, dataVars
<1>5. CASE AsciiStart \/ AsciiAddTriangle \/ AsciiEnd
  BY <1>5 DEF AsciiStart, AsciiAddTriangle, AsciiEnd
<1>6. CASE UNCHANGED vars
  BY <1>6 DEF vars, readerVars, dataVars
<1>. QED  BY <1>1, <1>2, <1>3, <1>4, <1>5, <1>6 DEF Next

-----------------------------------------------------------------------------
(* Types, for both readers.  TypeOK is not inductive by itself: the next *)
(* tri_id stays within MaxFacets only because the ASCII reader stops at   *)
(* the solid's facet count and the binary one never has more triangles  *)
(* decoded than N - next (next + avail <= N); solid stays an index of    *)
(* facets, and the name length and stream size passed to the begin-solid *)
(* callbacks are integers, because facets, names and hint keep the shape *)
(* Init gives them.                                                       *)
TInv ==
  /\ TypeOK
  /\ facets \in Seq(0 .. MaxFacets)
  /\ hint \in Nat /\ mblock \in Nat
  /\ fmt = "ascii" => names \in [1 .. Len(facets) -> NameLens]
  /\ fmt = "binary" => Len(facets) = 1 /\ next + avail <= facets[1]

(* gmio_stl_triangle_array_malloc(n) leaves a block of n slots.            *)
LEMMA MallocTyped ==
  ASSUME NEW n \in Nat, TriangleArrayMalloc(n)
  PROVE  /\ capacity' \in Nat /\ DOMAIN arr' = 0 .. capacity' - 1
         /\ count' \in Nat
BY DEF TriangleArrayMalloc

(* func_add_triangle, realloc branch or not, leaves a block of capacity'  *)
(* slots and a count.                                                      *)
LEMMA AddTriangleTyped ==
  ASSUME capacity \in Nat, count \in Nat, NEW id \in Nat, NEW t,
         AddTriangle(id, t)
  PROVE  /\ capacity' \in Nat /\ DOMAIN arr' = 0 .. capacity' - 1
         /\ count' \in Nat /\ nameLen' = nameLen
<1> DEFINE cap == IF id >= capacity THEN capacity + capacity \div 8 ELSE capacity
           kept == [k \in 0 .. cap - 1 |-> IF k < capacity THEN arr[k] ELSE Junk]
<1>1. cap \in Nat /\ capacity' = cap
  BY DEF AddTriangle
<1>2. arr' = [kept EXCEPT ![id] = t] \/ arr' = kept
  BY DEF AddTriangle
<1>3. DOMAIN arr' = 0 .. cap - 1
  BY <1>2
<1>. QED  BY <1>1, <1>3 DEF AddTriangle, MaxOf

(* A function on 1 .. n is a sequence (the provers do not see it for a  *)
(* literal n such as the binary reader's facets on {1}).                 *)
LEMMA FunIsSeq ==
  ASSUME NEW S, NEW n \in Nat, NEW g \in [1 .. n -> S]
  PROVE  g \in Seq(S)
OBVIOUS

(* The type invariant holds initially.                                     *)
LEMMA InitTInv == Init => TInv
<1> SUFFICES ASSUME Init PROVE TInv
  OBVIOUS
<1>1. /\ facets \in Seq(0 .. MaxFacets) /\ Len(facets) >= 1
      /\ fmt = "binary" => Len(facets) = 1
  <2>1. CASE fmt = "ascii"
    <3>1. PICK n \in 1 .. MaxSolids : facets \in [1 .. n -> 0 .. MaxFacets]
      BY <2>1 DEF Init, AsciiFiles
    <3>. QED  BY <2>1, <3>1
  <2>2. CASE fmt = "binary"
    <3>1. facets \in [1 .. 1 -> 0 .. MaxFacets]
      <4>1. {1} = 1 .. 1
        OBVIOUS
      <4>. QED  BY <2>2, <4>1 DEF Init
    <3>2. facets \in Seq(0 .. MaxFacets)
      <4>1. 1 \in Nat
        OBVIOUS
      <4>. QED  BY <3>1, <4>1, FunIsSeq, Zenon
    <3>3. Len(facets) = 1
      BY <3>1
    <3>. QED  BY <3>2, <3>3
  <2>. QED  BY <2>1, <2>2 DEF Init
<1>2. hint \in Nat /\ mblock \in Nat
  <2>1. /\ hint \in HintChoices \/ hint = 0
        /\ mblock \in MemblockSizes \/ mblock = 0
    BY Zenon DEF Init
  <2>2. 0 \in Nat
    OBVIOUS
  <2>. QED  BY <2>1, <2>2, Zenon
<1>3. fmt = "ascii" => names \in [1 .. Len(facets) -> NameLens]
  BY DEF Init
<1>4. fmt = "binary" => next + avail <= facets[1]
  BY <1>1 DEF Init
<1>5. /\ DOMAIN arr = 0 .. capacity - 1 /\ capacity = 0 /\ count = 0
      /\ nameLen = 0
  <2>1. 0 .. 0 - 1 = {}
    OBVIOUS
  <2>. QED  BY <2>1 DEF Init, DataInit
<1>6. TypeOK
  BY <1>1, <1>5 DEF Init, TypeOK
<1>. QED  BY <1>1, <1>2, <1>3, <1>4, <1>6 DEF TInv

(* Every step of either reader keeps the type invariant.                 *)
LEMMA NextTInv == TInv /\ [Next]_vars => TInv'
<1> SUFFICES ASSUME TInv, [Next]_vars PROVE TInv'
  OBVIOUS
<1>0. /\ fmt \in {"ascii", "binary"} /\ solid \in 1 .. Len(facets)
      /\ next \in 0 .. MaxFacets /\ avail \in Nat
      /\ capacity \in Nat /\ count \in Nat /\ nameLen \in 0 .. NameCap
      /\ facets \in Seq(0 .. MaxFacets) /\ Len(facets) \in Nat
      /\ facets[solid] \in 0 .. MaxFacets
      /\ hint \in Nat /\ mblock \in Nat
      /\ fmt = "ascii" => names \in [1 .. Len(facets) -> NameLens]
      /\ fmt = "binary" => Len(facets) = 1 /\ next + avail <= facets[1]
  BY DEF TInv, TypeOK
<1>1. CASE BinaryStart
  <2>1. CASE phase' = "error" /\ UNCHANGED dataVars
    BY <1>1, <2>1 DEF BinaryStart, dataVars, TInv, TypeOK
  <2>2. CASE BinaryBeginSolid(facets[1])
    <3>1. /\ capacity' \in Nat /\ DOMAIN arr' = 0 .. capacity' - 1
          /\ count' \in Nat /\ nameLen' = nameLen
      BY <1>0, <1>1, <2>2, MallocTyped DEF BinaryStart, BinaryBeginSolid
    <3>. QED  BY <1>0, <1>1, <3>1 DEF BinaryStart, TInv, TypeOK
  <2>. QED  BY <1>1, <2>1, <2>2 DEF BinaryStart
<1>2. CASE BinaryReadBatch
  <2> DEFINE k == MinOf(BatchTris, facets[1] - next)
  <2>1. /\ fmt = "binary" /\ next < facets[1] /\ avail = 0
        /\ UNCHANGED <<fmt, facets, names, hint, mblock, solid, next, dataVars>>
        /\ \/ avail' = k /\ UNCHANGED phase
           \/ phase' = "error" /\ UNCHANGED avail
    BY <1>2 DEF BinaryReadBatch
  <2>2. BatchTris \in Nat
    BY <1>0 DEF BatchTris, TriangleRawSize
  <2>3. k \in Nat /\ next + k <= facets[1]
    BY <1>0, <2>1, <2>2 DEF MinOf
  <2>. QED  BY <1>0, <2>1, <2>3 DEF dataVars, TInv, TypeOK
<1>3. CASE BinaryAddTriangle
  <2>1. /\ fmt = "binary" /\ avail > 0
        /\ AddTriangle(next, <<1, next>>)
        /\ next' = next + 1 /\ avail' = avail - 1
        /\ UNCHANGED <<fmt, facets, names, hint, mblock, phase, solid>>
    BY <1>3 DEF BinaryAddTriangle
  <2>2. /\ capacity' \in Nat /\ DOMAIN arr' = 0 .. capacity' - 1
        /\ count' \in Nat /\ nameLen' = nameLen
    BY <1>0, <2>1, AddTriangleTyped
  <2>3. next + 1 <= facets[1] /\ facets[1] \in 0 .. MaxFacets
    BY <1>0, <2>1
  <2>. QED  BY <1>0, <2>1, <2>2, <2>3 DEF TInv, TypeOK
<1>4. CASE BinaryEnd
  BY <1>4 DEF BinaryEnd, dataVars, TInv, TypeOK
<1>5. CASE AsciiStart
  <2>1. /\ fmt = "ascii" /\ AsciiBeginSolid(hint, names[solid])
        /\ next' = 0
        /\ UNCHANGED <<fmt, facets, names, hint, mblock, solid, avail>>
    BY <1>5 DEF AsciiStart
  <2>2. names[solid] \in Int
    BY <1>0, <2>1, ReaderAssumption
  <2>3. nameLen' \in 0 .. NameCap
    BY <2>1, <2>2 DEF AsciiBeginSolid, MinOf
  <2>4. MaxOf(1, hint \div FacetSize) \in Nat
    BY <1>0 DEF MaxOf, FacetSize
  <2>5. /\ capacity' \in Nat /\ DOMAIN arr' = 0 .. capacity' - 1
        /\ count' \in Nat
    BY <2>1, <2>4, MallocTyped DEF AsciiBeginSolid
  <2>. QED  BY <1>0, <1>5, <2>1, <2>3, <2>5 DEF AsciiStart, TInv, TypeOK
<1>6. CASE AsciiAddTriangle
  <2>1. /\ fmt = "ascii" /\ next < facets[solid]
        /\ AddTriangle(next, <<solid, next>>)
        /\ next' = next + 1
        /\ UNCHANGED <<fmt, facets, names, hint, mblock, phase, solid, avail>>
    BY <1>6 DEF AsciiAddTriangle
  <2>2. /\ capacity' \in Nat /\ DOMAIN arr' = 0 .. capacity' - 1
        /\ count' \in Nat /\ nameLen' = nameLen
    BY <1>0, <2>1, AddTriangleTyped
  <2>. QED  BY <1>0, <2>1, <2>2 DEF TInv, TypeOK
<1>7. CASE AsciiEnd
  BY <1>0, <1>7 DEF AsciiEnd, dataVars, TInv, TypeOK
<1>8. CASE UNCHANGED vars
  BY <1>8 DEF vars, readerVars, dataVars, TInv, TypeOK
<1>. QED  BY <1>1, <1>2, <1>3, <1>4, <1>5, <1>6, <1>7, <1>8 DEF Next

(* Both readers, for every file the model admits (any number of solids,  *)
(* facets, name lengths, stream sizes and memblock sizes), keep the      *)
(* mesh creator's state well formed: the next tri_id stays within the     *)
(* facet bound, tri_array.ptr spans exactly capacity slots, and the      *)
(* strncpy of the solid name copies at most sizeof(solid_name) bytes.    *)
THEOREM ReaderTypeCorrect == Spec => []TypeOK
<1>1. Init => TInv
  BY InitTInv
<1>2. TInv /\ [Next]_vars => TInv'
  BY NextTInv
<1>3. TInv => TypeOK
  BY DEF TInv
<1>. QED  BY <1>1, <1>2, <1>3, PTL DEF Spec

-----------------------------------------------------------------------------
(* The triangles delivered so far, for both readers.  Until a store goes  *)
(* past the block, next <= capacity and the slots below next hold the     *)
(* current solid's triangles; overrun never goes back to FALSE, so a step *)
(* that ends without one started without one.                             *)
Kept ==
  /\ fmt = "binary" /\ phase = "start" => next = 0
  /\ phase \in {"tris", "done"} /\ ~overrun =>
       /\ next <= capacity
       /\ \A k \in 0 .. next - 1 : arr[k] = <<solid, k>>

KInv == TInv /\ Kept

(* func_add_triangle(next) that does not overrun keeps the slots below    *)
(* next, in the realloc branch too, and stores the new triangle at next.  *)
LEMMA AddTriangleKeeps ==
  ASSUME capacity \in Nat, NEW id \in Nat, id <= capacity, NEW s,
         \A k \in 0 .. id - 1 : arr[k] = <<s, k>>,
         AddTriangle(id, <<s, id>>), ~overrun'
  PROVE  /\ id + 1 <= capacity'
         /\ \A k \in 0 .. id : arr'[k] = <<s, k>>
<1> DEFINE cap == IF id >= capacity THEN capacity + capacity \div 8 ELSE capacity
           kept == [k \in 0 .. cap - 1 |-> IF k < capacity THEN arr[k] ELSE Junk]
<1>1. capacity' = cap /\ cap \in Nat /\ capacity <= cap
  BY DEF AddTriangle
<1>2. id < cap /\ arr' = [kept EXCEPT ![id] = <<s, id>>]
  BY DEF AddTriangle
<1>3. ASSUME NEW k \in 0 .. id PROVE arr'[k] = <<s, k>>
  <2>1. CASE k = id
    BY <1>1, <1>2, <2>1
  <2>2. CASE k < id
    BY <1>1, <1>2, <2>2
  <2>. QED  BY <2>1, <2>2
<1>. QED  BY <1>1, <1>2, <1>3

(* The invariant holds initially: no solid is being read.                 *)
LEMMA InitKInv == Init => KInv
BY InitTInv DEF Init, KInv, Kept

(* Every step of either reader keeps it.                                  *)
LEMMA NextKInv == KInv /\ [Next]_vars => KInv'
<1> SUFFICES ASSUME KInv, [Next]_vars PROVE KInv'
  OBVIOUS
<1>1. TInv'
  BY NextTInv DEF KInv
<1>0. /\ solid \in 1 .. Len(facets) /\ next \in Nat /\ capacity \in Nat
      /\ fmt = "binary" => Len(facets) = 1
  BY DEF KInv, TInv, TypeOK
<1> SUFFICES Kept'
  BY <1>1 DEF KInv
<1>2. CASE BinaryStart
  <2>1. fmt = "binary" /\ phase = "start" /\ UNCHANGED <<fmt, next>>
    BY <1>2 DEF BinaryStart
  <2>2. next = 0
    BY <2>1 DEF KInv, Kept
  <2>3. CASE phase' = "error"
    BY <2>3 DEF Kept
  <2>4. CASE BinaryBeginSolid(facets[1]) /\ phase' = "tris"
    <3>1. capacity' \in Nat
      BY <1>1 DEF TInv, TypeOK
    <3>. QED  BY <2>1, <2>2, <2>4, <3>1 DEF Kept
  <2>. QED  BY <1>2, <2>3, <2>4 DEF BinaryStart
<1>3. CASE BinaryReadBatch
  <2>1. /\ phase = "tris" /\ phase' \in {"tris", "error"}
        /\ UNCHANGED <<solid, next, dataVars>>
    BY <1>3 DEF BinaryReadBatch
  <2>. QED  BY <2>1 DEF KInv, Kept, dataVars
<1>4. CASE BinaryAddTriangle \/ AsciiAddTriangle
  <2>1. /\ phase = "tris"
        /\ UNCHANGED <<phase, solid>> /\ next' = next + 1
        /\ AddTriangle(next, <<solid, next>>)
    <3>1. CASE BinaryAddTriangle
      <4>0. solid \in 1 .. 1
        <5>1. fmt = "binary"
          BY <3>1 DEF BinaryAddTriangle
        <5>. QED  BY <1>0, <5>1
      <4>1. solid = 1
        BY <4>0
      <4>. QED  BY <3>1, <4>1 DEF BinaryAddTriangle
    <3>2. CASE AsciiAddTriangle
      BY <3>2 DEF AsciiAddTriangle
    <3>. QED  BY <1>4, <3>1, <3>2
  <2>2. SUFFICES ASSUME ~overrun'
                 PROVE  /\ next' <= capacity'
                        /\ \A k \in 0 .. next' - 1 : arr'[k] = <<solid', k>>
    BY <2>1 DEF Kept
  <2>3. ~overrun
    BY <2>1, <2>2 DEF AddTriangle
  <2>4. next <= capacity /\ \A k \in 0 .. next - 1 : arr[k] = <<solid, k>>
    BY <2>1, <2>3 DEF KInv, Kept
  <2>. QED  BY <1>0, <2>1, <2>2, <2>4, AddTriangleKeeps
<1>5. CASE BinaryEnd
  BY <1>5 DEF BinaryEnd, KInv, Kept, dataVars
<1>6. CASE AsciiStart
  <2>1. phase' = "tris" /\ next' = 0 /\ capacity' \in Nat
    BY <1>1, <1>6 DEF AsciiStart, TInv, TypeOK
  <2>. QED  BY <2>1 DEF Kept
<1>7. CASE AsciiEnd
  <2>1. /\ phase' \in {"start", "done"} /\ fmt' = "ascii"
        /\ phase' = "done" => UNCHANGED solid
        /\ UNCHANGED <<next, dataVars>> /\ phase = "tris"
    BY <1>7 DEF AsciiEnd
  <2>. QED  BY <2>1 DEF KInv, Kept, dataVars
<1>8. CASE UNCHANGED vars
  BY <1>8 DEF vars, readerVars, dataVars, KInv, Kept
<1>. QED  BY <1>2, <1>3, <1>4, <1>5, <1>6, <1>7, <1>8 DEF Next

(* For both readers and every file, as long as func_add_triangle has not *)
(* stored past its block, func_get_triangle(k) returns the k-th triangle *)
(* of the current solid for every tri_id already delivered: the realloc  *)
(* of the capacity >> 3 growth loses no stored triangle.                  *)
THEOREM ReaderKeepsTriangles == Spec => [](StoresInBounds => TrianglesKept)
<1>1. KInv => (StoresInBounds => TrianglesKept)
  <2> SUFFICES ASSUME KInv, StoresInBounds, phase \in {"tris", "done"},
                      NEW k \in 0 .. next - 1
               PROVE  GetTriangle(k) = <<solid, k>>
    BY DEF TrianglesKept
  <2>1. next <= capacity /\ arr[k] = <<solid, k>>
    BY DEF KInv, Kept, StoresInBounds
  <2>2. next \in Nat /\ capacity \in Nat
    BY DEF KInv, TInv, TypeOK
  <2>3. k < capacity
    BY <2>1, <2>2
  <2>. QED  BY <2>1, <2>3 DEF GetTriangle
<1>. QED  BY <1>1, InitKInv, NextKInv, PTL DEF Spec

(* The binary reader never makes func_add_triangle store past the block  *)
(* binary_begin_solid allocated, for every N and memblock size.           *)
THEOREM BinaryStoresInBounds == BinaryOnly => (Spec => []StoresInBounds)
<1> SUFFICES ASSUME BinaryOnly PROVE Spec => []StoresInBounds
  OBVIOUS
<1>1. Init => BInv
  BY InitBInv
<1>2. BInv /\ [Next]_vars => BInv'
  BY NextBInv
<1>3. BInv => StoresInBounds
  BY DEF BInv, StoresInBounds
<1>. QED  BY <1>1, <1>2, <1>3, PTL DEF Spec

(* After a binary read that finishes, gmio_stl_data_mesh reports N        *)
(* triangles and func_get_triangle(k) returns the k-th triangle of the    *)
(* file, for every N and memblock size.                                    *)
THEOREM BinaryMeshHoldsSolid == BinaryOnly => (Spec => []MeshHoldsSolid)
<1> SUFFICES ASSUME BinaryOnly PROVE Spec => []MeshHoldsSolid
  OBVIOUS
<1>1. Init => BInv
  BY InitBInv
<1>2. BInv /\ [Next]_vars => BInv'
  BY NextBInv
<1>3. BInv => MeshHoldsSolid
  BY DEF BInv, MeshHoldsSolid, MeshTriangleCount, GetTriangle
<1>. QED  BY <1>1, <1>2, <1>3, PTL DEF Spec

=============================================================================
