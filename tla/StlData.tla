------------------------------- MODULE StlData -------------------------------
(***************************************************************************)
(* gmio_stl_data_t and the mesh-creator callbacks of tests/stl_utils.c:   *)
(* the in-memory mesh the STL readers fill through func_ascii_begin_solid, *)
(* func_binary_begin_solid and func_add_triangle (func_end_solid is left  *)
(* NULL by gmio_stl_data_mesh_creator, a no-op).                           *)
(*                                                                         *)
(* tri_array is {ptr, count, capacity}: ptr is modelled as the function   *)
(* arr on 0 .. capacity-1 (Junk where nothing was stored).  A store at an  *)
(* index >= capacity writes past the heap block; it is recorded in        *)
(* overrun.  The solid name is abstracted to its length: what matters is  *)
(* whether the copy in solid_name[NameCap] keeps a terminating null byte. *)
(*                                                                         *)
(* The callbacks are operators on the cookie's state; the reader that     *)
(* calls them is StlReader.                                                *)
(***************************************************************************)
EXTENDS Integers

CONSTANTS
  NameCap,   \* sizeof(data->solid_name)
  Junk       \* contents of a heap slot never stored to

ASSUME NameCapAssumption == NameCap \in Nat \ {0}

VARIABLES
  arr,       \* tri_array.ptr[0 .. capacity-1]
  count,     \* tri_array.count
  capacity,  \* tri_array.capacity
  nameLen,   \* number of bytes copied into solid_name
  overrun    \* TRUE once add_triangle stored at an index >= capacity

dataVars == <<arr, count, capacity, nameLen, overrun>>

(* The guess of gmio_stl_data__ascii_begin_solid: 200 bytes a facet.     *)
FacetSize == 200

MaxOf(x, y) == IF x > y THEN x ELSE y
MinOf(x, y) == IF x < y THEN x ELSE y

DataInit ==
  /\ arr = [k \in {} |-> Junk]
  /\ count = 0
  /\ capacity = 0
  /\ nameLen = 0
  /\ overrun = FALSE

(* gmio_stl_triangle_array_malloc(tri_count): a fresh block of tri_count  *)
(* slots (ptr stays NULL for 0), count = capacity = tri_count.  The block *)
(* held before is not freed.                                              *)
TriangleArrayMalloc(n) ==
  /\ arr' = [k \in 0 .. n - 1 |-> Junk]
  /\ count' = n
  /\ capacity' = n

(* Mutant of AsciiBeginSolid: the solid_name != NULL test lost.          *)
AsciiBeginSolid_NullNameLen(streamSize, len) ==
  /\ nameLen' = MinOf(NameCap, len)
  /\ TriangleArrayMalloc(MaxOf(1, streamSize \div FacetSize))
  /\ UNCHANGED overrun

(* func_ascii_begin_solid(cookie, stream_size, solid_name): name copied   *)
(* with strncpy of min(sizeof(solid_name), strlen(name)) bytes over a     *)
(* zeroed array (len < 0 stands for a NULL name), then an array sized for *)
(* max(1, stream_size / 200) facets.                                      *)
AsciiBeginSolid(streamSize, len) ==
  /\ nameLen' = IF len < 0 THEN 0 ELSE MinOf(NameCap, len)
  /\ TriangleArrayMalloc(MaxOf(1, streamSize \div FacetSize))
  /\ UNCHANGED overrun

(* func_binary_begin_solid(cookie, tri_count, header): the 80 header     *)
(* bytes are copied, then an array of tri_count slots.                     *)
BinaryBeginSolid(triCount) ==
  /\ TriangleArrayMalloc(triCount)
  /\ UNCHANGED <<nameLen, overrun>>

(* Mutant of AddTriangle: grows only when tri_id > capacity.             *)
AddTriangle_GrowOnlyPast(id, t) ==
  LET cap == IF id > capacity THEN capacity + capacity \div 8 ELSE capacity
      kept == [k \in 0 .. cap - 1 |-> IF k < capacity THEN arr[k] ELSE Junk]
  IN  /\ capacity' = cap
      /\ IF id < cap
         THEN /\ arr' = [kept EXCEPT ![id] = t]
              /\ UNCHANGED overrun
         ELSE /\ arr' = kept
              /\ overrun' = TRUE
      /\ count' = MaxOf(count, id + 1)
      /\ UNCHANGED nameLen

(* Mutant of AddTriangle: the triangle is appended at count, not tri_id. *)
AddTriangle_StoreAtCount(id, t) ==
  LET cap == IF id >= capacity THEN capacity + capacity \div 8 ELSE capacity
      kept == [k \in 0 .. cap - 1 |-> IF k < capacity THEN arr[k] ELSE Junk]
  IN  /\ capacity' = cap
      /\ IF count < cap
         THEN /\ arr' = [kept EXCEPT ![count] = t]
              /\ UNCHANGED overrun
         ELSE /\ arr' = kept
              /\ overrun' = TRUE
      /\ count' = MaxOf(count, id + 1)
      /\ UNCHANGED nameLen

(* Mutant of AddTriangle: the growth takes a fresh block (malloc instead *)
(* of realloc), losing the triangles stored so far.                      *)
AddTriangle_FreshBlock(id, t) ==
  LET cap == IF id >= capacity THEN capacity + capacity \div 8 ELSE capacity
      kept == [k \in 0 .. cap - 1 |->
                 IF k < capacity /\ id < capacity THEN arr[k] ELSE Junk]
  IN  /\ capacity' = cap
      /\ IF id < cap
         THEN /\ arr' = [kept EXCEPT ![id] = t]
              /\ UNCHANGED overrun
         ELSE /\ arr' = kept
              /\ overrun' = TRUE
      /\ count' = MaxOf(count, id + 1)
      /\ UNCHANGED nameLen

(* func_add_triangle(cookie, tri_id, triangle): when tri_id is at or past *)
(* the capacity, grow it by capacity >> 3 with realloc (keeping the slots *)
(* below the old capacity); then ptr[tri_id] = *triangle and count =      *)
(* max(count, tri_id + 1).                                                *)
AddTriangle(id, t) ==
  LET cap == IF id >= capacity THEN capacity + capacity \div 8 ELSE capacity
      kept == [k \in 0 .. cap - 1 |-> IF k < capacity THEN arr[k] ELSE Junk]
  IN  /\ capacity' = cap
      /\ IF id < cap
         THEN /\ arr' = [kept EXCEPT ![id] = t]
              /\ UNCHANGED overrun
         ELSE /\ arr' = kept
              /\ overrun' = TRUE
      /\ count' = MaxOf(count, id + 1)
      /\ UNCHANGED nameLen

(* gmio_stl_data_mesh(data).triangle_count and func_get_triangle: the     *)
(* mesh the writer would read back from the data.                         *)
MeshTriangleCount == count
GetTriangle(id) == IF id < capacity THEN arr[id] ELSE Junk

=============================================================================
