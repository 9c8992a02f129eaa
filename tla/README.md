# Verification of gmio: TLA+ models, TLC runs and TLAPS proofs

This directory is a verification development for the gmio sources under
`src/`. It contains TLA+ models of the parts of the library whose behaviour
depends on the order in which things happen. That covers the buffered
character cursor and its word tokenizer, the mesh-creator callbacks that the
STL readers drive, and the `gsl::span` views and iterators. It also
contains TLC configurations that model-check those models on small instances,
and TLAPS proofs of their main safety properties for every value of the
constants.

## 1. The system and what is in the tree

gmio reads and writes STL meshes (spec sections 2 to 4). The data flows from
the caller to the facade, then to the ASCII or binary codec. The codec reads
through a string stream, which reads a stream backed by a memblock. In the
other direction, the codec calls back into a mesh creator, or into a mesh
when it writes.

Only part of the library's code is in `src/`:

| file | what it holds | modelled by |
|---|---|---|
| `src/gmio_core/internal/string_parse.c` | `gmio_string_stream_fwd_iterator_init`, `gmio_eat_word` | `StringStream` (refines `TextCursor`) |
| `tests/stl_utils.c` | `gmio_stl_data_t` mesh creator and mesh: triangle array, begin_solid, add_triangle, get_triangle | `StlData` |
| (spec 4.6, 4.8) | STL binary and ASCII readers: the order of their callbacks | `StlReader` (spec-modelled driver) |
| `src/gmio_core/gsl_span.h` | `gsl::span`, `span_iterator`, subviews, asserts | `GslSpan` |
| `src/gmio_core/endian.c` | `gmio_host_endianness` | `HostEndianness` |
| `tests/test_core_internal.c` | unit tests (byte codec, stringstream, zip...) | the stringstream test's calls are `StringStream`'s driver actions |
| headers (`stream_pos.h`, `stl_rw_common.h`, `float_format_utils.h`, `occ_libstl.h`, libstl headers) | declarations only | not modelled: no behaviour |
| `tests/test_core_platform.c`, `tests/main_test_stl.c` | layout asserts, the test runner | not modelled: compile-time facts |

### Inventory

**Stringstream cursor (C8).** The state is the stream's contents, how many
bytes have been read, the char buffer (`ptr`, `len`, `max_len`) and
`buffer_pos`. Its operations are:
- `iterator_init`, which declares the buffer exhausted so that the first
  `next_char` reads;
- `current_char`;
- `next_char`, which refills with exactly one stream read when the position
  reaches `len`;
- `skip_spaces`;
- `eat_word`.

`eat_word` appends the next word to a caller's string (`ptr`, `len`,
`max_len`). Its do-while stores a character before it tests `i` against the
capacity. It then writes a null byte and sets `len`, or reports
CAPACITY_OVERFLOW. A stream read may return fewer bytes than asked for
(spec 4.1).

These behaviours are hard to test:
- a word that straddles a refill;
- a read shorter than the buffer;
- a word that exactly fills the room left;
- a sequence of calls that append to the same string.

**STL mesh creator (tests/stl_utils.c).** The state is the triangle array
(`ptr`, `count`, `capacity`) and `solid_name`. Its callbacks are:
- `ascii_begin_solid`, which copies the name and guesses the array size from
  the stream size at 200 bytes a facet;
- `binary_begin_solid`, which allocates `N` slots;
- `add_triangle`, which grows by `capacity >> 3` when `tri_id >= capacity`,
  then stores and raises `count`.

`gmio_stl_data_mesh` and `get_triangle` hand the result back to a writer.

**STL readers (C10, C12).** These are not in the tree. What matters to the
creator is the order of their calls, which spec sections 4.6, 4.8 and 5 fix:
- binary: `begin_solid(N)`, then batches of `floor(memblock/50)` triangles,
  one stream read per batch, where a short read is an error; tri_id
  increases from 0;
- ASCII: per solid, `begin_solid(stream size, name)`, then one
  `add_triangle` per facet with ids restarting at 0, then `end_solid`.

**gsl::span.** A span is a pointer and a size (`storage_type` over an
`extent_type`, fixed or dynamic). The subviews `first`, `last` and
`subspan` check their bounds with `assert` only. `span_iterator` holds a
pointer to the span *object* it came from and an index. It reads
`span_->length()` and `span_->data()` at each use, and asserts that its
arithmetic stays within `0 .. length`.

**Host endianness.** `gmio_host_endianness` stores 0x01020408 in a union
and compares its first and last bytes. It returns LITTLE for `08 .. 01`,
BIG for `01 .. 08`, and UNKNOWN otherwise.

**Interactions.** The reader drives the mesh creator through callbacks. That
is the only composition present in the tree, and `StlReader` models it by
EXTENDing `StlData`. The string stream is a component of the ASCII reader,
but the reader's tokenizer is not in the tree, so the two are checked
separately.

## 2. Modules

| module | role |
|---|---|
| `TextCursor` | Abstract spec of the cursor. It holds the text, a position and the word string. `EatWord` is one atomic step: skip spaces, then append the word or report EMPTY or OVERFLOW. |
| `StringStream` | The code-level model: buffer, refills with reads of every allowed size, and the `eat_word` loop one iteration per step (`pc`). `TextCursorSpec` is the refinement `INSTANCE TextCursor WITH pos <- ..., word <- ...`. |
| `MC_StringStream` | Letters `{a, b}`, one space `sp`; text ≤ 5, buffer 2, word string 3. |
| `StringStreamProofs` | TLAPS: inductive invariant, type correctness, bounds of the stores. |
| `StringStreamRefinement` | TLAPS: `StringStream` implements `TextCursor` (`Spec => TextCursorSpec`) for every text and capacity. |
| `StlData` | The creator's callbacks as operators on its state (`arr`, `count`, `capacity`, `nameLen`, `overrun`). |
| `StlReader` | EXTENDS `StlData`. The binary and ASCII readers' callback sequences as actions. |
| `MC_StlReader` | The constant sets for the five runs. |
| `GslSpan` | A pool of span objects (`span[s]`: live, data, size, fixed extent) and iterators (`iter[it]`: live, span object, index) over one array of `N` elements. One action per constructor, copy/assignment, destruction, subview, element access, comparison, and iterator move or access. Every `assert` is `Asserted(c)`: a guard when `Checked`, nothing under NDEBUG. |
| `MC_GslSpan` | Two span objects, two iterators, `N = 3`, symmetry over both pools. |
| `GslSpanProofs` | TLAPS: type correctness of a checked build, and the window and access invariants, for every `N` and every pool. |
| `StlReaderProofs` | TLAPS: `TypeOK` of both readers, and `TrianglesKept` of both readers while no store overran; `StoresInBounds` and `MeshHoldsSolid` of the binary reader; for every facet count and memblock size. |
| `HostEndianness` | `layout` is the host's byte order: a permutation of the four value bytes over the four addresses. `GmioHostEndianness` is the whole function. |
| `MC_HostEndianness` | The little, big, PDP-11 and Honeywell 316 orders. |

### Correspondence with the code

`HostEndianness`:
- `UnionBytes(v)` is `conv.integer = v` read back through `conv.bytes`:
  byte `i` of memory is the value byte of significance `layout[i]`.
- `GmioHostEndianness` is lines 28-38: the two tests and the fall-through.

`StringStream`:
- `IteratorInit` is `gmio_string_stream_fwd_iterator_init`. It is
  `Advance(BufCap, <<>>)`, so the first step always reads.
- `Advance(p, b)` is `gmio_next_char`. Either the position moves within the
  buffer, or one read of `n` bytes refills it and resets the position to 0.
  `n` ranges over `ReadSizes`: any count from 1 up to the buffer size that
  the stream still holds, or 0 at the end.
- `EatWordCall` is `i = buffer->len`.
- `SkipSpace` is one iteration of `gmio_skip_spaces`.
- `EatEmpty` is lines 41-44.
- `CopyChar` is one iteration of the do-while at lines 46-52. On entry from
  `skip` it runs unconditionally, and later only while
  `i < capacity && !isspace`.
- `EatDone` is lines 54-57 and `EatOverflow` is line 59.
- `Store(k, c)` is `buffer_ptr[k] = c`. A store at `k >= OutCap` leaves `out`
  alone and sets the ghost `overrun`.
- `ResetWord` is the driver's `str_copy.len = 0` (the unit test).
- `callPos` is a ghost that records the position at the call. The refinement
  maps a call in progress to the state before it.

`StlData` and `StlReader`:
- `TriangleArrayMalloc`, `AsciiBeginSolid`, `BinaryBeginSolid`,
  `AddTriangle`, `GetTriangle` and `MeshTriangleCount` are the functions of
  the same names.
- `arr` is `ptr[0 .. capacity-1]`. A slot never stored holds `Junk`, and a
  store at `tri_id >= capacity` sets `overrun`.
- The name is abstracted to its length. A NULL name is `-1`.
- A triangle is identified by its place in the file, `<<solid, index>>`, so
  that a lost, moved or duplicated triangle shows up.
- The reader actions are the spec's protocol: `BinaryStart` (the memblock
  and header checks, then `begin_solid(N)`), `BinaryReadBatch`,
  `BinaryAddTriangle`, `BinaryEnd`, `AsciiStart`, `AsciiAddTriangle` and
  `AsciiEnd`.

`GslSpan`:
- `Put(t, d, n, fx, chk)` is what every constructor and assignment does to
  the slot `t`. It applies the `extent_type` assert (`n >= 0`, or `n = K` for
  a `span<T, K>`) and the `storage_type` assert (a null pointer only with
  size 0, unless `checked`). Assigning to an existing `span<T, K>` keeps its
  extent.
- `SpanDefault`, `SpanFromArray`, `SpanFromPtr`, `SpanCopy` and
  `SpanDestroy` are the constructors and the destructor.
  `SpanFromPtr(t, p, count, fx)` requires the caller to pass a range of the
  array, which the constructor cannot check.
- `SubviewAt` carries the asserts shared by `subspan<Offset, Count>()`,
  `last<Count>()` and `make_subspan`. `First`, `Last`, `Subspan` and
  `MakeSubspan` are the run-time and template forms of lines 441-478 and
  544-568.
- `SpanIndex` is `operator[]`. `SpanCompare` reads any common prefix of
  both spans, as `std::equal` and `lexicographical_compare` do.
- The iterator actions are `Begin` (for `begin`/`end`), `IterIncr`,
  `IterDecr`, `IterAdd` (for `+=`, `-=`, `+` and `-`), `IterDeref` (for `*`
  and `->`), `IterSubscript` and `IterDestroy`.
- Every read goes through `Access(a)`. An address outside `0 .. N-1` sets
  the ghost `oob`.
- A span object that has live iterators cannot be destroyed: they die
  first. It can be assigned to only when the constant `AssignLive` allows
  it. That is legal C++, and `gsl_span_assign` shows what it does.

## 3. Runs

| run | cfg | expect | checks |
|---|---|---|---|
| `stringstream` | `MC_StringStream.cfg` | pass | `TypeOK`, `WritesInBounds`, `TextCursorSpec`, `EatWordReturns` |
| `stl_read_binary` | `MC_StlReader_binary.cfg` | pass | `StoresInBounds`, `MeshHoldsSolid`, `ReadEnds` |
| `stl_read_ascii_sized` | `MC_StlReader_ascii_sized.cfg` | pass | `TypeOK`, `StoresInBounds`, `TrianglesKept`, `ReadEnds` |
| `stl_ascii_unsized_overrun` | `MC_StlReader_ascii_unsized.cfg` | violation | `StoresInBounds` |
| `stl_ascii_count` | `MC_StlReader_ascii_count.cfg` | violation | `MeshHoldsSolid` |
| `stl_solid_name` | `MC_StlReader_solid_name.cfg` | violation | `SolidNameTerminated` |
| `gsl_span` | `MC_GslSpan.cfg` | pass | `TypeOK`, `WindowsInArray`, `AccessesInArray` |
| `gsl_span_assign` | `MC_GslSpan_assign.cfg` | violation | `AccessesInArray` |
| `host_endianness` | `MC_HostEndianness.cfg` | violation | `NeverUnknown` |

**stringstream.** TLC explores every text of up to 5 characters over
`{a, b, sp}`, every sequence of stream reads of 1 or 2 bytes, and every
interleaving of the driver's `next_char`, `eat_word` and resets. The bounds
are enough for every case that matters:
- a buffer of 2 makes every word of 2 or more letters straddle a refill, and
  gives short reads of 1 byte;
- a string of 3 bytes makes words of 2 fit exactly with their null byte,
  and makes words of 3 overflow;
- repeated calls without a reset make the room shrink to 1.

`TextCursorSpec` then says that the result of every call (OK, EMPTY or
OVERFLOW), the characters appended and the position afterwards are those the
text alone determines. Buffering and refills therefore never skip, repeat or
reorder a character.

**stl_read_binary.** Files of 0 to 5 triangles, streams holding 0 to 5
triangles, and memblocks of 40, 50, 100 and 120 bytes, which give batches of
0, 1 and 2 triangles. These make the last batch partial, and make short
streams stop mid-file. `MeshHoldsSolid` says that a read that finishes
leaves exactly the file's triangles in their slots, with `count = N`.

**stl_read_ascii_sized.** Up to 2 solids of up to 10 facets, with stream
sizes of 1600 or 1800 bytes. That gives a first guess of 8 slots, so ids 8
and 9 take the `capacity >> 3` growth twice. Files shorter than the guess
are excluded (the stream size is at least the smallest text of the file).
`TrianglesKept` says that while a solid is read, and after the read,
`func_get_triangle(k)` returns the solid's `k`-th triangle for every id
already delivered. It fails if the growth's `realloc` loses the slots
stored before it.

**gsl_span.** This run covers a checked build (`Checked = TRUE`) with no
assignment to a span that has iterators (`AssignLive = FALSE`). The bounds
are an array of 3 elements, two span objects and two iterators. Offsets and
counts range over `-1 .. 4`, with `-1` meaning `dynamic_extent`, and
iterator steps over `-4 .. 4`. So every off-by-one on each side of every
assert is tried, and subviews of subviews can be taken. `WindowsInArray`
says that every live span views a part of the array. `AccessesInArray`
says that no access reaches outside it.

**Violation runs** (see `findings` in PROJECT.json):
- `stl_ascii_unsized_overrun`: with an unknown size (0) or 400 bytes, the
  guess is 1 or 2 slots, and `capacity >> 3` is 0, so `add_triangle` writes
  past the block.
- `stl_ascii_count`: `count` starts at the guess, so `triangle_count`
  exceeds the facets read.
- `stl_solid_name`: a name of 4 or more bytes in a 4-byte `solid_name` is
  left unterminated.
- `gsl_span_assign`: the same build, but with `s = ...` allowed while an
  iterator of `s` is alive. TLC's trace is: span over the whole array,
  `it = s.end()` (index 3), `s = span<int>()`, then `*it`. The assert
  `index_ != length()` is `3 != 0`, so it passes, and the read lands at
  `nullptr + 3`. The assert should be `index_ < length()`.
- `host_endianness`: spec section 8 says that the detected endianness is
  never Unknown where `uint32_t` is four bytes. On the PDP-11 order
  (memory `02 01 08 04`) and the Honeywell 316 order (`04 08 01 02`), the
  function returns UNKNOWN. C allows every order of the four bytes.

**Fairness and liveness.** A `gmio_stl_read` call and a `gmio_eat_word`
call each run on the caller's thread, with no lock or wait, until they
return. So a step of a call in progress is always taken:
- `StlReader!FairSpec` is `Spec /\ WF_vars(Next)`. `ReadEnds` says that a
  read reaches `done` or `error`. The STL runs keep `CHECK_DEADLOCK FALSE`,
  because a read really stops there.
- `StringStream!FairSpec` is weak fairness on `EatSteps` only: the steps of
  an `eat_word` call in progress. The driver (the unit test) may stop
  calling at any time. `EatWordReturns` says that every call returns: the
  space skip moves forward through a finite text, and the do-while stops
  at a space, at the end, or when `i` reaches the capacity.

**Mutants.** Each property of a passing run is shown to catch a plausible
bug in the code it is about. The bugs are:
- a space copied into the word;
- the `i < capacity` test after the loop dropped;
- `len` set past the null byte;
- a last batch read whole;
- a triangle stored at `count`;
- growth only when `tri_id > capacity`;
- a NULL name's length taken;
- a subview that drops `offset >= 0`;
- a subview whose count is checked against `size()` instead of
  `size() - offset`;
- `++` asserting `index_ <= length()`;
- `skip_spaces` not moving the cursor (`EatWordReturns`);
- a short binary read retried instead of failing (`ReadEnds`);
- an ASCII end of solid that does not move to the next solid (`ReadEnds`).

## 4. Proofs

`StringStreamProofs` proves, for all `MaxText`, `BufCap >= 1` and
`OutCap >= 1`:
- `TypeCorrect`: `Spec => []TypeOK`;
- `EatWordInBounds`: `Spec => []WritesInBounds`, meaning `gmio_eat_word`
  never stores outside the word string.

Neither property is inductive alone. The inductive invariant `IInv` adds two
conjuncts:
- `Len(buf) <= rd`: the buffer is the tail of what was read, which keeps the
  cursor position a natural number;
- `pc = "skip" => i = olen`: while spaces are skipped, `i` is still the
  string's `len`.

Together with `olen < OutCap` from `TypeOK`, the second conjunct is what
makes the first store of the do-while and the null byte of an empty word
land in bounds. Their index is `len`, and no code tests it. `EatDone` keeps
`olen < OutCap` because it only sets `len = i` under `i < capacity`.

The lemmas are:
- `AdvanceTyped`: a `next_char` step keeps the buffer a well-typed tail of
  the input, by `SubSeqProperties`;
- `TextIsSeq`;
- `InitIInv`;
- `NextIInv`: one step per action.

The theorems follow by `PTL`. TLC also checked `IInv` as an invariant of the
`stringstream` instance.

`StringStreamRefinement` proves `StreamRefinesCursor`:
`Spec => TextCursorSpec`, for every text, `BufCap >= 1` and `OutCap >= 1`.
The buffered iterator with `gmio_skip_spaces` and `gmio_eat_word` implements
the unbuffered cursor under the mapping of section 2. The position is
`callPos` during a call and the characters consumed otherwise. The word is
`out[0 .. len - 1]`.

The proof has the usual three parts:
- `InitRefines`: an initial state maps to `Cursor!Init`;
- `StepRefines`: `RInv /\ [Next]_vars => [Cursor!Next]_Cursor!vars`;
- `InitRInv` and `NextRInv`: `RInv` is inductive.

`RInv` strengthens `IInv` with two conjuncts:
- `StreamOK` / `BufOK`: the buffer holds exactly the input characters at
  `rd - Len(buf) + 1 .. rd`, and `bpos < Len(buf)` unless the input is
  exhausted. Without it, the character the loop reads need not be the text's
  next character.
- `CallOK`: during a call, the input from `callPos` to `WS` is spaces
  (`WS == Pos - (i - olen)` is where the word started), `WS + 1 .. Pos` are
  letters, and `out[olen .. i-1]` is that stretch. This is what makes the
  final step, `EatDone` or `EatOverflow`, map to the cursor's single atomic
  `EatWord`. The loop's earlier steps are then stutters of the abstract
  position and word.

`TextCursor`'s `SpacesEnd` and `WordEnd` are `CHOOSE` over the text. Lemmas
`SpacesEndIs` and `WordEndIs` show that the chosen value is the unique
position with the stated property. `WordEndAtLeast` shows that a candidate
exists, taking the least element of a set of naturals (`NatSetHasLeast`,
from `WFMin` and `NatLessThanWellFounded` of `WellFoundedInduction`).
`LoopWordStart` collects what `CallOK` gives inside the copy loop.
`CurCharIsText`, `RefillOK` and `AdvanceMoves` cover `gmio_next_char` and
its refill. TLC checked `RInv` on the `stringstream` instance before the
proof.

`GslSpanProofs` also proves `SpanTypeCorrect`:
`Checked = TRUE => (Spec => []TypeOK)`. It holds whatever the caller does,
assignments to iterated spans included. `TypeOK` is inductive by itself in
a checked build (lemmas `PutTypeOK`, `SubviewTypeOK`, `NextTypeOK`): the
`size >= 0` of `extent_type` and the `offset >= 0` of the subviews are
exactly the asserts that keep `size` and `data` typed. The build hypothesis
is needed: under NDEBUG, `span(p, -1)` stores a negative size.

`GslSpanProofs` proves two more theorems under `CheckedBuild` (`Checked = TRUE`
and `AssignLive = FALSE`), for every `N \in Nat` and all pools of spans and
iterators:
- `SpanWindowsInArray`: `Spec => []WindowsInArray`;
- `SpanAccessesInArray`: `Spec => []AccessesInArray`.

The inductive invariant is `TypeOK /\ WindowsInArray /\ ItersInRange /\ ~oob`.
`ItersInRange` says that every live iterator points to a live span and that
its index lies in `0 .. length()` of that span. It is needed because the
iterator asserts only test `index_ != length()` (and `!= 0`). They give
`index_ < length()` only together with `ItersInRange`, and it is in turn
preserved only because a span with iterators is neither destroyed nor
assigned to. That is exactly the condition the violation run drops.

The lemmas are:
- `PutIInv`: storing a window of the array into a slot keeps `IInv`;
- `SubviewIInv`: every subview's asserts give such a window;
- `AccessInside`;
- `IterMoveIInv`;
- `AccessIInv`;
- `NextIInv`: one step per action.

TLC checked `IInv` on the `gsl_span` instance.

`StlReaderProofs` proves two theorems under `BinaryOnly`
(`Formats = {"binary"}`), for every `MaxFacets` and every set of memblock
sizes:
- `BinaryStoresInBounds`: `Spec => []StoresInBounds`;
- `BinaryMeshHoldsSolid`: `Spec => []MeshHoldsSolid`.

The inductive invariant `BInv` records what `binary_begin_solid`
establishes and the batches keep:
- from the first batch on, `capacity = count = N`;
- `next + avail <= N`, because a batch delivers at most `N - next`;
- the slots below `next` hold the triangles read.

With it, `add_triangle` never takes the realloc branch, and its
`count = max(count, id + 1)` is the identity. That is lemma
`AddTriangleInside`. The invariant is inductive only with all three
conjuncts: the bound on `next + avail` is what keeps `id < capacity`. TLC
checked `BInv` on the `stl_read_binary` instance.

`StlReaderProofs` also proves `ReaderTypeCorrect`: `Spec => []TypeOK`, for
both readers and every constant. `TypeOK` alone is not inductive. `TInv`
adds:
- `facets \in Seq(0 .. MaxFacets)`, `hint` and `mblock` natural, and the
  ASCII `names` a function on the solids;
- for a binary file, `Len(facets) = 1` and `next + avail <= N`.

The last conjunct keeps the binary reader's `next` within `MaxFacets`. The
ASCII reader's `next` is bounded by the facet guard of `AsciiAddTriangle`.
Lemmas `MallocTyped` and `AddTriangleTyped` show that the block always spans
`0 .. capacity - 1`, whether or not `add_triangle` takes the realloc
branch. `FunIsSeq` states that a function on `1 .. n` is a sequence: the
provers do not find this for the literal domain `{1}` of the binary
`facets`. TLC checked `TInv` on all formats, names and hints before the
proof (142,799 states).

`StlReaderProofs` also proves `ReaderKeepsTriangles`:
`Spec => [](StoresInBounds => TrianglesKept)`, for both readers and every
constant. It covers unknown and small ASCII stream sizes, where stores do
overrun. `KInv` adds `Kept` to `TInv`:
- a binary read still in `"start"` has `next = 0`;
- while no store has overrun, `next <= capacity` and the slots below
  `next` hold the current solid's triangles.

`overrun` never returns to `FALSE`, so a step that ends without one also
started without one. Lemma `AddTriangleKeeps` is the realloc step: the
slots below the old capacity are copied, so those below `tri_id` survive,
and the new triangle lands at `tri_id < capacity'`. TLC checked `KInv`
on all formats, names and hints before the proof. The hypothesis
`StoresInBounds` is needed. Once a store overruns (an unsized stream, a
block of fewer than 8 slots, whose `capacity >> 3` growth is 0), the slot
`tri_id` does not exist.

What stays with TLC:
- the ASCII reader's `StoresInBounds`, which holds only for the sized
  streams of the run (growth `capacity >> 3` is 0 below 8 slots): stated
  for every constant it is false, as the `stl_ascii_unsized_overrun` run
  shows;
- liveness (`ReadEnds`, `EatWordReturns`), which needs fairness and
  ENABLED. The TLAPS backends cannot reason about ENABLED here.
- what the recursive function `AsciiMinBytes` computes. No proof unfolds
  it: that would need induction over data, which the installed provers
  cannot instantiate.

## 5. Plan for the next sittings

1. `GslSpan`: iterators over a temporary that has died (currently excluded
   by `SpanDestroy`'s guard), and a refinement to an abstract "view of a
   sub-range" spec.
2. `StlWriter` (spec 4.7): the dual of the binary reader reading
   `StlData`'s mesh, composed with `StlReader` for the round-trip of spec 8.

## 6. Not modelled

- Float parsing and formatting (C3, C13) and ULP comparison (C2): IEEE
  arithmetic is beyond TLC, and the code is not in the tree.
- ZIP (C15): only its unit test is here, and the records are byte layout.
- Locale guard (C5), string utils (C4), memblock factory (C6): not in the
  tree, and without interleavings.
- Allocation failure in `stl_utils.c` (malloc/realloc returning NULL): not
  modelled. It is listed as a hazard.
- In `gsl_span.h`: iterator comparisons and differences (no state change),
  reverse iterators, `as_bytes`, and the `unique_ptr`/`shared_ptr`
  constructors and `make_span` wrappers, which take the same `storage_`
  path as `span(ptr, count)`. Builds with NDEBUG are not checked: with no
  assert left, the model holds nothing that the code does not already say.
