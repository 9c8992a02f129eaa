------------------------------- MODULE GslSpan -------------------------------
(***************************************************************************)
(* gsl::span and its span_iterator (src/gmio_core/gsl_span.h) over one     *)
(* array of N elements.  A span is a pointer and a size: data is an index  *)
(* into the array (Null for nullptr) and size its length; fixed tells a    *)
(* span<T, K> (whose size() is the constant K) from a span<T> (whose size  *)
(* is stored).  A span_iterator holds a pointer to the span OBJECT it came *)
(* from and an index, and reads span_->length() and span_->data() when    *)
(* used.  Span objects and iterators are slots of two small pools: a dead  *)
(* slot is a variable not yet declared or out of scope; writing a result   *)
(* into a live slot is an assignment to it.                                *)
(*                                                                         *)
(* Every check of the header is an assert(): in a checked build a failed  *)
(* assert aborts, so the call has the assert as a guard; under NDEBUG it  *)
(* is compiled out (Checked = FALSE).  Element values are left out: what  *)
(* matters is which address a read or write through a span or an iterator *)
(* touches, recorded in the ghost oob.                                     *)
(***************************************************************************)
EXTENDS Integers

CONSTANTS
  N,           \* number of elements of the array spans are made over
  SpanIds,     \* span objects (variables and temporaries)
  IterIds,     \* iterator objects
  Null,        \* nullptr
  Checked,     \* TRUE: assert() is active; FALSE: built with NDEBUG
  AssignLive   \* TRUE: the caller may assign to a span that has live iterators

ASSUME SpanAssumption ==
  /\ N \in Nat
  /\ Checked \in BOOLEAN
  /\ AssignLive \in BOOLEAN
  /\ Null \notin Int

VARIABLES
  span,   \* span[s]: [live, data, size, fixed] of span object s
  iter,   \* iter[it]: [live, sp, index]: span_ and index_ of iterator it
  oob     \* TRUE once an element outside the array was accessed

vars == <<span, iter, oob>>

(* gsl::dynamic_extent.                                                    *)
DynamicExtent == -1

(* Pointers the caller may hand to a constructor: into the array, one past *)
(* its end, or nullptr; and the counts, offsets and steps it may pass.     *)
Pointers == {Null} \cup 0 .. N
Args == -1 .. N + 1
Steps == -(N + 1) .. N + 1

(* assert(c): a guard when assertions are compiled in, nothing otherwise. *)
Asserted(c) == ~Checked \/ c

(* data() + k: pointer arithmetic; nullptr + k stays outside the array.   *)
Addr(d, k) == IF d = Null THEN Null ELSE d + k

(* Accessing the element at address a.                                     *)
Access(a) == oob' = (oob \/ a \notin 0 .. N - 1)

(* The span object s has a live iterator pointing to it.                  *)
Iterated(s) == \E it \in IterIds : iter[it].live /\ iter[it].sp = s

Init ==
  /\ span = [s \in SpanIds |->
               [live |-> FALSE, data |-> Null, size |-> 0, fixed |-> FALSE]]
  /\ iter = [it \in IterIds |-> [live |-> FALSE, sp |-> Null, index |-> 0]]
  /\ oob = FALSE

(* extent_type(size): a dynamic extent asserts size >= 0; a fixed one,   *)
(* span<T, K>, asserts size == K when built from a size or from another   *)
(* extent.                                                                 *)
ExtentOK(n, fixedTo) ==
  /\ Asserted(n >= 0)
  /\ fixedTo # DynamicExtent => Asserted(n = fixedTo)

(* storage_type(data, ext, checked): a null pointer only with size 0,    *)
(* unless checked (as make_subspan passes it).                           *)
StorageOK(d, n, chk) ==
  Asserted(\/ (chk \/ d = Null) /\ n = 0
           \/ (chk \/ d # Null) /\ n >= 0)

(* A new span {d, n} of the result type (fixed when fx) goes into slot t. *)
(* A new variable takes the result's type.  Assigning to an existing one  *)
(* converts to its own type: a span<T, K> accepts a fixed result only of  *)
(* extent K (is_allowed_extent_conversion, at compile time) and asserts a *)
(* dynamic one has size K; its size() stays K.                            *)
Put(t, d, n, fx, chk) ==
  LET keepFixed == span[t].live /\ span[t].fixed
  IN  /\ span[t].live /\ Iterated(t) => AssignLive
      /\ keepFixed /\ fx => n = span[t].size
      /\ ExtentOK(n, IF keepFixed THEN span[t].size ELSE DynamicExtent)
      /\ StorageOK(d, n, chk)
      /\ span' = [span EXCEPT ![t] =
                    [live  |-> TRUE,
                     data  |-> d,
                     size  |-> IF keepFixed THEN span[t].size ELSE n,
                     fixed |-> IF span[t].live THEN span[t].fixed ELSE fx]]

-----------------------------------------------------------------------------
(* Constructors, copies and destruction.                                  *)

(* span() and span(nullptr): a null span of size 0.                       *)
SpanDefault(t) ==
  /\ Put(t, Null, 0, FALSE, FALSE)
  /\ UNCHANGED <<iter, oob>>

(* span(arr), span(std::array&), span(Container&): the whole array, as a *)
(* span<T, N> (fx) or a span<T>.                                          *)
SpanFromArray(t, fx) ==
  /\ Put(t, 0, N, fx, FALSE)
  /\ UNCHANGED <<iter, oob>>

(* span(ptr, count) and span(first, last) (count = last - first): the    *)
(* constructor cannot check that count elements follow ptr; the caller   *)
(* passes a range of the array (or a negative or null-pointer count,     *)
(* which the asserts reject).                                              *)
SpanFromPtr(t, p, count, fx) ==
  /\ p # Null /\ count >= 0 => p + count <= N
  /\ Put(t, p, count, fx, FALSE)
  /\ UNCHANGED <<iter, oob>>

(* Copy and converting constructors, copy and move assignment: the        *)
(* other span's pointer and size() go through storage_type unchecked.     *)
SpanCopy(s, t) ==
  /\ span[s].live
  /\ Put(t, span[s].data, span[s].size, span[s].fixed, FALSE)
  /\ UNCHANGED <<iter, oob>>

(* ~span: the variable goes out of scope, or the temporary dies at the    *)
(* end of its full expression.  Iterators taken from it die first.        *)
SpanDestroy(s) ==
  /\ span[s].live
  /\ ~Iterated(s)
  /\ span' = [span EXCEPT ![s].live = FALSE]
  /\ UNCHANGED <<iter, oob>>

-----------------------------------------------------------------------------
(* Subviews.  tmpl: the template form first<Count>(), last<Count>(),      *)
(* subspan<Offset, Count>() whose result is a span<T, Count>.  Their      *)
(* asserts are the same conditions as the run-time forms'.                *)

(* first(count): assert(count >= 0 && count <= size()), {data(), count}. *)
First(s, t, count, tmpl) ==
  /\ span[s].live
  /\ Asserted(count >= 0 /\ count <= span[s].size)
  /\ Put(t, span[s].data, count, tmpl, FALSE)
  /\ UNCHANGED <<iter, oob>>

(* Mutant of SubviewAt: the offset >= 0 half of the first assert lost.   *)
SubviewAt_NegativeOffset(s, t, offset, count, fx, chk) ==
  LET n == span[s].size
  IN  /\ span[s].live
      /\ Asserted(n - offset >= 0)
      /\ Asserted(count = DynamicExtent \/ (count >= 0 /\ n - offset >= count))
      /\ Put(t, Addr(span[s].data, offset),
             IF count = DynamicExtent THEN n - offset ELSE count, fx, chk)
      /\ UNCHANGED <<iter, oob>>

(* Mutant of SubviewAt: the count checked against size() alone, not     *)
(* against what is left after the offset.                                 *)
SubviewAt_CountVsSize(s, t, offset, count, fx, chk) ==
  LET n == span[s].size
  IN  /\ span[s].live
      /\ Asserted(offset >= 0 /\ n - offset >= 0)
      /\ Asserted(count = DynamicExtent \/ (count >= 0 /\ n >= count))
      /\ Put(t, Addr(span[s].data, offset),
             IF count = DynamicExtent THEN n - offset ELSE count, fx, chk)
      /\ UNCHANGED <<iter, oob>>

(* The asserts of the subviews on offset and count, and the new span:    *)
(* offset >= 0 && size() - offset >= 0, and for a count other than        *)
(* dynamic_extent count >= 0 && size() - offset >= count; dynamic_extent *)
(* takes the rest of the span.                                            *)
SubviewAt(s, t, offset, count, fx, chk) ==
  LET n == span[s].size
  IN  /\ span[s].live
      /\ Asserted(offset >= 0 /\ n - offset >= 0)
      /\ Asserted(count = DynamicExtent \/ (count >= 0 /\ n - offset >= count))
      /\ Put(t, Addr(span[s].data, offset),
             IF count = DynamicExtent THEN n - offset ELSE count, fx, chk)
      /\ UNCHANGED <<iter, oob>>

(* make_subspan(offset, count) of a span<T> (a span<T, K> first copies    *)
(* itself to a span<T>): the result is built checked.                     *)
MakeSubspan(s, t, offset, count) ==
  SubviewAt(s, t, offset, count, FALSE, TRUE)

(* subspan(offset, count) is make_subspan; subspan<Offset, Count>()       *)
(* asserts the same and builds {data() + Offset, ...} unchecked.          *)
Subspan(s, t, offset, count, tmpl) ==
  IF tmpl THEN SubviewAt(s, t, offset, count, count # DynamicExtent, FALSE)
  ELSE MakeSubspan(s, t, offset, count)

(* last(count) is make_subspan(size() - count, dynamic_extent);           *)
(* last<Count>() asserts Count >= 0 && size() - Count >= 0 and builds     *)
(* {data() + (size() - Count), Count}.                                    *)
Last(s, t, count, tmpl) ==
  IF tmpl THEN /\ Asserted(count >= 0)
               /\ SubviewAt(s, t, span[s].size - count, count, TRUE, FALSE)
  ELSE MakeSubspan(s, t, span[s].size - count, DynamicExtent)

(* operator[](idx), at, operator(), gsl::at: assert(idx >= 0 && idx <     *)
(* size()), then data()[idx].                                             *)
SpanIndex(s, idx) ==
  /\ span[s].live
  /\ Asserted(idx >= 0 /\ idx < span[s].size)
  /\ Access(Addr(span[s].data, idx))
  /\ UNCHANGED <<span, iter>>

(* operator==, <, ... : std::equal / lexicographical_compare over both    *)
(* spans' iterators read a common prefix of both, up to the first         *)
(* difference, of at most the shorter size.                               *)
SpanCompare(l, r) ==
  /\ span[l].live /\ span[r].live
  /\ \E j \in 0 .. N :
       /\ j <= span[l].size /\ j <= span[r].size
       /\ oob' = \/ oob
                 \/ \E k \in 0 .. j - 1 :
                      \/ Addr(span[l].data, k) \notin 0 .. N - 1
                      \/ Addr(span[r].data, k) \notin 0 .. N - 1
  /\ UNCHANGED <<span, iter>>

-----------------------------------------------------------------------------
(* Iterators.  Each reads span_->length() and span_->data() of the span   *)
(* object it points to at the time of the call.                           *)

Len(it) == span[iter[it].sp].size

(* begin(), cbegin(): {this, 0}; end(), cend(): {this, length()}.  The    *)
(* constructor's assert holds.                                             *)
Begin(s, it, atEnd) ==
  /\ span[s].live
  /\ iter' = [iter EXCEPT ![it] =
                [live |-> TRUE, sp |-> s,
                 index |-> IF atEnd THEN span[s].size ELSE 0]]
  /\ UNCHANGED <<span, oob>>

(* Mutant of IterIncr: ++ asserts index_ <= length() instead of != .     *)
IterIncr_PastEnd(it) ==
  /\ iter[it].live
  /\ Asserted(0 <= iter[it].index /\ iter[it].index <= Len(it))
  /\ iter' = [iter EXCEPT ![it].index = @ + 1]
  /\ UNCHANGED <<span, oob>>

(* ++it, it++: assert(0 <= index_ && index_ != span_->length()).         *)
IterIncr(it) ==
  /\ iter[it].live
  /\ Asserted(0 <= iter[it].index /\ iter[it].index # Len(it))
  /\ iter' = [iter EXCEPT ![it].index = @ + 1]
  /\ UNCHANGED <<span, oob>>

(* --it, it--: assert(index_ != 0 && index_ <= span_->length()).         *)
IterDecr(it) ==
  /\ iter[it].live
  /\ Asserted(iter[it].index # 0 /\ iter[it].index <= Len(it))
  /\ iter' = [iter EXCEPT ![it].index = @ - 1]
  /\ UNCHANGED <<span, oob>>

(* it += n, it -= n, it + n, it - n: assert((index_ + n) >= 0 &&          *)
(* (index_ + n) <= span_->length()).                                      *)
IterAdd(it, n) ==
  /\ iter[it].live
  /\ Asserted(iter[it].index + n >= 0 /\ iter[it].index + n <= Len(it))
  /\ iter' = [iter EXCEPT ![it].index = @ + n]
  /\ UNCHANGED <<span, oob>>

(* *it, it->: assert(index_ != span_->length()), then                     *)
(* span_->data() + index_.                                                 *)
IterDeref(it) ==
  /\ iter[it].live
  /\ Asserted(iter[it].index # Len(it))
  /\ Access(Addr(span[iter[it].sp].data, iter[it].index))
  /\ UNCHANGED <<span, iter>>

(* it[n] dereferences the copy this + n: the assert of +=, then of *it. *)
IterSubscript(it, n) ==
  LET k == iter[it].index + n
  IN  /\ iter[it].live
      /\ Asserted(k >= 0 /\ k <= Len(it))
      /\ Asserted(k # Len(it))
      /\ Access(Addr(span[iter[it].sp].data, k))
      /\ UNCHANGED <<span, iter>>

(* The iterator goes out of scope.                                         *)
IterDestroy(it) ==
  /\ iter[it].live
  /\ iter' = [iter EXCEPT ![it].live = FALSE]
  /\ UNCHANGED <<span, oob>>

Next ==
  \/ \E t \in SpanIds :
       \/ SpanDefault(t)
       \/ \E fx \in BOOLEAN : SpanFromArray(t, fx)
       \/ \E p \in Pointers, c \in Args, fx \in BOOLEAN : SpanFromPtr(t, p, c, fx)
       \/ \E s \in SpanIds :
            \/ SpanCopy(s, t)
            \/ \E c \in Args, tm \in BOOLEAN : First(s, t, c, tm) \/ Last(s, t, c, tm)
            \/ \E o \in Args, c \in Args, tm \in BOOLEAN : Subspan(s, t, o, c, tm)
  \/ \E s \in SpanIds :
       \/ SpanDestroy(s)
       \/ \E idx \in Args : SpanIndex(s, idx)
       \/ \E r \in SpanIds : SpanCompare(s, r)
       \/ \E it \in IterIds, e \in BOOLEAN : Begin(s, it, e)
  \/ \E it \in IterIds :
       \/ IterIncr(it) \/ IterDecr(it) \/ IterDeref(it) \/ IterDestroy(it)
       \/ \E n \in Steps : IterAdd(it, n) \/ IterSubscript(it, n)

Spec == Init /\ [][Next]_vars

-----------------------------------------------------------------------------
(* Type invariant.                                                        *)
TypeOK ==
  /\ span \in [SpanIds -> [live : BOOLEAN, data : {Null} \cup Nat,
                           size : Nat, fixed : BOOLEAN]]
  /\ iter \in [IterIds -> [live : BOOLEAN, sp : {Null} \cup SpanIds,
                           index : Int]]
  /\ oob \in BOOLEAN

(* Every live span, however it was derived by first, last, subspan,       *)
(* copies and assignments from the array, views a part of the array: a   *)
(* null span is empty, and data() .. data() + size() lies inside it.      *)
WindowsInArray ==
  \A s \in SpanIds :
    span[s].live =>
      IF span[s].data = Null THEN span[s].size = 0
      ELSE span[s].data + span[s].size <= N

(* No element outside the array is ever read or written through a span's *)
(* operator[], a comparison, or an iterator's *, -> or [].                 *)
AccessesInArray == ~oob

=============================================================================
