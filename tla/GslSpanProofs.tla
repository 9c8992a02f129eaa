---------------------------- MODULE GslSpanProofs ----------------------------
(***************************************************************************)
(* Proofs about GslSpan for every array length and every pool of spans    *)
(* and iterators: in a build with assertions, and for a caller that does   *)
(* not assign to a span while iterators of it are alive, every span       *)
(* derived from the array views a part of it, and no element outside the *)
(* array is ever accessed.                                                 *)
(*                                                                         *)
(* WindowsInArray is not enough by itself for the accesses through         *)
(* iterators: the iterator asserts test index_ != length() and so rely on *)
(* 0 <= index_ <= length() of the span the iterator points to, which      *)
(* ItersInRange states, with that span alive.                              *)
(***************************************************************************)
EXTENDS GslSpan, TLAPS

(* The build and the caller the theorems are about.                        *)
CheckedBuild == Checked = TRUE /\ AssignLive = FALSE

(* Every live iterator points to a live span and its index is within     *)
(* 0 .. length() of that span.                                             *)
ItersInRange ==
  \A it \in IterIds :
    iter[it].live =>
      /\ iter[it].sp \in SpanIds
      /\ span[iter[it].sp].live
      /\ iter[it].index \in 0 .. span[iter[it].sp].size

(* The inductive invariant.                                                *)
IInv == TypeOK /\ WindowsInArray /\ ItersInRange /\ ~oob

USE SpanAssumption

(* A window of the array: a null span is empty, and a span with data     *)
(* ends within the array.                                                 *)
WindowOK(d, n) ==
  \/ d = Null /\ n = 0
  \/ d \in Nat /\ n \in Nat /\ d + n <= N

(* The invariant holds initially.                                          *)
LEMMA InitIInv == Init => IInv
<1> SUFFICES ASSUME Init PROVE IInv
  OBVIOUS
<1>1. TypeOK
  <2>1. span \in [SpanIds -> [live : BOOLEAN, data : {Null} \cup Nat,
                              size : Nat, fixed : BOOLEAN]]
    BY Zenon DEF Init
  <2>2. iter \in [IterIds -> [live : BOOLEAN, sp : {Null} \cup SpanIds,
                              index : Int]]
    <3>1. 0 \in Int /\ Null \in {Null} \cup SpanIds
      OBVIOUS
    <3>. QED  BY <3>1, Zenon DEF Init
  <2>. QED  BY <2>1, <2>2 DEF Init, TypeOK
<1>2. WindowsInArray /\ ItersInRange /\ ~oob
  BY DEF Init, WindowsInArray, ItersInRange
<1>. QED  BY <1>1, <1>2 DEF IInv

(* Storing a new span over a window of the array into a slot keeps the    *)
(* invariant: the extent's assert makes its size that of the window, and  *)
(* no live iterator points to the slot (a dead slot has none, and a live  *)
(* one with iterators cannot be assigned to).                             *)
LEMMA PutIInv ==
  ASSUME IInv, CheckedBuild,
         NEW t \in SpanIds, NEW d, NEW n \in Int,
         NEW fx \in BOOLEAN, NEW chk \in BOOLEAN,
         WindowOK(d, n),
         Put(t, d, n, fx, chk),
         UNCHANGED <<iter, oob>>
  PROVE  IInv'
<1>1. span[t].live /\ span[t].fixed => n = span[t].size
  <2>1. span[t].size \in Nat
    BY DEF IInv, TypeOK
  <2>. QED  BY <2>1 DEF Put, ExtentOK, Asserted, CheckedBuild, DynamicExtent
<1>2. span' = [span EXCEPT ![t] =
                 [live |-> TRUE, data |-> d, size |-> n,
                  fixed |-> IF span[t].live THEN span[t].fixed ELSE fx]]
  BY <1>1 DEF Put
<1>3. \A it \in IterIds : iter[it].live => iter[it].sp # t
  <2>1. span[t].live => ~Iterated(t)
    BY DEF Put, CheckedBuild
  <2>. QED  BY <2>1 DEF Iterated, IInv, ItersInRange
<1>4. TypeOK'
  <2>1. d \in {Null} \cup Nat /\ n \in Nat
    BY DEF WindowOK
  <2>. QED  BY <1>2, <2>1 DEF IInv, TypeOK
<1>5. WindowsInArray'
  BY <1>2 DEF IInv, TypeOK, WindowsInArray, WindowOK
<1>6. ItersInRange'
  BY <1>2, <1>3 DEF IInv, ItersInRange
<1>. QED  BY <1>4, <1>5, <1>6 DEF IInv

(* The subviews build a window inside the span they are taken from.      *)
LEMMA SubviewIInv ==
  ASSUME IInv, CheckedBuild,
         NEW s \in SpanIds, NEW t \in SpanIds,
         NEW offset \in Int, NEW count \in Int,
         NEW fx \in BOOLEAN, NEW chk \in BOOLEAN,
         SubviewAt(s, t, offset, count, fx, chk)
  PROVE  IInv'
<1> DEFINE n == span[s].size
           d == span[s].data
           nn == IF count = DynamicExtent THEN n - offset ELSE count
<1>1. /\ span[s].live
      /\ offset >= 0 /\ n - offset >= 0
      /\ count = DynamicExtent \/ (count >= 0 /\ n - offset >= count)
      /\ Put(t, Addr(d, offset), nn, fx, chk)
      /\ UNCHANGED <<iter, oob>>
  BY DEF SubviewAt, Asserted, CheckedBuild
<1>2. /\ n \in Nat
      /\ d = Null => n = 0
      /\ d # Null => d \in Nat /\ d + n <= N
  BY <1>1 DEF IInv, TypeOK, WindowsInArray
<1>3. nn \in Nat /\ nn <= n - offset
  BY <1>1, <1>2 DEF DynamicExtent
<1>4. WindowOK(Addr(d, offset), nn)
  <2>1. CASE d = Null
    BY <1>1, <1>2, <1>3, <2>1 DEF Addr, WindowOK
  <2>2. CASE d # Null
    BY <1>1, <1>2, <1>3, <2>2 DEF Addr, WindowOK
  <2>. QED  BY <2>1, <2>2
<1>. QED  BY <1>1, <1>3, <1>4, PutIInv

(* An access at index k of a live span, with 0 <= k < size(), is inside  *)
(* the array.                                                             *)
LEMMA AccessInside ==
  ASSUME IInv, NEW s \in SpanIds, span[s].live,
         NEW k \in Int, 0 <= k, k < span[s].size
  PROVE  Addr(span[s].data, k) \in 0 .. N - 1
BY DEF IInv, TypeOK, WindowsInArray, Addr

(* Moving a live iterator to an index within its span's length keeps the *)
(* invariant.                                                              *)
LEMMA IterMoveIInv ==
  ASSUME IInv, NEW it \in IterIds, iter[it].live,
         NEW k \in 0 .. span[iter[it].sp].size,
         iter' = [iter EXCEPT ![it].index = k],
         UNCHANGED <<span, oob>>
  PROVE  IInv'
BY DEF IInv, TypeOK, WindowsInArray, ItersInRange

(* An access at address a inside the array keeps the invariant.          *)
LEMMA AccessIInv ==
  ASSUME IInv, NEW a \in 0 .. N - 1, Access(a), UNCHANGED <<span, iter>>
  PROVE  IInv'
BY DEF IInv, TypeOK, WindowsInArray, ItersInRange, Access

(* Every step of a checked build, for a caller that never assigns to a    *)
(* span with live iterators, keeps the invariant.                         *)
LEMMA NextIInv ==
  ASSUME IInv, CheckedBuild, [Next]_vars
  PROVE  IInv'
<1> USE DEF Asserted, CheckedBuild
<1>1. ASSUME NEW t \in SpanIds, SpanDefault(t) PROVE IInv'
  <2>1. 0 \in Int /\ FALSE \in BOOLEAN /\ WindowOK(Null, 0)
    BY DEF WindowOK
  <2>. QED  BY <1>1, <2>1, PutIInv, Zenon DEF SpanDefault
<1>2. ASSUME NEW t \in SpanIds, NEW fx \in BOOLEAN, SpanFromArray(t, fx)
      PROVE  IInv'
  <2>1. 0 \in Nat /\ N \in Int /\ FALSE \in BOOLEAN /\ WindowOK(0, N)
    BY DEF WindowOK
  <2>. QED  BY <1>2, <2>1, PutIInv, Zenon DEF SpanFromArray
<1>3. ASSUME NEW t \in SpanIds, NEW p \in Pointers, NEW c \in Args,
             NEW fx \in BOOLEAN, SpanFromPtr(t, p, c, fx)
      PROVE  IInv'
  <2>1. c >= 0 /\ (p = Null => c = 0)
    BY <1>3 DEF SpanFromPtr, Put, ExtentOK, StorageOK
  <2>2. WindowOK(p, c) /\ c \in Int /\ FALSE \in BOOLEAN
    BY <1>3, <2>1 DEF SpanFromPtr, Pointers, Args, WindowOK
  <2>. QED  BY <1>3, <2>2, PutIInv, Zenon DEF SpanFromPtr
<1>4. ASSUME NEW s \in SpanIds, NEW t \in SpanIds, SpanCopy(s, t)
      PROVE  IInv'
  <2>1. /\ WindowOK(span[s].data, span[s].size)
        /\ span[s].size \in Int /\ span[s].fixed \in BOOLEAN
        /\ FALSE \in BOOLEAN
    BY <1>4 DEF SpanCopy, IInv, TypeOK, WindowsInArray, WindowOK
  <2>. QED  BY <1>4, <2>1, PutIInv, Zenon DEF SpanCopy
<1>5. ASSUME NEW s \in SpanIds, SpanDestroy(s) PROVE IInv'
  BY <1>5 DEF SpanDestroy, Iterated, IInv, TypeOK, WindowsInArray,
              ItersInRange
<1>6. ASSUME NEW s \in SpanIds, NEW t \in SpanIds, NEW c \in Args,
             NEW tm \in BOOLEAN, First(s, t, c, tm)
      PROVE  IInv'
  <2>1. WindowOK(span[s].data, c) /\ c \in Int /\ FALSE \in BOOLEAN
    BY <1>6 DEF First, Args, IInv, TypeOK, WindowsInArray, WindowOK
  <2>. QED  BY <1>6, <2>1, PutIInv, Zenon DEF First
<1>7. ASSUME NEW s \in SpanIds, NEW t \in SpanIds, NEW c \in Args,
             NEW tm \in BOOLEAN, Last(s, t, c, tm)
      PROVE  IInv'
  <2>1. /\ span[s].size - c \in Int /\ c \in Int /\ DynamicExtent \in Int
        /\ TRUE \in BOOLEAN /\ FALSE \in BOOLEAN
    BY DEF IInv, TypeOK, Args, DynamicExtent
  <2>2. CASE tm
    BY <1>7, <2>1, <2>2, SubviewIInv, Zenon DEF Last
  <2>3. CASE ~tm
    BY <1>7, <2>1, <2>3, SubviewIInv, Zenon DEF Last, MakeSubspan
  <2>. QED  BY <2>2, <2>3
<1>8. ASSUME NEW s \in SpanIds, NEW t \in SpanIds, NEW o \in Args,
             NEW c \in Args, NEW tm \in BOOLEAN, Subspan(s, t, o, c, tm)
      PROVE  IInv'
  <2>1. /\ o \in Int /\ c \in Int
        /\ (c # DynamicExtent) \in BOOLEAN
        /\ TRUE \in BOOLEAN /\ FALSE \in BOOLEAN
    BY DEF Args
  <2>2. CASE tm
    BY <1>8, <2>1, <2>2, SubviewIInv, Zenon DEF Subspan
  <2>3. CASE ~tm
    BY <1>8, <2>1, <2>3, SubviewIInv, Zenon DEF Subspan, MakeSubspan
  <2>. QED  BY <2>2, <2>3
<1>9. ASSUME NEW s \in SpanIds, NEW idx \in Args, SpanIndex(s, idx)
      PROVE  IInv'
  <2>1. span[s].live /\ idx >= 0 /\ idx < span[s].size
    BY <1>9, Zenon DEF SpanIndex
  <2>2. Addr(span[s].data, idx) \in 0 .. N - 1
    BY <2>1, AccessInside DEF Args
  <2>. QED  BY <1>9, <2>2, AccessIInv DEF SpanIndex
<1>10. ASSUME NEW l \in SpanIds, NEW r \in SpanIds, SpanCompare(l, r)
       PROVE  IInv'
  <2>1. PICK j \in 0 .. N :
          /\ j <= span[l].size /\ j <= span[r].size
          /\ oob' = \/ oob
                    \/ \E k \in 0 .. j - 1 :
                         \/ Addr(span[l].data, k) \notin 0 .. N - 1
                         \/ Addr(span[r].data, k) \notin 0 .. N - 1
    BY <1>10 DEF SpanCompare
  <2>2. \A k \in 0 .. j - 1 :
          /\ Addr(span[l].data, k) \in 0 .. N - 1
          /\ Addr(span[r].data, k) \in 0 .. N - 1
    <3>1. span[l].live /\ span[r].live
      BY <1>10 DEF SpanCompare
    <3>2. span[l].size \in Int /\ span[r].size \in Int
      BY DEF IInv, TypeOK
    <3>. QED  BY <2>1, <3>1, <3>2, AccessInside
  <2>3. ~oob'
    BY <2>1, <2>2 DEF IInv
  <2>. QED  BY <1>10, <2>3 DEF SpanCompare, IInv, TypeOK, WindowsInArray,
                                ItersInRange
<1>11. ASSUME NEW s \in SpanIds, NEW it \in IterIds, NEW e \in BOOLEAN,
              Begin(s, it, e)
       PROVE  IInv'
  BY <1>11 DEF Begin, IInv, TypeOK, WindowsInArray, ItersInRange
<1>12. ASSUME NEW it \in IterIds, IterIncr(it) PROVE IInv'
  <2>1. iter[it].live /\ iter[it].index # Len(it)
    BY <1>12, Zenon DEF IterIncr
  <2>2. iter[it].index + 1 \in 0 .. span[iter[it].sp].size
    <3>1. /\ iter[it].index \in 0 .. span[iter[it].sp].size
          /\ span[iter[it].sp].size \in Nat
      BY <2>1 DEF IInv, TypeOK, ItersInRange
    <3>. QED  BY <2>1, <3>1 DEF Len
  <2>. QED  BY <1>12, <2>1, <2>2, IterMoveIInv DEF IterIncr
<1>13. ASSUME NEW it \in IterIds, IterDecr(it) PROVE IInv'
  <2>1. iter[it].live /\ iter[it].index # 0
    BY <1>13, Zenon DEF IterDecr
  <2>2. iter[it].index - 1 \in 0 .. span[iter[it].sp].size
    <3>1. /\ iter[it].index \in 0 .. span[iter[it].sp].size
          /\ span[iter[it].sp].size \in Nat
      BY <2>1 DEF IInv, TypeOK, ItersInRange
    <3>. QED  BY <2>1, <3>1
  <2>. QED  BY <1>13, <2>1, <2>2, IterMoveIInv DEF IterDecr
<1>14. ASSUME NEW it \in IterIds, NEW n \in Steps, IterAdd(it, n)
       PROVE  IInv'
  <2>1. /\ iter[it].live
        /\ iter[it].index + n >= 0 /\ iter[it].index + n <= Len(it)
    BY <1>14, Zenon DEF IterAdd
  <2>2. iter[it].index + n \in 0 .. span[iter[it].sp].size
    <3>1. /\ iter[it].index \in Int
          /\ span[iter[it].sp].size \in Nat
      BY <2>1 DEF IInv, TypeOK, ItersInRange
    <3>. QED  BY <2>1, <3>1 DEF Len, Steps
  <2>. QED  BY <1>14, <2>1, <2>2, IterMoveIInv DEF IterAdd
<1>15. ASSUME NEW it \in IterIds, IterDeref(it) PROVE IInv'
  <2>1. iter[it].live /\ iter[it].index # Len(it)
    BY <1>15, Zenon DEF IterDeref
  <2>2. /\ iter[it].sp \in SpanIds /\ span[iter[it].sp].live
        /\ iter[it].index \in Int
        /\ 0 <= iter[it].index /\ iter[it].index < span[iter[it].sp].size
    <3>1. /\ iter[it].sp \in SpanIds /\ span[iter[it].sp].live
          /\ iter[it].index \in 0 .. span[iter[it].sp].size
          /\ span[iter[it].sp].size \in Nat
      BY <2>1 DEF IInv, TypeOK, ItersInRange
    <3>. QED  BY <2>1, <3>1 DEF Len
  <2>3. Addr(span[iter[it].sp].data, iter[it].index) \in 0 .. N - 1
    BY <2>2, AccessInside
  <2>. QED  BY <1>15, <2>3, AccessIInv DEF IterDeref
<1>16. ASSUME NEW it \in IterIds, NEW n \in Steps, IterSubscript(it, n)
       PROVE  IInv'
  <2>1. /\ iter[it].live
        /\ iter[it].index + n >= 0 /\ iter[it].index + n <= Len(it)
        /\ iter[it].index + n # Len(it)
    BY <1>16, Zenon DEF IterSubscript
  <2>2. /\ iter[it].sp \in SpanIds /\ span[iter[it].sp].live
        /\ iter[it].index + n \in Int
        /\ 0 <= iter[it].index + n
        /\ iter[it].index + n < span[iter[it].sp].size
    <3>1. /\ iter[it].sp \in SpanIds /\ span[iter[it].sp].live
          /\ iter[it].index \in Int
          /\ span[iter[it].sp].size \in Nat
      BY <2>1 DEF IInv, TypeOK, ItersInRange
    <3>. QED  BY <2>1, <3>1 DEF Len, Steps
  <2>3. Addr(span[iter[it].sp].data, iter[it].index + n) \in 0 .. N - 1
    BY <2>2, AccessInside
  <2>. QED  BY <1>16, <2>3, AccessIInv DEF IterSubscript
<1>17. ASSUME NEW it \in IterIds, IterDestroy(it) PROVE IInv'
  BY <1>17 DEF IterDestroy, IInv, TypeOK, WindowsInArray, ItersInRange
<1>18. CASE UNCHANGED vars
  BY <1>18 DEF vars, IInv, TypeOK, WindowsInArray, ItersInRange
<1>. QED
  BY <1>1, <1>2, <1>3, <1>4, <1>5, <1>6, <1>7, <1>8, <1>9, <1>10, <1>11,
     <1>12, <1>13, <1>14, <1>15, <1>16, <1>17, <1>18 DEF Next

(* Storing a span with a pointer into the array, or nullptr, keeps the   *)
(* types in a build with assertions: extent_type's assert(size >= 0)     *)
(* stops a negative count, and a span<T, K> keeps its size K.            *)
LEMMA PutTypeOK ==
  ASSUME TypeOK, Checked = TRUE,
         NEW t \in SpanIds, NEW d \in {Null} \cup Nat, NEW n \in Int,
         NEW fx \in BOOLEAN, NEW chk,
         Put(t, d, n, fx, chk),
         UNCHANGED <<iter, oob>>
  PROVE  TypeOK'
<1>1. n >= 0
  BY DEF Put, ExtentOK, Asserted
<1>2. span[t].size \in Nat /\ span[t].fixed \in BOOLEAN
  BY DEF TypeOK
<1>. QED  BY <1>1, <1>2 DEF Put, TypeOK

(* The subviews of a checked build store a pointer into the array, or    *)
(* nullptr: their offset is asserted non-negative.                        *)
LEMMA SubviewTypeOK ==
  ASSUME TypeOK, Checked = TRUE,
         NEW s \in SpanIds, NEW t \in SpanIds,
         NEW offset \in Int, NEW count \in Int,
         NEW fx \in BOOLEAN, NEW chk,
         SubviewAt(s, t, offset, count, fx, chk)
  PROVE  TypeOK'
<1>1. /\ offset >= 0
      /\ Put(t, Addr(span[s].data, offset),
             IF count = DynamicExtent THEN span[s].size - offset ELSE count,
             fx, chk)
      /\ UNCHANGED <<iter, oob>>
  BY DEF SubviewAt, Asserted
<1>2. /\ Addr(span[s].data, offset) \in {Null} \cup Nat
      /\ (IF count = DynamicExtent THEN span[s].size - offset ELSE count) \in Int
  BY <1>1 DEF TypeOK, Addr
<1>. QED  BY <1>1, <1>2, PutTypeOK

(* In a build with assertions every step keeps the types, whether or not *)
(* the caller assigns to spans with live iterators.                      *)
LEMMA NextTypeOK ==
  ASSUME TypeOK, Checked = TRUE, [Next]_vars
  PROVE  TypeOK'
<1>1. ASSUME NEW t \in SpanIds, SpanDefault(t) PROVE TypeOK'
  <2>1. Null \in {Null} \cup Nat /\ 0 \in Int /\ FALSE \in BOOLEAN
    OBVIOUS
  <2>. QED  BY <1>1, <2>1, PutTypeOK, Zenon DEF SpanDefault
<1>2. ASSUME NEW t \in SpanIds, NEW fx \in BOOLEAN, SpanFromArray(t, fx)
      PROVE  TypeOK'
  <2>1. 0 \in {Null} \cup Nat /\ N \in Int
    OBVIOUS
  <2>. QED  BY <1>2, <2>1, PutTypeOK, Zenon DEF SpanFromArray
<1>3. ASSUME NEW t \in SpanIds, NEW p \in Pointers, NEW c \in Args,
             NEW fx \in BOOLEAN, SpanFromPtr(t, p, c, fx)
      PROVE  TypeOK'
  <2>1. p \in {Null} \cup Nat /\ c \in Int
    BY DEF Pointers, Args
  <2>. QED  BY <1>3, <2>1, PutTypeOK DEF SpanFromPtr
<1>4. ASSUME NEW s \in SpanIds, NEW t \in SpanIds, SpanCopy(s, t)
      PROVE  TypeOK'
  <2>1. /\ span[s].data \in {Null} \cup Nat /\ span[s].size \in Int
        /\ span[s].fixed \in BOOLEAN
    BY DEF TypeOK
  <2>. QED  BY <1>4, <2>1, PutTypeOK DEF SpanCopy
<1>5. ASSUME NEW s \in SpanIds, SpanDestroy(s) PROVE TypeOK'
  BY <1>5 DEF SpanDestroy, TypeOK
<1>6. ASSUME NEW s \in SpanIds, NEW t \in SpanIds, NEW c \in Args,
             NEW tm \in BOOLEAN, First(s, t, c, tm)
      PROVE  TypeOK'
  <2>1. span[s].data \in {Null} \cup Nat /\ c \in Int
    BY DEF TypeOK, Args
  <2>. QED  BY <1>6, <2>1, PutTypeOK DEF First
<1>7. ASSUME NEW s \in SpanIds, NEW t \in SpanIds, NEW c \in Args,
             NEW tm \in BOOLEAN, Last(s, t, c, tm)
      PROVE  TypeOK'
  <2>1. /\ span[s].size - c \in Int /\ c \in Int /\ DynamicExtent \in Int
        /\ TRUE \in BOOLEAN /\ FALSE \in BOOLEAN
    BY DEF TypeOK, Args, DynamicExtent
  <2>2. CASE tm
    BY <1>7, <2>1, <2>2, SubviewTypeOK, Zenon DEF Last
  <2>3. CASE ~tm
    BY <1>7, <2>1, <2>3, SubviewTypeOK, Zenon DEF Last, MakeSubspan
  <2>. QED  BY <2>2, <2>3
<1>8. ASSUME NEW s \in SpanIds, NEW t \in SpanIds, NEW o \in Args,
             NEW c \in Args, NEW tm \in BOOLEAN, Subspan(s, t, o, c, tm)
      PROVE  TypeOK'
  <2>1. /\ o \in Int /\ c \in Int
        /\ (c # DynamicExtent) \in BOOLEAN
        /\ TRUE \in BOOLEAN /\ FALSE \in BOOLEAN
    BY DEF Args
  <2>2. CASE tm
    BY <1>8, <2>1, <2>2, SubviewTypeOK, Zenon DEF Subspan
  <2>3. CASE ~tm
    BY <1>8, <2>1, <2>3, SubviewTypeOK, Zenon DEF Subspan, MakeSubspan
  <2>. QED  BY <2>2, <2>3
<1>9. ASSUME NEW s \in SpanIds, NEW idx \in Args, SpanIndex(s, idx)
      PROVE  TypeOK'
  BY <1>9 DEF SpanIndex, Access, TypeOK
<1>10. ASSUME NEW l \in SpanIds, NEW r \in SpanIds, SpanCompare(l, r)
       PROVE  TypeOK'
  BY <1>10 DEF SpanCompare, TypeOK
<1>11. ASSUME NEW s \in SpanIds, NEW it \in IterIds, NEW e \in BOOLEAN,
              Begin(s, it, e)
       PROVE  TypeOK'
  BY <1>11 DEF Begin, TypeOK
<1>12. ASSUME NEW it \in IterIds,
              IterIncr(it) \/ IterDecr(it) \/ IterDestroy(it)
       PROVE  TypeOK'
  <2>1. CASE IterIncr(it)
    BY <2>1 DEF IterIncr, TypeOK
  <2>2. CASE IterDecr(it)
    BY <2>2 DEF IterDecr, TypeOK
  <2>3. CASE IterDestroy(it)
    BY <2>3 DEF IterDestroy, TypeOK
  <2>. QED  BY <1>12, <2>1, <2>2, <2>3
<1>13. ASSUME NEW it \in IterIds, NEW n \in Steps, IterAdd(it, n)
       PROVE  TypeOK'
  BY <1>13 DEF IterAdd, Steps, TypeOK
<1>14. ASSUME NEW it \in IterIds, IterDeref(it) PROVE TypeOK'
  BY <1>14 DEF IterDeref, Access, TypeOK
<1>15. ASSUME NEW it \in IterIds, NEW n \in Steps, IterSubscript(it, n)
       PROVE  TypeOK'
  BY <1>15 DEF IterSubscript, Access, TypeOK
<1>16. CASE UNCHANGED vars
  BY <1>16 DEF vars, TypeOK
<1>. QED
  BY <1>1, <1>2, <1>3, <1>4, <1>5, <1>6, <1>7, <1>8, <1>9, <1>10, <1>11,
     <1>12, <1>13, <1>14, <1>15, <1>16 DEF Next

(* In a build with assertions, every span object holds a pointer into    *)
(* the array or nullptr and a size() >= 0, and every iterator an index,  *)
(* whatever the caller does, assignments to iterated spans included.     *)
(* Under NDEBUG extent_type(-1) stores a negative size, so the build     *)
(* hypothesis is needed.                                                  *)
THEOREM SpanTypeCorrect == Checked = TRUE => (Spec => []TypeOK)
<1> SUFFICES ASSUME Checked = TRUE PROVE Spec => []TypeOK
  OBVIOUS
<1>1. Init => TypeOK
  BY InitIInv DEF IInv
<1>2. TypeOK /\ [Next]_vars => TypeOK'
  BY NextTypeOK
<1>. QED  BY <1>1, <1>2, PTL DEF Spec

(* In a build with assertions, and for a caller that does not assign to  *)
(* a span while it has live iterators, every span made from the array by *)
(* the constructors, copies, first, last and subspan views a part of the *)
(* array.                                                                 *)
THEOREM SpanWindowsInArray == CheckedBuild => (Spec => []WindowsInArray)
<1> SUFFICES ASSUME CheckedBuild PROVE Spec => []WindowsInArray
  OBVIOUS
<1>1. IInv /\ [Next]_vars => IInv'
  BY NextIInv
<1>2. IInv => WindowsInArray
  BY DEF IInv
<1>. QED  BY InitIInv, <1>1, <1>2, PTL DEF Spec

(* Under the same build and caller, no element outside the array is read *)
(* or written through span::operator[], the comparisons, or an iterator's *)
(* *, -> and [], whatever the sequence of iterator moves.                 *)
THEOREM SpanAccessesInArray == CheckedBuild => (Spec => []AccessesInArray)
<1> SUFFICES ASSUME CheckedBuild PROVE Spec => []AccessesInArray
  OBVIOUS
<1>1. IInv /\ [Next]_vars => IInv'
  BY NextIInv
<1>2. IInv => AccessesInArray
  BY DEF IInv, AccessesInArray
<1>. QED  BY InitIInv, <1>1, <1>2, PTL DEF Spec

=============================================================================
