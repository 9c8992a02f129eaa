------------------------- MODULE StringStreamProofs -------------------------
(***************************************************************************)
(* Proofs about StringStream for every value of the constants: the type   *)
(* invariant, and that gmio_eat_word never stores outside the caller's    *)
(* string however many calls append to it.                               *)
(*                                                                         *)
(* Neither is inductive alone.  TypeOK needs Len(buf) <= rd (the buffer   *)
(* is the tail of what was read) to keep the cursor position a natural   *)
(* number; WritesInBounds needs i = olen while gmio_skip_spaces runs, so *)
(* that the first store of the do-while, made before any test of i, and  *)
(* the null byte of an empty word land below OutCap because len does.    *)
(***************************************************************************)
EXTENDS StringStream, SequenceTheorems, TLAPS

(* The inductive invariant.                                               *)
IInv ==
  /\ TypeOK
  /\ Len(buf) <= rd
  /\ pc = "skip" => i = olen
  /\ ~overrun

USE CharsAssumption, BoundsAssumption

(* A text of the stream is a sequence of characters no longer than       *)
(* MaxText.                                                               *)
LEMMA TextIsSeq ==
  ASSUME NEW t \in Texts
  PROVE  t \in Seq(Chars) /\ Len(t) \in 0 .. MaxText
<1>1. PICK n \in 0 .. MaxText : t \in [1 .. n -> Chars]
  BY DEF Texts
<1>2. t \in Seq(Chars)
  BY <1>1, SeqDef
<1>3. Len(t) = n
  BY <1>1, <1>2, LenProperties
<1>. QED  BY <1>2, <1>3

(* gmio_next_char keeps the cursor well formed: the buffer holds what    *)
(* the last read returned, no more than BufCap bytes, within what was    *)
(* read from the stream.  p and b are the position and buffer it starts  *)
(* from (the current ones, or BufCap and the empty buffer of the init).  *)
LEMMA AdvanceTyped ==
  ASSUME TypeOK, Len(buf) <= rd,
         NEW p \in 0 .. BufCap, NEW b \in Seq(Chars),
         p + 1 < Len(b) => b = buf,
         Advance(p, b)
  PROVE  /\ rd' \in 0 .. Len(input)
         /\ buf' \in Seq(Chars) /\ Len(buf') \in 0 .. BufCap
         /\ bpos' \in 0 .. BufCap
         /\ Len(buf') <= rd'
<1>1. input \in Seq(Chars) /\ Len(input) \in Nat
  BY TextIsSeq DEF TypeOK
<1>2. CASE p + 1 < Len(b) /\ bpos' = p + 1 /\ UNCHANGED <<rd, buf>>
  BY <1>2 DEF TypeOK
<1>3. CASE p + 1 >= Len(b)
           /\ \E n \in ReadSizes :
                /\ buf' = SubSeq(input, rd + 1, rd + n)
                /\ rd' = rd + n
                /\ bpos' = 0
  <2>1. PICK n \in ReadSizes :
              /\ buf' = SubSeq(input, rd + 1, rd + n)
              /\ rd' = rd + n
              /\ bpos' = 0
    BY <1>3
  <2>2. n \in 0 .. BufCap /\ rd + n <= Len(input)
    BY <1>1 DEF ReadSizes, MinOf, TypeOK
  <2>3. \A j \in rd + 1 .. rd + n : input[j] \in Chars
    BY <1>1, <2>2 DEF TypeOK
  <2>4. buf' \in Seq(Chars) /\ Len(buf') = n
    BY <2>1, <2>2, <2>3, SubSeqProperties DEF TypeOK
  <2>. QED  BY <2>1, <2>2, <2>4 DEF TypeOK
<1>. QED  BY <1>2, <1>3 DEF Advance

(* The invariant holds initially.                                         *)
LEMMA InitIInv == Init => IInv
<1> SUFFICES ASSUME Init PROVE IInv
  OBVIOUS
<1>1. out \in [0 .. OutCap - 1 -> Chars \cup {Nul, Junk}]
  BY DEF Init
<1>2. input \in Texts /\ Len(input) \in Nat
  BY TextIsSeq DEF Init
<1>3. buf \in Seq(Chars) /\ Len(buf) = 0 /\ rd = 0
  BY DEF Init
<1>. QED  BY <1>1, <1>2, <1>3 DEF Init, IInv, TypeOK

(* Every step preserves the invariant.                                    *)
LEMMA NextIInv == IInv /\ [Next]_vars => IInv'
<1> SUFFICES ASSUME IInv, [Next]_vars PROVE IInv'
  OBVIOUS
<1> USE DEF IInv
<1>0. /\ input \in Seq(Chars) /\ Len(input) \in Nat
      /\ buf \in Seq(Chars) /\ Len(buf) \in 0 .. BufCap
  BY TextIsSeq DEF TypeOK
<1>1. CASE IteratorInit
  <2>1. Advance(BufCap, << >>)
    BY <1>1 DEF IteratorInit
  <2>2. /\ << >> \in Seq(Chars)
        /\ BufCap \in 0 .. BufCap
        /\ BufCap + 1 < Len(<< >>) => << >> = buf
    OBVIOUS
  <2>3. /\ rd' \in 0 .. Len(input)
        /\ buf' \in Seq(Chars) /\ Len(buf') \in 0 .. BufCap
        /\ bpos' \in 0 .. BufCap
        /\ Len(buf') <= rd'
    BY <2>1, <2>2, AdvanceTyped
  <2>. QED  BY <1>1, <2>3 DEF IteratorInit, TypeOK
<1>2. CASE NextChar
  <2>1. /\ rd' \in 0 .. Len(input)
        /\ buf' \in Seq(Chars) /\ Len(buf') \in 0 .. BufCap
        /\ bpos' \in 0 .. BufCap
        /\ Len(buf') <= rd'
    BY <1>0, <1>2, AdvanceTyped DEF NextChar, TypeOK
  <2>. QED  BY <1>2, <2>1 DEF NextChar, TypeOK
<1>3. CASE ResetWord
  BY <1>3 DEF ResetWord, TypeOK
<1>4. CASE EatWordCall
  BY <1>4, <1>0 DEF EatWordCall, TypeOK, Pos
<1>5. CASE SkipSpace
  <2>1. /\ rd' \in 0 .. Len(input)
        /\ buf' \in Seq(Chars) /\ Len(buf') \in 0 .. BufCap
        /\ bpos' \in 0 .. BufCap
        /\ Len(buf') <= rd'
    BY <1>0, <1>5, AdvanceTyped DEF SkipSpace, TypeOK
  <2>. QED  BY <1>5, <2>1 DEF SkipSpace, TypeOK
<1>6. CASE EatEmpty
  <2>1. i < OutCap
    BY <1>6 DEF EatEmpty, TypeOK
  <2>. QED  BY <1>6, <2>1 DEF EatEmpty, Store, TypeOK
<1>7. CASE CopyChar
  <2>1. i < OutCap /\ i \in Nat
    BY <1>7 DEF CopyChar, TypeOK
  <2>2. CurChar \in Letters
    BY <1>7 DEF CopyChar
  <2>3. /\ out' = [out EXCEPT ![i] = CurChar]
        /\ overrun' = overrun
    BY <1>7, <2>1 DEF CopyChar, Store
  <2>4. out' \in [0 .. OutCap - 1 -> Chars \cup {Nul, Junk}]
    BY <2>2, <2>3 DEF TypeOK, Chars
  <2>5. /\ rd' \in 0 .. Len(input)
        /\ buf' \in Seq(Chars) /\ Len(buf') \in 0 .. BufCap
        /\ bpos' \in 0 .. BufCap
        /\ Len(buf') <= rd'
    BY <1>0, <1>7, AdvanceTyped DEF CopyChar, TypeOK
  <2>. QED  BY <1>7, <2>1, <2>3, <2>4, <2>5 DEF CopyChar, TypeOK
<1>8. CASE EatDone
  BY <1>8 DEF EatDone, Store, TypeOK
<1>9. CASE EatOverflow
  BY <1>9 DEF EatOverflow, TypeOK
<1>10. CASE UNCHANGED vars
  BY <1>10 DEF vars, TypeOK
<1>. QED  BY <1>1, <1>2, <1>3, <1>4, <1>5, <1>6, <1>7, <1>8, <1>9, <1>10
          DEF Next

(* Type correctness of StringStream.                                      *)
THEOREM TypeCorrect == Spec => []TypeOK
<1>1. IInv => TypeOK
  BY DEF IInv
<1>. QED  BY InitIInv, NextIInv, <1>1, PTL DEF Spec

(* gmio_eat_word, called any number of times on a string it appends to,  *)
(* never stores outside the string's max_len bytes.                       *)
THEOREM EatWordInBounds == Spec => []WritesInBounds
<1>1. IInv => WritesInBounds
  BY DEF IInv, WritesInBounds
<1>. QED  BY InitIInv, NextIInv, <1>1, PTL DEF Spec

=============================================================================
