----------------------- MODULE StringStreamRefinement -----------------------
(***************************************************************************)
(* Proof that StringStream implements TextCursor for every value of the   *)
(* constants: the buffered cursor of string_parse.c, refilled with reads  *)
(* of any size, and gmio_eat_word, one loop iteration a step, behave as   *)
(* the cursor over the text alone, under the refinement mapping of        *)
(* StringStream (a call in progress maps to the state before it).         *)
(*                                                                         *)
(* The mapping needs two facts the type invariant does not give.  The     *)
(* buffer is the stretch of the text just read, and it is empty only at   *)
(* the end of the stream, so that gmio_current_char is the character of  *)
(* the text at the cursor.  And a call in progress has skipped only       *)
(* spaces since it was called, and has copied into the word string       *)
(* exactly the letters between the word start and the cursor.            *)
(***************************************************************************)
EXTENDS StringStreamProofs, WellFoundedInduction

(* The cursor and the word string as TextCursor sees them.                *)
AbsPos == IF pc \in {"skip", "loop"} THEN callPos ELSE Pos
AbsWord == [k \in 1 .. olen |-> out[k - 1]]

(* it->buffer holds the text bytes just before rd, and the cursor runs    *)
(* off its end only when the stream is exhausted.                          *)
BufOK ==
  /\ \A k \in 1 .. Len(buf) : buf[k] = input[rd - Len(buf) + k]
  /\ \/ bpos < Len(buf)
     \/ rd = Len(input) /\ buf = << >> /\ bpos = 0

(* Start of the word being copied: the letters copied are i - len.       *)
WS == Pos - (i - olen)

(* Before the iterator init nothing was read; after it, the buffer is    *)
(* the text just read.                                                     *)
StreamOK ==
  /\ pc = "uninit" => rd = 0 /\ buf = << >> /\ bpos = 0
  /\ pc # "uninit" => BufOK

(* A gmio_eat_word call in progress has skipped only spaces since         *)
(* callPos and copied the letters from the word start WS to the cursor   *)
(* into buffer->ptr[len .. i-1].                                           *)
CallOK ==
  pc \in {"skip", "loop"} =>
    /\ olen <= i /\ i <= OutCap
    /\ callPos \in 0 .. WS /\ WS <= Pos
    /\ \A j \in callPos + 1 .. WS : input[j] \in Spaces
    /\ \A j \in WS + 1 .. Pos : input[j] \in Letters
    /\ \A k \in olen .. i - 1 : out[k] = input[WS + 1 + k - olen]
    /\ pc = "loop" => WS < Pos

(* The refinement invariant.                                              *)
RInv == IInv /\ StreamOK /\ CallOK

USE CharsAssumption, BoundsAssumption

(* A non-empty set of naturals has a least element.                       *)
LEMMA NatSetHasLeast ==
  ASSUME NEW T \in SUBSET Nat, T # {}
  PROVE  \E x \in T : \A y \in T : x <= y
<1>1. IsWellFoundedOn(OpToRel(<, Nat), Nat)
  BY NatLessThanWellFounded
<1>2. \E x \in T : \A y \in T : ~(<<y, x>> \in OpToRel(<, Nat))
  BY <1>1, WFMin
<1>3. \A x, y \in Nat : y < x => <<y, x>> \in OpToRel(<, Nat)
  BY Zenon DEF OpToRel
<1>4. PICK x \in T : \A y \in T : ~(<<y, x>> \in OpToRel(<, Nat))
  BY <1>2, Zenon
<1>5. \A y \in T : ~(y < x)
  BY <1>3, <1>4, Zenon
<1>. QED  BY <1>5

(* SpacesEnd(p) is the q at which the run of spaces from p ends.          *)
LEMMA SpacesEndIs ==
  ASSUME input \in Seq(Chars), NEW p \in Nat, NEW q \in p .. Len(input),
         \A j \in p + 1 .. q : input[j] \in Spaces,
         q < Len(input) => input[q + 1] \notin Spaces
  PROVE  Cursor!SpacesEnd(p) = q
<1> DEFINE Ok(x) == /\ \A j \in p + 1 .. x : input[j] \in Spaces
                    /\ x < Len(input) => input[x + 1] \notin Spaces
<1>1. \A x, y \in p .. Len(input) : Ok(x) /\ Ok(y) => x = y
  OBVIOUS
<1>2. (CHOOSE x \in p .. Len(input) : Ok(x)) \in p .. Len(input)
      /\ Ok(CHOOSE x \in p .. Len(input) : Ok(x))
  OBVIOUS
<1>. QED  BY <1>1, <1>2, Zenon DEF Cursor!SpacesEnd

(* WordEnd(s) is the e at which the run of non-spaces from s ends.        *)
LEMMA WordEndIs ==
  ASSUME input \in Seq(Chars), NEW s \in Nat, NEW e \in s .. Len(input),
         \A j \in s + 1 .. e : input[j] \notin Spaces,
         e < Len(input) => input[e + 1] \in Spaces
  PROVE  Cursor!WordEnd(s) = e
<1> DEFINE Ok(x) == /\ \A j \in s + 1 .. x : input[j] \notin Spaces
                    /\ x < Len(input) => input[x + 1] \in Spaces
<1>1. \A x, y \in s .. Len(input) : Ok(x) /\ Ok(y) => x = y
  OBVIOUS
<1>2. (CHOOSE x \in s .. Len(input) : Ok(x)) \in s .. Len(input)
      /\ Ok(CHOOSE x \in s .. Len(input) : Ok(x))
  OBVIOUS
<1>. QED  BY <1>1, <1>2, Zenon DEF Cursor!WordEnd

(* A word whose first m - s characters are known to be non-spaces ends   *)
(* at m or later.                                                          *)
LEMMA WordEndAtLeast ==
  ASSUME input \in Seq(Chars), NEW s \in Nat, NEW m \in s .. Len(input),
         \A j \in s + 1 .. m : input[j] \notin Spaces
  PROVE  Cursor!WordEnd(s) \in m .. Len(input)
<1> DEFINE Ok(x) == /\ \A j \in s + 1 .. x : input[j] \notin Spaces
                    /\ x < Len(input) => input[x + 1] \in Spaces
           T == {z \in m .. Len(input) : z = Len(input) \/ input[z + 1] \in Spaces}
<1>1. T \in SUBSET Nat /\ T # {}
  OBVIOUS
<1>2. PICK x \in T : \A y \in T : x <= y
  BY <1>1, NatSetHasLeast
<1>3. Ok(x)
  <2>1. \A j \in m + 1 .. x : j - 1 \notin T
    <3> SUFFICES ASSUME NEW j \in m + 1 .. x, j - 1 \in T PROVE FALSE
      OBVIOUS
    <3>1. x <= j - 1
      BY <1>2
    <3>2. x \in Nat
      BY DEF T
    <3>. QED  BY <3>1, <3>2
  <2>2. x \in m .. Len(input) /\ (x < Len(input) => input[x + 1] \in Spaces)
    BY DEF T
  <2>. QED  BY <2>1, <2>2 DEF Ok, T
<1>4. \E y \in s .. Len(input) : Ok(y)
  BY <1>2, <1>3
<1>5. Cursor!WordEnd(s) \in s .. Len(input) /\ Ok(Cursor!WordEnd(s))
  BY <1>4 DEF Cursor!WordEnd
<1>. QED  BY <1>5

(* gmio_current_char is the text's character at the cursor, or EOS at     *)
(* the end of the text.                                                    *)
LEMMA CurCharIsText ==
  ASSUME TypeOK, Len(buf) <= rd, BufOK
  PROVE  /\ Pos \in 0 .. Len(input)
         /\ Pos < Len(input) <=> bpos < Len(buf)
         /\ Pos < Len(input) => CurChar = input[Pos + 1]
         /\ Pos = Len(input) => CurChar = EOS
<1>1. input \in Seq(Chars) /\ Len(input) \in Nat
  BY TextIsSeq DEF TypeOK
<1>2. CASE bpos < Len(buf)
  <2>1. Pos \in 0 .. Len(input) - 1
    BY <1>1, <1>2 DEF TypeOK, Pos
  <2>2. CurChar = input[Pos + 1]
    BY <1>2 DEF CurChar, Pos, BufOK, TypeOK
  <2>. QED  BY <1>1, <1>2, <2>1, <2>2
<1>3. CASE ~(bpos < Len(buf))
  <2>1. rd = Len(input) /\ buf = << >> /\ bpos = 0
    BY <1>3 DEF BufOK
  <2>. QED  BY <1>1, <1>3, <2>1 DEF CurChar, Pos
<1>. QED  BY <1>2, <1>3

(* One gmio_stream_read of n bytes into the buffer: the buffer is then   *)
(* the n text bytes after the old rd, and the cursor is on the first.    *)
LEMMA RefillOK ==
  ASSUME TypeOK, input' = input,
         NEW n \in ReadSizes,
         buf' = SubSeq(input, rd + 1, rd + n), rd' = rd + n, bpos' = 0
  PROVE  BufOK' /\ Pos' = rd /\ (n = 0 <=> rd = Len(input))
<1>1. input \in Seq(Chars) /\ Len(input) \in Nat /\ rd \in 0 .. Len(input)
  BY TextIsSeq DEF TypeOK
<1>2. n \in 0 .. Len(input) - rd /\ (n = 0 <=> rd = Len(input))
  BY <1>1 DEF ReadSizes, MinOf, BoundsAssumption
<1>3. /\ buf' \in Seq(Chars) /\ Len(buf') = n
      /\ \A k \in 1 .. n : buf'[k] = input[rd + k]
  BY <1>1, <1>2, SubSeqProperties
<1>4. n = 0 => buf' = << >>
  BY <1>3, EmptySeq
<1>. QED  BY <1>1, <1>2, <1>3, <1>4 DEF BufOK, Pos

(* gmio_next_char moves the cursor one character on, and stays at the    *)
(* end of the text.                                                        *)
LEMMA AdvanceMoves ==
  ASSUME TypeOK, Len(buf) <= rd, BufOK, input' = input,
         Advance(bpos, buf)
  PROVE  BufOK' /\ Pos' = IF Pos < Len(input) THEN Pos + 1 ELSE Pos
<1>1. /\ Pos \in 0 .. Len(input)
      /\ Pos < Len(input) <=> bpos < Len(buf)
  BY CurCharIsText
<1>2. CASE bpos + 1 < Len(buf) /\ bpos' = bpos + 1 /\ UNCHANGED <<rd, buf>>
  BY <1>1, <1>2 DEF BufOK, Pos, TypeOK
<1>3. CASE bpos + 1 >= Len(buf)
           /\ \E n \in ReadSizes :
                /\ buf' = SubSeq(input, rd + 1, rd + n)
                /\ rd' = rd + n
                /\ bpos' = 0
  <2>1. PICK n \in ReadSizes :
              /\ buf' = SubSeq(input, rd + 1, rd + n)
              /\ rd' = rd + n
              /\ bpos' = 0
    BY <1>3
  <2>2. BufOK' /\ Pos' = rd /\ (n = 0 <=> rd = Len(input))
    BY <2>1, RefillOK
  <2>3. Pos = IF bpos < Len(buf) THEN rd - 1 ELSE rd
    <3>1. buf \in Seq(Chars) /\ bpos \in Nat /\ rd \in Nat
      BY DEF TypeOK
    <3>2. CASE bpos < Len(buf)
      BY <1>3, <3>1, <3>2 DEF Pos
    <3>3. CASE ~(bpos < Len(buf))
      <4>1. buf = << >> /\ bpos = 0
        BY <3>3 DEF BufOK
      <4>. QED  BY <3>1, <3>3, <4>1 DEF Pos
    <3>. QED  BY <3>2, <3>3
  <2>4. rd \in Nat /\ Len(input) \in Nat
    BY TextIsSeq DEF TypeOK
  <2>. QED  BY <1>1, <2>2, <2>3, <2>4
<1>. QED  BY <1>2, <1>3 DEF Advance

(* The refinement invariant holds initially.                              *)
LEMMA InitRInv == Init => RInv
<1> SUFFICES ASSUME Init PROVE RInv
  OBVIOUS
<1>1. IInv
  BY InitIInv
<1>. QED  BY <1>1 DEF Init, RInv, StreamOK, CallOK

(* Every step keeps the refinement invariant.                             *)
LEMMA NextRInv == RInv /\ [Next]_vars => RInv'
<1> SUFFICES ASSUME RInv, [Next]_vars PROVE RInv'
  OBVIOUS
<1>0. /\ IInv' /\ IInv /\ TypeOK /\ Len(buf) <= rd
      /\ StreamOK /\ CallOK
      /\ input \in Seq(Chars) /\ Len(input) \in Nat
      /\ i \in Nat /\ olen \in 0 .. OutCap - 1 /\ callPos \in Nat
      /\ out \in [0 .. OutCap - 1 -> Chars \cup {Nul, Junk}]
  BY NextIInv, TextIsSeq DEF RInv, IInv, TypeOK
<1> SUFFICES StreamOK' /\ CallOK'
  BY <1>0 DEF RInv
<1>1. CASE IteratorInit
  <2>1. rd = 0 /\ buf = << >> /\ bpos = 0 /\ pc' = "idle" /\ input' = input
    BY <1>0, <1>1 DEF IteratorInit, StreamOK
  <2>2. PICK n \in ReadSizes :
              /\ buf' = SubSeq(input, rd + 1, rd + n)
              /\ rd' = rd + n
              /\ bpos' = 0
    BY <1>1, <2>1 DEF IteratorInit, Advance
  <2>3. BufOK'
    BY <1>0, <2>1, <2>2, RefillOK
  <2>. QED  BY <2>1, <2>3 DEF StreamOK, CallOK
<1>2. CASE NextChar
  <2>1. pc = "idle" /\ pc' = "idle" /\ input' = input /\ Advance(bpos, buf)
    BY <1>2 DEF NextChar
  <2>2. BufOK'
    BY <1>0, <2>1, AdvanceMoves DEF StreamOK
  <2>. QED  BY <2>1, <2>2 DEF StreamOK, CallOK
<1>3. CASE ResetWord \/ EatEmpty \/ EatDone \/ EatOverflow
  <2>1. pc' = "idle" /\ pc # "uninit" /\ UNCHANGED <<input, rd, buf, bpos>>
    BY <1>3 DEF ResetWord, EatEmpty, EatDone, EatOverflow
  <2>2. BufOK'
    BY <1>0, <2>1 DEF StreamOK, BufOK
  <2>. QED  BY <2>1, <2>2 DEF StreamOK, CallOK
<1>4. CASE EatWordCall
  <2>1. /\ pc = "idle" /\ pc' = "skip" /\ i' = olen /\ callPos' = Pos
        /\ UNCHANGED <<input, rd, buf, bpos, out, olen>>
    BY <1>4 DEF EatWordCall
  <2>2. BufOK /\ Pos \in 0 .. Len(input)
    BY <1>0, <2>1, CurCharIsText DEF StreamOK
  <2>3. StreamOK'
    BY <2>1, <2>2 DEF StreamOK, BufOK
  <2>4. WS' = Pos /\ Pos' = Pos
    BY <1>0, <2>1 DEF WS, Pos
  <2>. QED  BY <1>0, <2>1, <2>2, <2>3, <2>4 DEF CallOK
<1>5. CASE SkipSpace
  <2>1. /\ pc = "skip" /\ pc' = "skip" /\ CurChar \in Spaces
        /\ Advance(bpos, buf)
        /\ UNCHANGED <<input, out, olen, i, callPos>>
    BY <1>5 DEF SkipSpace
  <2>2. BufOK /\ i = olen
    BY <1>0, <2>1 DEF StreamOK, IInv
  <2>3. /\ Pos \in 0 .. Len(input) - 1
        /\ input[Pos + 1] \in Spaces
    BY <1>0, <2>1, <2>2, CurCharIsText
  <2>4. BufOK' /\ Pos' = Pos + 1
    BY <1>0, <2>1, <2>2, <2>3, AdvanceMoves
  <2>5. WS = Pos /\ WS' = Pos + 1
    BY <1>0, <2>1, <2>2, <2>3, <2>4 DEF WS
  <2>6. /\ callPos \in 0 .. Pos
        /\ \A j \in callPos + 1 .. Pos : input[j] \in Spaces
    BY <1>0, <2>1, <2>5 DEF CallOK
  <2>. QED  BY <1>0, <2>1, <2>2, <2>3, <2>4, <2>5, <2>6 DEF StreamOK, CallOK
<1>6. CASE CopyChar
  <2>1. /\ pc \in {"skip", "loop"} /\ pc' = "loop"
        /\ CurChar \in Letters
        /\ Store(i, CurChar) /\ Advance(bpos, buf) /\ i' = i + 1
        /\ UNCHANGED <<input, olen, callPos>>
    BY <1>6 DEF CopyChar
  <2>2. i < OutCap
    BY <1>0, <1>6 DEF CopyChar, IInv
  <2>3. BufOK
    BY <1>0, <2>1 DEF StreamOK
  <2>4. /\ Pos \in 0 .. Len(input) - 1
        /\ CurChar = input[Pos + 1]
    <3>1. CurChar # EOS
      BY <2>1 DEF CharsAssumption
    <3>. QED  BY <1>0, <2>3, <3>1, CurCharIsText
  <2>5. BufOK' /\ Pos' = Pos + 1
    BY <1>0, <2>3, <2>4, <2>1, AdvanceMoves
  <2>6. out' = [out EXCEPT ![i] = CurChar]
    BY <2>1, <2>2 DEF Store
  <2>7. WS' = WS
    BY <1>0, <2>1, <2>5 DEF WS
  <2>8. /\ olen <= i /\ callPos \in 0 .. WS /\ WS <= Pos
        /\ \A j \in callPos + 1 .. WS : input[j] \in Spaces
        /\ \A j \in WS + 1 .. Pos : input[j] \in Letters
        /\ \A k \in olen .. i - 1 : out[k] = input[WS + 1 + k - olen]
    BY <1>0, <2>1 DEF CallOK
  <2>9. WS = Pos - (i - olen)
    BY DEF WS
  <2>10. \A k \in olen .. i : out'[k] = input[WS + 1 + k - olen]
    BY <1>0, <2>2, <2>4, <2>6, <2>8, <2>9
  <2>11. \A j \in WS + 1 .. Pos + 1 : input[j] \in Letters
    BY <1>0, <2>1, <2>4, <2>8
  <2>12. StreamOK'
    BY <2>1, <2>5 DEF StreamOK
  <2>13. /\ olen' <= i' /\ i' <= OutCap
         /\ callPos' \in 0 .. WS' /\ WS' <= Pos'
         /\ WS' < Pos'
    BY <1>0, <2>1, <2>2, <2>4, <2>5, <2>7, <2>8
  <2>14. /\ \A j \in callPos' + 1 .. WS' : input'[j] \in Spaces
         /\ \A j \in WS' + 1 .. Pos' : input'[j] \in Letters
         /\ \A k \in olen' .. i' - 1 : out'[k] = input'[WS' + 1 + k - olen']
    BY <1>0, <2>1, <2>5, <2>7, <2>8, <2>10, <2>11
  <2>. QED  BY <2>12, <2>13, <2>14 DEF CallOK
<1>7. CASE UNCHANGED vars
  BY <1>0, <1>7 DEF vars, StreamOK, CallOK, BufOK, WS, Pos
<1>. QED  BY <1>1, <1>2, <1>3, <1>4, <1>5, <1>6, <1>7 DEF Next

(* The word string as TextCursor sees it is a sequence of len bytes.     *)
LEMMA AbsWordSeq ==
  ASSUME TypeOK
  PROVE  /\ AbsWord \in Seq(Chars \cup {Nul, Junk})
         /\ Len(AbsWord) = olen
<1>1. olen \in 0 .. OutCap - 1
  BY DEF TypeOK
<1>2. AbsWord \in [1 .. olen -> Chars \cup {Nul, Junk}]
  BY <1>1 DEF AbsWord, TypeOK
<1>3. AbsWord \in Seq(Chars \cup {Nul, Junk})
  BY <1>1, <1>2, SeqDef
<1>4. DOMAIN AbsWord = 1 .. olen
  BY DEF AbsWord
<1>. QED  BY <1>1, <1>3, <1>4, LenProperties

(* A step that moves neither the text position TextCursor sees nor the   *)
(* word string's first len bytes is a TextCursor stutter.                *)
LEMMA Stutter ==
  ASSUME olen \in Nat,
         input' = input, ret' = ret, AbsPos' = AbsPos, olen' = olen,
         \A k \in 0 .. olen - 1 : out'[k] = out[k]
  PROVE  UNCHANGED Cursor!vars
<1>1. AbsWord' = AbsWord
  BY DEF AbsWord
<1>. QED  BY <1>1, Zenon DEF Cursor!vars, AbsPos, AbsWord

(* In the do-while of gmio_eat_word, the spaces skipped since the call   *)
(* end at the word start WS, and the text from there to the cursor is    *)
(* the i - len letters copied.                                             *)
LEMMA LoopWordStart ==
  ASSUME RInv, pc = "loop"
  PROVE  /\ input \in Seq(Chars) /\ Len(input) \in Nat
         /\ BufOK /\ Pos \in 0 .. Len(input)
         /\ WS \in Nat /\ WS < Pos /\ Pos - WS = i - olen
         /\ olen <= i /\ i <= OutCap
         /\ \A j \in WS + 1 .. Pos : input[j] \notin Spaces
         /\ \A k \in olen .. i - 1 : out[k] = input[WS + 1 + k - olen]
         /\ Cursor!SpacesEnd(callPos) = WS
<1>1. /\ TypeOK /\ Len(buf) <= rd /\ BufOK
      /\ input \in Seq(Chars) /\ Len(input) \in Nat
      /\ i \in Nat /\ olen \in Nat /\ callPos \in Nat
  BY TextIsSeq DEF RInv, IInv, StreamOK, TypeOK
<1>2. Pos \in 0 .. Len(input)
  BY <1>1, CurCharIsText
<1>3. /\ olen <= i /\ i <= OutCap
      /\ callPos \in 0 .. WS /\ WS < Pos
      /\ \A j \in callPos + 1 .. WS : input[j] \in Spaces
      /\ \A j \in WS + 1 .. Pos : input[j] \in Letters
      /\ \A k \in olen .. i - 1 : out[k] = input[WS + 1 + k - olen]
  BY DEF RInv, CallOK
<1>4. WS \in Nat /\ Pos - WS = i - olen
  BY <1>1, <1>2, <1>3 DEF WS
<1>5. \A j \in WS + 1 .. Pos : input[j] \notin Spaces
  BY <1>3 DEF CharsAssumption
<1>6. Cursor!SpacesEnd(callPos) = WS
  <2>1. WS < Len(input) => input[WS + 1] \notin Spaces
    BY <1>2, <1>3, <1>4, <1>5
  <2>. QED  BY <1>1, <1>2, <1>3, <1>4, <2>1, SpacesEndIs
<1>. QED  BY <1>1, <1>2, <1>3, <1>4, <1>5, <1>6

(* Every step of StringStream is a TextCursor step or a stutter under    *)
(* the refinement mapping.                                                 *)
LEMMA StepRefines == RInv /\ [Next]_vars => [Cursor!Next]_Cursor!vars
<1> SUFFICES ASSUME RInv, [Next]_vars PROVE [Cursor!Next]_Cursor!vars
  OBVIOUS
<1>0. /\ TypeOK /\ Len(buf) <= rd /\ StreamOK /\ CallOK
      /\ input \in Seq(Chars) /\ Len(input) \in Nat
      /\ i \in Nat /\ olen \in 0 .. OutCap - 1 /\ callPos \in Nat
      /\ out \in [0 .. OutCap - 1 -> Chars \cup {Nul, Junk}]
      /\ pc = "skip" => i = olen
  BY TextIsSeq DEF RInv, IInv, TypeOK
<1>1. CASE IteratorInit
  <2>1. /\ rd = 0 /\ buf = << >> /\ bpos = 0
        /\ pc = "uninit" /\ pc' = "idle"
        /\ UNCHANGED <<input, out, olen, ret>>
    BY <1>0, <1>1 DEF IteratorInit, StreamOK
  <2>2. Pos = 0
    <3>1. Len(buf) = 0
      BY <2>1
    <3>2. rd = 0 /\ bpos = 0
      BY <2>1
    <3>. QED  BY <3>1, <3>2 DEF Pos
  <2>3. PICK n \in ReadSizes :
              /\ buf' = SubSeq(input, rd + 1, rd + n)
              /\ rd' = rd + n
              /\ bpos' = 0
    BY <1>1, <2>1 DEF IteratorInit, Advance
  <2>4. Pos' = rd
    BY <1>0, <2>1, <2>3, RefillOK
  <2>5. AbsPos' = AbsPos
    BY <2>1, <2>2, <2>4 DEF AbsPos
  <2>. QED  BY <2>1, <2>5, Stutter, <1>0
<1>2. CASE NextChar
  <2>1. pc = "idle" /\ pc' = "idle" /\ Advance(bpos, buf)
        /\ UNCHANGED <<input, out, olen, ret>>
    BY <1>2 DEF NextChar
  <2>2. Pos' = IF Pos < Len(input) THEN Pos + 1 ELSE Pos
    BY <1>0, <2>1, AdvanceMoves DEF StreamOK
  <2>3. AbsPos' = IF AbsPos < Len(input) THEN AbsPos + 1 ELSE AbsPos
    BY <2>1, <2>2 DEF AbsPos
  <2>4. AbsWord' = AbsWord
    BY <2>1 DEF AbsWord
  <2>5. Cursor!NextChar
    BY <2>1, <2>3, <2>4 DEF Cursor!NextChar, AbsPos, AbsWord
  <2>. QED  BY <2>5 DEF Cursor!Next
<1>3. CASE ResetWord
  <2>1. pc = "idle" /\ olen' = 0 /\ UNCHANGED <<input, rd, buf, bpos, pc, ret>>
    BY <1>3 DEF ResetWord
  <2>2. AbsPos' = AbsPos
    BY <2>1 DEF AbsPos, Pos
  <2>3. AbsWord' = << >>
    BY <2>1 DEF AbsWord
  <2>4. Cursor!ResetWord
    BY <2>1, <2>2, <2>3 DEF Cursor!ResetWord, AbsPos, AbsWord
  <2>. QED  BY <2>4 DEF Cursor!Next
<1>4. CASE EatWordCall
  <2>1. /\ pc = "idle" /\ pc' = "skip" /\ callPos' = Pos
        /\ UNCHANGED <<input, out, olen, ret>>
    BY <1>4 DEF EatWordCall
  <2>2. AbsPos' = AbsPos
    BY <2>1 DEF AbsPos
  <2>. QED  BY <2>1, <2>2, Stutter, <1>0
<1>5. CASE SkipSpace
  <2>1. /\ pc = "skip" /\ pc' = "skip"
        /\ UNCHANGED <<input, out, olen, ret, callPos>>
    BY <1>5 DEF SkipSpace
  <2>2. AbsPos' = AbsPos
    BY <2>1 DEF AbsPos
  <2>. QED  BY <2>1, <2>2, Stutter, <1>0
<1>6. CASE CopyChar
  <2>1. /\ pc \in {"skip", "loop"} /\ pc' = "loop"
        /\ Store(i, CurChar)
        /\ UNCHANGED <<input, olen, ret, callPos>>
    BY <1>6 DEF CopyChar
  <2>2. i < OutCap /\ olen <= i
    BY <1>0, <1>6 DEF CopyChar, CallOK
  <2>3. out' = [out EXCEPT ![i] = CurChar]
    BY <2>1, <2>2 DEF Store
  <2>4. \A k \in 0 .. olen - 1 : out'[k] = out[k]
    BY <1>0, <2>2, <2>3
  <2>5. AbsPos' = AbsPos
    BY <2>1 DEF AbsPos
  <2>. QED  BY <2>1, <2>4, <2>5, Stutter, <1>0
<1>10. CASE UNCHANGED vars
  <2>1. UNCHANGED <<input, out, olen, ret, pc, callPos, rd, buf, bpos>>
    BY <1>10 DEF vars
  <2>2. AbsPos' = AbsPos
    BY <2>1 DEF AbsPos, Pos
  <2>. QED  BY <2>1, <2>2, Stutter, <1>0
<1>7. CASE EatEmpty
  <2>1. /\ pc = "skip" /\ pc' = "idle" /\ CurChar = EOS
        /\ Store(i, Nul) /\ ret' = "EMPTY"
        /\ UNCHANGED <<input, rd, buf, bpos, olen>>
    BY <1>7 DEF EatEmpty
  <2>2. i = olen /\ i < OutCap
    BY <1>0, <2>1 DEF TypeOK
  <2>3. BufOK /\ Pos = Len(input)
    <3>1. BufOK
      BY <1>0, <2>1 DEF StreamOK
    <3>2. Pos < Len(input) => CurChar \in Chars
      BY <1>0, <3>1, CurCharIsText
    <3>3. EOS \notin Chars
      BY DEF CharsAssumption, Chars
    <3>. QED  BY <1>0, <2>1, <3>1, <3>2, <3>3, CurCharIsText
  <2>4. /\ callPos \in 0 .. Pos
        /\ \A j \in callPos + 1 .. Pos : input[j] \in Spaces
    <3>1. WS = Pos
      BY <1>0, <2>1, <2>2 DEF WS
    <3>. QED  BY <1>0, <2>1, <3>1 DEF CallOK
  <2>5. Cursor!SpacesEnd(callPos) = Len(input)
    BY <1>0, <2>3, <2>4, SpacesEndIs
  <2>6. AbsPos = callPos /\ AbsPos' = Len(input)
    BY <2>1, <2>3 DEF AbsPos, Pos
  <2>7. out' = [out EXCEPT ![i] = Nul]
    BY <2>1, <2>2 DEF Store
  <2>8. AbsWord' = AbsWord
    BY <1>0, <2>1, <2>2, <2>7 DEF AbsWord
  <2>9. Len(AbsWord) = olen
    BY <1>0, AbsWordSeq
  <2>10. Cursor!EatWord
    BY <2>1, <2>5, <2>6, <2>8 DEF Cursor!EatWord, AbsPos, AbsWord
  <2>. QED  BY <2>10 DEF Cursor!Next
<1>8. CASE EatDone
  <2>1. /\ pc = "loop" /\ pc' = "idle" /\ i < OutCap
        /\ CurChar \notin Letters
        /\ Store(i, Nul) /\ olen' = i /\ ret' = "OK"
        /\ UNCHANGED <<input, rd, buf, bpos, i, callPos>>
    BY <1>8 DEF EatDone
  <2>2. /\ input \in Seq(Chars) /\ Len(input) \in Nat
        /\ BufOK /\ Pos \in 0 .. Len(input)
        /\ WS \in Nat /\ WS < Pos /\ Pos - WS = i - olen
        /\ olen <= i /\ i <= OutCap
        /\ \A j \in WS + 1 .. Pos : input[j] \notin Spaces
        /\ \A k \in olen .. i - 1 : out[k] = input[WS + 1 + k - olen]
        /\ Cursor!SpacesEnd(callPos) = WS
    BY <2>1, LoopWordStart
  <2>3. Pos < Len(input) => input[Pos + 1] \in Spaces
    <3>1. Pos < Len(input) => CurChar = input[Pos + 1]
      BY <1>0, <2>2, CurCharIsText
    <3>2. Pos < Len(input) => input[Pos + 1] \in Chars
      BY <2>2
    <3>. QED  BY <2>1, <3>1, <3>2 DEF Chars
  <2>4. Cursor!WordEnd(WS) = Pos
    BY <2>2, <2>3, WordEndIs
  <2>5. Pos' = Pos
    BY <2>1 DEF Pos
  <2>6. AbsPos = callPos /\ AbsPos' = Pos
    BY <2>1, <2>5 DEF AbsPos
  <2>7. /\ AbsWord \in Seq(Chars \cup {Nul, Junk})
        /\ Len(AbsWord) = olen
    BY <1>0, AbsWordSeq
  <2>8. AbsWord' = AbsWord \o SubSeq(input, WS + 1, Pos)
    <3> DEFINE S == Chars \cup {Nul, Junk}
               T == SubSeq(input, WS + 1, Pos)
    <3>1. /\ T \in Seq(Chars) /\ Len(T) = i - olen
          /\ \A m \in 1 .. i - olen : T[m] = input[WS + m]
      BY <2>2, SubSeqProperties
    <3>2. T \in Seq(S)
      BY <3>1, SeqMonotonic
    <3>3. /\ AbsWord \o T \in Seq(S)
          /\ Len(AbsWord \o T) = i
          /\ \A k \in 1 .. i : (AbsWord \o T)[k] =
                IF k <= olen THEN AbsWord[k] ELSE T[k - olen]
      <4>1. /\ AbsWord \o T \in Seq(S)
            /\ Len(AbsWord \o T) = Len(AbsWord) + Len(T)
            /\ \A k \in 1 .. Len(AbsWord) + Len(T) : (AbsWord \o T)[k] =
                  IF k <= Len(AbsWord) THEN AbsWord[k] ELSE T[k - Len(AbsWord)]
        BY <2>7, <3>2, ConcatProperties
      <4>2. olen \in Nat /\ i \in Nat /\ olen <= i
        BY <1>0, <2>2
      <4>3. Len(AbsWord) + Len(T) = i /\ Len(AbsWord) = olen
        BY <2>7, <3>1, <4>2
      <4>. QED  BY <4>1, <4>3
    <3>4. out' = [out EXCEPT ![i] = Nul]
      BY <2>1 DEF Store
    <3>5. AbsWord' = [k \in 1 .. i |-> out'[k - 1]]
      BY <2>1 DEF AbsWord
    <3>6. /\ AbsWord' \in Seq(S) /\ Len(AbsWord') = i
          /\ \A k \in 1 .. i : AbsWord'[k] = out[k - 1]
      <4>1. i \in Nat /\ out' \in [0 .. OutCap - 1 -> S]
        BY <1>0, <2>1, <3>4
      <4>2. AbsWord' \in [1 .. i -> S]
        BY <2>1, <4>1, <3>5
      <4>3. AbsWord' \in Seq(S)
        BY <4>1, <4>2, SeqDef
      <4>. QED  BY <1>0, <2>1, <3>4, <3>5, <4>1, <4>3, LenProperties
    <3>7. \A k \in 1 .. i : AbsWord'[k] = (AbsWord \o T)[k]
      BY <1>0, <2>2, <3>1, <3>3, <3>6 DEF AbsWord
    <3>. QED  BY <3>3, <3>6, <3>7, SeqEqual
  <2>9. /\ Cursor!SpacesEnd(AbsPos) = WS
        /\ Cursor!WordEnd(Cursor!SpacesEnd(AbsPos)) = Pos
        /\ WS < Len(input)
        /\ Pos - WS < OutCap - Len(AbsWord)
    BY <1>0, <2>1, <2>2, <2>4, <2>6, <2>7
  <2>10. Cursor!EatWord
    BY <1>0, <2>1, <2>6, <2>8, <2>9 DEF Cursor!EatWord, AbsPos, AbsWord
  <2>. QED  BY <2>10 DEF Cursor!Next
<1>9. CASE EatOverflow
  <2>1. /\ pc = "loop" /\ pc' = "idle" /\ i >= OutCap
        /\ ret' = "OVERFLOW"
        /\ UNCHANGED <<input, rd, buf, bpos, out, olen, i, callPos>>
    BY <1>9 DEF EatOverflow
  <2>2. /\ input \in Seq(Chars) /\ Len(input) \in Nat
        /\ Pos \in 0 .. Len(input)
        /\ WS \in Nat /\ WS < Pos /\ Pos - WS = i - olen
        /\ i <= OutCap
        /\ \A j \in WS + 1 .. Pos : input[j] \notin Spaces
        /\ Cursor!SpacesEnd(callPos) = WS
    BY <2>1, LoopWordStart
  <2>3. Cursor!WordEnd(WS) \in Pos .. Len(input)
    BY <2>2, WordEndAtLeast
  <2>4. Pos' = Pos
    BY <2>1 DEF Pos
  <2>5. AbsPos = callPos /\ AbsPos' = Pos
    BY <2>1, <2>4 DEF AbsPos
  <2>6. Len(AbsWord) = olen /\ AbsWord' = AbsWord
    BY <1>0, <2>1, AbsWordSeq DEF AbsWord
  <2>7. Pos = WS + (OutCap - olen)
    BY <1>0, <2>1, <2>2
  <2>8. /\ Cursor!SpacesEnd(AbsPos) = WS
        /\ Cursor!WordEnd(Cursor!SpacesEnd(AbsPos)) \in Pos .. Len(input)
        /\ WS < Len(input)
        /\ Pos = WS + (OutCap - Len(AbsWord))
    BY <1>0, <2>2, <2>3, <2>5, <2>6, <2>7
  <2>9. Cursor!EatWord
    BY <1>0, <2>1, <2>2, <2>5, <2>6, <2>8 DEF Cursor!EatWord, AbsPos, AbsWord
  <2>. QED  BY <2>9 DEF Cursor!Next
<1>. QED  BY <1>1, <1>2, <1>3, <1>4, <1>5, <1>6, <1>7, <1>8, <1>9, <1>10
          DEF Next

(* The first state of the buffered stream maps to the first state of the *)
(* cursor: the stream has not been read, so position 0 and no word.      *)
LEMMA InitRefines == Init => Cursor!Init
<1> SUFFICES ASSUME Init PROVE Cursor!Init
  OBVIOUS
<1>1. input \in Cursor!Texts
  BY DEF Init, Texts, Cursor!Texts, Chars, Cursor!Chars
<1>2. Len(buf) = 0 /\ rd = 0 /\ bpos = 0 /\ pc = "uninit"
  BY DEF Init
<1>3. AbsPos = 0
  BY <1>2 DEF AbsPos, Pos
<1>4. AbsWord = << >>
  BY DEF Init, AbsWord
<1>. QED  BY <1>1, <1>3, <1>4 DEF Cursor!Init, Init, AbsPos, AbsWord

(* gmio's string stream iterator together with gmio_eat_word implements *)
(* the unbuffered text cursor: every step of the buffered reader        *)
(* (gmio_next_char refilling the buffer, gmio_skip_spaces, the copy loop *)
(* of gmio_eat_word and its OK and overflow exits) is a step of          *)
(* TextCursor on the text position and the word written so far, or      *)
(* leaves both unchanged.  The buffer never shows a character out of    *)
(* place and a word is never cut at a refill.                           *)
THEOREM StreamRefinesCursor == Spec => TextCursorSpec
<1>1. Spec => []RInv
  BY InitRInv, NextRInv, PTL DEF Spec
<1>. QED  BY <1>1, InitRefines, StepRefines, PTL
          DEF Spec, TextCursorSpec, Cursor!Spec

=============================================================================
