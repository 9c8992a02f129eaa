---------------------------- MODULE StringStream ----------------------------
(***************************************************************************)
(* gmio_string_stream_fwd_iterator (gmio_core/internal/string_parse.c):  *)
(* a forward character cursor over a gmio stream whose bytes are pulled    *)
(* into a char buffer of BufCap bytes, and gmio_eat_word, which copies the *)
(* next word under the cursor into a caller's string of OutCap bytes,      *)
(* appending to what the string already holds.                             *)
(*                                                                         *)
(* gmio_current_char, gmio_next_char and gmio_skip_spaces are declared in  *)
(* helper_stream.h / string_parse.h, which are not part of the sources;   *)
(* they are modelled from the refill discipline of spec section 4.4: when *)
(* the position reaches the buffer length, exactly one stream read fills  *)
(* the buffer and the position is reset to 0; a read of 0 bytes is end of *)
(* stream.  A read may return fewer bytes than asked (spec section 4.1).   *)
(*                                                                         *)
(* The loops of gmio_skip_spaces and gmio_eat_word are taken one iteration *)
(* per step, pc naming where the call is; the driver (the STL ASCII        *)
(* tokenizer, or the unit test) calls the operations in any order.         *)
(***************************************************************************)
EXTENDS Integers, Sequences

CONSTANTS
  Letters,   \* characters that are not ASCII spaces
  Spaces,    \* characters gmio_clocale_isspace() accepts
  MaxText,   \* length bound of the stream contents
  BufCap,    \* it->buffer.max_len
  OutCap,    \* buffer->max_len of the string gmio_eat_word appends to
  EOS,       \* the NULL returned by gmio_current_char at end of stream
  Nul,       \* the terminating null byte
  Junk       \* a byte of the word string never written

ASSUME CharsAssumption ==
  /\ Letters \cap Spaces = {}
  /\ {EOS, Nul, Junk} \cap (Letters \cup Spaces) = {}
  /\ EOS # Nul /\ Nul # Junk /\ EOS # Junk

ASSUME BoundsAssumption ==
  /\ MaxText \in Nat
  /\ BufCap \in Nat \ {0}
  /\ OutCap \in Nat \ {0}

VARIABLES
  input,     \* the bytes of the stream, fixed for a behaviour
  rd,        \* bytes gmio_stream_read has delivered so far
  buf,       \* it->buffer: ptr[0 .. len-1] as a sequence, len = Len(buf)
  bpos,      \* it->buffer_pos
  out,       \* buffer->ptr[0 .. OutCap-1] of the word string
  olen,      \* buffer->len of the word string
  i,         \* the local i of gmio_eat_word
  pc,        \* "uninit", "idle", or where gmio_eat_word is: "skip", "loop"
  ret,       \* result of the last gmio_eat_word call
  callPos,   \* cursor position when the running gmio_eat_word was called
  overrun    \* TRUE once gmio_eat_word stored at an index >= OutCap

vars == <<input, rd, buf, bpos, out, olen, i, pc, ret, callPos, overrun>>

Chars == Letters \cup Spaces

Texts == UNION {[1 .. n -> Chars] : n \in 0 .. MaxText}

MinOf(x, y) == IF x < y THEN x ELSE y

(* Position in input of the character under the cursor (0-based).        *)
Pos == rd - Len(buf) + bpos

(* gmio_current_char: the character under the cursor, or EOS.            *)
CurChar == IF bpos < Len(buf) THEN buf[bpos + 1] ELSE EOS

(* Byte counts one gmio_stream_read(ptr, 1, max_len) may return.         *)
ReadSizes ==
  IF rd < Len(input) THEN 1 .. MinOf(BufCap, Len(input) - rd) ELSE {0}

(* gmio_next_char from buffer position p over buffer b: advance, and     *)
(* refill with one stream read when the position reaches the length.     *)
Advance(p, b) ==
  \/ /\ p + 1 < Len(b)
     /\ bpos' = p + 1
     /\ UNCHANGED <<rd, buf>>
  \/ /\ p + 1 >= Len(b)
     /\ \E n \in ReadSizes :
          /\ buf' = SubSeq(input, rd + 1, rd + n)
          /\ rd' = rd + n
          /\ bpos' = 0

(* buffer_ptr[k] = c, recording a store outside the string.              *)
Store(k, c) ==
  IF k < OutCap
  THEN /\ out' = [out EXCEPT ![k] = c]
       /\ UNCHANGED overrun
  ELSE /\ overrun' = TRUE
       /\ UNCHANGED out

Init ==
  /\ input \in Texts
  /\ rd = 0
  /\ buf = << >>
  /\ bpos = 0
  /\ out = [k \in 0 .. OutCap - 1 |-> Junk]
  /\ olen = 0
  /\ i = 0
  /\ pc = "uninit"
  /\ ret = "NONE"
  /\ callPos = 0
  /\ overrun = FALSE

(* gmio_string_stream_fwd_iterator_init: len = 0, buffer_pos = max_len,  *)
(* then gmio_next_char, which therefore always reads.                    *)
IteratorInit ==
  /\ pc = "uninit"
  /\ Advance(BufCap, << >>)
  /\ pc' = "idle"
  /\ UNCHANGED <<input, out, olen, i, ret, callPos, overrun>>

(* The driver calls gmio_next_char.                                       *)
NextChar ==
  /\ pc = "idle"
  /\ Advance(bpos, buf)
  /\ UNCHANGED <<input, out, olen, i, pc, ret, callPos, overrun>>

(* The driver empties the word string: str.len = 0.                       *)
ResetWord ==
  /\ pc = "idle"
  /\ olen' = 0
  /\ UNCHANGED <<input, rd, buf, bpos, out, i, pc, ret, callPos, overrun>>

(* gmio_eat_word is called: i = buffer->len.                              *)
EatWordCall ==
  /\ pc = "idle"
  /\ i' = olen
  /\ callPos' = Pos
  /\ pc' = "skip"
  /\ UNCHANGED <<input, rd, buf, bpos, out, olen, ret, overrun>>

(* Mutant of SkipSpace: the cursor is not moved past the space.         *)
SkipSpace_NoAdvance ==
  /\ pc = "skip"
  /\ CurChar \in Spaces
  /\ UNCHANGED vars

(* One iteration of gmio_skip_spaces: the cursor is on a space.          *)
SkipSpace ==
  /\ pc = "skip"
  /\ CurChar \in Spaces
  /\ Advance(bpos, buf)
  /\ UNCHANGED <<input, out, olen, i, pc, ret, callPos, overrun>>

(* gmio_skip_spaces returned NULL: buffer_ptr[i] = 0, return EMPTY.       *)
EatEmpty ==
  /\ pc = "skip"
  /\ CurChar = EOS
  /\ Store(i, Nul)
  /\ ret' = "EMPTY"
  /\ pc' = "idle"
  /\ UNCHANGED <<input, rd, buf, bpos, olen, i, callPos>>

(* Mutant of CopyChar: the loop goes on over a space (isspace test lost). *)
CopyChar_SpaceCopied ==
  /\ \/ pc = "skip" /\ CurChar \in Letters
     \/ pc = "loop" /\ i < OutCap /\ CurChar # EOS
  /\ Store(i, CurChar)
  /\ Advance(bpos, buf)
  /\ i' = i + 1
  /\ pc' = "loop"
  /\ UNCHANGED <<input, olen, ret, callPos>>

(* One iteration of the do-while: the first one right after              *)
(* gmio_skip_spaces, unconditionally, and the next ones while i is below  *)
(* the capacity and the cursor is on a non-space character.               *)
CopyChar ==
  /\ \/ pc = "skip" /\ CurChar \in Letters
     \/ pc = "loop" /\ i < OutCap /\ CurChar \in Letters
  /\ Store(i, CurChar)
  /\ Advance(bpos, buf)
  /\ i' = i + 1
  /\ pc' = "loop"
  /\ UNCHANGED <<input, olen, ret, callPos>>

(* Mutant of EatDone: the i < buffer_capacity test after the loop lost.  *)
EatDone_NoCapacityTest ==
  /\ pc = "loop"
  /\ CurChar \notin Letters \/ i >= OutCap
  /\ Store(i, Nul)
  /\ olen' = i
  /\ ret' = "OK"
  /\ pc' = "idle"
  /\ UNCHANGED <<input, rd, buf, bpos, i, callPos>>

(* Mutant of EatDone: len set one past the null byte.                     *)
EatDone_LenPastNul ==
  /\ pc = "loop"
  /\ i < OutCap
  /\ CurChar \notin Letters
  /\ Store(i, Nul)
  /\ olen' = i + 1
  /\ ret' = "OK"
  /\ pc' = "idle"
  /\ UNCHANGED <<input, rd, buf, bpos, i, callPos>>

(* The loop left with i below the capacity: terminate, set len, OK.      *)
EatDone ==
  /\ pc = "loop"
  /\ i < OutCap
  /\ CurChar \notin Letters
  /\ Store(i, Nul)
  /\ olen' = i
  /\ ret' = "OK"
  /\ pc' = "idle"
  /\ UNCHANGED <<input, rd, buf, bpos, i, callPos>>

(* The loop left with i at the capacity: CAPACITY_OVERFLOW, len kept.    *)
EatOverflow ==
  /\ pc = "loop"
  /\ i >= OutCap
  /\ ret' = "OVERFLOW"
  /\ pc' = "idle"
  /\ UNCHANGED <<input, rd, buf, bpos, out, olen, i, callPos, overrun>>

Next ==
  \/ IteratorInit
  \/ NextChar
  \/ ResetWord
  \/ EatWordCall
  \/ SkipSpace
  \/ EatEmpty
  \/ CopyChar
  \/ EatDone
  \/ EatOverflow

Spec == Init /\ [][Next]_vars

(* The steps of a gmio_eat_word call in progress.                         *)
EatSteps == SkipSpace \/ EatEmpty \/ CopyChar \/ EatDone \/ EatOverflow

(* A call runs on the caller's thread until it returns: while one of its *)
(* steps is possible, one is taken.  The driver's own calls need no       *)
(* fairness: it may stop calling at any time.                             *)
FairSpec == Spec /\ WF_vars(EatSteps)

-----------------------------------------------------------------------------
(* Type invariant.                                                        *)
TypeOK ==
  /\ input \in Texts
  /\ rd \in 0 .. Len(input)
  /\ buf \in Seq(Chars) /\ Len(buf) \in 0 .. BufCap
  /\ bpos \in 0 .. BufCap
  /\ out \in [0 .. OutCap - 1 -> Chars \cup {Nul, Junk}]
  /\ olen \in 0 .. OutCap - 1
  /\ i \in Nat
  /\ pc \in {"uninit", "idle", "skip", "loop"}
  /\ ret \in {"NONE", "EMPTY", "OK", "OVERFLOW"}
  /\ callPos \in Nat
  /\ overrun \in BOOLEAN

(* gmio_eat_word never stores outside the caller's string, over any      *)
(* sequence of calls that append to it: the do-while stores before it    *)
(* tests i, and the null byte goes at index i after the loop, so this     *)
(* rests on len staying below max_len from one call to the next.         *)
WritesInBounds == ~overrun

(* Every gmio_eat_word call returns: gmio_skip_spaces moves the cursor   *)
(* forward through a finite stream (a read returns 0 bytes only at its    *)
(* end), and the do-while stops at a space, at the end, or when i reaches *)
(* the capacity.                                                           *)
EatWordReturns == (pc \in {"skip", "loop"}) ~> (pc = "idle")

(* The cursor, refilled chunk by chunk with reads of any size, and        *)
(* gmio_eat_word, one loop iteration at a time, implement TextCursor: a   *)
(* word that straddles a refill is copied whole and in order, no          *)
(* character is skipped or repeated, and the result (OK, EMPTY, or        *)
(* CAPACITY_OVERFLOW when the word and its null byte do not fit) is the   *)
(* one the text alone determines.  A call in progress maps to the state   *)
(* before it; its last step maps to one TextCursor step.                  *)
Cursor == INSTANCE TextCursor WITH
  pos  <- IF pc \in {"skip", "loop"} THEN callPos ELSE Pos,
  word <- [k \in 1 .. olen |-> out[k - 1]]

TextCursorSpec == Cursor!Spec

=============================================================================
