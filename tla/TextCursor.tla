----------------------------- MODULE TextCursor -----------------------------
(***************************************************************************)
(* What the string-stream cursor of gmio promises (spec section 4.4),      *)
(* stated over the text of the stream alone: a cursor position in the      *)
(* text, and the word string the tokenizer appends to.  There is no       *)
(* buffer and no refill here: StringStream implements this module.         *)
(*                                                                         *)
(* Positions are 0-based: the character under the cursor at pos is        *)
(* input[pos + 1], and pos = Len(input) is end of stream.                  *)
(***************************************************************************)
EXTENDS Integers, Sequences

CONSTANTS
  Letters,   \* characters that are not ASCII spaces
  Spaces,    \* characters gmio_clocale_isspace() accepts
  MaxText,   \* length bound of the stream contents
  OutCap     \* capacity (max_len) of the word string

VARIABLES
  input,     \* the stream contents
  pos,       \* the cursor
  word,      \* the word string's contents (its first len characters)
  ret        \* result of the last eat_word call

vars == <<input, pos, word, ret>>

Chars == Letters \cup Spaces

Texts == UNION {[1 .. n -> Chars] : n \in 0 .. MaxText}

(* First position at or after p whose character is not a space, or end.  *)
SpacesEnd(p) ==
  CHOOSE q \in p .. Len(input) :
    /\ \A j \in p + 1 .. q : input[j] \in Spaces
    /\ q < Len(input) => input[q + 1] \notin Spaces

(* First position at or after s whose character is a space, or end.      *)
WordEnd(s) ==
  CHOOSE e \in s .. Len(input) :
    /\ \A j \in s + 1 .. e : input[j] \notin Spaces
    /\ e < Len(input) => input[e + 1] \in Spaces

Init ==
  /\ input \in Texts
  /\ pos = 0
  /\ word = << >>
  /\ ret = "NONE"

(* Advance one character; at end of stream the cursor stays at the end.  *)
NextChar ==
  /\ pos' = IF pos < Len(input) THEN pos + 1 ELSE pos
  /\ UNCHANGED <<input, word, ret>>

(* eat_word: skip spaces, then append the word that follows, if it and   *)
(* its terminating null byte fit in the room left; otherwise report a    *)
(* capacity overflow, the characters that filled the room being consumed *)
(* and lost.  An empty word is reported at end of stream.                *)
EatWord ==
  LET s    == SpacesEnd(pos)
      e    == WordEnd(s)
      room == OutCap - Len(word)
  IN  /\ UNCHANGED input
      /\ \/ /\ s = Len(input)
            /\ pos' = s
            /\ ret' = "EMPTY"
            /\ UNCHANGED word
         \/ /\ s < Len(input)
            /\ e - s < room
            /\ pos' = e
            /\ word' = word \o SubSeq(input, s + 1, e)
            /\ ret' = "OK"
         \/ /\ s < Len(input)
            /\ e - s >= room
            /\ pos' = s + room
            /\ ret' = "OVERFLOW"
            /\ UNCHANGED word

(* The caller empties the word string (sets its len to 0).               *)
ResetWord ==
  /\ word' = << >>
  /\ UNCHANGED <<input, pos, ret>>

Next == NextChar \/ EatWord \/ ResetWord

Spec == Init /\ [][Next]_vars

=============================================================================
