--------------------------- MODULE HostEndianness ---------------------------
(***************************************************************************)
(* gmio_host_endianness (gmio_core/endian.c): the value 0x01020408 is     *)
(* stored through the uint32_t member of a union and read back through    *)
(* its uint8_t bytes[4] member.  Which byte of the value lands at which   *)
(* address is the host's choice: the C standard only says that uint32_t   *)
(* has no padding bits, so its object representation is the four bytes   *)
(* of the value in some order.  That order is the constant-chosen         *)
(* layout: layout[i] is the significance (0 = least) of the value byte    *)
(* stored at bytes[i].                                                     *)
(***************************************************************************)
EXTENDS Integers

CONSTANTS
  Layouts   \* byte orders the hosts of a run may have

Offsets == 0 .. 3

(* The orders a four-byte uint32_t without padding bits can have: every  *)
(* value byte at exactly one address.                                      *)
ByteOrders == {f \in [Offsets -> Offsets] :
                 \A i, j \in Offsets : i # j => f[i] # f[j]}

VARIABLES
  layout,   \* the host's byte order
  result    \* value returned, "none" before the call

vars == <<layout, result>>

(* conv.integer = v, then conv.bytes: byte i of memory is the value byte  *)
(* of significance layout[i].                                              *)
UnionBytes(v) == [i \in Offsets |-> (v \div 2^(8 * layout[i])) % 256]

Init ==
  /\ layout \in Layouts \cap ByteOrders
  /\ result = "none"

(* Lines 30-37: the first and last bytes of memory decide; any other      *)
(* combination is GMIO_ENDIANNESS_UNKNOWN.                                 *)
GmioHostEndianness ==
  LET bytes == UnionBytes(16909320)   \* 0x01020408
  IN  /\ result = "none"
      /\ result' = CASE bytes[0] = 8 /\ bytes[3] = 1 -> "little"
                     [] bytes[0] = 1 /\ bytes[3] = 8 -> "big"
                     [] OTHER                        -> "unknown"
      /\ UNCHANGED layout

Next == GmioHostEndianness

(* One call; the function returns and nothing follows.                    *)
Spec == Init /\ [][Next]_vars

-----------------------------------------------------------------------------
(* Spec section 8: the endianness detected is little or big, never        *)
(* unknown, on any host where uint32_t is four bytes.                      *)
NeverUnknown == result # "unknown"

=============================================================================
