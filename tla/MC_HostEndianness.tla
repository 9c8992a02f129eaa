------------------------- MODULE MC_HostEndianness -------------------------
(* The byte orders of real hosts, as layout[i] = significance of the      *)
(* value byte at address i: little-endian, big-endian, the PDP-11 order   *)
(* (16-bit words high word first, each word little-endian: 02 01 08 04    *)
(* in memory for 0x01020408) and the Honeywell 316 order (low word first, *)
(* each word big-endian: 04 08 01 02).                                     *)
EXTENDS HostEndianness, TLC

LittleEndian == (0 :> 0) @@ (1 :> 1) @@ (2 :> 2) @@ (3 :> 3)
BigEndian    == (0 :> 3) @@ (1 :> 2) @@ (2 :> 1) @@ (3 :> 0)
PdpEndian    == (0 :> 2) @@ (1 :> 3) @@ (2 :> 0) @@ (3 :> 1)
HoneywellEndian == (0 :> 1) @@ (1 :> 0) @@ (2 :> 3) @@ (3 :> 2)

MC_Layouts == {LittleEndian, BigEndian, PdpEndian, HoneywellEndian}

=============================================================================
