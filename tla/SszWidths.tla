------------------------------ MODULE SszWidths ------------------------------
(***************************************************************************)
(* Widths in bytes, scaled down: an encoding keeps its shape (what is      *)
(* fixed, what is variable, how many chunks a value fills) with numbers    *)
(* the checker can hold. A byte keeps its 8 bits, a u64 is one byte, an    *)
(* offset two, and a 32-byte chunk two, so that 48 bytes are two chunks    *)
(* and 96 bytes three, as they are in the code.                            *)
(***************************************************************************)
LenUint == 1        \* u8, u64
LenOffset == 2      \* ssz::BYTES_PER_LENGTH_OFFSET, @bytes_per_length_offset
LenChunk == 2       \* tree_hash::BYTES_PER_CHUNK, @bytes_per_chunk
Len4 == 1
Len20 == 1
Len32 == 2
Len48 == 3
Len96 == 6
==============================================================================
