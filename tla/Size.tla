-------------------------------- MODULE Size --------------------------------
(***************************************************************************)
(* The class Size: a position or a length in a file, counted in bits.  The *)
(* source keeps it in a uint64_t; the modules that EXTEND this one only    *)
(* build sizes far below 2^64, where no operation wraps.                   *)
(***************************************************************************)
EXTENDS Integers

FromBytes(bytes) == 8 * bytes

ByteCount(size) == size \div 8

BitOffset(size) == size % 8

ClipToByte(size) == size - BitOffset(size)
=============================================================================
