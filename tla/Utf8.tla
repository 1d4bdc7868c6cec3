--------------------------------- MODULE Utf8 --------------------------------
(***************************************************************************)
(* The form of a UTF-8 sequence: what its first byte says of its length,   *)
(* and what a byte after the first looks like.                             *)
(***************************************************************************)
EXTENDS Integers, Sequences

\* Bug: the 5 byte form of the first UTF-8 is accepted as well.
NumBytesOfFive(head) ==
    CASE head \div 128 = 0  -> 1
      [] head \div 32 = 6   -> 2
      [] head \div 16 = 14  -> 3
      [] head \div 8 = 30   -> 4
      [] head \div 4 = 62   -> 5
      [] OTHER              -> 0

\* GetNumBytes: by the leading one bits; 0 for a byte that begins nothing.
NumBytes(head) ==
    CASE head \div 128 = 0  -> 1
      [] head \div 32 = 6   -> 2
      [] head \div 16 = 14  -> 3
      [] head \div 8 = 30   -> 4
      [] OTHER              -> 0

IsTail(b) == b \div 64 = 2

\* The n bytes of a text that follow its first from.
Slice(text, from, n) == [i \in 1 .. n |-> text[from + i]]
=============================================================================
