------------------------------ MODULE ByteTest ------------------------------
(***************************************************************************)
(* The test of memchr.s and memccpy.s of libc/riscv64: x, the word with c  *)
(* taken from every byte by XOR, has a byte 0 if (x - 0x0101..) & ~x &     *)
(* 0x8080.. is not 0.                                                      *)
(***************************************************************************)
LOCAL INSTANCE Integers
LOCAL INSTANCE Bitwise

\* w has eight bytes of lane bits
ByteIn(lane, w, c) ==
  LET all == 2^(8 * lane)
      ones == (all - 1) \div (2^lane - 1)
      x == w ^^ (ones * c)
  IN (((x - ones) % all) & (all - 1 - x)) & (ones * 2^(lane - 1)) # 0
=============================================================================
