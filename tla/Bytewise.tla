------------------------------ MODULE Bytewise ------------------------------
(***************************************************************************)
(* Bytes, and the exclusive or of two of them.                             *)
(***************************************************************************)
EXTENDS Integers

Byte == 0..255

\* Whether x and y differ in the bit that is worth k.
Differ(x, y, k) == (x \div k + y \div k) % 2

\* x ^ y, bit by bit.
Xor(x, y) ==
  Differ(x, y, 1) + 2 * Differ(x, y, 2) + 4 * Differ(x, y, 4) + 8 * Differ(x, y, 8)
    + 16 * Differ(x, y, 16) + 32 * Differ(x, y, 32) + 64 * Differ(x, y, 64)
    + 128 * Differ(x, y, 128)
=============================================================================
