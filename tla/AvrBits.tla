------------------------------ MODULE AvrBits ------------------------------
(***************************************************************************)
(* The fixed-width arithmetic the virtual machine is written in: uint8_t,  *)
(* uint16_t, the bits of a number and the two's complement casts.          *)
(*                                                                         *)
(* Numbers stay numbers, and a mask operation on a byte is the set         *)
(* operation on the set of its one-bits: `&' is \cap, `|' is \cup, `^' is  *)
(* the symmetric difference, `~' the complement in BitIndex.               *)
(***************************************************************************)
EXTENDS Integers

UINT8_MAX  == 255
UINT16_MAX == 65535
INT8_MAX   == 127
INT16_MAX  == 32767

Byte     == 0 .. UINT8_MAX
Word     == 0 .. UINT16_MAX
Int8     == -INT8_MAX - 1 .. INT8_MAX
Int16    == -INT16_MAX - 1 .. INT16_MAX
BitIndex == 0 .. 7

Pow2 == << 1, 2, 4, 8, 16, 32, 64, 128, 256, 512, 1024, 2048, 4096, 8192,
           16384, 32768, 65536 >>

(* (x >> i) & 1.  For a negative x this is the bit of its two's            *)
(* complement, because \div rounds down.                                   *)
Bit(x, i) == (x \div Pow2[i + 1]) % 2

(* (x >> s) & (m - 1), where p = 2^s and m is a power of two.              *)
Field(x, p, m) == (x \div p) % m

Wrap8(x)  == x % 256
Wrap16(x) == x % 65536

(* The value of an n-bit field read as a two's complement number, where    *)
(* half = 2^(n-1); Signed(b, 128) is the cast (int8_t) b.                  *)
Signed(x, half) == IF x >= half THEN x - 2 * half ELSE x

Lo(w) == w % 256
Hi(w) == (w \div 256) % 256

BitsOf(x) == { i \in BitIndex : Bit(x, i) = 1 }

ByteOf(S) == LET b(i, w) == IF i \in S THEN w ELSE 0
             IN  b(0, 1)  + b(1, 2)  + b(2, 4)  + b(3, 8)
               + b(4, 16) + b(5, 32) + b(6, 64) + b(7, 128)

BitAnd(x, y) == ByteOf(BitsOf(x) \cap BitsOf(y))
BitOr(x, y)  == ByteOf(BitsOf(x) \cup BitsOf(y))
BitXor(x, y) == ByteOf({ i \in BitIndex : Bit(x, i) # Bit(y, i) })

=============================================================================
