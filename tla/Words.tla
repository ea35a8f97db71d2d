-------------------------------- MODULE Words --------------------------------
(***************************************************************************)
(* The unsigned words of C.  A uint32_t is <<hi, lo>>, its two halves of   *)
(* 16 bits, because TLC's integers do not hold 32 bits; xor goes byte by   *)
(* byte through a table.                                                   *)
(***************************************************************************)
EXTENDS Naturals, Sequences

Byte == 0 .. 255
Bit(v, k) == (v \div 2 ^ k) % 2

XorNibble ==
  [a \in 0 .. 15 |-> [b \in 0 .. 15 |->
     ((Bit(a, 0) + Bit(b, 0)) % 2) + 2 * ((Bit(a, 1) + Bit(b, 1)) % 2)
       + 4 * ((Bit(a, 2) + Bit(b, 2)) % 2) + 8 * ((Bit(a, 3) + Bit(b, 3)) % 2)]]

XorByte ==
  [a \in Byte |-> [b \in Byte |->
     16 * XorNibble[a \div 16][b \div 16] + XorNibble[a % 16][b % 16]]]

\* Up to 24 bits at a time.
Xor24(a, b) ==
  65536 * XorByte[a \div 65536][b \div 65536]
    + 256 * XorByte[(a \div 256) % 256][(b \div 256) % 256] + XorByte[a % 256][b % 256]
And24(a, b) == (a + b - Xor24(a, b)) \div 2

Word(hi, lo) == <<hi % 65536, lo % 65536>>

Xor(x, y) == <<Xor24(x[1], y[1]), Xor24(x[2], y[2])>>
And(x, y) == <<And24(x[1], y[1]), And24(x[2], y[2])>>
Not(x) == <<65535 - x[1], 65535 - x[2]>>
Add(x, y) == Word(x[1] + y[1] + (x[2] + y[2]) \div 65536, x[2] + y[2])

\* x >> k and x << k, for k below 32.
ShiftRight(x, k) ==
  IF k >= 16 THEN <<0, x[1] \div 2 ^ (k - 16)>>
  ELSE <<x[1] \div 2 ^ k, x[2] \div 2 ^ k + (x[1] % (2 ^ k)) * 2 ^ (16 - k)>>
ShiftLeft(x, k) ==
  IF k >= 16 THEN <<(x[2] % (2 ^ (32 - k))) * 2 ^ (k - 16), 0>>
  ELSE <<(x[1] % (2 ^ (16 - k))) * 2 ^ k + x[2] \div 2 ^ (16 - k),
         (x[2] % (2 ^ (16 - k))) * 2 ^ k>>

\* The two parts have no bit in common, so that | is +.
RotateRight(x, k) == Add(ShiftRight(x, k), ShiftLeft(x, 32 - k))
RotateLeft(x, k) == RotateRight(x, 32 - k)

(***************************************************************************)
(* Bytes in memory (sysendian.h).                                          *)
(***************************************************************************)
le32dec(p) == <<p[3] + 256 * p[4], p[1] + 256 * p[2]>>
le32enc(x) == <<x[2] % 256, x[2] \div 256, x[1] % 256, x[1] \div 256>>
be32dec(p) == <<p[2] + 256 * p[1], p[4] + 256 * p[3]>>
=============================================================================
