------------------------------- MODULE Pwxform -------------------------------
(***************************************************************************)
(* PWXFORM of yespower-opt.c, which the preprocessor builds in one of five *)
(* ways: with AVX, with inline assembly, for 32 bits with and without      *)
(* SSE4.1, and without vectors.  All run here side by side, and with them  *)
(* pwxform as yespower defines it.  Words are scaled down: where the code  *)
(* has 32 and 64 bits there are Bits and 2 * Bits, and the S-boxes have    *)
(* 2 ^ Swidth entries of 16 bytes.                                         *)
(***************************************************************************)
EXTENDS Words

CONSTANTS
  Bits,      \* at most 12, so that the product of two fits
  Swidth,    \* Swidth_0_5 and Swidth_1_0
  Seeds,     \* what blocks and S-boxes are made from
  MaxCalls   \* how often PWXFORM is run

VARIABLES
  version,  \* "0.5" or "1.0"
  built,    \* for every build: the block X, S in memory, its three parts, w
  plain,    \* the definition: X, the three tables, how many entries are written
  round,    \* the next round of the current PWXFORM
  calls     \* PWXFORMs left

pwxVars == <<version, built, plain, round, calls>>

Builds == {"avx", "asm", "sse4", "sse2", "generic"}

Low(d) == d % (2 ^ Bits)
High(d) == d \div (2 ^ Bits)
Entries == 2 ^ Swidth
Smask == (Entries - 1) * 16
Smask_to_Smask2(mask) == mask * 2 ^ Bits + mask

(***************************************************************************)
(* A vector as four lanes, and as the two words that it is in memory.      *)
(***************************************************************************)
AsLanes(v) == <<Low(v[1]), High(v[1]), Low(v[2]), High(v[2])>>
Joined(lo, hi) == lo + hi * 2 ^ Bits

HI32(build, l) ==
  CASE build = "avx" -> <<l[2], l[3], l[4], 0>>      \* _mm_srli_si128
    [] OTHER -> <<l[2], l[1], l[4], l[3]>>           \* _mm_shuffle_epi32

EXTRACT64(build, v) ==
  LET l == AsLanes(v)
  IN  IF build = "sse2" THEN Joined(l[1], HI32(build, l)[1]) ELSE v[1]

\* The two offsets into S0 and S1.
Offsets(build, v) ==
  LET l == AsLanes(v)
      x == And24(EXTRACT64(build, v), Smask_to_Smask2(Smask))
  IN  IF build = "sse4" THEN <<And24(l[1], Smask), And24(l[2], Smask)>>
                        ELSE <<Low(x), High(x)>>

mul_epu32(a, b) == <<a[1] * b[1], a[3] * b[3]>>

Product(build, v) ==
  IF build = "generic" THEN <<High(v[1]) * Low(v[1]), High(v[2]) * Low(v[2])>>
  ELSE mul_epu32(HI32(build, AsLanes(v)), AsLanes(v))

AddXor(product, s0, s1) ==
  [d \in 1 .. 2 |-> Xor24((product[d] + s0[d]) % (2 ^ (2 * Bits)), s1[d])]

PWXFORM_SIMD(build, m, k) ==
  LET at == Offsets(build, m.X[k])
  IN  [m EXCEPT !.X[k] = AddXor(Product(build, m.X[k]), m.S[m.S0 + at[1] \div 16],
                                m.S[m.S1 + at[2] \div 16])]

PWXFORM_SIMD_WRITE(build, m, k, part) ==
  LET r == PWXFORM_SIMD(build, m, k)
  IN  [r EXCEPT !.S[r[part] + r.w \div 16] = r.X[k]]

Advance(m) == [m EXCEPT !.w = @ + 16]

PWXFORM_HALF(build, m, k) == PWXFORM_SIMD(build, PWXFORM_SIMD(build, m, k), k + 1)
PWXFORM_WRITE2(build, m, k) ==
  Advance(PWXFORM_SIMD_WRITE(build, PWXFORM_SIMD_WRITE(build, m, k, "S0"), k + 1, "S1"))

PWXFORM_ROUND(build, m) == PWXFORM_HALF(build, PWXFORM_HALF(build, m, 1), 3)
PWXFORM_ROUND_WRITE4(build, m) == PWXFORM_WRITE2(build, PWXFORM_WRITE2(build, m, 1), 3)
PWXFORM_ROUND_WRITE2(build, m) == PWXFORM_HALF(build, PWXFORM_WRITE2(build, m, 1), 3)

\* Variant: the three parts are passed on the other way round.
PwxformEnd_reversed(m) ==
  [m EXCEPT !.w = And24(@, Smask_to_Smask2(Smask)), !.S0 = m.S1, !.S1 = m.S2, !.S2 = m.S0]

\* w &= Smask2, and the three parts are passed on.
PwxformEnd(m) ==
  [m EXCEPT !.w = And24(@, Smask_to_Smask2(Smask)), !.S0 = m.S2, !.S1 = m.S0, !.S2 = m.S1]

PwxformRounds == IF version = "0.5" THEN 6 ELSE 3

PWXFORM(build, m) ==
  IF version = "0.5" THEN PWXFORM_ROUND(build, m)
  ELSE CASE round = 0 -> PWXFORM_ROUND_WRITE4(build, m)
         [] round = 1 -> PWXFORM_ROUND_WRITE2(build, m)
         [] OTHER -> PwxformEnd(PWXFORM_ROUND_WRITE2(build, m))

(***************************************************************************)
(* The definition: two tables to look up, a third one in waiting, and      *)
(* words that are simply numbers.                                          *)
(***************************************************************************)
Lookup(d) == <<(Low(d) \div 16) % Entries, (High(d) \div 16) % Entries>>

\* What replaces X[k]: the product of its halves, and an entry of each table.
PlainNew(p, k) ==
  LET at == Lookup(p.X[k][1])
  IN  [d \in 1 .. 2 |->
         Xor24((High(p.X[k][d]) * Low(p.X[k][d]) + p.T[1][at[1]][d]) % (2 ^ (2 * Bits)),
               p.T[2][at[2]][d])]

\* Whether it is written to a table, too, and which one.
PlainWrites(k) == version = "1.0" /\ (round = 0 \/ k <= 2)
PlainTable(k) == IF k % 2 = 1 THEN 1 ELSE 2

PlainStep(p, k) ==
  [X |-> [p.X EXCEPT ![k] = PlainNew(p, k)],
   T |-> IF PlainWrites(k)
         THEN [p.T EXCEPT ![PlainTable(k)][p.count % Entries] = PlainNew(p, k)] ELSE p.T,
   count |-> IF PlainWrites(k) /\ k % 2 = 0 THEN p.count + 1 ELSE p.count]

PlainRound(p) ==
  LET r == PlainStep(PlainStep(PlainStep(PlainStep(p, 1), 2), 3), 4)
  IN  IF version = "1.0" /\ round = 2 THEN [r EXCEPT !.T = <<r.T[3], r.T[1], r.T[2]>>]
                                     ELSE r

(***************************************************************************)
(* Both at work.                                                           *)
(***************************************************************************)
Made(seed, k) == (seed * (k + 3) * (k + 11) + 7919 * k) % (2 ^ (2 * Bits))
Block0(seed) == [k \in 1 .. 4 |-> <<Made(seed, 2 * k), Made(seed, 2 * k + 1)>>]
Box(seed, e) == <<Made(seed + 1, 5 * e), Made(seed + 2, 3 * e + 1)>>

PwxInit ==
  /\ version = "1.0" /\ round = 0 /\ calls = 0
  /\ built = [build \in Builds |-> [X |-> Block0(0)]]
  /\ plain = [X |-> Block0(0)]

StartPwxform(v, seed) ==
  /\ plain.X = Block0(0) /\ calls = 0
  /\ version' = v /\ calls' = MaxCalls
  /\ built' = [build \in Builds |->
                [X |-> Block0(seed), S |-> [e \in 0 .. 3 * Entries - 1 |-> Box(seed, e)],
                 S0 |-> 0, S1 |-> Entries, S2 |-> 2 * Entries, w |-> 0]]
  /\ plain' = [X |-> Block0(seed), count |-> 0,
               T |-> [t \in 1 .. 3 |->
                       [e \in 0 .. Entries - 1 |-> Box(seed, (t - 1) * Entries + e)]]]
  /\ UNCHANGED round

PwxformRound ==
  /\ calls > 0
  /\ built' = [build \in Builds |-> PWXFORM(build, built[build])]
  /\ plain' = PlainRound(plain)
  /\ round' = (round + 1) % PwxformRounds
  /\ calls' = IF round' = 0 THEN calls - 1 ELSE calls
  /\ UNCHANGED version

PwxformNext == PwxformRound \/ \E v \in {"0.5", "1.0"}, seed \in Seeds : StartPwxform(v, seed)

\* Every build computes what the definition says, and leaves in the S-boxes
\* what it says: the masked offsets, the pointers passed on, the writes that
\* later lookups see, also after w has gone round.
BuildsAgree ==
  \A build \in Builds :
    LET m == built[build]
    IN  /\ m.X = plain.X
        /\ "S" \in DOMAIN m /\ round = 0 =>
             \A e \in 0 .. Entries - 1 :
               /\ m.S[m.S0 + e] = plain.T[1][e]
               /\ m.S[m.S1 + e] = plain.T[2][e]
               /\ m.S[m.S2 + e] = plain.T[3][e]
=============================================================================
