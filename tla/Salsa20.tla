------------------------------- MODULE Salsa20 -------------------------------
(***************************************************************************)
(* The Salsa20 core of yespower-opt.c, which is built in two ways.  Blocks *)
(* are kept in an order that suits four-lane vectors; the build with SSE2  *)
(* works on the vectors as they are, the other one puts the words back in  *)
(* order first.  Both run side by side here.                               *)
(***************************************************************************)
EXTENDS Words

CONSTANT Inputs   \* blocks of 64 bytes

VARIABLES
  block,  \* the salsa20_blk_t (w[0] .. w[15]) the core is applied to
  X,      \* X0 .. X3, four lanes each
  x,      \* the x of salsa20()
  half,   \* "columns", "rows" or "done"
  left    \* double rounds left

salsaVars == <<block, X, x, half, left>>

Lanes == 0 .. 3

(***************************************************************************)
(* The order: d[k] takes its low word from the low half of d[low(k)], its  *)
(* high word from the high half of d[high(k)].                             *)
(***************************************************************************)
salsa20_simd_shuffle(b) ==
  LET low == <<0, 5, 2, 7, 4, 1, 6, 3>>
      high == <<2, 7, 4, 1, 6, 3, 0, 5>>
  IN  [k \in 0 .. 15 |-> IF k % 2 = 0 THEN b[2 * low[k \div 2 + 1]]
                                      ELSE b[2 * high[k \div 2 + 1] + 1]]

salsa20_simd_unshuffle(b) ==
  LET low == <<0, 5, 2, 7, 4, 1, 6, 3>>
      high == <<6, 3, 0, 5, 2, 7, 4, 1>>
  IN  [k \in 0 .. 15 |-> IF k % 2 = 0 THEN b[2 * low[k \div 2 + 1]]
                                      ELSE b[2 * high[k \div 2 + 1] + 1]]

\* How smix1 and smix2 load a block from B and store it there.
Load(bytes) ==
  salsa20_simd_shuffle([k \in 0 .. 15 |-> le32dec(SubSeq(bytes, 4 * k + 1, 4 * k + 4))])
Store(b) ==
  LET w == salsa20_simd_unshuffle(b)
  IN  [k \in 1 .. 64 |-> le32enc(w[(k - 1) \div 4])[((k - 1) % 4) + 1]]

READ_X(b) == [v \in 0 .. 3 |-> [l \in Lanes |-> b[4 * v + l]]]
WRITE_X(V) == [k \in 0 .. 15 |-> V[k \div 4][k % 4]]

(***************************************************************************)
(* The build with SSE2.  ARX shifts to both sides, on all lanes at once.   *)
(***************************************************************************)
ARX(out, in1, in2, s) ==
  [l \in Lanes |->
    LET tmp == Add(in1[l], in2[l])
    IN  Xor(Xor(out[l], ShiftLeft(tmp, s)), ShiftRight(tmp, 32 - s))]

Turn(V, by) == [l \in Lanes |-> V[(l + by) % 4]]   \* _mm_shuffle_epi32

\* One half of SALSA20_2ROUNDS on vectors a, b, c, d, in this order.
HalfRound(V, a, b, c, d) ==
  LET Vb == ARX(V[b], V[a], V[d], 7)
      Vc == ARX(V[c], Vb, V[a], 9)
      Vd == ARX(V[d], Vc, Vb, 13)
      Va == ARX(V[a], Vd, Vc, 18)
  IN  [V EXCEPT ![a] = Va, ![b] = Vb, ![c] = Vc, ![d] = Vd]

SALSA20_columns(V) ==
  LET R == HalfRound(V, 0, 1, 2, 3)
  IN  [R EXCEPT ![1] = Turn(@, 3), ![2] = Turn(@, 2), ![3] = Turn(@, 1)]

\* Variant: the vectors are not turned back.
SALSA20_rows_unturned(V) == HalfRound(V, 0, 3, 2, 1)

SALSA20_rows(V) ==
  LET R == HalfRound(V, 0, 3, 2, 1)
  IN  [R EXCEPT ![1] = Turn(@, 1), ![2] = Turn(@, 2), ![3] = Turn(@, 3)]

SALSA20_wrapper(V, Z) == [v \in 0 .. 3 |-> [l \in Lanes |-> Add(V[v][l], Z[v][l])]]

(***************************************************************************)
(* The other build: salsa20() on words in their usual order.               *)
(***************************************************************************)
Stir(o, p, q, s) == Xor(o, RotateLeft(Add(p, q), s))   \* o ^= ROTL(p + q, s)

QuarterB(w, q) == Stir(w[q[2]], w[q[1]], w[q[4]], 7)
QuarterC(w, q) == Stir(w[q[3]], QuarterB(w, q), w[q[1]], 9)
QuarterD(w, q) == Stir(w[q[4]], QuarterC(w, q), QuarterB(w, q), 13)
QuarterA(w, q) == Stir(w[q[1]], QuarterD(w, q), QuarterC(w, q), 18)

Quarter(w, q) ==
  [w EXCEPT ![q[1]] = QuarterA(w, q), ![q[2]] = QuarterB(w, q),
            ![q[3]] = QuarterC(w, q), ![q[4]] = QuarterD(w, q)]

Columns == <<<<0, 4, 8, 12>>, <<5, 9, 13, 1>>, <<10, 14, 2, 6>>, <<15, 3, 7, 11>>>>
Rows4 == <<<<0, 1, 2, 3>>, <<5, 6, 7, 4>>, <<10, 11, 8, 9>>, <<15, 12, 13, 14>>>>

Quarters(w, qs) == Quarter(Quarter(Quarter(Quarter(w, qs[1]), qs[2]), qs[3]), qs[4])

salsa20_end(w, B) ==
  LET Bout == salsa20_simd_shuffle(w) IN [k \in 0 .. 15 |-> Add(Bout[k], B[k])]

(***************************************************************************)
(* Both at work: SALSA20_8 (version 0.5) and SALSA20_2 (version 1.0).      *)
(***************************************************************************)
Blank == [k \in 0 .. 15 |-> <<0, 0>>]

SalsaInit ==
  block = Blank /\ X = READ_X(Blank) /\ x = Blank /\ half = "done" /\ left = 0

Start(bytes, doublerounds) ==
  /\ half = "done" /\ block = Blank
  /\ block' = Load(bytes)
  /\ X' = READ_X(block') /\ x' = salsa20_simd_unshuffle(block')
  /\ half' = "columns" /\ left' = doublerounds

ColumnsHalf ==
  /\ half = "columns" /\ half' = "rows"
  /\ X' = SALSA20_columns(X) /\ x' = Quarters(x, Columns)
  /\ UNCHANGED <<block, left>>

RowsHalf ==
  /\ half = "rows"
  /\ left' = left - 1 /\ half' = IF left' = 0 THEN "end" ELSE "columns"
  /\ X' = SALSA20_rows(X) /\ x' = Quarters(x, Rows4)
  /\ UNCHANGED block

End ==
  /\ half = "end" /\ half' = "done"
  /\ X' = SALSA20_wrapper(X, READ_X(block)) /\ x' = salsa20_end(x, block)
  /\ UNCHANGED <<block, left>>

SalsaNext ==
  \/ ColumnsHalf \/ RowsHalf \/ End
  \/ \E bytes \in Inputs, doublerounds \in {1, 4} : Start(bytes, doublerounds)

\* After every double round the vectors hold the words of the other build,
\* in their own order, and both end with the same block, whatever the
\* rearranging in between; and a block that is stored is the one loaded.
SalsaMatches ==
  /\ half \in {"columns", "end"} => WRITE_X(X) = salsa20_simd_shuffle(x)
  /\ half = "done" => WRITE_X(X) = x
  /\ Load(Store(block)) = block
=============================================================================
