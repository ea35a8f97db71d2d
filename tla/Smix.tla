-------------------------------- MODULE Smix --------------------------------
(***************************************************************************)
(* smix (yespower-opt.c): the memory-hard part of one hash, as traffic on  *)
(* the thread's region.  The region is a row of blocks of 64 bytes that    *)
(* holds, one behind the other, B, V, XY and S.  What a block contains is  *)
(* left open: integerify returns any value, a row of V is the 2r blocks it *)
(* takes, and a step of the model is one call of a blockmix function, with *)
(* the blocks it reads and writes.  The loops, their bounds and the        *)
(* pointers are those of the code; both compiled versions (pass 1 is       *)
(* version 0.5, pass 2 version 1.0) are here.                              *)
(***************************************************************************)
EXTENDS Region, Integers

CONSTANTS
  Third05, Third10,  \* blocks of S0 (Swidth_to_Sbytes1 / 64), by version
  Vals,              \* what integerify may return
  UintLimit          \* uint32_t counts modulo UintLimit

\* S0 is 64 blocks in version 0.5 and 512 in version 1.0.
ASSUME SmixAssumption ==
  /\ Third05 \in Nat /\ Third05 >= 4 /\ Third05 % 2 = 0
  /\ Third10 \in Nat /\ Third10 >= 4 /\ Third10 % 4 = 0
  /\ Vals \subseteq Nat
  /\ UintLimit \in Nat \ {0}

VARIABLES
  prm,      \* the parameters of the call: version, N, r, and if pers is valid
  pc,       \* where the call is
  at,       \* where smix1 or smix2 is
  x,        \* X is row x of V (smix1)
  n, i, j,  \* the loop variables of smix1; j also of smix2
  vj,       \* the row of V that smix1 mixed in last
  nloop,    \* Nloop of smix2
  ctx,      \* S0, S1, S2 and w, as blocks from the start of S
  written,  \* the blocks of the region that this call has given a meaning
  faults    \* what an access did that it must not do

smixVars == <<at, x, n, i, j, vj, nloop, ctx, written, faults>>

(***************************************************************************)
(* The layout: yespower() places the areas and computes what it needs.     *)
(***************************************************************************)
IsOld == prm.version = "0.5"
Third == IF IsOld THEN Third05 ELSE Third10

B_size == 2 * prm.r
V_size == B_size * prm.N
XY_size == IF IsOld THEN 2 * B_size ELSE B_size + 1
Sbytes == IF IsOld THEN 2 * Third05 ELSE 3 * Third10
need == B_size + V_size + XY_size + Sbytes

Blocks(from, count) == from .. from + count - 1
VBase == B_size
XYBase == VBase + V_size
SBase == XYBase + XY_size

(***************************************************************************)
(* smix1 runs twice: on S with r = 1 and rows of 128 bytes, and on V.      *)
(***************************************************************************)
OnS == pc = "smix1_S"
R == IF OnS THEN 1 ELSE prm.r

\* Variant: S is filled for S0 and S1 only.
Rows_two == IF OnS THEN Third ELSE prm.N

Rows == IF OnS THEN Sbytes \div 2 ELSE prm.N
s == 2 * R
Row(k) == Blocks((IF OnS THEN SBase + ctx.S0 ELSE VBase) + k * s, s)
X2 == Blocks(XYBase, s)        \* X of smix2, and the result of smix1
Y2 == Blocks(XYBase + s, s)    \* Y of smix2
Tmp == {XYBase + s}            \* the one block used to convert

(***************************************************************************)
(* An access: every block must lie in the region; a block that is read     *)
(* must have been written by this call, not by an earlier one; blocks used *)
(* as scratch lose their meaning; and what restrict keeps apart is apart.  *)
(***************************************************************************)
Access(reads, writes, scratch, apart) ==
  /\ written' = (written \cup writes) \ scratch
  /\ faults' = faults
       \cup (IF reads \cup writes \cup scratch \subseteq Blocks(0, region.aligned_size)
               THEN {} ELSE {"bounds"})
       \cup (IF reads \subseteq written THEN {} ELSE {"stale"})
       \cup (IF apart THEN {} ELSE {"alias"})

(***************************************************************************)
(* PWXFORM looks up any entry of S0 and S1.  In version 1.0 it also writes *)
(* block w of both, advances w by 64 bytes, and passes the three on: S2    *)
(* becomes S1, S1 becomes S0, S0 becomes the old S2.  PWXFORM(k) is the    *)
(* context after k times.                                                  *)
(***************************************************************************)
PWXFORM(k) ==
  LET old(p) == CASE p % 3 = 0 -> ctx.S0 [] p % 3 = 1 -> ctx.S1 [] OTHER -> ctx.S2
  IN  [S0 |-> old(2 * k), S1 |-> old(2 * k + 1), S2 |-> old(2 * k + 2),
       w |-> (ctx.w + k) % Third10]

UsesS(count) == ~ OnS /\ ~ IsOld /\ count > 0
SReads ==
  CASE OnS -> {}
    [] ~ OnS /\ IsOld -> Blocks(SBase + ctx.S0, Third) \cup Blocks(SBase + ctx.S1, Third)
    [] OTHER -> UNION {Blocks(SBase + ctx[p], Third) : p \in {"S0", "S1", "S2"}}
SWrites(count) ==
  IF UsesS(count)
    THEN UNION {{SBase + PWXFORM(k).S0 + PWXFORM(k).w,
                 SBase + PWXFORM(k).S1 + PWXFORM(k).w} : k \in 0 .. count - 1}
    ELSE {}
Pwx(count) == ctx' = IF UsesS(count) THEN PWXFORM(count) ELSE ctx

(***************************************************************************)
(* The blockmix functions: blockmix_xor mixes two rows into a third,       *)
(* blockmix_xor_save writes both of its rows.  Each returns integerify of  *)
(* its result and calls PWXFORM once for every block.                      *)
(***************************************************************************)
integerify == \E v \in Vals : j' = v

blockmix_xor(Bin1, Bin2, Bout) ==
  /\ Access(Bin1 \cup Bin2 \cup SReads, Bout \cup SWrites(s), {},
            (Bin1 \cup Bin2) \cap Bout = {})
  /\ Pwx(s)

blockmix_xor_save(Bin1out, Bin2) ==
  /\ Access(Bin1out \cup Bin2 \cup SReads, Bin1out \cup Bin2 \cup SWrites(s), {},
            Bin1out \cap Bin2 = {})
  /\ Pwx(s)

(***************************************************************************)
(* smix1 fills the rows.  The first three have no row to mix in: B is      *)
(* decoded into row 0 (version 1.0: its first two blocks, the rest of the  *)
(* row by blockmix), with the first block of row 1 as scratch.             *)
(***************************************************************************)
smix1_start(pass) ==
  LET loaded == IF IsOld THEN s ELSE 2
      calls == (IF IsOld THEN 0 ELSE 2 * (R - 1)) + 2 * s
  IN  /\ pc = pass /\ at = "start"
      /\ Access(Blocks(0, loaded) \cup SReads,
                Row(0) \cup Row(1) \cup Row(2) \cup SWrites(calls), {}, TRUE)
      /\ Pwx(calls)
      /\ x' = 2 /\ n' = 2 /\ i' = 1
      /\ integerify
      /\ at' = "loop"
      /\ UNCHANGED <<pc, vj, nloop>>

\* Variant: the last turn of the outer loop is not cut short.
Bound_uncut == n

\* The inner loop's bound, m.
Bound == IF n < Rows \div 2 THEN n ELSE Rows - 1 - n

\* One blockmix_xor of the inner loop: row V_j into X, giving the next row.
MixInto(row, next) ==
  /\ vj' = row
  /\ blockmix_xor(Row(x), Row(row), Row(x + 1))
  /\ integerify
  /\ x' = x + 1
  /\ at' = next
  /\ UNCHANGED <<pc, nloop>>

smix1_first(pass) ==
  /\ pc = pass /\ at = "loop" /\ n < Rows /\ i < Bound
  /\ MixInto((j % n) + i - 1, "second")
  /\ UNCHANGED <<n, i>>

\* Variant: the second call of a turn takes the row of the first.
smix1_second_behind(pass) ==
  /\ pc = pass /\ at = "second"
  /\ MixInto((j % n) + i - 1, "loop")
  /\ i' = i + 2
  /\ UNCHANGED n

smix1_second(pass) ==
  /\ pc = pass /\ at = "second"
  /\ MixInto((j % n) + i, "loop")
  /\ i' = i + 2
  /\ UNCHANGED n

smix1_double(pass) ==
  /\ pc = pass /\ at = "loop" /\ n < Rows /\ i >= Bound
  /\ n' = 2 * n /\ i' = 1
  /\ UNCHANGED <<pc, at, x, j, vj, nloop, ctx, written, faults>>

\* Variant: the division of n after the loop is lost.
smix1_last_undivided(pass) ==
  /\ pc = pass /\ at = "loop" /\ n >= Rows
  /\ n' = n
  /\ MixInto((j % n') + Rows - 2 - n', "out")
  /\ UNCHANGED i

smix1_last(pass) ==
  /\ pc = pass /\ at = "loop" /\ n >= Rows
  /\ n' = n \div 2
  /\ MixInto((j % n') + Rows - 2 - n', "out")
  /\ UNCHANGED i

\* The result goes to XY and, encoded through the block behind it, to B.
smix1_out(pass, next) ==
  LET row == (j % n) + Rows - 1 - n
  IN  /\ pc = pass /\ at = "out"
      /\ vj' = row
      /\ Access(Row(x) \cup Row(row) \cup SReads, X2 \cup Blocks(0, s) \cup SWrites(s),
                Tmp, (Row(x) \cup Row(row)) \cap X2 = {})
      /\ Pwx(s)
      /\ pc' = next /\ at' = "start"
      /\ UNCHANGED <<x, n, i, j, nloop>>

smix1(pass, next) ==
  \/ smix1_start(pass) \/ smix1_first(pass) \/ smix1_second(pass)
  \/ smix1_double(pass) \/ smix1_last(pass) \/ smix1_out(pass, next)

(***************************************************************************)
(* smix2 mixes rows of V into X and writes them back, two at a time; the   *)
(* short call of version 0.5 leaves V as it is and uses Y for the row in   *)
(* between.                                                                *)
(***************************************************************************)
smix2_start(pass, count) ==
  /\ pc = pass /\ at = "start"
  /\ Access(Blocks(0, B_size), X2, Tmp, TRUE)
  /\ \E v \in Vals : j' = v % prm.N
  /\ nloop' = count
  /\ at' = IF IsOld /\ count <= 2 THEN "read_first" ELSE "first"
  /\ x' = 0 /\ n' = 0 /\ i' = 0 /\ vj' = 0    \* locals of smix1
  /\ UNCHANGED <<pc, ctx>>

smix2_mix(pass) ==
  /\ pc = pass
  /\ \/ /\ at = "first" /\ at' = "second"
        /\ UNCHANGED nloop
     \/ /\ at = "second"
        /\ nloop' = (nloop + UintLimit - 2) % UintLimit
        /\ at' = IF nloop' # 0 THEN "first" ELSE "store"
  /\ blockmix_xor_save(X2, Row(j))
  /\ \E v \in Vals : j' = v % prm.N
  /\ UNCHANGED <<pc, x, n, i, vj>>

smix2_read(pass) ==
  /\ pc = pass
  /\ \/ at = "read_first" /\ at' = "read_second" /\ blockmix_xor(X2, Row(j), Y2)
     \/ at = "read_second" /\ at' = "store" /\ blockmix_xor(Y2, Row(j), X2)
  /\ \E v \in Vals : j' = v % prm.N
  /\ UNCHANGED <<pc, x, n, i, vj, nloop>>

smix2_store(pass, next) ==
  /\ pc = pass /\ at = "store"
  /\ Access(X2, Blocks(0, B_size), Tmp, TRUE)
  /\ pc' = next /\ at' = "start"
  /\ j' = 0 /\ nloop' = 0
  /\ UNCHANGED <<x, n, i, vj, ctx>>

smix2(pass, count, next) ==
  \/ smix2_start(pass, count) \/ smix2_mix(pass)
  \/ smix2_read(pass) \/ smix2_store(pass, next)

(***************************************************************************)
(* smix: how often smix2 mixes, and which calls it makes.                  *)
(***************************************************************************)
EvenDown(k) == (k \div 2) * 2
\* Variant: Nloop is made odd.
EvenUp_odd(k) == EvenDown(k) + 1

EvenUp(k) == EvenDown(k + 1)
Loops == (prm.N + 2) \div 3
Nloop_all == EvenUp(Loops)
Nloop_rw == IF IsOld THEN EvenDown(Loops) ELSE EvenUp(Loops)

smix ==
  \/ smix1("smix1_S", "smix1")
  \/ smix1("smix1", "smix2")
  \/ smix2("smix2", Nloop_rw,
           IF IsOld /\ Nloop_all > Nloop_rw THEN "smix2_ro" ELSE "final")
  \/ smix2("smix2_ro", 2, "final")
=============================================================================
