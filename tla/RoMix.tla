------------------------------- MODULE RoMix -------------------------------
(***************************************************************************)
(* The first loop of SMix as yescrypt defines it: row k + 1 is mixed from  *)
(* row k and, from k = 2 on, one row before it, picked by Wrap; after the  *)
(* last row, the result is made the same way.  smix1 unrolls this loop by  *)
(* powers of two and two rows at a time.                                   *)
(***************************************************************************)
EXTENDS Naturals

CONSTANTS
  Sizes,  \* numbers of rows asked for
  Vals    \* what integerify may return

VARIABLES
  size,   \* rows to fill, 0 between two runs
  top,    \* the last row filled
  val,    \* integerify of that row
  mixed   \* the row mixed in last

vars == <<size, top, val, mixed>>

\* The largest power of two that is not above k (N is at most 2^19).
P2(k) == CHOOSE p \in {2 ^ e : e \in 0 .. 19} : p <= k /\ k < 2 * p

Wrap(v, k) == (v % P2(k)) + k - P2(k)

Init == size = 0 /\ top = 0 /\ val = 0 /\ mixed = 0

Begin(rows) ==
  /\ size = 0
  /\ size' = rows /\ top' = 2 /\ val' \in Vals
  /\ UNCHANGED mixed

Fill ==
  /\ top < size - 1
  /\ mixed' = Wrap(val, top)
  /\ top' = top + 1 /\ val' \in Vals
  /\ UNCHANGED size

Finish ==
  /\ size > 0 /\ top = size - 1
  /\ mixed' = Wrap(val, top)
  /\ size' = 0 /\ top' = 0 /\ val' = 0

Forget == size = 0 /\ mixed' = 0 /\ UNCHANGED <<size, top, val>>

Next == Fill \/ Finish \/ Forget \/ \E rows \in Sizes : Begin(rows)

Spec == Init /\ [][Next]_vars
=============================================================================
