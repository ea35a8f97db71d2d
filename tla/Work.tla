-------------------------------- MODULE Work --------------------------------
(***************************************************************************)
(* The arithmetic of mineJob (main.go): the targets it compares a hash     *)
(* with, and the Merkle root it puts into the header.  Numbers are smaller *)
(* here: a hash has Digits digits in base Base, 32 bytes in the code.  A   *)
(* difficulty is a fraction <<p, q>>; its product with Unit is exact.      *)
(* Transactions and digests are terms.                                     *)
(***************************************************************************)
EXTENDS Integers, Sequences, FiniteSetsExt

CONSTANTS
  Base, Digits,    \* 256 and 32
  Diff1,           \* poolDiff1
  Unit,            \* 1e9
  WordLimit,       \* 2^64
  Conversions,     \* what a float from there on is converted to: 2^63, 2^64 - 1
  Difficulties,    \* what the pool may ask for, as fractions
  NetTargets,      \* what the network may ask for
  MaxTxs           \* bound: transactions of a block

\* Base to the power of n.
Power[n \in Nat] == IF n = 0 THEN 1 ELSE Base * Power[n - 1]

\* The bit of the sign is half of a digit.
ASSUME WorkAssumption ==
  /\ Base \in Nat \ {0} /\ Base % 2 = 0 /\ Digits \in Nat /\ Diff1 \in Nat \ {0}
  /\ Unit \in Nat \ {0} /\ WordLimit \in Nat /\ WordLimit >= Unit
  /\ Conversions \subseteq 0 .. WordLimit - 1
  /\ Difficulties \subseteq Int \X (Nat \ {0}) /\ NetTargets \subseteq 0 .. Power[Digits] - 1
  /\ MaxTxs \in Nat

VARIABLES
  difficulty, netTarget, txs,       \* what pool and network ask for
  shareTarget, compactTarget, root, \* what mineJob makes of it
  digits, submitted, found          \* the last hash, and what became of it

targetVars == <<difficulty, netTarget, txs, shareTarget, compactTarget, root, digits,
                submitted, found>>

(***************************************************************************)
(* The target of a share.  A float beyond the range of uint64 becomes      *)
(* whatever the machine's conversion makes of it.                          *)
(***************************************************************************)
Scaled(d) == (d[1] * Unit) \div d[2]

\* Variant: the units are rounded up.
IntDiff_up(d, converted) ==
  LET e == IF d[1] <= 0 THEN <<1, 1>> ELSE d
      k == Scaled(e) + 1
  IN  IF k >= WordLimit THEN converted ELSE k

IntDiff(d, converted) ==
  LET e == IF d[1] <= 0 THEN <<1, 1>> ELSE d
      k == Scaled(e)
  IN  IF k >= WordLimit THEN converted ELSE k

TargetForDifficulty(d, converted) ==
  LET units  == IF IntDiff(d, converted) = 0 THEN Unit ELSE IntDiff(d, converted)
      target == (Diff1 * Unit) \div units
  IN  IF target = 0 THEN 1 ELSE target

(***************************************************************************)
(* The target of a block, in compact form: the number of its digits, a     *)
(* sign, and the three digits in front.                                    *)
(***************************************************************************)
Mantissa == Power[3]
SignBit == Mantissa \div 2

\* Variant: small numbers are not shifted back.
CompactToBig_small(compact) ==
  LET size == compact \div Mantissa
      word == compact % SignBit
  IN  IF size <= 3 THEN word ELSE word * Power[size - 3]

CompactToBig(compact) ==
  LET size == compact \div Mantissa
      word == compact % SignBit
      big  == IF size <= 3 THEN word \div Power[3 - size] ELSE word * Power[size - 3]
  IN  IF (compact \div SignBit) % 2 = 1 THEN -big ELSE big

\* The node (external) writes a target with as few digits as it takes, and
\* one more if the first would look like a sign.
Compact(target) ==
  LET size == Min({n \in 0 .. Digits : target < Power[n]})
      word == IF size <= 3 THEN target * Power[3 - size]
                           ELSE target \div Power[size - 3]
  IN  IF word >= SignBit THEN (size + 1) * Mantissa + word \div Base
                         ELSE size * Mantissa + word

(***************************************************************************)
(* A hash is a number with its low digit first.                            *)
(***************************************************************************)
HashToBig(hash) ==
  LET sum[k \in 0 .. Len(hash)] ==
        IF k = 0 THEN 0 ELSE sum[k - 1] * Base + hash[Len(hash) + 1 - k]
  IN  sum[Len(hash)]

HashMeetsTarget(hash, target) == HashToBig(hash) <= target

(***************************************************************************)
(* The Merkle root.  The pool (external) sends, for every level of the     *)
(* tree, the node next to the one the coinbase is under.                   *)
(***************************************************************************)
DoubleHash(left, right) == <<left, right>>

\* Variant: the branch goes in front.
calculateMerkleRoot_front(coinbase, branches) ==
  LET hash[k \in 0 .. Len(branches)] ==
        IF k = 0 THEN coinbase ELSE DoubleHash(branches[k], hash[k - 1])
  IN  hash[Len(branches)]

calculateMerkleRoot(coinbase, branches) ==
  LET hash[k \in 0 .. Len(branches)] ==
        IF k = 0 THEN coinbase ELSE DoubleHash(hash[k - 1], branches[k])
  IN  hash[Len(branches)]

\* The level above: pairs, the last one with itself if it is left alone.
Pairs(level) ==
  [k \in 1 .. (Len(level) + 1) \div 2 |->
     DoubleHash(level[2 * k - 1], level[Min({2 * k, Len(level)})])]

Levels(leaves) ==
  LET level[k \in 0 .. Len(leaves)] ==
        IF k = 0 THEN leaves
        ELSE IF Len(level[k - 1]) = 1 THEN level[k - 1] ELSE Pairs(level[k - 1])
  IN  level

Leaves(n) == [k \in 1 .. n |-> <<k>>]

Branches(n) ==
  LET levels == Levels(Leaves(n))
      depth  == Min({k \in 0 .. n : Len(levels[k]) = 1})
  IN  [k \in 1 .. depth |-> levels[k - 1][2]]

-----------------------------------------------------------------------------
TargetInit ==
  /\ difficulty \in Difficulties /\ netTarget \in NetTargets /\ txs \in 1 .. MaxTxs
  /\ shareTarget = 0 /\ compactTarget = 0 /\ root = <<>>
  /\ digits = <<>> /\ submitted = FALSE /\ found = FALSE

\* mineJob prepares a job,
mineJob ==
  /\ root = <<>>
  /\ \E converted \in Conversions :
       shareTarget' = TargetForDifficulty(difficulty, converted)
  /\ compactTarget' = CompactToBig(Compact(netTarget))
  /\ root' = calculateMerkleRoot(<<1>>, Branches(txs))
  /\ UNCHANGED <<difficulty, netTarget, txs, digits, submitted, found>>

\* and judges a hash, each for itself: a block is one of the shares.
Judge ==
  /\ root # <<>> /\ digits = <<>>
  /\ digits' \in [1 .. Digits -> 0 .. Base - 1]
  /\ submitted' = HashMeetsTarget(digits', shareTarget)
  /\ found' = (HashMeetsTarget(digits', shareTarget) /\ HashMeetsTarget(digits', compactTarget))
  /\ UNCHANGED <<difficulty, netTarget, txs, shareTarget, compactTarget, root>>

TargetNext == mineJob \/ Judge

TargetSpec == TargetInit /\ [][TargetNext]_targetVars

-----------------------------------------------------------------------------
\* A pool counts a hash as a share if hash * difficulty <= Diff1.
Accepts(hash) == HashToBig(hash) * difficulty[1] <= Diff1 * difficulty[2]

\* A number of units that fits 64 bits.
Whole == (difficulty[1] * Unit) % difficulty[2] = 0 /\ Scaled(difficulty) < WordLimit

\* The miner drops no share its pool would accept, whatever the difficulty
\* from one unit (1e-9) on, and submits no other when the difficulty is whole,
\* but for a hash of 0 or 1
\* (main.go:816-832: two divisions that both round down).
SharesJudged ==
  digits # <<>> /\ difficulty[1] * Unit >= difficulty[2] =>
    /\ Accepts(digits) => submitted
    /\ submitted /\ Whole /\ HashToBig(digits) > 1 => Accepts(digits)

\* A block counts as found only if the network accepts its hash, and every
\* share counts that meets the target, where that needs three digits only
\* (main.go:801-814: compact targets are cut, and look negative when their
\* first digit is large).
Fits(target) ==
  \E k \in 0 .. Digits : target % Power[k] = 0 /\ target \div Power[k] < SignBit

BlocksJudged ==
  digits # <<>> =>
    /\ found => HashToBig(digits) <= netTarget
    /\ submitted /\ HashToBig(digits) <= netTarget /\ Fits(netTarget) => found

\* The root in the header is that of the Merkle tree of all transactions,
\* whatever their number, though the miner knows the coinbase and one branch
\* only (main.go:757-764).
MerkleMatches == root # <<>> => root = Levels(Leaves(txs))[txs][1]
=============================================================================
