----------------------------- MODULE WorkProofs -----------------------------
(***************************************************************************)
(* The numbers the miner works with, for any base of the digits, any       *)
(* number of transactions and any pool difficulty and network target:      *)
(*   - the target of a share is rounded so that it is never below what the *)
(*     pool accepts, and exact when the difficulty is a number of units;   *)
(*   - a hash is sent as a share, or as a block, exactly when its number   *)
(*     is within the target that holds for it, the block's target being    *)
(*     read back from the compact form, which drops digits;                *)
(*   - the Merkle root the miner computes from the branches the pool sends *)
(*     is the root of the tree over all transactions.                      *)
(* Powers, hash numbers and Merkle levels are recursive functions; what    *)
(* they compute is proved by induction over the set of the numbers for     *)
(* which it holds.                                                         *)
(***************************************************************************)
EXTENDS Work, NaturalsInduction, WellFoundedInduction, TLAPS

LEMMA Quotient ==
  ASSUME NEW a \in Nat, NEW b \in Nat \ {0}
  PROVE  /\ a \div b \in Nat
         /\ (a \div b) * b <= a
         /\ a < (a \div b) * b + b
  OBVIOUS

LEMMA Cancel ==
  ASSUME NEW m \in Int, NEW n \in Int, NEW b \in Nat \ {0}, m * b < n * b
  PROVE  m < n
  OBVIOUS

LEMMA CancelLeq ==
  ASSUME NEW m \in Int, NEW n \in Int, NEW b \in Nat \ {0}, m * b <= n * b
  PROVE  m <= n
  OBVIOUS

LEMMA Largest ==
  ASSUME NEW a \in Nat, NEW b \in Nat \ {0}, NEW h \in Nat, h * b <= a
  PROVE  h <= a \div b
<1> DEFINE k == a \div b
<1>1. k \in Nat /\ a < k * b + b
  BY Quotient
<1> HIDE DEF k
<1>2. h * b < (k + 1) * b
  BY <1>1
<1>3. h < k + 1
  BY <1>1, <1>2, Cancel
<1> QED
  BY <1>1, <1>3 DEF k

LEMMA Monotone ==
  ASSUME NEW h \in Nat, NEW m \in Nat, NEW n \in Nat, m <= n
  PROVE  h * m <= h * n
  OBVIOUS

LEMMA Units ==
  ASSUME NEW p \in Int, NEW q \in Nat \ {0}, p * Unit >= q
  PROVE  /\ p \in Nat \ {0}
         /\ Scaled(<<p, q>>) \in Nat \ {0}
         /\ Scaled(<<p, q>>) * q <= p * Unit
<1> USE WorkAssumption
<1>1. p > 0
  <2>1. ASSUME p <= 0 PROVE FALSE
    <3>1. p * Unit <= 0 * Unit
      BY <2>1, Monotone
    <3> QED
      BY <3>1
  <2> QED
    BY <2>1
<1> DEFINE k == (p * Unit) \div q
<1>2. p * Unit \in Nat
  BY <1>1
<1>3. k \in Nat /\ k * q <= p * Unit /\ p * Unit < k * q + q
  BY <1>2, Quotient
<1>4. k # 0
  BY <1>3
<1> QED
  BY <1>1, <1>3, <1>4 DEF Scaled

-----------------------------------------------------------------------------
\* A hash that the pool accepts meets the target, for any difficulty of a unit
\* or more and whatever a number of units too large is converted to: the first
\* half of SharesJudged.
THEOREM NoShareDropped ==
  \A p \in Int, q \in Nat \ {0}, c \in 0 .. WordLimit - 1, h \in Nat :
    p * Unit >= q /\ h * p <= Diff1 * q => h <= TargetForDifficulty(<<p, q>>, c)
<1> SUFFICES ASSUME NEW p \in Int, NEW q \in Nat \ {0}, NEW c \in 0 .. WordLimit - 1,
                    NEW h \in Nat, p * Unit >= q, h * p <= Diff1 * q
             PROVE  h <= TargetForDifficulty(<<p, q>>, c)
  OBVIOUS
<1> USE WorkAssumption
<1> DEFINE k == Scaled(<<p, q>>)
           u == IntDiff(<<p, q>>, c)
           units == IF u = 0 THEN Unit ELSE u
<1>1. p \in Nat \ {0} /\ k \in Nat \ {0} /\ k * q <= p * Unit
  BY Units
<1> HIDE DEF k
<1>2. h * k <= Diff1 * Unit
  <2>1. h * (k * q) <= h * (p * Unit)
    BY <1>1, Monotone
  <2>2. (h * p) * Unit <= (Diff1 * q) * Unit
    <3>1. Unit * (h * p) <= Unit * (Diff1 * q)
      BY <1>1, Monotone
    <3> QED
      BY <1>1, <3>1
  <2>3. (h * k) * q <= (Diff1 * Unit) * q
    BY <1>1, <2>1, <2>2
  <2> QED
    BY <1>1, <2>3, CancelLeq
<1>3. u \in Nat /\ u <= k /\ (u = 0 => Unit <= k)
  <2>1. u = IF k >= WordLimit THEN c ELSE k
    BY <1>1 DEF IntDiff, k
  <2> QED
    BY <1>1, <2>1
<1> HIDE DEF u
<1>4. units \in Nat \ {0} /\ units <= k
  BY <1>1, <1>3
<1> HIDE DEF units
<1>5. h * units <= Diff1 * Unit
  <2>1. h * units <= h * k
    BY <1>1, <1>4, Monotone
  <2> QED
    BY <1>1, <1>2, <1>4, <2>1
<1>6. h <= (Diff1 * Unit) \div units
  BY <1>4, <1>5, Largest
<1>7. TargetForDifficulty(<<p, q>>, c) = IF (Diff1 * Unit) \div units = 0
                                         THEN 1 ELSE (Diff1 * Unit) \div units
  BY DEF TargetForDifficulty, units, u
<1>8. (Diff1 * Unit) \div units \in Nat
  BY <1>4, Quotient
<1> QED
  BY <1>6, <1>7, <1>8

\* A hash above 1 that meets the target is one that the pool accepts, if the
\* difficulty is a number of units that fits: the second half of SharesJudged.
THEOREM NoShareRefused ==
  \A p \in Int, q \in Nat \ {0}, c \in 0 .. WordLimit - 1, h \in Nat :
    /\ p * Unit >= q /\ (p * Unit) % q = 0 /\ Scaled(<<p, q>>) < WordLimit
    /\ 1 < h /\ h <= TargetForDifficulty(<<p, q>>, c)
    => h * p <= Diff1 * q
<1> SUFFICES ASSUME NEW p \in Int, NEW q \in Nat \ {0}, NEW c \in 0 .. WordLimit - 1,
                    NEW h \in Nat,
                    p * Unit >= q, (p * Unit) % q = 0, Scaled(<<p, q>>) < WordLimit,
                    1 < h, h <= TargetForDifficulty(<<p, q>>, c)
             PROVE  h * p <= Diff1 * q
  OBVIOUS
<1> USE WorkAssumption
<1> DEFINE k == Scaled(<<p, q>>)
<1>1. p \in Nat \ {0} /\ k \in Nat \ {0}
  BY Units
<1>2. k * q = p * Unit
  <2>1. \A a \in Nat, b \in Nat \ {0} : a % b = 0 => (a \div b) * b = a
    OBVIOUS
  <2>2. p * Unit \in Nat
    BY <1>1
  <2> QED
    BY <2>1, <2>2 DEF Scaled
<1>3. TargetForDifficulty(<<p, q>>, c) = IF (Diff1 * Unit) \div k = 0
                                         THEN 1 ELSE (Diff1 * Unit) \div k
  <2>1. IntDiff(<<p, q>>, c) = k
    BY <1>1 DEF IntDiff
  <2> QED
    BY <1>1, <2>1 DEF TargetForDifficulty
<1> HIDE DEF k
<1>4. h <= (Diff1 * Unit) \div k
  BY <1>3
<1>5. h * k <= Diff1 * Unit
  <2> DEFINE t == (Diff1 * Unit) \div k
  <2>1. t \in Nat /\ t * k <= Diff1 * Unit
    BY <1>1, Quotient
  <2>2. k * h <= k * t
    BY <1>1, <1>4, <2>1, Monotone
  <2> HIDE DEF t
  <2> QED
    BY <1>1, <2>1, <2>2
<1>6. q * (h * k) <= q * (Diff1 * Unit)
  BY <1>1, <1>5, Monotone
<1>7. (h * p) * Unit <= (Diff1 * q) * Unit
  BY <1>1, <1>2, <1>6
<1> QED
  BY <1>1, <1>7, CancelLeq

-----------------------------------------------------------------------------
(***************************************************************************)
(* Recursive definitions.  That such a function exists, and what it is, is *)
(* proved by induction: a set of numbers that contains 0 and each          *)
(* successor contains them all.                                            *)
(***************************************************************************)
LEMMA Least ==
  ASSUME NEW T \in SUBSET Nat, T # {}
  PROVE  \E m \in T : \A k \in T : m <= k
<1> DEFINE LT == OpToRel(<, Nat)
<1>1. IsWellFoundedOn(LT, Nat)
  BY NatLessThanWellFounded
<1>2. \A a, b \in Nat : a < b => <<a, b>> \in LT
  BY DEF OpToRel
<1> HIDE DEF LT
<1>3. \E m \in T : \A k \in T : ~ (<<k, m>> \in LT)
  BY <1>1, WFMin
<1>4. PICK m \in T : \A k \in T : ~ (<<k, m>> \in LT)
  BY <1>3
<1>5. ASSUME NEW k \in T PROVE m <= k
  <2>1. k \in Nat /\ m \in Nat
    OBVIOUS
  <2>2. ~ (k < m)
    BY <1>2, <1>4, <2>1, Zenon
  <2> QED
    BY <2>1, <2>2
<1> QED
  BY <1>4, <1>5

LEMMA Induction ==
  ASSUME NEW S, 0 \in S, \A k \in Nat : k \in S => k + 1 \in S
  PROVE  \A n \in Nat : n \in S
<1> SUFFICES ASSUME NEW n \in Nat, n \notin S PROVE FALSE
  OBVIOUS
<1> DEFINE T == {k \in Nat : k \notin S}
<1>1. PICK m \in T : \A k \in T : m <= k
  <2>1. T \in SUBSET Nat /\ T # {}
    OBVIOUS
  <2> HIDE DEF T
  <2> QED
    BY <2>1, Least
<1>2. m # 0 /\ m - 1 \in Nat /\ m - 1 \in S
  <2>1. m # 0 /\ m - 1 \in Nat
    OBVIOUS
  <2>2. m - 1 \notin T
    BY <1>1, <2>1
  <2> QED
    BY <2>1, <2>2
<1> QED
  BY <1>2

\* Value k of the powers.
PowerStep(f, k) == IF k = 0 THEN 1 ELSE Base * f[k - 1]

LEMMA FinitePowers == \A n \in Nat : \E f : f = [k \in 0..n |-> PowerStep(f, k)]
<1> DEFINE S == {n \in Nat : \E f : f = [k \in 0..n |-> PowerStep(f, k)]}
<1>1. 0 \in S
  <2> DEFINE f == [k \in 0..0 |-> 1]
  <2>1. f = [k \in 0..0 |-> PowerStep(f, k)]
    BY DEF PowerStep
  <2> QED
    BY <2>1
<1>2. ASSUME NEW n \in Nat, n \in S PROVE n + 1 \in S
  <2>1. PICK f : f = [k \in 0..n |-> PowerStep(f, k)]
    BY <1>2
  <2> DEFINE g == [k \in 0..n + 1 |-> IF k = n + 1 THEN PowerStep(f, k) ELSE f[k]]
  <2>2. \A k \in 0..n + 1 : PowerStep(g, k) = PowerStep(f, k)
    <3>1. \A k \in 1..n + 1 : k - 1 \in 0..n + 1 /\ k - 1 # n + 1
      OBVIOUS
    <3>2. \A k \in 1..n + 1 : g[k - 1] = f[k - 1]
      BY <3>1
    <3> HIDE DEF g
    <3> QED
      BY <3>2 DEF PowerStep
  <2>3. \A k \in 0..n : f[k] = PowerStep(f, k)
    BY <2>1
  <2>4. \A k \in 0..n + 1 : k = n + 1 \/ k \in 0..n
    OBVIOUS
  <2>5. \A k \in 0..n + 1 : g[k] = PowerStep(f, k)
    <3>1. \A k \in 0..n + 1 : g[k] = IF k = n + 1 THEN PowerStep(f, k) ELSE f[k]
      OBVIOUS
    <3> HIDE DEF g
    <3> QED
      BY <2>3, <2>4, <3>1
  <2>6. g = [k \in 0..n + 1 |-> PowerStep(g, k)]
    <3>1. g = [k \in 0..n + 1 |-> g[k]]
      OBVIOUS
    <3> HIDE DEF g
    <3> QED
      BY <2>2, <2>5, <3>1
  <2> HIDE DEF g
  <2> QED
    BY <2>6
<1>3. \A n \in Nat : n \in S
  <2> HIDE DEF S
  <2> QED
    BY <1>1, <1>2, Induction
<1> QED
  BY <1>3

\* The powers up to n, for each n, are the beginning of the powers.
LEMMA PowersExist == \E f : f = [n \in Nat |-> PowerStep(f, n)]
<1> DEFINE F(n) == CHOOSE f : f = [k \in 0..n |-> PowerStep(f, k)]
           S == {k \in Nat : \A m \in Nat, n \in Nat : k <= m /\ k <= n => F(m)[k] = F(n)[k]}
<1>1. \A n \in Nat : F(n) = [k \in 0..n |-> PowerStep(F(n), k)]
  BY FinitePowers, Zenon
<1> HIDE DEF F
<1>2. \A n \in Nat : \A k \in 0..n : F(n)[k] = PowerStep(F(n), k)
  BY <1>1
<1>3. 0 \in S
  <2>1. \A n \in Nat : 0 \in 0..n
    OBVIOUS
  <2>2. \A n \in Nat : F(n)[0] = 1
    BY <1>2, <2>1 DEF PowerStep
  <2> QED
    BY <2>2
<1>4. ASSUME NEW k \in Nat, k \in S PROVE k + 1 \in S
  <2> SUFFICES ASSUME NEW m \in Nat, NEW n \in Nat, k + 1 <= m, k + 1 <= n
               PROVE  F(m)[k + 1] = F(n)[k + 1]
    OBVIOUS
  <2>1. k + 1 \in 0..m /\ k + 1 \in 0..n /\ k <= m /\ k <= n /\ k + 1 # 0 /\ (k + 1) - 1 = k
    OBVIOUS
  <2>2. F(m)[k] = F(n)[k]
    BY <1>4, <2>1
  <2>3. F(m)[k + 1] = Base * F(m)[k] /\ F(n)[k + 1] = Base * F(n)[k]
    BY <1>2, <2>1 DEF PowerStep
  <2> QED
    BY <2>2, <2>3
<1>5. \A k \in Nat : k \in S
  <2> HIDE DEF S
  <2> QED
    BY <1>3, <1>4, Induction
<1> DEFINE g == [n \in Nat |-> F(n)[n]]
<1>6. \A n \in Nat : F(n)[n] = PowerStep(g, n)
  <2> TAKE n \in Nat
  <2>1. n \in 0..n
    OBVIOUS
  <2>2. F(n)[n] = PowerStep(F(n), n)
    BY <1>2, <2>1
  <2>3. n # 0 => F(n)[n - 1] = g[n - 1]
    <3> SUFFICES ASSUME n # 0 PROVE F(n)[n - 1] = g[n - 1]
      OBVIOUS
    <3>1. n - 1 \in Nat /\ n - 1 <= n /\ n - 1 <= n - 1
      OBVIOUS
    <3>2. F(n)[n - 1] = F(n - 1)[n - 1]
      BY <1>5, <3>1
    <3> QED
      BY <3>1, <3>2
  <2> HIDE DEF g
  <2> QED
    BY <2>2, <2>3 DEF PowerStep
<1>7. g = [n \in Nat |-> PowerStep(g, n)]
  <2>1. g = [n \in Nat |-> F(n)[n]]
    OBVIOUS
  <2> HIDE DEF g
  <2> QED
    BY <1>6, <2>1
<1> HIDE DEF g
<1> QED
  BY <1>7

LEMMA Powers ==
  /\ Base \in Nat /\ Base >= 2
  /\ Power[0] = 1
  /\ \A n \in Nat : Power[n] \in Nat \ {0} /\ Power[n + 1] = Base * Power[n]
<1>0. Base \in Nat /\ Base >= 2
  BY WorkAssumption
<1>1. Power = CHOOSE f : f = [n \in Nat |-> IF n = 0 THEN 1 ELSE Base * f[n - 1]]
  BY DEF Power
<1>2. \E f : f = [n \in Nat |-> IF n = 0 THEN 1 ELSE Base * f[n - 1]]
  BY PowersExist DEF PowerStep
<1>3. Power = [n \in Nat |-> IF n = 0 THEN 1 ELSE Base * Power[n - 1]]
  BY <1>1, <1>2, Zenon
<1>4. Power[0] = 1 /\ \A n \in Nat : Power[n + 1] = Base * Power[n]
  <2>1. \A n \in Nat : Power[n] = IF n = 0 THEN 1 ELSE Base * Power[n - 1]
    BY <1>3
  <2>2. \A n \in Nat : n + 1 \in Nat /\ n + 1 # 0 /\ (n + 1) - 1 = n
    OBVIOUS
  <2>3. Power[0] = 1
    BY <2>1
  <2>4. \A n \in Nat : Power[n + 1] = Base * Power[(n + 1) - 1]
    BY <2>1, <2>2
  <2> QED
    BY <2>2, <2>3, <2>4
<1> DEFINE S == {n \in Nat : Power[n] \in Nat \ {0}}
<1>5. 0 \in S
  BY <1>4
<1>6. ASSUME NEW n \in Nat, n \in S PROVE n + 1 \in S
  <2>1. Power[n] \in Nat \ {0} /\ Power[n + 1] = Base * Power[n]
    BY <1>4, <1>6
  <2>2. \A a \in Nat \ {0} : Base * a \in Nat \ {0}
    BY <1>0
  <2> QED
    BY <2>1, <2>2
<1>7. \A n \in Nat : n \in S
  <2> HIDE DEF S
  <2> QED
    BY <1>5, <1>6, Induction
<1> QED
  BY <1>0, <1>4, <1>7

LEMMA PowerAdd ==
  ASSUME NEW m \in Nat, NEW n \in Nat
  PROVE  Power[m + n] = Power[m] * Power[n]
<1> DEFINE S == {k \in Nat : Power[k + n] = Power[k] * Power[n]}
<1>1. 0 \in S
  BY Powers
<1>2. ASSUME NEW k \in Nat, k \in S PROVE k + 1 \in S
  <2>1. k + n \in Nat /\ (k + 1) + n = (k + n) + 1
    OBVIOUS
  <2>2. /\ Power[(k + 1) + n] = Base * (Power[k] * Power[n])
        /\ Power[k + 1] = Base * Power[k]
    BY <1>2, <2>1, Powers
  <2>3. Power[k] \in Nat /\ Power[n] \in Nat /\ Base \in Nat
    BY Powers
  <2>4. \A a, b, c \in Nat : a * (b * c) = (a * b) * c
    OBVIOUS
  <2> QED
    BY <2>2, <2>3, <2>4
<1>3. \A k \in Nat : k \in S
  <2> HIDE DEF S
  <2> QED
    BY <1>1, <1>2, Induction
<1> QED
  BY <1>3

LEMMA PowerGrows ==
  ASSUME NEW m \in Nat, NEW n \in Nat, m <= n
  PROVE  /\ n - m \in Nat /\ Power[n] = Power[n - m] * Power[m]
         /\ Power[m] <= Power[n]
<1>1. n - m \in Nat /\ n = (n - m) + m
  OBVIOUS
<1>2. Power[n] = Power[n - m] * Power[m]
  BY <1>1, PowerAdd
<1>3. Power[n - m] \in Nat \ {0} /\ Power[m] \in Nat
  BY <1>1, Powers
<1>4. \A a \in Nat \ {0}, b \in Nat : b <= a * b
  OBVIOUS
<1> QED
  BY <1>1, <1>2, <1>3, <1>4

-----------------------------------------------------------------------------
(***************************************************************************)
(* Compact targets.  A target is written with its leading digits, so what  *)
(* is read back is the target without the digits behind them.              *)
(***************************************************************************)
LEMMA QuotientIs ==
  ASSUME NEW a \in Nat, NEW b \in Nat \ {0}, NEW q \in Nat, q * b <= a, a < q * b + b
  PROVE  a \div b = q
<1> DEFINE k == a \div b
<1>1. k \in Nat /\ k * b <= a /\ a < k * b + b
  BY Quotient
<1> HIDE DEF k
<1>2. k * b < (q + 1) * b /\ q * b < (k + 1) * b
  BY <1>1
<1>3. k < q + 1 /\ q < k + 1
  BY <1>1, <1>2, Cancel
<1> QED
  BY <1>1, <1>3 DEF k

LEMMA Remainder ==
  ASSUME NEW a \in Nat, NEW b \in Nat \ {0}
  PROVE  a % b = a - (a \div b) * b
  OBVIOUS

LEMMA Exact ==
  ASSUME NEW a \in Nat, NEW b \in Nat \ {0}
  PROVE  /\ (a * b) \div b = a /\ (a * b) % b = 0
         /\ a % b = 0 => (a \div b) * b = a
<1>1. a * b \in Nat /\ a * b <= a * b /\ a * b < a * b + b
  OBVIOUS
<1>2. (a * b) \div b = a
  BY <1>1, QuotientIs
<1>3. (a * b) % b = a * b - a * b
  BY <1>1, <1>2, Remainder
<1>4. a % b = 0 => (a \div b) * b = a
  <2>1. a % b = a - (a \div b) * b /\ (a \div b) * b \in Int
    BY Remainder, Quotient
  <2> QED
    BY <2>1
<1> QED
  BY <1>1, <1>2, <1>3, <1>4

LEMMA QuotientTwice ==
  ASSUME NEW a \in Nat, NEW b \in Nat \ {0}, NEW c \in Nat \ {0}
  PROVE  (a \div b) \div c = a \div (c * b)
<1> DEFINE k == a \div b
           l == k \div c
<1>1. k \in Nat /\ k * b <= a /\ a < k * b + b
  BY Quotient
<1> HIDE DEF k
<1>2. l \in Nat /\ l * c <= k /\ k < l * c + c
  BY <1>1, Quotient
<1> HIDE DEF l
<1>3. c * b \in Nat \ {0}
  OBVIOUS
<1>4. l * (c * b) <= a
  <2>1. b * (l * c) <= b * k
    BY <1>1, <1>2, Monotone
  <2> QED
    BY <1>1, <1>2, <2>1
<1>5. a < l * (c * b) + c * b
  <2>1. k + 1 <= l * c + c /\ k + 1 \in Nat /\ l * c + c \in Nat
    BY <1>1, <1>2
  <2>2. b * (k + 1) <= b * (l * c + c)
    BY <2>1, Monotone
  <2>3. b * (k + 1) = k * b + b /\ b * (l * c + c) = l * (c * b) + c * b
    BY <1>1, <1>2
  <2>4. k * b + b <= l * (c * b) + c * b
    BY <2>2, <2>3, Zenon
  <2>5. k * b + b \in Nat /\ l * (c * b) + c * b \in Nat
    BY <1>1, <1>2
  <2> QED
    BY <1>1, <2>4, <2>5
<1> QED
  BY <1>2, <1>3, <1>4, <1>5, QuotientIs DEF k, l

\* A smaller divisor gives no smaller quotient.
LEMMA QuotientShrinks ==
  ASSUME NEW a \in Nat, NEW b \in Nat \ {0}, NEW c \in Nat \ {0}, b <= c
  PROVE  a \div c <= a \div b
<1> DEFINE k == a \div c
<1>1. k \in Nat /\ k * c <= a
  BY Quotient
<1> HIDE DEF k
<1>2. k * b <= k * c
  BY <1>1, Monotone
<1>3. k * b <= a
  BY <1>1, <1>2
<1> QED
  BY <1>1, <1>3, Largest DEF k

-----------------------------------------------------------------------------
LEMMA Mantissas ==
  /\ Mantissa = Base * (Base * Base) /\ Mantissa = 2 * SignBit
  /\ SignBit \in Nat \ {0} /\ Mantissa \in Nat \ {0}
  /\ Base * Base <= SignBit
<1>1. Power[1] = Base /\ Power[2] = Base * Base /\ Power[3] = Base * (Base * Base)
  <2>1. Power[0 + 1] = Base * Power[0] /\ Power[1 + 1] = Base * Power[1]
        /\ Power[2 + 1] = Base * Power[2]
    BY Powers
  <2> QED
    BY <2>1, Powers
<1>2. PICK h \in Nat \ {0} : Base = 2 * h
  <2>1. Base \in Nat \ {0} /\ Base % 2 = 0
    BY WorkAssumption
  <2>2. \A b \in Nat \ {0} : b % 2 = 0 => b = 2 * (b \div 2) /\ b \div 2 \in Nat \ {0}
    OBVIOUS
  <2> QED
    BY <2>1, <2>2
<1> DEFINE s == h * (Base * Base)
<1>3. s \in Nat \ {0} /\ Base * Base <= s /\ Mantissa = s * 2
  <2>1. Base * Base \in Nat \ {0}
    BY <1>2
  <2>2. \A a \in Nat \ {0} : h * a \in Nat \ {0} /\ a <= h * a /\ (2 * h) * a = (h * a) * 2
    OBVIOUS
  <2>3. Mantissa = (2 * h) * (Base * Base)
    BY <1>1, <1>2 DEF Mantissa
  <2> QED
    BY <2>1, <2>2, <2>3
<1> HIDE DEF s
<1>4. SignBit = s
  BY <1>3, Exact DEF SignBit
<1> QED
  BY <1>1, <1>3, <1>4 DEF Mantissa

\* The number of digits and the digits in front, with no sign, are read back.
LEMMA ReadBack ==
  ASSUME NEW s \in Nat, NEW w \in Nat, w < SignBit
  PROVE  CompactToBig(s * Mantissa + w)
           = IF s <= 3 THEN w \div Power[3 - s] ELSE w * Power[s - 3]
<1> DEFINE c == s * Mantissa + w
<1>1. SignBit \in Nat \ {0} /\ Mantissa = 2 * SignBit
  BY Mantissas
<1>2. /\ c = (2 * s) * SignBit + w /\ 2 * s \in Nat
      /\ c \in Nat /\ (2 * s) * SignBit \in Nat
  BY <1>1
<1>3. c \div Mantissa = s
  <2>1. s * Mantissa <= c /\ c < s * Mantissa + Mantissa /\ Mantissa \in Nat \ {0}
    BY <1>1
  <2> HIDE DEF c
  <2> QED
    BY <1>2, <2>1, QuotientIs
<1> HIDE DEF c
<1>4. c \div SignBit = 2 * s
  <2>1. (2 * s) * SignBit <= c /\ c < (2 * s) * SignBit + SignBit
    BY <1>1, <1>2
  <2> QED
    BY <1>1, <1>2, <2>1, QuotientIs
<1>5. c % SignBit = w
  <2>1. c % SignBit = c - (2 * s) * SignBit
    BY <1>1, <1>2, <1>4, Remainder
  <2> QED
    BY <1>2, <2>1
<1>6. (c \div SignBit) % 2 # 1
  BY <1>4
<1> QED
  BY <1>3, <1>5, <1>6 DEF CompactToBig, c

\* The digits of a target that is not too large.
LEMMA Size ==
  ASSUME NEW t \in 0 .. Power[Digits] - 1
  PROVE  \E n \in 0 .. Digits :
           /\ n = Min({k \in 0 .. Digits : t < Power[k]})
           /\ t \in Nat /\ t < Power[n] /\ (n > 0 => Power[n - 1] <= t)
<1> DEFINE T == {k \in 0 .. Digits : t < Power[k]}
<1>0. Digits \in Nat /\ Power[Digits] \in Nat /\ t \in Nat
  <2>1. Digits \in Nat
    BY WorkAssumption
  <2>2. Power[Digits] \in Nat
    BY <2>1, Powers
  <2> QED
    BY <2>1, <2>2
<1>1. PICK m \in T : \A k \in T : m <= k
  <2>1. Digits \in T /\ T \in SUBSET Nat
    BY <1>0
  <2> HIDE DEF T
  <2> QED
    BY <2>1, Least
<1>2. Min(T) \in T /\ \A k \in T : Min(T) <= k
  <2> HIDE DEF T
  <2> QED
    BY <1>1 DEF Min
<1> DEFINE n == Min(T)
<1>3. n > 0 => Power[n - 1] <= t
  <2> SUFFICES ASSUME n > 0 PROVE Power[n - 1] <= t
    OBVIOUS
  <2> HIDE DEF n
  <2>1. n \in 0 .. Digits /\ \A k \in T : n <= k
    BY <1>2 DEF n
  <2>2. n - 1 \in 0 .. Digits /\ ~ (n <= n - 1) /\ n - 1 \in Nat
    BY <1>0, <2>1
  <2>3. ~ (t < Power[n - 1])
    BY <2>1, <2>2
  <2>4. Power[n - 1] \in Nat
    BY <2>2, Powers
  <2> QED
    BY <1>0, <2>3, <2>4
<1>4. n \in 0 .. Digits /\ t < Power[n]
  BY <1>2
<1> QED
  BY <1>0, <1>3, <1>4

\* A target that fits has no digits but zeros behind those that are kept.
LEMMA NothingCut ==
  ASSUME NEW t \in Nat, Fits(t), NEW j \in Nat,
         \A k \in 0 .. Digits : k < j => ~ (t \div Power[k] < SignBit)
  PROVE  (t \div Power[j]) * Power[j] = t
<1>1. PICK k \in 0 .. Digits : t % Power[k] = 0 /\ t \div Power[k] < SignBit
  BY DEF Fits
<1>2. k \in Nat /\ j <= k
  <2>1. k \in Nat
    BY WorkAssumption
  <2> QED
    BY <1>1, <2>1
<1>3. k - j \in Nat /\ Power[k] = Power[k - j] * Power[j]
  BY <1>2, PowerGrows
<1>4. Power[k] \in Nat \ {0} /\ Power[j] \in Nat \ {0} /\ Power[k - j] \in Nat \ {0}
  BY <1>2, <1>3, Powers
<1> DEFINE q == t \div Power[k]
<1>5. q \in Nat /\ q * Power[k] = t
  BY <1>1, <1>4, Exact, Quotient
<1> HIDE DEF q
<1>6. t = (q * Power[k - j]) * Power[j] /\ q * Power[k - j] \in Nat
  BY <1>3, <1>4, <1>5
<1>7. t % Power[j] = 0
  BY <1>4, <1>6, Exact
<1> QED
  BY <1>4, <1>7, Exact

LEMMA CompactValue ==
  ASSUME NEW t \in 0 .. Power[Digits] - 1
  PROVE  /\ CompactToBig(Compact(t)) \in Nat /\ CompactToBig(Compact(t)) <= t
         /\ Fits(t) => CompactToBig(Compact(t)) = t
<1>1. PICK n \in 0 .. Digits :
           /\ n = Min({k \in 0 .. Digits : t < Power[k]})
           /\ t \in Nat /\ t < Power[n] /\ (n > 0 => Power[n - 1] <= t)
  BY Size
<1>2. n \in Nat /\ Digits \in Nat
  BY WorkAssumption
<1> DEFINE word == IF n <= 3 THEN t * Power[3 - n] ELSE t \div Power[n - 3]
           value == CompactToBig(Compact(t))
<1>3. Compact(t) = IF word >= SignBit THEN (n + 1) * Mantissa + word \div Base
                                      ELSE n * Mantissa + word
  BY <1>1 DEF Compact
<1>4. SignBit \in Nat \ {0} /\ Mantissa = Base * (Base * Base) /\ Base * Base <= SignBit
      /\ Base \in Nat \ {0} /\ Mantissa = Power[3]
  BY Mantissas, Powers DEF Mantissa
\* Short targets,
<1>5. CASE n <= 3
  <2>1. 3 - n \in Nat /\ Power[3] = Power[3 - n] * Power[n]
    BY <1>2, <1>5, PowerGrows
  <2> DEFINE P == Power[3 - n]
  <2>2. P \in Nat \ {0} /\ Power[n] \in Nat
    BY <1>2, <2>1, Powers
  <2>3. word = t * P /\ word \in Nat
    BY <1>1, <1>5, <2>2
  <2> HIDE DEF P, word
  <2>4. CASE word < SignBit
    <3>1. ~ (word >= SignBit)
      BY <1>4, <2>3, <2>4
    <3>2. value = word \div P
      BY <1>2, <1>3, <1>5, <2>3, <2>4, <3>1, ReadBack DEF P
    <3>3. word \div P = t
      BY <1>1, <2>2, <2>3, Exact
    <3> QED
      BY <1>1, <3>2, <3>3
  <2>5. CASE ~ (word < SignBit) /\ n < 3
    <3>1. 2 - n \in Nat /\ (2 - n) + 1 = 3 - n /\ 3 - (n + 1) = 2 - n /\ n + 1 <= 3 /\ n + 1 \in Nat
      BY <1>2, <2>5
    <3> DEFINE Q == Power[2 - n]
    <3>2. Q \in Nat \ {0} /\ P = Base * Q
      BY <3>1, Powers DEF P
    <3> HIDE DEF Q
    <3>3. t * Q \in Nat /\ word = (t * Q) * Base
      BY <1>1, <1>4, <2>3, <3>2
    <3>4. word \div Base = t * Q
      BY <1>4, <3>3, Exact
    <3>5. t * Q < SignBit
      <4>1. Power[n] * P = Mantissa /\ t * P < Power[n] * P
        <5>1. Power[n] * P = Mantissa
          BY <1>4, <2>1, <2>2 DEF P
        <5>2. \A a \in Nat, b \in Nat, c \in Nat \ {0} : a < b => a * c < b * c
          OBVIOUS
        <5> QED
          BY <1>1, <2>2, <5>1, <5>2
      <4>2. (t * Q) * Base < (Base * Base) * Base
        BY <1>4, <2>3, <3>3, <4>1
      <4>3. t * Q < Base * Base
        BY <1>4, <3>3, <4>2, Cancel
      <4> QED
        BY <1>4, <3>3, <4>3
    <3>6. value = CompactToBig((n + 1) * Mantissa + t * Q)
      BY <1>3, <1>4, <2>3, <2>5, <3>4
    <3>7. value = (t * Q) \div Power[3 - (n + 1)]
      BY <3>1, <3>3, <3>5, <3>6, ReadBack
    <3>8. (t * Q) \div Q = t
      BY <1>1, <3>2, Exact
    <3> QED
      BY <1>1, <3>1, <3>7, <3>8 DEF Q
  <2>6. CASE ~ (word < SignBit) /\ n = 3
    <3>1. P = 1 /\ word = t
      BY <1>1, <2>3, <2>6, Powers DEF P
    <3> DEFINE q == t \div Base
    <3>2. q \in Nat /\ q * Base <= t /\ t < q * Base + Base
      BY <1>1, <1>4, Quotient
    <3>3. q < SignBit
      <4>1. t < (Base * Base) * Base
        BY <1>1, <1>4, <2>6
      <4>2. q * Base < (Base * Base) * Base
        BY <1>1, <1>4, <3>2, <4>1
      <4>3. q < Base * Base
        BY <1>4, <3>2, <4>2, Cancel
      <4> QED
        BY <1>4, <3>2, <4>3
    <3>4. value = CompactToBig(4 * Mantissa + q)
      BY <1>3, <1>4, <2>3, <2>6, <3>1
    <3> HIDE DEF q
    <3>5. value = q * Power[1]
      BY <3>2, <3>3, <3>4, ReadBack
    <3>6. Power[1] = Base /\ Power[0] = 1
      <4>1. Power[0 + 1] = Base * Power[0]
        BY Powers
      <4> QED
        BY <1>4, <4>1, Powers
    <3>7. Fits(t) => q * Power[1] = t
      <4> SUFFICES ASSUME Fits(t) PROVE q * Power[1] = t
        OBVIOUS
      <4>1. \A k \in 0 .. Digits : k < 1 => ~ (t \div Power[k] < SignBit)
        <5>1. t \div 1 = t
          BY <1>1
        <5>2. \A k \in 0 .. Digits : k < 1 => k = 0
          BY <1>2
        <5> QED
          BY <2>6, <3>1, <3>6, <5>1, <5>2
      <4> QED
        BY <1>1, <3>6, <4>1, NothingCut DEF q
    <3>8. value = q * Base /\ q * Base \in Nat
      BY <1>4, <3>2, <3>5, <3>6
    <3>9. Fits(t) => value = t
      BY <3>5, <3>7
    <3> HIDE DEF value
    <3> QED
      BY <1>1, <3>2, <3>8, <3>9 DEF value
  <2> QED
    BY <1>2, <1>5, <2>4, <2>5, <2>6
\* and long ones.
<1>6. CASE n > 3
  <2> DEFINE j == n - 3
             P == Power[j]
  <2>1. j \in Nat /\ n = 3 + j /\ n # 0 /\ n - 1 \in Nat
    BY <1>2, <1>6
  <2> HIDE DEF j
  <2>2. P \in Nat \ {0} /\ Power[n] = Mantissa * P
    <3>1. Power[3 + j] = Power[3] * Power[j]
      BY <2>1, PowerAdd
    <3> QED
      BY <1>4, <2>1, <3>1, Powers
  <2>3. word = t \div P
    BY <1>2, <1>6 DEF j
  <2>4. word \in Nat /\ word * P <= t /\ t < word * P + P
    BY <1>1, <2>2, <2>3, Quotient
  <2>5. word < Mantissa
    <3>1. word * P < Mantissa * P
      <4>1. t < Mantissa * P
        BY <1>1, <2>2
      <4>2. word * P \in Nat /\ Mantissa * P \in Nat
        BY <2>2, <2>4, Mantissas
      <4> QED
        BY <1>1, <2>4, <4>1, <4>2
    <3> QED
      BY <1>4, <2>2, <2>4, <3>1, Cancel
  <2> HIDE DEF P, word
  <2>6. CASE word < SignBit
    <3>1. value = word * P
      <4>1. ~ (word >= SignBit) /\ ~ (n <= 3)
        BY <1>2, <1>4, <1>6, <2>4, <2>6
      <4>2. value = CompactToBig(n * Mantissa + word)
        BY <1>3, <4>1
      <4>3. value = word * Power[n - 3]
        BY <1>2, <2>4, <2>6, <4>1, <4>2, ReadBack
      <4> QED
        BY <4>3 DEF P, j
    <3>2. Fits(t) => word * P = t
      <4> SUFFICES ASSUME Fits(t) PROVE word * P = t
        OBVIOUS
      <4>1. ASSUME NEW k \in 0 .. Digits, k < j PROVE ~ (t \div Power[k] < SignBit)
        <5> SUFFICES ASSUME t \div Power[k] < SignBit PROVE FALSE
          OBVIOUS
        <5> DEFINE q == t \div Power[k]
        <5>1. k \in Nat /\ k + 3 \in Nat /\ k + 3 <= n - 1 /\ k + 3 = 3 + k
          BY <1>2, <2>1, <4>1
        <5>2. Power[k] \in Nat \ {0} /\ Power[3 + k] = Mantissa * Power[k]
          <6>1. Power[3 + k] = Power[3] * Power[k]
            BY <5>1, PowerAdd
          <6> QED
            BY <1>4, <5>1, <6>1, Powers
        <5>3. q \in Nat /\ t < q * Power[k] + Power[k]
          BY <1>1, <5>2, Quotient
        <5>4. q + 1 <= Mantissa
          BY <1>4, <5>3, Mantissas
        <5> HIDE DEF q
        <5>5. Power[k] * (q + 1) <= Power[k] * Mantissa
          <6>1. Mantissa \in Nat /\ q + 1 \in Nat
            BY <5>3, Mantissas
          <6> QED
            BY <5>2, <5>4, <6>1, Monotone
        <5>6. t < Mantissa * Power[k]
          <6>1. Mantissa \in Nat
            BY Mantissas
          <6>2. Power[k] * (q + 1) = q * Power[k] + Power[k]
                /\ Power[k] * Mantissa = Mantissa * Power[k]
            BY <5>2, <5>3, <6>1
          <6> QED
            BY <1>1, <5>2, <5>3, <5>5, <6>1, <6>2
        <5>7. Power[3 + k] <= Power[n - 1]
          BY <2>1, <5>1, PowerGrows
        <5>8. Power[n - 1] \in Nat /\ Power[n - 1] <= t
          BY <1>1, <1>2, <2>1, Powers
        <5>9. Power[3 + k] \in Nat
          BY <5>1, Powers
        <5> QED
          BY <1>1, <5>2, <5>6, <5>7, <5>8, <5>9
      <4> QED
        BY <1>1, <2>1, <2>3, <4>1, NothingCut DEF P
    <3> QED
      BY <1>1, <2>2, <2>4, <3>1, <3>2
  <2>7. CASE ~ (word < SignBit)
    <3> DEFINE Q == Power[j + 1]
               q == t \div Q
    <3>1. j + 1 \in Nat /\ Q \in Nat \ {0} /\ Q = Base * P
      BY <2>1, Powers DEF P
    <3>2. word \div Base = q
      <4> HIDE DEF Q
      <4> QED
        BY <1>1, <1>4, <2>2, <2>3, <3>1, QuotientTwice
    <3>3. q \in Nat /\ q * Q <= t
      BY <1>1, <3>1, Quotient
    <3> HIDE DEF Q, q
    <3>4. q < SignBit
      <4>1. q * Base <= word
        BY <1>4, <2>4, <3>2, Quotient
      <4>2. q * Base < (Base * Base) * Base
        BY <1>4, <2>4, <2>5, <3>3, <4>1
      <4>3. q < Base * Base
        BY <1>4, <3>3, <4>2, Cancel
      <4> QED
        BY <1>4, <3>3, <4>3
    <3>5. value = q * Q
      <4>1. word >= SignBit /\ n + 1 \in Nat /\ ~ (n + 1 <= 3) /\ (n + 1) - 3 = j + 1
        BY <1>2, <1>4, <1>6, <2>1, <2>4, <2>7
      <4>2. value = CompactToBig((n + 1) * Mantissa + q)
        BY <1>3, <3>2, <4>1
      <4> QED
        BY <3>3, <3>4, <4>1, <4>2, ReadBack DEF Q
    <3>6. Fits(t) => q * Q = t
      <4> SUFFICES ASSUME Fits(t) PROVE q * Q = t
        OBVIOUS
      <4>1. ASSUME NEW k \in 0 .. Digits, k < j + 1 PROVE ~ (t \div Power[k] < SignBit)
        <5>1. k \in Nat /\ k <= j
          BY <1>2, <2>1, <4>1
        <5>2. Power[k] \in Nat \ {0} /\ Power[k] <= P
          BY <2>1, <5>1, Powers, PowerGrows DEF P
        <5>3. word <= t \div Power[k]
          BY <1>1, <2>2, <2>3, <5>2, QuotientShrinks
        <5>4. t \div Power[k] \in Nat
          BY <1>1, <5>2, Quotient
        <5> QED
          BY <1>4, <2>4, <2>7, <5>3, <5>4
      <4> QED
        BY <1>1, <3>1, <4>1, NothingCut DEF Q, q
    <3> QED
      BY <1>1, <3>1, <3>3, <3>5, <3>6
  <2> QED
    BY <2>6, <2>7
<1> QED
  BY <1>2, <1>5, <1>6

-----------------------------------------------------------------------------
(***************************************************************************)
(* A hash is a number.                                                     *)
(***************************************************************************)
SumStep(h, f, k) == IF k = 0 THEN 0 ELSE f[k - 1] * Base + h[Len(h) + 1 - k]

LEMMA SumsExist ==
  ASSUME NEW h
  PROVE  \A n \in Nat : \E f : f = [k \in 0..n |-> SumStep(h, f, k)]
<1> DEFINE S == {n \in Nat : \E f : f = [k \in 0..n |-> SumStep(h, f, k)]}
<1>1. 0 \in S
  <2> DEFINE f == [k \in 0..0 |-> 0]
  <2>1. f = [k \in 0..0 |-> SumStep(h, f, k)]
    BY DEF SumStep
  <2> QED
    BY <2>1
<1>2. ASSUME NEW n \in Nat, n \in S PROVE n + 1 \in S
  <2>1. PICK f : f = [k \in 0..n |-> SumStep(h, f, k)]
    BY <1>2
  <2> DEFINE g == [k \in 0..n + 1 |-> IF k = n + 1 THEN SumStep(h, f, k) ELSE f[k]]
  <2>2. \A k \in 0..n + 1 : SumStep(h, g, k) = SumStep(h, f, k)
    <3>1. \A k \in 1..n + 1 : k - 1 \in 0..n + 1 /\ k - 1 # n + 1
      OBVIOUS
    <3>2. \A k \in 1..n + 1 : g[k - 1] = f[k - 1]
      BY <3>1
    <3> HIDE DEF g
    <3> QED
      BY <3>2 DEF SumStep
  <2>3. \A k \in 0..n : f[k] = SumStep(h, f, k)
    BY <2>1
  <2>4. \A k \in 0..n + 1 : k = n + 1 \/ k \in 0..n
    OBVIOUS
  <2>5. g = [k \in 0..n + 1 |-> SumStep(h, g, k)]
    <3>1. \A k \in 0..n + 1 : g[k] = IF k = n + 1 THEN SumStep(h, f, k) ELSE f[k]
      OBVIOUS
    <3>2. g = [k \in 0..n + 1 |-> g[k]]
      OBVIOUS
    <3> HIDE DEF g
    <3> QED
      BY <2>2, <2>3, <2>4, <3>1, <3>2
  <2> HIDE DEF g
  <2> QED
    BY <2>5
<1>3. \A n \in Nat : n \in S
  <2> HIDE DEF S
  <2> QED
    BY <1>1, <1>2, Induction
<1> QED
  BY <1>3

LEMMA HashType ==
  ASSUME NEW h \in [1 .. Digits -> 0 .. Base - 1]
  PROVE  HashToBig(h) \in Nat
<1>1. Digits \in Nat /\ h \in Seq(0 .. Base - 1) /\ Len(h) = Digits /\ Base \in Nat
  BY WorkAssumption
<1> DEFINE n == Len(h)
           sum[k \in 0 .. Len(h)] == IF k = 0 THEN 0 ELSE sum[k - 1] * Base + h[Len(h) + 1 - k]
<1>2. HashToBig(h) = sum[n]
  BY DEF HashToBig
<1>3. sum = CHOOSE f : f = [k \in 0 .. Len(h) |->
              IF k = 0 THEN 0 ELSE f[k - 1] * Base + h[Len(h) + 1 - k]]
  OBVIOUS
<1>4. \E f : f = [k \in 0 .. Len(h) |->
              IF k = 0 THEN 0 ELSE f[k - 1] * Base + h[Len(h) + 1 - k]]
  <2> HIDE DEF sum, n
  <2>1. \E f : f = [k \in 0 .. Len(h) |-> SumStep(h, f, k)]
    BY <1>1, SumsExist
  <2> QED
    BY <2>1 DEF SumStep
<1> HIDE DEF sum, n
<1>5. sum = [k \in 0 .. Len(h) |->
              IF k = 0 THEN 0 ELSE sum[k - 1] * Base + h[Len(h) + 1 - k]]
  BY <1>3, <1>4, Zenon
<1>6. \A k \in 0 .. n : sum[k] = IF k = 0 THEN 0 ELSE sum[k - 1] * Base + h[n + 1 - k]
  BY <1>5 DEF n
<1> DEFINE S == {k \in Nat : k \in 0 .. n => sum[k] \in Nat}
<1>7. 0 \in S
  BY <1>6
<1>8. ASSUME NEW k \in Nat, k \in S PROVE k + 1 \in S
  <2> SUFFICES ASSUME k + 1 \in 0 .. n PROVE sum[k + 1] \in Nat
    OBVIOUS
  <2>1. /\ n \in Nat /\ k \in 0 .. n /\ (k + 1) - 1 = k /\ k + 1 # 0
        /\ n + 1 - (k + 1) \in 1 .. n
    BY <1>1 DEF n
  <2>2. h[n + 1 - (k + 1)] \in Nat
    BY <1>1, <2>1 DEF n
  <2>3. sum[k] \in Nat /\ sum[k + 1] = sum[k] * Base + h[n + 1 - (k + 1)]
    BY <1>6, <1>8, <2>1
  <2>4. \A a, b, c \in Nat : a * b + c \in Nat
    OBVIOUS
  <2>5. Base \in Nat
    BY WorkAssumption
  <2> QED
    BY <2>2, <2>3, <2>4, <2>5, Zenon
<1>9. \A k \in Nat : k \in S
  <2> HIDE DEF S
  <2> QED
    BY <1>7, <1>8, Induction
<1>10. n \in Nat /\ n \in 0 .. n
  BY <1>1 DEF n
<1> QED
  BY <1>2, <1>9, <1>10

-----------------------------------------------------------------------------
(***************************************************************************)
(* The Merkle tree.  While a level has more than one node, its second node *)
(* is a branch, and its first two make the first of the next level.        *)
(***************************************************************************)
LevelStep(leaves, f, k) ==
  IF k = 0 THEN leaves ELSE IF Len(f[k - 1]) = 1 THEN f[k - 1] ELSE Pairs(f[k - 1])

LEMMA LevelsExist ==
  ASSUME NEW h
  PROVE  \A n \in Nat : \E f : f = [k \in 0..n |-> LevelStep(h, f, k)]
<1> DEFINE S == {n \in Nat : \E f : f = [k \in 0..n |-> LevelStep(h, f, k)]}
<1>1. 0 \in S
  <2> DEFINE f == [k \in 0..0 |-> h]
  <2>1. f = [k \in 0..0 |-> LevelStep(h, f, k)]
    BY DEF LevelStep
  <2> QED
    BY <2>1
<1>2. ASSUME NEW n \in Nat, n \in S PROVE n + 1 \in S
  <2>1. PICK f : f = [k \in 0..n |-> LevelStep(h, f, k)]
    BY <1>2
  <2> DEFINE g == [k \in 0..n + 1 |-> IF k = n + 1 THEN LevelStep(h, f, k) ELSE f[k]]
  <2>2. \A k \in 0..n + 1 : LevelStep(h, g, k) = LevelStep(h, f, k)
    <3>1. \A k \in 1..n + 1 : k - 1 \in 0..n + 1 /\ k - 1 # n + 1
      OBVIOUS
    <3>2. \A k \in 1..n + 1 : g[k - 1] = f[k - 1]
      BY <3>1
    <3> HIDE DEF g
    <3> QED
      BY <3>2 DEF LevelStep
  <2>3. \A k \in 0..n : f[k] = LevelStep(h, f, k)
    BY <2>1
  <2>4. \A k \in 0..n + 1 : k = n + 1 \/ k \in 0..n
    OBVIOUS
  <2>5. g = [k \in 0..n + 1 |-> LevelStep(h, g, k)]
    <3>1. \A k \in 0..n + 1 : g[k] = IF k = n + 1 THEN LevelStep(h, f, k) ELSE f[k]
      OBVIOUS
    <3>2. g = [k \in 0..n + 1 |-> g[k]]
      OBVIOUS
    <3> HIDE DEF g
    <3> QED
      BY <2>2, <2>3, <2>4, <3>1, <3>2
  <2> HIDE DEF g
  <2> QED
    BY <2>5
<1>3. \A n \in Nat : n \in S
  <2> HIDE DEF S
  <2> QED
    BY <1>1, <1>2, Induction
<1> QED
  BY <1>3

LEMMA LevelsAre ==
  ASSUME NEW n \in Nat \ {0}
  PROVE  /\ Leaves(n)[1] = <<1>> /\ Len(Leaves(n)) = n
         /\ Levels(Leaves(n))[0] = Leaves(n)
         /\ \A k \in 1 .. n : Levels(Leaves(n))[k] =
              IF Len(Levels(Leaves(n))[k - 1]) = 1 THEN Levels(Leaves(n))[k - 1]
                                                   ELSE Pairs(Levels(Leaves(n))[k - 1])
<1>1. Leaves(n)[1] = <<1>> /\ Len(Leaves(n)) = n
  BY DEF Leaves
<1> DEFINE leaves == Leaves(n)
<1> HIDE DEF leaves
<1> DEFINE level[k \in 0 .. Len(leaves)] ==
             IF k = 0 THEN leaves
             ELSE IF Len(level[k - 1]) = 1 THEN level[k - 1] ELSE Pairs(level[k - 1])
<1>2. Levels(leaves) = level
  BY DEF Levels
<1>3. level = CHOOSE f : f = [k \in 0 .. Len(leaves) |->
                IF k = 0 THEN leaves
                ELSE IF Len(f[k - 1]) = 1 THEN f[k - 1] ELSE Pairs(f[k - 1])]
  OBVIOUS
<1>4. \E f : f = [k \in 0 .. Len(leaves) |->
                IF k = 0 THEN leaves
                ELSE IF Len(f[k - 1]) = 1 THEN f[k - 1] ELSE Pairs(f[k - 1])]
  <2> HIDE DEF level
  <2>1. Len(leaves) \in Nat
    BY <1>1 DEF leaves
  <2>2. \E f : f = [k \in 0 .. Len(leaves) |-> LevelStep(leaves, f, k)]
    BY <2>1, LevelsExist
  <2> QED
    BY <2>2 DEF LevelStep
<1> HIDE DEF level
<1>5. level = [k \in 0 .. Len(leaves) |->
                IF k = 0 THEN leaves
                ELSE IF Len(level[k - 1]) = 1 THEN level[k - 1] ELSE Pairs(level[k - 1])]
  BY <1>3, <1>4, Zenon
<1>6. \A k \in 0 .. n : level[k] = 
                IF k = 0 THEN leaves
                ELSE IF Len(level[k - 1]) = 1 THEN level[k - 1] ELSE Pairs(level[k - 1])
  BY <1>1, <1>5 DEF leaves
<1>7. 0 \in 0 .. n /\ \A k \in 1 .. n : k \in 0 .. n /\ k # 0
  OBVIOUS
<1> QED
  BY <1>1, <1>2, <1>6, <1>7 DEF leaves

\* The first node of the level above, and that it is shorter.
LEMMA PairsAre ==
  ASSUME NEW q, Len(q) \in Nat, Len(q) > 1
  PROVE  /\ Pairs(q)[1] = DoubleHash(q[1], q[2])
         /\ Len(Pairs(q)) \in Nat \ {0} /\ Len(Pairs(q)) < Len(q)
<1> DEFINE m == (Len(q) + 1) \div 2
<1>1. m \in Nat \ {0} /\ m < Len(q) /\ 1 \in 1 .. m
  OBVIOUS
<1>2. Min({2, Len(q)}) = 2
  <2> DEFINE T == {2, Len(q)}
  <2>1. 2 \in T /\ \A y \in T : 2 <= y
    OBVIOUS
  <2>2. \A x \in T : (\A y \in T : x <= y) => x = 2
    OBVIOUS
  <2> HIDE DEF T
  <2>3. Min(T) \in T /\ \A y \in T : Min(T) <= y
    BY <2>1 DEF Min
  <2> QED
    BY <2>2, <2>3 DEF T
<1>3. Pairs(q) = [k \in 1 .. m |-> DoubleHash(q[2 * k - 1], q[Min({2 * k, Len(q)})])]
  BY DEF Pairs
<1> HIDE DEF m
<1>4. Len(Pairs(q)) = m
  BY <1>1, <1>3
<1>5. Pairs(q)[1] = DoubleHash(q[2 * 1 - 1], q[Min({2 * 1, Len(q)})])
  BY <1>1, <1>3
<1>6. 2 * 1 - 1 = 1 /\ 2 * 1 = 2
  OBVIOUS
<1> QED
  BY <1>1, <1>2, <1>4, <1>5, <1>6

\* A number that is neither zero nor one is greater than one.
LEMMA AboveOne ==
  ASSUME NEW a \in Nat \ {0}, a # 1
  PROVE  a \in Nat /\ a > 1
  OBVIOUS

\* Every level is shorter than the one below until there is one node left,
\* which is before level n.
LEMMA LevelsShrink ==
  ASSUME NEW n \in Nat \ {0}
  PROVE  \A k \in 0 .. n :
           LET m == Len(Levels(Leaves(n))[k]) IN m \in Nat \ {0} /\ (m = 1 \/ m <= n - k)
<1> DEFINE L == Levels(Leaves(n))
<1>1. /\ Len(L[0]) = n
      /\ \A k \in 1 .. n : L[k] = IF Len(L[k - 1]) = 1 THEN L[k - 1] ELSE Pairs(L[k - 1])
  BY LevelsAre
<1> HIDE DEF L
<1> DEFINE S == {k \in Nat : k \in 0 .. n => Len(L[k]) \in Nat \ {0}
                                             /\ (Len(L[k]) = 1 \/ Len(L[k]) <= n - k)}
<1>2. 0 \in S
  BY <1>1
<1>3. ASSUME NEW k \in Nat, k \in S PROVE k + 1 \in S
  <2> SUFFICES ASSUME k + 1 \in 0 .. n
               PROVE  Len(L[k + 1]) \in Nat \ {0}
                      /\ (Len(L[k + 1]) = 1 \/ Len(L[k + 1]) <= n - (k + 1))
    OBVIOUS
  <2>1. k \in 0 .. n /\ k + 1 \in 1 .. n /\ (k + 1) - 1 = k
    OBVIOUS
  <2>2. Len(L[k]) \in Nat \ {0} /\ (Len(L[k]) = 1 \/ Len(L[k]) <= n - k)
    BY <1>3, <2>1
  <2>3. L[k + 1] = IF Len(L[k]) = 1 THEN L[k] ELSE Pairs(L[k])
    BY <1>1, <2>1
  <2>4. ASSUME Len(L[k]) # 1
        PROVE  Len(Pairs(L[k])) \in Nat \ {0} /\ Len(Pairs(L[k])) < Len(L[k])
    <3>1. Len(L[k]) \in Nat /\ Len(L[k]) > 1
      BY <2>2, <2>4, AboveOne, Zenon
    <3> QED
      BY <3>1, PairsAre
  <2> QED
    BY <2>2, <2>3, <2>4
<1>4. \A k \in Nat : k \in S
  <2> HIDE DEF S
  <2> QED
    BY <1>2, <1>3, Induction
<1>5. \A k \in 0 .. n : k \in Nat
  OBVIOUS
<1> QED
  BY <1>4, <1>5 DEF L

\* The root that is computed from the coinbase and the branches is the node on top.
LEMMA RootIs ==
  ASSUME NEW n \in Nat \ {0}
  PROVE  calculateMerkleRoot(<<1>>, Branches(n)) = Levels(Leaves(n))[n][1]
<1> DEFINE L == Levels(Leaves(n))
           T == {k \in 0 .. n : Len(L[k]) = 1}
           d == Min(T)
           branches == [k \in 1 .. d |-> L[k - 1][2]]
<1>1. /\ L[0][1] = <<1>>
      /\ \A k \in 1 .. n : L[k] = IF Len(L[k - 1]) = 1 THEN L[k - 1] ELSE Pairs(L[k - 1])
      /\ \A k \in 0 .. n : Len(L[k]) \in Nat \ {0} /\ (Len(L[k]) = 1 \/ Len(L[k]) <= n - k)
  BY LevelsAre, LevelsShrink
<1>2. Branches(n) = branches
  BY DEF Branches
<1> HIDE DEF L
<1>3. d \in T /\ \A k \in T : d <= k
  <2>1. n \in T /\ T \in SUBSET Nat
    <3>1. n \in 0 .. n /\ n - n = 0
      OBVIOUS
    <3>2. Len(L[n]) \in Nat \ {0} /\ (Len(L[n]) = 1 \/ Len(L[n]) <= 0)
      BY <1>1, <3>1
    <3> QED
      BY <3>1, <3>2
  <2> HIDE DEF T
  <2>2. PICK m \in T : \A k \in T : m <= k
    BY <2>1, Least
  <2> QED
    BY <2>2 DEF Min
<1> HIDE DEF d
<1>4. /\ d \in 0 .. n /\ d \in Nat /\ Len(L[d]) = 1
      /\ \A k \in 0 .. n : k < d => Len(L[k]) # 1
  <2>1. d \in 0 .. n /\ Len(L[d]) = 1
    BY <1>3
  <2>2. \A k \in 0 .. n : k < d => k \notin T
    BY <1>3, <2>1
  <2> QED
    BY <2>1, <2>2
<1> HIDE DEF T
<1>5. \A k \in 1 .. d : L[k][1] = DoubleHash(L[k - 1][1], branches[k])
  <2> TAKE k \in 1 .. d
  <2>1. k \in 1 .. n /\ k - 1 \in 0 .. n /\ k - 1 < d
    BY <1>4
  <2>2. Len(L[k - 1]) \in Nat /\ Len(L[k - 1]) > 1 /\ L[k] = Pairs(L[k - 1])
    <3>1. Len(L[k - 1]) # 1
      BY <1>4, <2>1
    <3>2. Len(L[k - 1]) \in Nat \ {0}
      BY <1>1, <2>1
    <3>3. L[k] = Pairs(L[k - 1])
      BY <1>1, <2>1, <3>1
    <3>4. Len(L[k - 1]) \in Nat /\ Len(L[k - 1]) > 1
      BY <3>1, <3>2, AboveOne, Zenon
    <3> QED
      BY <3>3, <3>4
  <2>3. branches[k] = L[k - 1][2]
    OBVIOUS
  <2> QED
    BY <2>2, <2>3, PairsAre
<1>6. Len(branches) = d
  BY <1>4
<1> HIDE DEF branches
\* The hashes on the way are the first nodes of the levels,
<1>7. calculateMerkleRoot(<<1>>, branches) = L[d][1]
  <2> DEFINE hash[k \in 0 .. Len(branches)] ==
               IF k = 0 THEN <<1>> ELSE DoubleHash(hash[k - 1], branches[k])
  <2>1. calculateMerkleRoot(<<1>>, branches) = hash[d]
    BY <1>6 DEF calculateMerkleRoot
  <2>2. hash = CHOOSE f : f = [k \in 0 .. Len(branches) |->
                 IF k = 0 THEN <<1>> ELSE DoubleHash(f[k - 1], branches[k])]
    OBVIOUS
  <2> HIDE DEF hash
  <2>3. \E f : f = [k \in 0 .. Len(branches) |->
                 IF k = 0 THEN <<1>> ELSE DoubleHash(f[k - 1], branches[k])]
    <3> DEFINE f == [k \in 0 .. d |-> L[k][1]]
    <3>1. \A k \in 1 .. d : f[k - 1] = L[k - 1][1]
      <4>1. \A k \in 1 .. d : k - 1 \in 0 .. d
        BY <1>4
      <4> QED
        BY <4>1
    <3>2. \A k \in 0 .. d : L[k][1] = IF k = 0 THEN <<1>> ELSE DoubleHash(f[k - 1], branches[k])
      <4> HIDE DEF f
      <4>1. \A k \in 0 .. d : k = 0 \/ k \in 1 .. d
        BY <1>4
      <4>2. ASSUME NEW k \in 1 .. d PROVE L[k][1] = DoubleHash(f[k - 1], branches[k]) /\ k # 0
        BY <1>5, <3>1
      <4> QED
        BY <1>1, <4>1, <4>2
    <3>3. f = [k \in 0 .. Len(branches) |->
                 IF k = 0 THEN <<1>> ELSE DoubleHash(f[k - 1], branches[k])]
      <4>1. f = [k \in 0 .. d |-> L[k][1]]
        OBVIOUS
      <4> HIDE DEF f
      <4> QED
        BY <1>6, <3>2, <4>1
    <3> HIDE DEF f
    <3> QED
      BY <3>3
  <2>4. hash = [k \in 0 .. Len(branches) |->
                 IF k = 0 THEN <<1>> ELSE DoubleHash(hash[k - 1], branches[k])]
    BY <2>2, <2>3, Zenon
  <2>5. \A k \in 0 .. d : hash[k] = IF k = 0 THEN <<1>> ELSE DoubleHash(hash[k - 1], branches[k])
    BY <1>6, <2>4
  <2> DEFINE S == {k \in Nat : k \in 0 .. d => hash[k] = L[k][1]}
  <2>6. 0 \in S
    BY <1>1, <2>5
  <2>7. ASSUME NEW k \in Nat, k \in S PROVE k + 1 \in S
    <3> SUFFICES ASSUME k + 1 \in 0 .. d PROVE hash[k + 1] = L[k + 1][1]
      OBVIOUS
    <3>1. k \in 0 .. d /\ k + 1 \in 1 .. d /\ (k + 1) - 1 = k /\ k + 1 # 0
      BY <1>4
    <3>2. hash[k + 1] = DoubleHash(hash[k], branches[k + 1])
      BY <2>5, <3>1
    <3>3. L[k + 1][1] = DoubleHash(L[k][1], branches[k + 1])
      BY <1>5, <3>1
    <3>4. hash[k] = L[k][1]
      BY <2>7, <3>1
    <3> QED
      BY <3>2, <3>3, <3>4
  <2>8. \A k \in Nat : k \in S
    <3> HIDE DEF S
    <3> QED
      BY <2>6, <2>7, Induction
  <2>9. d \in S /\ d \in 0 .. d
    BY <1>4, <2>8
  <2> QED
    BY <2>1, <2>9
\* and from level d on there is one node.
<1>8. L[n] = L[d]
  <2> DEFINE S == {k \in Nat : d + k \in 0 .. n => L[d + k] = L[d]}
  <2>1. 0 \in S
    BY <1>4
  <2>2. ASSUME NEW k \in Nat, k \in S PROVE k + 1 \in S
    <3> SUFFICES ASSUME d + (k + 1) \in 0 .. n PROVE L[d + (k + 1)] = L[d]
      OBVIOUS
    <3>1. d + k \in 0 .. n /\ d + (k + 1) \in 1 .. n /\ (d + (k + 1)) - 1 = d + k
      BY <1>4
    <3>2. L[d + k] = L[d]
      BY <2>2, <3>1
    <3>3. L[d + (k + 1)] = IF Len(L[d + k]) = 1 THEN L[d + k] ELSE Pairs(L[d + k])
      BY <1>1, <3>1
    <3> QED
      BY <1>4, <3>2, <3>3
  <2>3. \A k \in Nat : k \in S
    <3> HIDE DEF S
    <3> QED
      BY <2>1, <2>2, Induction
  <2>4. n - d \in Nat /\ d + (n - d) = n /\ n \in 0 .. n
    BY <1>4
  <2>5. n - d \in S
    BY <2>3, <2>4
  <2> QED
    BY <2>4, <2>5
<1> QED
  BY <1>2, <1>7, <1>8 DEF L

-----------------------------------------------------------------------------
(***************************************************************************)
(* The job and the hash of a worker.                                       *)
(***************************************************************************)
\* What mineJob has prepared, and how the last hash was judged.
JobInv ==
  /\ difficulty \in Difficulties /\ netTarget \in NetTargets /\ txs \in 1 .. MaxTxs
  /\ root # <<>> =>
       /\ \E c \in Conversions : shareTarget = TargetForDifficulty(difficulty, c)
       /\ compactTarget = CompactToBig(Compact(netTarget))
       /\ root = calculateMerkleRoot(<<1>>, Branches(txs))
  /\ digits # <<>> =>
       /\ root # <<>>
       /\ digits \in [1 .. Digits -> 0 .. Base - 1]
       /\ submitted <=> HashMeetsTarget(digits, shareTarget)
       /\ found <=> submitted /\ HashMeetsTarget(digits, compactTarget)

LEMMA JobInvariant == TargetSpec => []JobInv
<1>1. TargetInit => JobInv
  BY DEF TargetInit, JobInv
<1>2. JobInv /\ [TargetNext]_targetVars => JobInv'
  <2> SUFFICES ASSUME JobInv, [TargetNext]_targetVars PROVE JobInv'
    OBVIOUS
  <2>1. CASE mineJob
    <3>1. /\ root = <<>> /\ digits = <<>>
          /\ UNCHANGED <<difficulty, netTarget, txs, digits, submitted, found>>
      BY <2>1 DEF mineJob, JobInv
    <3>2. /\ \E c \in Conversions : shareTarget' = TargetForDifficulty(difficulty, c)
          /\ compactTarget' = CompactToBig(Compact(netTarget))
          /\ root' = calculateMerkleRoot(<<1>>, Branches(txs))
      BY <2>1 DEF mineJob
    <3> QED
      BY <3>1, <3>2 DEF JobInv
  <2>2. CASE Judge
    <3>1. /\ root # <<>> /\ digits' \in [1 .. Digits -> 0 .. Base - 1]
          /\ submitted' <=> HashMeetsTarget(digits', shareTarget)
          /\ found' <=> HashMeetsTarget(digits', shareTarget)
                        /\ HashMeetsTarget(digits', compactTarget)
          /\ UNCHANGED <<difficulty, netTarget, txs, shareTarget, compactTarget, root>>
      BY <2>2 DEF Judge
    <3> QED
      BY <3>1 DEF JobInv
  <2>3. CASE UNCHANGED targetVars
    BY <2>3 DEF JobInv, targetVars
  <2> QED
    BY <2>1, <2>2, <2>3 DEF TargetNext
<1> QED
  BY <1>1, <1>2, PTL DEF TargetSpec

\* Whatever the difficulty, the targets and the constants: every hash that the
\* pool would accept is submitted, and no other if the difficulty is a number
\* of units (TargetForDifficulty in main.go).
THEOREM SharesCorrect == TargetSpec => []SharesJudged
<1>1. JobInv => SharesJudged
  <2> SUFFICES ASSUME JobInv, digits # <<>>, difficulty[1] * Unit >= difficulty[2]
               PROVE  /\ Accepts(digits) => submitted
                      /\ submitted /\ Whole /\ HashToBig(digits) > 1 => Accepts(digits)
    BY DEF SharesJudged
  <2> DEFINE p == difficulty[1]
             q == difficulty[2]
             h == HashToBig(digits)
  <2>1. PICK c \in Conversions : shareTarget = TargetForDifficulty(difficulty, c)
    BY DEF JobInv
  <2>2. p \in Int /\ q \in Nat \ {0} /\ difficulty = <<p, q>> /\ c \in 0 .. WordLimit - 1
    BY WorkAssumption DEF JobInv
  <2>3. h \in Nat
    BY HashType DEF JobInv
  <2>4. submitted <=> h <= TargetForDifficulty(<<p, q>>, c)
    BY <2>1, <2>2 DEF JobInv, HashMeetsTarget
  <2>5. /\ Accepts(digits) <=> h * p <= Diff1 * q
        /\ Whole <=> (p * Unit) % q = 0 /\ Scaled(<<p, q>>) < WordLimit
        /\ p * Unit >= q
    BY <2>2 DEF Accepts, Whole
  <2> HIDE DEF p, q, h
  <2>6. Accepts(digits) => submitted
    BY <2>2, <2>3, <2>4, <2>5, NoShareDropped
  <2>7. submitted /\ Whole /\ h > 1 => Accepts(digits)
    BY <2>2, <2>3, <2>4, <2>5, NoShareRefused
  <2> QED
    BY <2>6, <2>7 DEF h
<1> QED
  BY <1>1, JobInvariant, PTL

\* No hash counts as a block that the network would refuse, and none is missed
\* whose target can be written in compact form, in any base that is even
\* (CompactToBig and mineJob in main.go).
THEOREM BlocksCorrect == TargetSpec => []BlocksJudged
<1>1. JobInv => BlocksJudged
  <2> SUFFICES ASSUME JobInv, digits # <<>>
               PROVE  /\ found => HashToBig(digits) <= netTarget
                      /\ submitted /\ HashToBig(digits) <= netTarget /\ Fits(netTarget) => found
    BY DEF BlocksJudged
  <2> DEFINE h == HashToBig(digits)
             v == CompactToBig(Compact(netTarget))
  <2>1. netTarget \in 0 .. Power[Digits] - 1
    BY WorkAssumption DEF JobInv
  <2>2. v \in Nat /\ v <= netTarget /\ (Fits(netTarget) => v = netTarget)
    BY <2>1, CompactValue
  <2>3. h \in Nat /\ netTarget \in Nat
    <3>1. Power[Digits] \in Nat
      BY WorkAssumption, Powers
    <3> QED
      BY <2>1, <3>1, HashType DEF JobInv
  <2>4. found <=> submitted /\ h <= v
    BY DEF JobInv, HashMeetsTarget
  <2> HIDE DEF h, v
  <2>5. (found => h <= netTarget) /\ (submitted /\ h <= netTarget /\ Fits(netTarget) => found)
    BY <2>2, <2>3, <2>4
  <2> QED
    BY <2>5 DEF h
<1> QED
  BY <1>1, JobInvariant, PTL

\* The root in the header is that of the tree of all transactions, for any
\* number of them (calculateMerkleRoot in main.go).
THEOREM MerkleCorrect == TargetSpec => []MerkleMatches
<1>1. JobInv => MerkleMatches
  <2> SUFFICES ASSUME JobInv, root # <<>> PROVE root = Levels(Leaves(txs))[txs][1]
    BY DEF MerkleMatches
  <2>1. txs \in Nat \ {0} /\ root = calculateMerkleRoot(<<1>>, Branches(txs))
    BY WorkAssumption DEF JobInv
  <2> QED
    BY <2>1, RootIs
<1> QED
  BY <1>1, JobInvariant, PTL
=============================================================================
