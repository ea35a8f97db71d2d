---------------------------- MODULE HasherProofs ----------------------------
(***************************************************************************)
(* Proofs about the primitives of yespower (module Hasher), for blocks of  *)
(* any width, any number of blocks and any bytes.                          *)
(*                                                                         *)
(* BlockMix: what the unrolled functions keep in registers, in the row and *)
(* in the result is, call by call, what BlockMix of the whole row gives.   *)
(*                                                                         *)
(* Words are looked at bit by bit: four bits of a nibble at a time, for    *)
(* which the table of xor is finite.  From that the two ways to write Ch   *)
(* and Maj, and "|", "^" and "+" of two words that have no bit in common,  *)
(* are the same.                                                           *)
(*                                                                         *)
(* SHA256: the sixteen words of the schedule that are next stay those of   *)
(* FIPS 180-4, of which only the last sixteen are looked at, and the       *)
(* registers rotate under the names a .. h.                                *)
(*                                                                         *)
(* Salsa20: a lane of the vectors is a column, and once they are turned a  *)
(* row; four quarter rounds of words that are all different do not disturb *)
(* one another.                                                            *)
(*                                                                         *)
(* Streams: a context holds a text if its blocks and its buffer are those  *)
(* of the text.  Updates, HMAC and PBKDF2 are followed by what the         *)
(* contexts hold; the short cut of PBKDF2 by the two blocks it has padded  *)
(* before, in which only the counter is new.                               *)
(*                                                                         *)
(* PWXFORM: and splits at every bit, so masking the joined halves masks    *)
(* both, and gives the number of an entry.  The memory of a build stands   *)
(* for the tables of the definition if its three parts are theirs, in one  *)
(* of the orders in which they are passed on, and w is where the next      *)
(* entry is written.                                                       *)
(***************************************************************************)
EXTENDS Hasher, Words, WorkProofs, TLAPS

(***************************************************************************)
(* The blockmix functions.                                                 *)
(***************************************************************************)
LEMMA XorLaws ==
  ASSUME NEW a, NEW b, NEW c
  PROVE  /\ Mixes!XOR(a, b) = Mixes!XOR(b, a)
         /\ Mixes!XOR(Mixes!XOR(a, b), c) = Mixes!XOR(a, Mixes!XOR(b, c))
BY DEF Mixes!XOR

\* Value k of BlockMix of a row, before the last one goes through Salsa20; p is
\* the row, its last index, and whether it is mixed by Salsa20 alone.
MixStep(p, f, k) ==
  LET v == Mixes!XOR(IF k = 0 THEN p[1][p[2]] ELSE f[k - 1], p[1][k])
  IN  IF p[3] THEN Mixes!SALSA(v) ELSE Mixes!PWX(k, v)

MixValues(p) == CHOOSE f : f = [k \in 0 .. p[2] |-> MixStep(p, f, k)]

LEMMA MixValuesExist ==
  ASSUME NEW p
  PROVE  \A l \in Nat : \E f : f = [k \in 0 .. l |-> MixStep(p, f, k)]
<1> DEFINE Good == {l \in Nat : \E f : f = [k \in 0 .. l |-> MixStep(p, f, k)]}
<1>1. 0 \in Good
  <2> DEFINE f == [k \in 0 .. 0 |-> MixStep(p, <<>>, 0)]
  <2>1. \A k \in 0 .. 0 : MixStep(p, f, k) = MixStep(p, <<>>, 0)
    BY DEF MixStep
  <2>2. f = [k \in 0 .. 0 |-> MixStep(p, f, k)]
    BY <2>1
  <2> QED
    BY <2>2
<1>2. ASSUME NEW l \in Nat, l \in Good PROVE l + 1 \in Good
  <2>1. PICK f : f = [k \in 0 .. l |-> MixStep(p, f, k)]
    BY <1>2
  <2> DEFINE g == [k \in 0 .. l + 1 |-> IF k = l + 1 THEN MixStep(p, f, k) ELSE f[k]]
  <2>2. \A k \in 0 .. l + 1 : MixStep(p, g, k) = MixStep(p, f, k)
    <3>1. \A k \in 1 .. l + 1 : k - 1 \in 0 .. l + 1 /\ k - 1 # l + 1
      OBVIOUS
    <3>2. \A k \in 1 .. l + 1 : g[k - 1] = f[k - 1]
      BY <3>1
    <3>3. \A k \in 0 .. l + 1 : k = 0 \/ k \in 1 .. l + 1
      OBVIOUS
    <3> HIDE DEF g
    <3> QED
      BY <3>2, <3>3 DEF MixStep
  <2>3. \A k \in 0 .. l : f[k] = MixStep(p, f, k)
    BY <2>1
  <2>4. \A k \in 0 .. l + 1 : k = l + 1 \/ k \in 0 .. l
    OBVIOUS
  <2>5. g = [k \in 0 .. l + 1 |-> MixStep(p, g, k)]
    <3>1. \A k \in 0 .. l + 1 : g[k] = IF k = l + 1 THEN MixStep(p, f, k) ELSE f[k]
      OBVIOUS
    <3>2. g = [k \in 0 .. l + 1 |-> g[k]]
      OBVIOUS
    <3> HIDE DEF g
    <3> QED
      BY <2>2, <2>3, <2>4, <3>1, <3>2
  <2> HIDE DEF g
  <2> QED
    BY <2>5
<1>3. \A l \in Nat : l \in Good
  <2> HIDE DEF Good
  <2> QED
    BY <1>1, <1>2, Induction
<1> QED
  BY <1>3

LEMMA MixValuesAre ==
  ASSUME NEW p, p[2] \in Nat
  PROVE  \A k \in 0 .. p[2] : MixValues(p)[k] = MixStep(p, MixValues(p), k)
<1> DEFINE V == MixValues(p)
<1>1. \E f : f = [k \in 0 .. p[2] |-> MixStep(p, f, k)]
  BY MixValuesExist
<1>2. V = CHOOSE f : f = [k \in 0 .. p[2] |-> MixStep(p, f, k)]
  BY DEF MixValues
<1> HIDE DEF V
<1>3. V = [k \in 0 .. p[2] |-> MixStep(p, V, k)]
  BY <1>1, <1>2, Zenon
<1>4. \A k \in 0 .. p[2] : V[k] = MixStep(p, V, k)
  BY <1>3
<1> QED
  BY <1>4 DEF V

LEMMA TextbookValues ==
  ASSUME NEW B, NEW last, NEW simple
  PROVE  LET V == MixValues(<<B, last, simple>>)
         IN  Mixes!Textbook(B, last, simple) =
               [k \in 0 .. last |-> IF ~ simple /\ k = last THEN Mixes!SALSA(V[k]) ELSE V[k]]
<1> DEFINE V == MixValues(<<B, last, simple>>)
<1>1. V = CHOOSE f : f = [k \in 0 .. last |->
        LET v == Mixes!XOR(IF k = 0 THEN B[last] ELSE f[k - 1], B[k])
        IN  IF simple THEN Mixes!SALSA(v) ELSE Mixes!PWX(k, v)]
  BY DEF MixValues, MixStep
<1> HIDE DEF V
<1>2. Mixes!Textbook(B, last, simple) =
        [k \in 0 .. last |-> IF ~ simple /\ k = last THEN Mixes!SALSA(V[k]) ELSE V[k]]
  BY <1>1 DEF Mixes!Textbook
<1> QED
  BY <1>2 DEF V

\* The row that is mixed, and the values it is mixed to.
MixRow(c) ==
  LET in1 == Mixes!Row("in1", c.r)
      in2 == Mixes!Row("in2", c.r)
  IN  IF c.fn \in {"salsa", "blockmix"} THEN in1
      ELSE [k \in 0 .. 2 * c.r - 1 |-> Mixes!XOR(in1[k], in2[k])]

MixV(c) == MixValues(<<MixRow(c), 2 * c.r - 1, c.fn \in {"salsa", "salsa_xor"}>>)

\* Memory when the blocks before i are done.
MixMem(c, h) ==
  LET done(old, new) == [k \in 0 .. 2 * c.r - 1 |-> IF k < h THEN new[k] ELSE old[k]]
      in1 == Mixes!Row("in1", c.r)
      in2 == Mixes!Row("in2", c.r)
      old == Mixes!Row("old", c.r)
  IN  IF c.fn = "save" THEN [Bin1 |-> done(in1, MixV(c)), Bin2 |-> done(in2, MixRow(c)),
                             Bout |-> old]
                       ELSE [Bin1 |-> in1, Bin2 |-> in2, Bout |-> done(old, MixV(c))]

MixCalls ==
  [fn : {"none", "blockmix", "xor", "save"}, r : Nat \ {0}]
    \cup [fn : {"salsa", "salsa_xor"}, r : {1}]

MixInv ==
  /\ call \in MixCalls /\ stage \in {"start", "loop", "done"}
  /\ call.fn = "none" => stage = "done" /\ idx = 0
  /\ stage = "start" => idx = 0 /\ mem = MixMem(call, 0)
  /\ stage = "loop" =>
       /\ call.fn \in {"blockmix", "xor", "save"}
       /\ idx \in 0 .. 2 * call.r - 1
       /\ call.fn # "blockmix" => idx % 2 = 0
       /\ reg = IF idx = 0 THEN MixRow(call)[2 * call.r - 1] ELSE MixV(call)[idx - 1]
       /\ mem = MixMem(call, idx)
  /\ Mixes!MixMatches

\* Each value is made from the one before.
LEMMA MixVIs ==
  ASSUME NEW c \in MixCalls, NEW k \in 0 .. 2 * c.r - 1
  PROVE  LET v == Mixes!XOR(IF k = 0 THEN MixRow(c)[2 * c.r - 1] ELSE MixV(c)[k - 1], MixRow(c)[k])
         IN  MixV(c)[k] = IF c.fn \in {"salsa", "salsa_xor"} THEN Mixes!SALSA(v) ELSE Mixes!PWX(k, v)
<1> DEFINE last == 2 * c.r - 1
           simple == c.fn \in {"salsa", "salsa_xor"}
           p == <<MixRow(c), last, simple>>
           V == MixValues(p)
<1>1. last \in Nat
  BY DEF MixCalls
<1>2. V[k] = MixStep(p, V, k)
  <2>1. p[2] = last /\ k \in 0 .. last
    OBVIOUS
  <2> HIDE DEF last, p
  <2> QED
    BY <1>1, <2>1, MixValuesAre
<1>3. p[1] = MixRow(c) /\ p[2] = last /\ p[3] = simple
  OBVIOUS
<1>4. V = MixV(c)
  BY DEF MixV
<1> HIDE DEF p, V
<1> QED
  BY <1>2, <1>3, <1>4 DEF MixStep

LEMMA TextbookIs ==
  ASSUME NEW c \in MixCalls
  PROVE  LET simple == c.fn \in {"salsa", "salsa_xor"}
             last == 2 * c.r - 1
         IN  Mixes!Textbook(MixRow(c), last, simple) =
               [k \in 0 .. last |-> IF ~ simple /\ k = last THEN Mixes!SALSA(MixV(c)[k]) ELSE MixV(c)[k]]
<1> DEFINE last == 2 * c.r - 1
           simple == c.fn \in {"salsa", "salsa_xor"}
           V == MixValues(<<MixRow(c), last, simple>>)
<1>1. Mixes!Textbook(MixRow(c), last, simple) =
        [k \in 0 .. last |-> IF ~ simple /\ k = last THEN Mixes!SALSA(V[k]) ELSE V[k]]
  <2> HIDE DEF last, simple
  <2> QED
    BY TextbookValues
<1>2. V = MixV(c)
  BY DEF MixV
<1> HIDE DEF V
<1> QED
  BY <1>1, <1>2

LEMMA MixRowIs ==
  ASSUME NEW c \in MixCalls, NEW k \in 0 .. 2 * c.r - 1
  PROVE  /\ Mixes!Row("in1", c.r)[k] = {<<"in1", k>>}
         /\ Mixes!Row("in2", c.r)[k] = {<<"in2", k>>}
         /\ MixRow(c)[k] = IF c.fn \in {"salsa", "blockmix"} THEN {<<"in1", k>>}
                           ELSE Mixes!XOR({<<"in1", k>>}, {<<"in2", k>>})
BY DEF MixRow, Mixes!Row, MixCalls

\* What is left when the last block is done.
MixDone(c, m, res) ==
  LET last == 2 * c.r - 1
      simple == c.fn \in {"salsa", "salsa_xor"}
      outs == IF c.fn = "save" THEN m.Bin1 ELSE m.Bout
  IN  /\ outs = [k \in 0 .. last |->
                 IF ~ simple /\ k = last THEN Mixes!SALSA(MixV(c)[k]) ELSE MixV(c)[k]]
      /\ c.fn = "save" => m.Bin2 = MixRow(c) /\ m.Bout = Mixes!Row("old", c.r)
      /\ c.fn # "save" => m.Bin1 = Mixes!Row("in1", c.r) /\ m.Bin2 = Mixes!Row("in2", c.r)
      /\ c.fn \notin {"salsa", "blockmix"} => res = outs[last]

LEMMA MixDoneMatches ==
  call \in MixCalls =>
    (Mixes!MixMatches <=> (stage = "done" /\ call.fn # "none" => MixDone(call, mem, result)))
<1> SUFFICES ASSUME call \in MixCalls
             PROVE  Mixes!MixMatches <=>
                      (stage = "done" /\ call.fn # "none" => MixDone(call, mem, result))
  OBVIOUS
<1>1. CASE stage = "done" /\ call.fn # "none"
  <2> DEFINE last == 2 * call.r - 1
             simple == call.fn \in {"salsa", "salsa_xor"}
             outs == IF call.fn = "save" THEN mem.Bin1 ELSE mem.Bout
  <2>1. Mixes!Textbook(MixRow(call), last, simple) =
          [k \in 0 .. last |-> IF ~ simple /\ k = last THEN Mixes!SALSA(MixV(call)[k])
                                                       ELSE MixV(call)[k]]
    BY TextbookIs
  <2>2. Mixes!Last = last /\ Mixes!Simple = simple
    BY DEF Mixes!Last, Mixes!Simple
  <2>3. MixRow(call) = IF call.fn \in {"salsa", "blockmix"} THEN Mixes!Row("in1", call.r)
                       ELSE Mixes!Mixed(Mixes!Row("in1", call.r), Mixes!Row("in2", call.r))
    BY <2>2 DEF MixRow, Mixes!Mixed
  <2>4. Mixes!MixMatches <=>
          /\ outs = Mixes!Textbook(MixRow(call), last, simple)
          /\ call.fn = "save" => mem.Bin2 = MixRow(call) /\ mem.Bout = Mixes!Row("old", call.r)
          /\ call.fn # "save" => /\ mem.Bin1 = Mixes!Row("in1", call.r)
                                 /\ mem.Bin2 = Mixes!Row("in2", call.r)
          /\ call.fn \notin {"salsa", "blockmix"} => result = outs[last]
    <3> HIDE DEF last, simple
    <3> QED
      BY <1>1, <2>2, <2>3 DEF Mixes!MixMatches
  <2> QED
    BY <1>1, <2>1, <2>4 DEF MixDone
<1>2. CASE ~ (stage = "done" /\ call.fn # "none")
  BY <1>2 DEF Mixes!MixMatches
<1> QED
  BY <1>1, <1>2

LEMMA MixEnds ==
  ASSUME call \in MixCalls, call' = call, MixDone(call, mem', result')
  PROVE  Mixes!MixMatches'
<1>1. (call \in MixCalls =>
        (Mixes!MixMatches <=> (stage = "done" /\ call.fn # "none" => MixDone(call, mem, result))))'
  BY MixDoneMatches, PTL
<1> QED
  BY <1>1

\* The last block, or the last two.
MixTop(c, k) ==
  IF c.fn \in {"blockmix", "xor", "save"} /\ k = 2 * c.r - 1 THEN Mixes!SALSA(MixV(c)[k])
                                                            ELSE MixV(c)[k]

LEMMA MixInit == Mixes!MixInit => MixInv
<1> SUFFICES ASSUME Mixes!MixInit PROVE MixInv
  OBVIOUS
<1>1. call \in MixCalls
  BY DEF Mixes!MixInit, MixCalls
<1>2. Mixes!MixMatches
  BY DEF Mixes!MixInit, Mixes!MixMatches
<1> QED
  BY <1>1, <1>2 DEF Mixes!MixInit, MixInv

LEMMA MixCallStep ==
  ASSUME MixInv, NEW fn \in {"salsa", "salsa_xor", "blockmix", "xor", "save"}, NEW r \in Nat \ {0},
         fn \in {"salsa", "salsa_xor"} => r = 1, Mixes!CallMix(fn, r)
  PROVE  MixInv'
<1> DEFINE c == [fn |-> fn, r |-> r]
<1>1. c \in MixCalls /\ call' = c /\ c.fn = fn /\ c.r = r
  BY DEF MixCalls, Mixes!CallMix
<1>2. stage' = "start" /\ idx' = 0
  BY DEF Mixes!CallMix
<1>3. mem' = MixMem(c, 0)
  <2> DEFINE last == 2 * r - 1
  <2>1. mem' = [Bin1 |-> Mixes!Row("in1", r), Bin2 |-> Mixes!Row("in2", r),
                Bout |-> Mixes!Row("old", r)]
    BY DEF Mixes!CallMix
  <2>2. \A name, new : [k \in 0 .. last |-> IF k < 0 THEN new[k] ELSE Mixes!Row(name, r)[k]]
                         = Mixes!Row(name, r)
    BY DEF Mixes!Row
  <2> QED
    BY <1>1, <2>1, <2>2 DEF MixMem
<1>4. Mixes!MixMatches'
  BY <1>2 DEF Mixes!MixMatches
<1> QED
  BY <1>1, <1>2, <1>3, <1>4 DEF MixInv

LEMMA MixSalsaStep ==
  ASSUME MixInv, Mixes!blockmix_salsa \/ Mixes!blockmix_salsa_xor
  PROVE  MixInv'
<1>1. /\ call \in MixCalls /\ call.fn \in {"salsa", "salsa_xor"} /\ call.r = 1
      /\ stage = "start" /\ idx = 0 /\ mem = MixMem(call, 0)
  BY DEF MixInv, MixCalls, Mixes!blockmix_salsa, Mixes!blockmix_salsa_xor
<1>2. call' = call /\ idx' = idx /\ stage' = "done"
  BY DEF Mixes!blockmix_salsa, Mixes!blockmix_salsa_xor, Mixes!Return
<1> DEFINE V == MixV(call)
           in1 == Mixes!Row("in1", 1)
           in2 == Mixes!Row("in2", 1)
<1>3. mem = [Bin1 |-> in1, Bin2 |-> in2, Bout |-> Mixes!Row("old", 1)]
  <2>1. \A new : [k \in 0 .. 2 * 1 - 1 |-> IF k < 0 THEN new[k] ELSE Mixes!Row("old", 1)[k]]
                   = Mixes!Row("old", 1)
    BY DEF Mixes!Row
  <2> QED
    BY <1>1, <2>1 DEF MixMem
<1>4. 0 .. 2 * 1 - 1 = {0, 1} /\ 2 * 1 - 1 = 1
  OBVIOUS
<1>5. /\ V[0] = Mixes!SALSA(Mixes!XOR(MixRow(call)[1], MixRow(call)[0]))
      /\ V[1] = Mixes!SALSA(Mixes!XOR(V[0], MixRow(call)[1]))
  BY <1>1, <1>4, MixVIs
<1>6. MixRow(call) = IF call.fn = "salsa" THEN in1 ELSE [k \in {0, 1} |-> Mixes!XOR(in1[k], in2[k])]
  BY <1>1, <1>4 DEF MixRow
<1> DEFINE first == mem'.Bout[0]
           second == mem'.Bout[1]
<1>7. ASSUME Mixes!blockmix_salsa PROVE MixDone(call, mem', result')
  <2> DEFINE a == Mixes!SALSA(Mixes!XOR(in1[1], in1[0]))
             b == Mixes!SALSA(Mixes!XOR(a, in1[1]))
  <2>1. call.fn = "salsa" /\ mem' = [mem EXCEPT !.Bout[0] = a, !.Bout[1] = b]
    BY <1>3, <1>7 DEF Mixes!blockmix_salsa
  <2>2. a = V[0] /\ b = V[1]
    BY <1>5, <1>6, <2>1
  <2> HIDE DEF a, b
  <2>3. mem'.Bout = [k \in {0, 1} |-> V[k]] /\ mem'.Bin1 = in1 /\ mem'.Bin2 = in2
    BY <1>3, <1>4, <2>1, <2>2 DEF Mixes!Row
  <2> QED
    BY <1>1, <1>2, <1>4, <2>1, <2>3 DEF MixDone
<1>8. ASSUME Mixes!blockmix_salsa_xor PROVE MixDone(call, mem', result')
  <2> DEFINE X0 == Mixes!XOR(Mixes!XOR(in1[1], in2[1]), in1[0])
             a == Mixes!SALSA(Mixes!XOR(X0, in2[0]))
             b == Mixes!SALSA(Mixes!XOR(Mixes!XOR(a, in1[1]), in2[1]))
  <2>1. /\ call.fn = "salsa_xor" /\ mem' = [mem EXCEPT !.Bout[0] = a, !.Bout[1] = b]
        /\ result' = b
    BY <1>3, <1>8 DEF Mixes!blockmix_salsa_xor, Mixes!Return
  <2>2. MixRow(call)[0] = Mixes!XOR(in1[0], in2[0]) /\ MixRow(call)[1] = Mixes!XOR(in1[1], in2[1])
    BY <1>6, <2>1
  <2>3. Mixes!XOR(X0, in2[0]) = Mixes!XOR(MixRow(call)[1], MixRow(call)[0])
    BY <2>2, XorLaws
  <2>4. Mixes!XOR(Mixes!XOR(a, in1[1]), in2[1]) = Mixes!XOR(a, MixRow(call)[1])
    BY <2>2, XorLaws
  <2>5. a = V[0] /\ b = V[1]
    BY <1>5, <2>3, <2>4
  <2> HIDE DEF a, b
  <2>6. mem'.Bout = [k \in {0, 1} |-> V[k]] /\ mem'.Bin1 = in1 /\ mem'.Bin2 = in2
    BY <1>3, <1>4, <2>1, <2>5 DEF Mixes!Row
  <2> QED
    BY <1>1, <1>2, <1>4, <2>1, <2>5, <2>6 DEF MixDone
<1>9. Mixes!MixMatches'
  BY <1>1, <1>2, <1>7, <1>8, MixEnds
<1> QED
  BY <1>1, <1>2, <1>9 DEF MixInv

LEMMA MixStartStep ==
  ASSUME MixInv, Mixes!blockmix_start \/ Mixes!pair_start
  PROVE  MixInv'
<1> DEFINE last == 2 * call.r - 1
<1>1. /\ call \in MixCalls /\ call.fn \in {"blockmix", "xor", "save"} /\ stage = "start"
      /\ idx = 0 /\ mem = MixMem(call, 0)
  BY DEF MixInv, Mixes!blockmix_start, Mixes!pair_start
<1>2. call' = call /\ idx' = idx /\ mem' = mem /\ stage' = "loop"
  BY DEF Mixes!blockmix_start, Mixes!pair_start
<1>3. last \in 0 .. last /\ last >= 0
  BY <1>1 DEF MixCalls
<1>4. reg' = MixRow(call)[last]
  <2>1. mem.Bin1[last] = {<<"in1", last>>} /\ mem.Bin2[last] = {<<"in2", last>>}
    <3>1. mem.Bin1[last] = Mixes!Row("in1", call.r)[last]
      BY <1>1, <1>3 DEF MixMem
    <3>2. mem.Bin2[last] = Mixes!Row("in2", call.r)[last]
      BY <1>1, <1>3 DEF MixMem
    <3> HIDE DEF last
    <3> QED
      BY <1>1, <1>3, <3>1, <3>2, MixRowIs DEF last
  <2>2. CASE Mixes!blockmix_start
    <3>1. reg' = mem.Bin1[last] /\ call.fn = "blockmix"
      BY <2>2 DEF Mixes!blockmix_start, Mixes!Last
    <3> QED
      BY <1>1, <1>3, <2>1, <3>1, MixRowIs
  <2>3. CASE Mixes!pair_start
    <3>1. reg' = Mixes!XOR(mem.Bin1[last], mem.Bin2[last]) /\ call.fn \in {"xor", "save"}
      BY <2>3 DEF Mixes!pair_start, Mixes!Last
    <3> QED
      BY <1>1, <1>3, <2>1, <3>1, MixRowIs
  <2> QED
    BY <2>2, <2>3
<1>5. Mixes!MixMatches'
  BY <1>2 DEF Mixes!MixMatches
<1>6. idx' \in 0 .. last /\ idx' % 2 = 0
  BY <1>1, <1>2, <1>3
<1> QED
  BY <1>1, <1>2, <1>4, <1>5, <1>6 DEF MixInv

\* What a turn of a loop finds.
LEMMA MixLoop ==
  ASSUME MixInv, stage = "loop"
  PROVE  /\ call \in MixCalls /\ call.fn \in {"blockmix", "xor", "save"}
         /\ call.r \in Nat \ {0} /\ idx \in 0 .. 2 * call.r - 1
         /\ call.fn # "blockmix" => idx % 2 = 0
         /\ mem = MixMem(call, idx)
         /\ MixV(call)[idx] = Mixes!PWX(idx, Mixes!XOR(reg, MixRow(call)[idx]))
<1>1. /\ call \in MixCalls /\ call.fn \in {"blockmix", "xor", "save"}
      /\ idx \in 0 .. 2 * call.r - 1 /\ (call.fn # "blockmix" => idx % 2 = 0)
      /\ reg = IF idx = 0 THEN MixRow(call)[2 * call.r - 1] ELSE MixV(call)[idx - 1]
      /\ mem = MixMem(call, idx)
  BY DEF MixInv
<1>2. call.r \in Nat \ {0} /\ call.fn \notin {"salsa", "salsa_xor"}
  BY <1>1 DEF MixCalls
<1>3. MixV(call)[idx] = Mixes!PWX(idx, Mixes!XOR(reg, MixRow(call)[idx]))
  BY <1>1, <1>2, MixVIs
<1> QED
  BY <1>1, <1>2, <1>3

LEMMA MixBlockStep ==
  ASSUME MixInv, Mixes!blockmix
  PROVE  MixInv'
<1> DEFINE last == 2 * call.r - 1
           V == MixV(call)
           in1 == Mixes!Row("in1", call.r)
           in2 == Mixes!Row("in2", call.r)
           old == Mixes!Row("old", call.r)
           done(h) == [k \in 0 .. last |-> IF k < h THEN V[k] ELSE old[k]]
<1>1. call.fn = "blockmix" /\ stage = "loop" /\ call' = call /\ Mixes!Last = last
  BY DEF Mixes!blockmix, Mixes!Last
<1>2. /\ call \in MixCalls /\ call.r \in Nat \ {0} /\ idx \in 0 .. last
      /\ mem = MixMem(call, idx) /\ V[idx] = Mixes!PWX(idx, Mixes!XOR(reg, MixRow(call)[idx]))
  BY <1>1, MixLoop
<1>3. mem = [Bin1 |-> in1, Bin2 |-> in2, Bout |-> done(idx)]
  BY <1>1, <1>2 DEF MixMem
<1>4. Mixes!PWX(idx, Mixes!XOR(reg, mem.Bin1[idx])) = V[idx]
  <2>1. mem.Bin1[idx] = in1[idx]
    BY <1>3
  <2>2. in1[idx] = MixRow(call)[idx]
    BY <1>1, <1>2, MixRowIs
  <2> QED
    BY <1>2, <2>1, <2>2
<1>5. CASE idx >= last
  <2>1. idx = last
    BY <1>2, <1>5
  <2>2. /\ mem' = [mem EXCEPT !.Bout[last] = Mixes!SALSA(V[last])]
        /\ stage' = "done" /\ idx' = idx
    BY <1>1, <1>2, <1>4, <1>5, <2>1 DEF Mixes!blockmix, Mixes!Return
  <2>3. mem'.Bout = [k \in 0 .. last |-> IF k = last THEN Mixes!SALSA(V[k]) ELSE V[k]]
    <3>1. \A k \in 0 .. last : k = last \/ k < last
      BY <1>2
    <3>2. mem'.Bout = [done(last) EXCEPT ![last] = Mixes!SALSA(V[last])]
      BY <1>3, <2>1, <2>2
    <3> HIDE DEF V, old
    <3> QED
      BY <1>2, <3>1, <3>2
  <2>4. mem'.Bin1 = in1 /\ mem'.Bin2 = in2
    BY <1>3, <2>2
  <2>5. MixDone(call, mem', result')
    BY <1>1, <2>3, <2>4 DEF MixDone
  <2>6. Mixes!MixMatches'
    BY <1>1, <1>2, <2>5, MixEnds
  <2> QED
    BY <1>1, <1>2, <2>2, <2>6 DEF MixInv
<1>6. CASE idx < last
  <2>1. /\ mem' = [mem EXCEPT !.Bout[idx] = V[idx]]
        /\ stage' = "loop" /\ idx' = idx + 1 /\ reg' = V[idx]
    BY <1>1, <1>2, <1>4, <1>6 DEF Mixes!blockmix
  <2>2. idx + 1 \in 0 .. last /\ idx + 1 # 0 /\ (idx + 1) - 1 = idx
    BY <1>2, <1>6
  <2>3. mem'.Bout = done(idx + 1) /\ mem'.Bin1 = in1 /\ mem'.Bin2 = in2
    <3>1. \A k \in 0 .. last : k < idx + 1 <=> k = idx \/ k < idx
      BY <1>2
    <3>2. mem'.Bout = [done(idx) EXCEPT ![idx] = V[idx]] /\ mem'.Bin1 = in1 /\ mem'.Bin2 = in2
      BY <1>3, <2>1
    <3> HIDE DEF V, old
    <3> QED
      BY <1>2, <3>1, <3>2
  <2>4. mem' = MixMem(call, idx + 1)
    <3>1. mem' = [Bin1 |-> mem'.Bin1, Bin2 |-> mem'.Bin2, Bout |-> mem'.Bout]
      BY <1>3, <2>1
    <3> QED
      BY <1>1, <2>3, <3>1 DEF MixMem
  <2>5. Mixes!MixMatches'
    BY <2>1 DEF Mixes!MixMatches
  <2> QED
    BY <1>1, <1>2, <2>1, <2>2, <2>4, <2>5 DEF MixInv
<1> QED
  BY <1>2, <1>5, <1>6

\* A turn of the loops that do two blocks: both values, and where it leads.
LEMMA MixPair ==
  ASSUME MixInv, stage = "loop", call.fn \in {"xor", "save"}
  PROVE  /\ idx + 1 \in 0 .. 2 * call.r - 1
         /\ Mixes!Turn1 = MixV(call)[idx]
         /\ Mixes!Turn2 = MixV(call)[idx + 1]
         /\ \A k \in {idx, idx + 1} :
              Mixes!XOR(mem.Bin2[k], mem.Bin1[k]) = MixRow(call)[k]
<1> DEFINE last == 2 * call.r - 1
           V == MixV(call)
<1>1. /\ call \in MixCalls /\ call.r \in Nat \ {0} /\ idx \in 0 .. last /\ idx % 2 = 0
      /\ mem = MixMem(call, idx) /\ V[idx] = Mixes!PWX(idx, Mixes!XOR(reg, MixRow(call)[idx]))
  BY MixLoop
<1>2. idx + 1 \in 0 .. last /\ idx + 1 # 0 /\ (idx + 1) - 1 = idx
  BY <1>1
<1>3. \A k \in {idx, idx + 1} :
        /\ mem.Bin1[k] = Mixes!Row("in1", call.r)[k] /\ mem.Bin2[k] = Mixes!Row("in2", call.r)[k]
  <2>1. \A k \in {idx, idx + 1} : k \in 0 .. last /\ ~ (k < idx)
    BY <1>1, <1>2
  <2> QED
    BY <1>1, <2>1 DEF MixMem
<1>4. \A k \in {idx, idx + 1} :
        MixRow(call)[k] = Mixes!XOR(mem.Bin1[k], mem.Bin2[k])
  <2> TAKE k \in {idx, idx + 1}
  <2>1. k \in 0 .. last
    BY <1>1, <1>2
  <2>2. /\ Mixes!Row("in1", call.r)[k] = {<<"in1", k>>}
        /\ Mixes!Row("in2", call.r)[k] = {<<"in2", k>>}
        /\ MixRow(call)[k] = Mixes!XOR({<<"in1", k>>}, {<<"in2", k>>})
    BY <1>1, <2>1, MixRowIs
  <2> QED
    BY <1>3, <2>2
<1>5. \A v : \A k \in {idx, idx + 1} :
        Mixes!XOR(Mixes!XOR(v, mem.Bin1[k]), mem.Bin2[k]) = Mixes!XOR(v, MixRow(call)[k])
  BY <1>4, XorLaws
<1>6. Mixes!Turn1 = V[idx]
  BY <1>1, <1>5 DEF Mixes!Turn1
<1>7. V[idx + 1] = Mixes!PWX(idx + 1, Mixes!XOR(V[idx], MixRow(call)[idx + 1]))
  BY <1>1, <1>2, MixVIs
<1>8. Mixes!Turn2 = V[idx + 1]
  BY <1>5, <1>6, <1>7 DEF Mixes!Turn2
<1>9. \A k \in {idx, idx + 1} : Mixes!XOR(mem.Bin2[k], mem.Bin1[k]) = MixRow(call)[k]
  BY <1>4, XorLaws
<1> QED
  BY <1>2, <1>6, <1>8, <1>9

LEMMA MixPairStep ==
  ASSUME MixInv, Mixes!blockmix_xor \/ Mixes!blockmix_xor_save
  PROVE  MixInv'
<1> DEFINE last == 2 * call.r - 1
           V == MixV(call)
           row == MixRow(call)
           in1 == Mixes!Row("in1", call.r)
           in2 == Mixes!Row("in2", call.r)
           old == Mixes!Row("old", call.r)
           second == IF idx >= last - 1 THEN Mixes!SALSA(V[idx + 1]) ELSE V[idx + 1]
           done(h, a, b) == [k \in 0 .. last |-> IF k < h THEN b[k] ELSE a[k]]
           put(f, a, b) == [f EXCEPT ![idx] = a, ![idx + 1] = b]
<1>1. call.fn \in {"xor", "save"} /\ stage = "loop" /\ call' = call /\ Mixes!Last = last
  BY DEF Mixes!blockmix_xor, Mixes!blockmix_xor_save, Mixes!Last
<1>2. /\ call \in MixCalls /\ call.r \in Nat \ {0} /\ idx \in 0 .. last /\ idx % 2 = 0
      /\ mem = MixMem(call, idx)
  BY <1>1, MixLoop
<1>3. /\ idx + 1 \in 0 .. last /\ Mixes!Turn1 = V[idx] /\ Mixes!Turn2 = V[idx + 1]
      /\ \A k \in {idx, idx + 1} : Mixes!XOR(mem.Bin2[k], mem.Bin1[k]) = row[k]
  BY <1>1, MixPair
<1>4. Mixes!Second = second
  BY <1>1, <1>3 DEF Mixes!Second
<1>5. /\ reg' = second
      /\ \/ idx >= last - 1 /\ stage' = "done" /\ result' = second /\ idx' = idx
         \/ idx < last - 1 /\ idx' = idx + 2 /\ stage' = stage
  BY <1>1, <1>4 DEF Mixes!blockmix_xor, Mixes!blockmix_xor_save, Mixes!NextTurn, Mixes!Return
\* Memory after the turn.
<1>6. mem' = IF call.fn = "save"
             THEN [Bin1 |-> put(done(idx, in1, V), V[idx], second),
                   Bin2 |-> put(done(idx, in2, row), row[idx], row[idx + 1]), Bout |-> old]
             ELSE [Bin1 |-> in1, Bin2 |-> in2, Bout |-> put(done(idx, old, V), V[idx], second)]
  <2>1. CASE Mixes!blockmix_xor
    <3>1. /\ call.fn = "xor"
          /\ mem' = [mem EXCEPT !.Bout[idx] = V[idx], !.Bout[idx + 1] = second]
      BY <1>3, <1>4, <2>1 DEF Mixes!blockmix_xor
    <3>2. mem = [Bin1 |-> in1, Bin2 |-> in2, Bout |-> done(idx, old, V)]
      BY <1>2, <3>1 DEF MixMem
    <3> HIDE DEF V, row, in1, in2, old, second, last
    <3>3. /\ mem' = [Bin1 |-> mem'.Bin1, Bin2 |-> mem'.Bin2, Bout |-> mem'.Bout]
          /\ mem'.Bin1 = in1 /\ mem'.Bin2 = in2
      BY <3>1, <3>2
    <3>4. mem'.Bout = put(done(idx, old, V), V[idx], second)
      BY <3>1, <3>2
    <3> HIDE DEF put, done
    <3> QED
      BY <3>1, <3>3, <3>4
  <2>2. CASE Mixes!blockmix_xor_save
    <3>1. /\ call.fn = "save"
          /\ mem' = [mem EXCEPT !.Bin2[idx] = row[idx], !.Bin1[idx] = V[idx],
                                !.Bin2[idx + 1] = row[idx + 1], !.Bin1[idx + 1] = second]
      BY <1>3, <1>4, <2>2 DEF Mixes!blockmix_xor_save
    <3>2. mem = [Bin1 |-> done(idx, in1, V), Bin2 |-> done(idx, in2, row), Bout |-> old]
      BY <1>2, <3>1 DEF MixMem
    <3> HIDE DEF V, row, in1, in2, old, second, last
    <3>3. /\ mem' = [Bin1 |-> mem'.Bin1, Bin2 |-> mem'.Bin2, Bout |-> mem'.Bout]
          /\ mem'.Bout = old
      BY <3>1, <3>2
    <3>4. mem'.Bin1 = put(done(idx, in1, V), V[idx], second)
      BY <3>1, <3>2
    <3>5. mem'.Bin2 = put(done(idx, in2, row), row[idx], row[idx + 1])
      BY <3>1, <3>2
    <3> HIDE DEF put, done
    <3> QED
      BY <3>1, <3>3, <3>4, <3>5
  <2> HIDE DEF V, row, in1, in2, old, second, last, put, done
  <2> QED
    BY <2>1, <2>2
<1>7. CASE idx < last - 1
  <2>1. /\ idx + 2 \in 0 .. last /\ idx + 2 # 0 /\ (idx + 2) - 1 = idx + 1 /\ (idx + 2) % 2 = 0
        /\ second = V[idx + 1]
    BY <1>2, <1>7
  <2>2. \A a, b : put(done(idx, a, b), b[idx], b[idx + 1]) = done(idx + 2, a, b)
    <3> TAKE a, b
    <3>1. \A k \in 0 .. last : k < idx + 2 <=> k = idx \/ k = idx + 1 \/ k < idx
      BY <1>2
    <3> QED
      BY <1>2, <1>3, <3>1
  <2>3. mem' = MixMem(call, idx + 2)
    <3> HIDE DEF second, put
    <3>1. mem' = IF call.fn = "save"
                 THEN [Bin1 |-> done(idx + 2, in1, V), Bin2 |-> done(idx + 2, in2, row),
                       Bout |-> old]
                 ELSE [Bin1 |-> in1, Bin2 |-> in2, Bout |-> done(idx + 2, old, V)]
      BY <1>6, <2>1, <2>2
    <3> QED
      BY <3>1 DEF MixMem
  <2>4. idx' = idx + 2 /\ stage' = "loop" /\ reg' = V[idx + 1]
    BY <1>1, <1>2, <1>5, <1>7, <2>1
  <2>5. Mixes!MixMatches'
    BY <2>4 DEF Mixes!MixMatches
  <2> QED
    BY <1>1, <1>2, <2>1, <2>3, <2>4, <2>5 DEF MixInv
<1>8. CASE idx >= last - 1
  <2>1. idx + 1 = last /\ second = Mixes!SALSA(V[last])
    <3>1. idx + 1 = last
      BY <1>2, <1>3, <1>8
    <3> QED
      BY <1>8, <3>1
  <2>2. stage' = "done" /\ result' = Mixes!SALSA(V[last]) /\ idx' = idx
    BY <1>2, <1>5, <1>8, <2>1
  <2> DEFINE top == [k \in 0 .. last |-> IF k = last THEN Mixes!SALSA(V[k]) ELSE V[k]]
  <2>3. \A k \in 0 .. last : k = last \/ k = idx \/ k < idx
    <3>1. idx \in Int /\ idx + 1 = last
      BY <1>2, <2>1
    <3> HIDE DEF last
    <3> QED
      BY <3>1
  <2>4. \A a : put(done(idx, a, V), V[idx], Mixes!SALSA(V[last])) = top
    <3> HIDE DEF V
    <3> QED
      BY <1>2, <1>3, <2>1, <2>3
  <2>5. put(done(idx, in2, row), row[idx], row[idx + 1]) = row
    <3>1. put(done(idx, in2, row), row[idx], row[idx + 1]) = [k \in 0 .. last |-> row[k]]
      <4> HIDE DEF row, in2
      <4> QED
        BY <1>2, <1>3, <2>1, <2>3
    <3>2. row = [k \in 0 .. last |-> row[k]]
      BY <1>1 DEF MixRow, MixCalls
    <3> QED
      BY <3>1, <3>2
  <2>6. mem' = IF call.fn = "save" THEN [Bin1 |-> top, Bin2 |-> row, Bout |-> old]
                                   ELSE [Bin1 |-> in1, Bin2 |-> in2, Bout |-> top]
    <3> HIDE DEF second, put, top
    <3> QED
      BY <1>6, <2>1, <2>4, <2>5
  <2>7. top[last] = Mixes!SALSA(V[last])
    BY <1>2
  <2>8. MixDone(call, mem', result')
    <3>1. call.fn \notin {"salsa", "salsa_xor"} /\ call.fn \notin {"salsa", "blockmix"}
      BY <1>1
    <3>2. top = [k \in 0 .. last |-> IF ~ (call.fn \in {"salsa", "salsa_xor"}) /\ k = last
                                     THEN Mixes!SALSA(V[k]) ELSE V[k]]
      BY <3>1
    <3> HIDE DEF top
    <3> QED
      BY <1>1, <2>2, <2>6, <2>7, <3>1, <3>2 DEF MixDone
  <2>9. Mixes!MixMatches'
    BY <1>1, <1>2, <2>8, MixEnds
  <2> QED
    BY <1>1, <1>2, <2>2, <2>9 DEF MixInv
<1> QED
  BY <1>2, <1>7, <1>8

LEMMA MixNextStep == MixInv /\ [Mixes!MixNext]_blockVars => MixInv'
<1> SUFFICES ASSUME MixInv, [Mixes!MixNext]_blockVars PROVE MixInv'
  OBVIOUS
<1>1. ASSUME NEW fn \in {"salsa", "salsa_xor"}, Mixes!CallMix(fn, 1) PROVE MixInv'
  BY <1>1, MixCallStep
<1>2. ASSUME NEW fn \in {"blockmix", "xor", "save"}, NEW r \in Widths, Mixes!CallMix(fn, r)
      PROVE  MixInv'
  BY <1>2, MixCallStep, HasherAssumption
<1>3. CASE Mixes!blockmix_salsa \/ Mixes!blockmix_salsa_xor
  BY <1>3, MixSalsaStep
<1>4. CASE Mixes!blockmix_start \/ Mixes!pair_start
  BY <1>4, MixStartStep
<1>5. CASE Mixes!blockmix
  BY <1>5, MixBlockStep
<1>6. CASE Mixes!blockmix_xor \/ Mixes!blockmix_xor_save
  BY <1>6, MixPairStep
<1>7. CASE UNCHANGED blockVars
  BY <1>7 DEF blockVars, MixInv, Mixes!MixMatches, Mixes!Last, Mixes!Simple, Mixes!Mixed
<1> QED
  BY <1>1, <1>2, <1>3, <1>4, <1>5, <1>6, <1>7 DEF Mixes!MixNext

\* Whichever blockmix function is called, for any r: it computes BlockMix of its
\* row or of the xor of its two rows, leaves their xor in V if it is to, and
\* returns the last block (yespower-opt.c: blockmix_salsa to blockmix_xor_save).
THEOREM MixCorrect == HasherSpec => []MixMatches
<1>1. HasherInit => MixInv
  BY MixInit DEF HasherInit
<1>2. MixInv /\ [HasherNext]_hasherVars => MixInv'
  <2>1. [HasherNext]_hasherVars => [Mixes!MixNext]_blockVars
    BY DEF HasherNext, hasherVars, WorkTurn, YespowerTurn, StreamTurn, RoundsTurn, SalsaTurn,
           PwxformTurn, BlockMixTurn
  <2> QED
    BY <2>1, MixNextStep
<1>3. MixInv => MixMatches
  BY DEF MixInv, MixMatches
<1> QED
  BY <1>1, <1>2, <1>3, PTL DEF HasherSpec

(***************************************************************************)
(* Words, by their bits.                                                   *)
(***************************************************************************)
Half == {m \in Nat : m < 65536}
Word32 == Half \X Half
Bits16 == [0 .. 15 -> {0, 1}]

\* The number with these bits, and the bits of a xor, an and, a not.
Nibble(b, k) == b[k] + 2 * b[k + 1] + 4 * b[k + 2] + 8 * b[k + 3]
FromBits(b) == 4096 * Nibble(b, 12) + 256 * Nibble(b, 8) + 16 * Nibble(b, 4) + Nibble(b, 0)
XorBits(b, c) == [k \in 0 .. 15 |-> IF b[k] = c[k] THEN 0 ELSE 1]
AndBits(b, c) == [k \in 0 .. 15 |-> b[k] * c[k]]
NotBits(b) == [k \in 0 .. 15 |-> 1 - b[k]]

LEMMA Halve ==
  ASSUME NEW v \in Nat
  PROVE  \E q \in Nat, b \in {0, 1} : v = 2 * q + b
<1> DEFINE q == v \div 2
           b == v % 2
<1>1. q \in Nat /\ b \in {0, 1} /\ v = 2 * q + b
  OBVIOUS
<1> HIDE DEF q, b
<1> QED
  BY <1>1

LEMMA NibbleType ==
  ASSUME NEW b \in Bits16, NEW k \in 0 .. 12
  PROVE  Nibble(b, k) \in Nat /\ Nibble(b, k) < 16
<1>1. /\ b[k] \in {0, 1} /\ b[k + 1] \in {0, 1} /\ b[k + 2] \in {0, 1} /\ b[k + 3] \in {0, 1}
  BY DEF Bits16
<1> QED
  BY <1>1 DEF Nibble

\* Every number of 16 bits has its bits.
LEMMA HalfBits ==
  ASSUME NEW v \in Half
  PROVE  \E b \in Bits16 : v = FromBits(b)
<1>a. v \in Nat
  BY DEF Half
<1>b. v < 65536
  BY DEF Half
<1>1. PICK q1 \in Nat, b0 \in {0, 1} : v = 2 * q1 + b0
  BY <1>a, Halve
<1>2. PICK q2 \in Nat, b1 \in {0, 1} : q1 = 2 * q2 + b1
  BY Halve
<1>3. PICK q3 \in Nat, b2 \in {0, 1} : q2 = 2 * q3 + b2
  BY Halve
<1>4. PICK q4 \in Nat, b3 \in {0, 1} : q3 = 2 * q4 + b3
  BY Halve
<1>5. PICK q5 \in Nat, b4 \in {0, 1} : q4 = 2 * q5 + b4
  BY Halve
<1>6. PICK q6 \in Nat, b5 \in {0, 1} : q5 = 2 * q6 + b5
  BY Halve
<1>7. PICK q7 \in Nat, b6 \in {0, 1} : q6 = 2 * q7 + b6
  BY Halve
<1>8. PICK q8 \in Nat, b7 \in {0, 1} : q7 = 2 * q8 + b7
  BY Halve
<1>9. PICK q9 \in Nat, b8 \in {0, 1} : q8 = 2 * q9 + b8
  BY Halve
<1>10. PICK q10 \in Nat, b9 \in {0, 1} : q9 = 2 * q10 + b9
  BY Halve
<1>11. PICK q11 \in Nat, b10 \in {0, 1} : q10 = 2 * q11 + b10
  BY Halve
<1>12. PICK q12 \in Nat, b11 \in {0, 1} : q11 = 2 * q12 + b11
  BY Halve
<1>13. PICK q13 \in Nat, b12 \in {0, 1} : q12 = 2 * q13 + b12
  BY Halve
<1>14. PICK q14 \in Nat, b13 \in {0, 1} : q13 = 2 * q14 + b13
  BY Halve
<1>15. PICK q15 \in Nat, b14 \in {0, 1} : q14 = 2 * q15 + b14
  BY Halve
<1>16. PICK q16 \in Nat, b15 \in {0, 1} : q15 = 2 * q16 + b15
  BY Halve
<1> DEFINE t == <<b0, b1, b2, b3, b4, b5, b6, b7, b8, b9, b10, b11, b12, b13, b14, b15>>
           b == [k \in 0 .. 15 |-> t[k + 1]]
<1>17. /\ b[0] = b0 /\ b[1] = b1 /\ b[2] = b2 /\ b[3] = b3
       /\ b[4] = b4 /\ b[5] = b5 /\ b[6] = b6 /\ b[7] = b7
       /\ b[8] = b8 /\ b[9] = b9 /\ b[10] = b10 /\ b[11] = b11
       /\ b[12] = b12 /\ b[13] = b13 /\ b[14] = b14 /\ b[15] = b15
  OBVIOUS
<1>18. b \in Bits16
  <2>1. \A k \in 1 .. 16 : t[k] \in {0, 1}
    OBVIOUS
  <2> HIDE DEF t
  <2> QED
    BY <2>1 DEF Bits16
<1> HIDE DEF b
<1>19. /\ v = 16 * q4 + Nibble(b, 0) /\ q4 = 16 * q8 + Nibble(b, 4)
       /\ q8 = 16 * q12 + Nibble(b, 8) /\ q12 = 16 * q16 + Nibble(b, 12)
  <2>1. v = 16 * q4 + Nibble(b, 0)
    BY <1>1, <1>2, <1>3, <1>4, <1>17 DEF Nibble
  <2>2. q4 = 16 * q8 + Nibble(b, 4)
    BY <1>5, <1>6, <1>7, <1>8, <1>17 DEF Nibble
  <2>3. q8 = 16 * q12 + Nibble(b, 8)
    BY <1>9, <1>10, <1>11, <1>12, <1>17 DEF Nibble
  <2>4. q12 = 16 * q16 + Nibble(b, 12)
    BY <1>13, <1>14, <1>15, <1>16, <1>17 DEF Nibble
  <2> QED
    BY <2>1, <2>2, <2>3, <2>4
<1>20. /\ Nibble(b, 0) \in Nat /\ Nibble(b, 4) \in Nat
       /\ Nibble(b, 8) \in Nat /\ Nibble(b, 12) \in Nat
  BY <1>18, NibbleType
<1>21. q16 = 0
  BY <1>b, <1>19, <1>20
<1>22. v = FromBits(b)
  BY <1>19, <1>20, <1>21 DEF FromBits
<1> QED
  BY <1>18, <1>22

LEMMA NibbleBit ==
  ASSUME NEW b \in Bits16, NEW k \in 0 .. 12
  PROVE  /\ Bit(Nibble(b, k), 0) = b[k] /\ Bit(Nibble(b, k), 1) = b[k + 1]
         /\ Bit(Nibble(b, k), 2) = b[k + 2] /\ Bit(Nibble(b, k), 3) = b[k + 3]
<1> DEFINE b0 == b[k]
           b1 == b[k + 1]
           b2 == b[k + 2]
           b3 == b[k + 3]
<1>1. /\ b0 \in {0, 1} /\ b1 \in {0, 1} /\ b2 \in {0, 1} /\ b3 \in {0, 1}
  BY DEF Bits16
<1>2. Nibble(b, k) = b0 + 2 * b1 + 4 * b2 + 8 * b3
  BY DEF Nibble
<1> HIDE DEF b0, b1, b2, b3
<1>3. 2 ^ 0 = 1 /\ 2 ^ 1 = 2 /\ 2 ^ 2 = 4 /\ 2 ^ 3 = 8
  OBVIOUS
<1>4. Bit(Nibble(b, k), 0) = b0
  BY <1>1, <1>2, <1>3 DEF Bit
<1>5. Bit(Nibble(b, k), 1) = b1
  BY <1>1, <1>2, <1>3 DEF Bit
<1>6. Bit(Nibble(b, k), 2) = b2
  BY <1>1, <1>2, <1>3 DEF Bit
<1>7. Bit(Nibble(b, k), 3) = b3
  BY <1>1, <1>2, <1>3 DEF Bit
<1> QED
  BY <1>4, <1>5, <1>6, <1>7 DEF b0, b1, b2, b3

LEMMA XorBitsType ==
  ASSUME NEW b \in Bits16, NEW c \in Bits16
  PROVE  XorBits(b, c) \in Bits16 /\ AndBits(b, c) \in Bits16 /\ NotBits(b) \in Bits16
BY DEF Bits16, XorBits, AndBits, NotBits

LEMMA NibbleXor ==
  ASSUME NEW b \in Bits16, NEW c \in Bits16, NEW k \in 0 .. 12
  PROVE  XorNibble[Nibble(b, k)][Nibble(c, k)] = Nibble(XorBits(b, c), k)
<1> DEFINE m == Nibble(b, k)
           h == Nibble(c, k)
<1>1. m \in 0 .. 15 /\ h \in 0 .. 15
  BY NibbleType
<1>2. XorNibble[m][h] =
        ((Bit(m, 0) + Bit(h, 0)) % 2) + 2 * ((Bit(m, 1) + Bit(h, 1)) % 2)
          + 4 * ((Bit(m, 2) + Bit(h, 2)) % 2) + 8 * ((Bit(m, 3) + Bit(h, 3)) % 2)
  <2> HIDE DEF m, h
  <2> QED
    BY <1>1 DEF XorNibble
<1>3. \A l \in {k, k + 1, k + 2, k + 3} : (b[l] + c[l]) % 2 = XorBits(b, c)[l]
  BY DEF XorBits, Bits16
<1>4. XorNibble[m][h] = ((b[k] + c[k]) % 2) + 2 * ((b[k + 1] + c[k + 1]) % 2)
          + 4 * ((b[k + 2] + c[k + 2]) % 2) + 8 * ((b[k + 3] + c[k + 3]) % 2)
  <2>1. /\ Bit(m, 0) = b[k] /\ Bit(m, 1) = b[k + 1] /\ Bit(m, 2) = b[k + 2] /\ Bit(m, 3) = b[k + 3]
        /\ Bit(h, 0) = c[k] /\ Bit(h, 1) = c[k + 1] /\ Bit(h, 2) = c[k + 2] /\ Bit(h, 3) = c[k + 3]
    BY NibbleBit
  <2> HIDE DEF m, h
  <2> QED
    BY <1>2, <2>1
<1> QED
  BY <1>3, <1>4 DEF Nibble

\* A byte, by its nibbles.
Nibbles == 0 .. 15

LEMMA ByteXor ==
  ASSUME NEW p \in Nibbles, NEW q \in Nibbles, NEW r \in Nibbles, NEW t \in Nibbles
  PROVE  XorByte[16 * p + q][16 * r + t] = 16 * XorNibble[p][r] + XorNibble[q][t]
<1> DEFINE m == 16 * p + q
           h == 16 * r + t
<1>1. m \in Byte /\ h \in Byte
  BY DEF Byte, Nibbles
<1>2. m \div 16 = p /\ m % 16 = q /\ h \div 16 = r /\ h % 16 = t
  BY DEF Nibbles
<1> HIDE DEF m, h
<1>3. XorByte[m][h] = 16 * XorNibble[m \div 16][h \div 16] + XorNibble[m % 16][h % 16]
  BY <1>1 DEF XorByte
<1> QED
  BY <1>2, <1>3 DEF m, h

LEMMA HalfXor ==
  ASSUME NEW p \in Byte, NEW q \in Byte, NEW r \in Byte, NEW t \in Byte
  PROVE  Xor24(256 * p + q, 256 * r + t) = 65536 * XorByte[0][0] + 256 * XorByte[p][r] + XorByte[q][t]
<1> DEFINE m == 256 * p + q
           h == 256 * r + t
<1>1. p \in Nat /\ q \in Nat /\ r \in Nat /\ t \in Nat /\ p < 256 /\ q < 256 /\ r < 256 /\ t < 256
  BY DEF Byte
<1>2. /\ m \div 65536 = 0 /\ (m \div 256) % 256 = p /\ m % 256 = q
      /\ h \div 65536 = 0 /\ (h \div 256) % 256 = r /\ h % 256 = t
  BY <1>1
<1> HIDE DEF m, h
<1>3. Xor24(m, h) = 65536 * XorByte[0][0] + 256 * XorByte[p][r] + XorByte[q][t]
  BY <1>2 DEF Xor24
<1> QED
  BY <1>3 DEF m, h

LEMMA XorNothing == XorByte[0][0] = 0
<1>1. XorNibble[0][0] = 0
  <2>1. 2 ^ 0 = 1 /\ 2 ^ 1 = 2 /\ 2 ^ 2 = 4 /\ 2 ^ 3 = 8
    OBVIOUS
  <2>2. Bit(0, 0) = 0 /\ Bit(0, 1) = 0 /\ Bit(0, 2) = 0 /\ Bit(0, 3) = 0
    BY <2>1 DEF Bit
  <2>3. 0 \in 0 .. 15
    OBVIOUS
  <2>4. XorNibble[0][0] =
          ((Bit(0, 0) + Bit(0, 0)) % 2) + 2 * ((Bit(0, 1) + Bit(0, 1)) % 2)
            + 4 * ((Bit(0, 2) + Bit(0, 2)) % 2) + 8 * ((Bit(0, 3) + Bit(0, 3)) % 2)
    BY <2>3 DEF XorNibble
  <2> QED
    BY <2>2, <2>4
<1>2. 0 \in Byte /\ 0 \div 16 = 0 /\ 0 % 16 = 0
  BY DEF Byte
<1>3. XorByte[0][0] = 16 * XorNibble[0 \div 16][0 \div 16] + XorNibble[0 % 16][0 % 16]
  BY <1>2 DEF XorByte
<1> QED
  BY <1>1, <1>2, <1>3

\* The two bytes of the number with these bits.
High(b) == 16 * Nibble(b, 12) + Nibble(b, 8)
Low(b) == 16 * Nibble(b, 4) + Nibble(b, 0)

LEMMA FromBitsBytes ==
  ASSUME NEW b \in Bits16
  PROVE  /\ High(b) \in Byte /\ Low(b) \in Byte
         /\ FromBits(b) = 256 * High(b) + Low(b) /\ FromBits(b) \in Half
<1>1. PICK b3 \in 0 .. 15 : b3 = Nibble(b, 12)
  BY NibbleType
<1>2. PICK b2 \in 0 .. 15 : b2 = Nibble(b, 8)
  BY NibbleType
<1>3. PICK b1 \in 0 .. 15 : b1 = Nibble(b, 4)
  BY NibbleType
<1>4. PICK b0 \in 0 .. 15 : b0 = Nibble(b, 0)
  BY NibbleType
<1>5. High(b) = 16 * b3 + b2
  BY <1>1, <1>2 DEF High
<1>6. Low(b) = 16 * b1 + b0
  BY <1>3, <1>4 DEF Low
<1>7. FromBits(b) = 4096 * b3 + 256 * b2 + 16 * b1 + b0
  BY <1>1, <1>2, <1>3, <1>4 DEF FromBits
<1>8. 4096 * b3 + 256 * b2 + 16 * b1 + b0 = 256 * (16 * b3 + b2) + (16 * b1 + b0)
  OBVIOUS
<1>9. 16 * b3 + b2 \in Byte /\ 16 * b1 + b0 \in Byte
  BY DEF Byte
<1>10. 4096 * b3 + 256 * b2 + 16 * b1 + b0 \in Half
  BY DEF Half
<1> QED
  BY <1>5, <1>6, <1>7, <1>8, <1>9, <1>10

LEMMA BytesXor ==
  ASSUME NEW b \in Bits16, NEW c \in Bits16
  PROVE  /\ XorByte[High(b)][High(c)] = High(XorBits(b, c))
         /\ XorByte[Low(b)][Low(c)] = Low(XorBits(b, c))
<1>1. ASSUME NEW k \in 0 .. 12
      PROVE  /\ Nibble(b, k) \in Nibbles /\ Nibble(c, k) \in Nibbles
             /\ XorNibble[Nibble(b, k)][Nibble(c, k)] = Nibble(XorBits(b, c), k)
  <2>1. Nibble(b, k) \in Nibbles
    BY NibbleType DEF Nibbles
  <2>2. Nibble(c, k) \in Nibbles
    BY NibbleType DEF Nibbles
  <2>3. XorNibble[Nibble(b, k)][Nibble(c, k)] = Nibble(XorBits(b, c), k)
    BY NibbleXor
  <2> QED
    BY <2>1, <2>2, <2>3
<1>2. ASSUME NEW k \in 0 .. 12, NEW g \in 0 .. 12
      PROVE  XorByte[16 * Nibble(b, k) + Nibble(b, g)][16 * Nibble(c, k) + Nibble(c, g)] =
               16 * XorNibble[Nibble(b, k)][Nibble(c, k)] + XorNibble[Nibble(b, g)][Nibble(c, g)]
  <2>1. /\ Nibble(b, k) \in Nibbles /\ Nibble(c, k) \in Nibbles
        /\ Nibble(b, g) \in Nibbles /\ Nibble(c, g) \in Nibbles
    BY <1>1
  <2> QED
    BY <2>1, ByteXor
<1> QED
  BY <1>1, <1>2 DEF High, Low

LEMMA XorFromBits ==
  ASSUME NEW b \in Bits16, NEW c \in Bits16
  PROVE  Xor24(FromBits(b), FromBits(c)) = FromBits(XorBits(b, c))
<1> DEFINE v == XorBits(b, c)
<1>1. v \in Bits16
  BY XorBitsType
<1>2. /\ High(b) \in Byte /\ Low(b) \in Byte /\ FromBits(b) = 256 * High(b) + Low(b)
      /\ High(c) \in Byte /\ Low(c) \in Byte /\ FromBits(c) = 256 * High(c) + Low(c)
  BY FromBitsBytes
<1>3. Xor24(256 * High(b) + Low(b), 256 * High(c) + Low(c)) =
        65536 * XorByte[0][0] + 256 * XorByte[High(b)][High(c)] + XorByte[Low(b)][Low(c)]
  BY <1>2, HalfXor
<1>4. Xor24(FromBits(b), FromBits(c)) = 65536 * 0 + 256 * High(v) + Low(v)
  BY <1>2, <1>3, XorNothing, BytesXor
<1> HIDE DEF v
<1>5. High(v) \in Byte /\ Low(v) \in Byte /\ FromBits(v) = 256 * High(v) + Low(v)
  BY <1>1, FromBitsBytes
<1>6. \A h, l \in Byte : 65536 * 0 + 256 * h + l = 256 * h + l
  BY DEF Byte
<1> QED
  BY <1>4, <1>5, <1>6 DEF v

\* b + c = (b ^ c) + 2 * (b & c), bit by bit, nibble by nibble, as a whole.
LEMMA NibbleSum ==
  ASSUME NEW b \in Bits16, NEW c \in Bits16, NEW k \in 0 .. 12
  PROVE  Nibble(b, k) + Nibble(c, k) = Nibble(XorBits(b, c), k) + 2 * Nibble(AndBits(b, c), k)
<1> DEFINE v == XorBits(b, c)
           a == AndBits(b, c)
<1>1. ASSUME NEW g \in 0 .. 15
      PROVE  /\ b[g] \in {0, 1} /\ c[g] \in {0, 1} /\ v[g] \in {0, 1} /\ a[g] \in {0, 1}
             /\ b[g] + c[g] = v[g] + 2 * a[g]
  BY DEF Bits16, XorBits, AndBits
<1> HIDE DEF v, a
<1>2. k \in 0 .. 15 /\ k + 1 \in 0 .. 15 /\ k + 2 \in 0 .. 15 /\ k + 3 \in 0 .. 15
  OBVIOUS
<1>3. /\ b[k] \in {0, 1} /\ b[k + 1] \in {0, 1} /\ b[k + 2] \in {0, 1} /\ b[k + 3] \in {0, 1}
      /\ c[k] \in {0, 1} /\ c[k + 1] \in {0, 1} /\ c[k + 2] \in {0, 1} /\ c[k + 3] \in {0, 1}
      /\ v[k] \in {0, 1} /\ v[k + 1] \in {0, 1} /\ v[k + 2] \in {0, 1} /\ v[k + 3] \in {0, 1}
      /\ a[k] \in {0, 1} /\ a[k + 1] \in {0, 1} /\ a[k + 2] \in {0, 1} /\ a[k + 3] \in {0, 1}
  BY <1>1, <1>2
<1>4. /\ b[k] + c[k] = v[k] + 2 * a[k]
      /\ b[k + 1] + c[k + 1] = v[k + 1] + 2 * a[k + 1]
      /\ b[k + 2] + c[k + 2] = v[k + 2] + 2 * a[k + 2]
      /\ b[k + 3] + c[k + 3] = v[k + 3] + 2 * a[k + 3]
  BY <1>1, <1>2
<1>5. Nibble(b, k) + Nibble(c, k) = Nibble(v, k) + 2 * Nibble(a, k)
  BY <1>3, <1>4 DEF Nibble
<1> QED
  BY <1>5 DEF v, a

LEMMA FromBitsSum ==
  ASSUME NEW b \in Bits16, NEW c \in Bits16
  PROVE  FromBits(b) + FromBits(c) = FromBits(XorBits(b, c)) + 2 * FromBits(AndBits(b, c))
<1> DEFINE v == XorBits(b, c)
           a == AndBits(b, c)
<1>1. v \in Bits16 /\ a \in Bits16
  BY XorBitsType
<1>2. ASSUME NEW k \in 0 .. 12
      PROVE  Nibble(b, k) + Nibble(c, k) = Nibble(v, k) + 2 * Nibble(a, k)
  BY NibbleSum
<1> HIDE DEF v, a
<1>3. ASSUME NEW k \in 0 .. 12
      PROVE  /\ Nibble(b, k) \in Nat /\ Nibble(c, k) \in Nat
             /\ Nibble(v, k) \in Nat /\ Nibble(a, k) \in Nat
  BY <1>1, NibbleType
<1>4. /\ Nibble(b, 12) \in Nat /\ Nibble(c, 12) \in Nat /\ Nibble(v, 12) \in Nat /\ Nibble(a, 12) \in Nat
      /\ Nibble(b, 12) + Nibble(c, 12) = Nibble(v, 12) + 2 * Nibble(a, 12)
  BY <1>2, <1>3
<1>5. /\ Nibble(b, 8) \in Nat /\ Nibble(c, 8) \in Nat /\ Nibble(v, 8) \in Nat /\ Nibble(a, 8) \in Nat
      /\ Nibble(b, 8) + Nibble(c, 8) = Nibble(v, 8) + 2 * Nibble(a, 8)
  BY <1>2, <1>3
<1>6. /\ Nibble(b, 4) \in Nat /\ Nibble(c, 4) \in Nat /\ Nibble(v, 4) \in Nat /\ Nibble(a, 4) \in Nat
      /\ Nibble(b, 4) + Nibble(c, 4) = Nibble(v, 4) + 2 * Nibble(a, 4)
  BY <1>2, <1>3
<1>7. /\ Nibble(b, 0) \in Nat /\ Nibble(c, 0) \in Nat /\ Nibble(v, 0) \in Nat /\ Nibble(a, 0) \in Nat
      /\ Nibble(b, 0) + Nibble(c, 0) = Nibble(v, 0) + 2 * Nibble(a, 0)
  BY <1>2, <1>3
<1>8. FromBits(b) + FromBits(c) = FromBits(v) + 2 * FromBits(a)
  BY <1>4, <1>5, <1>6, <1>7 DEF FromBits
<1> QED
  BY <1>8 DEF v, a

LEMMA AndFromBits ==
  ASSUME NEW b \in Bits16, NEW c \in Bits16
  PROVE  And24(FromBits(b), FromBits(c)) = FromBits(AndBits(b, c))
<1> DEFINE v == XorBits(b, c)
           a == AndBits(b, c)
<1>1. v \in Bits16 /\ a \in Bits16
  BY XorBitsType
<1>2. FromBits(b) + FromBits(c) = FromBits(v) + 2 * FromBits(a)
  BY FromBitsSum
<1>3. Xor24(FromBits(b), FromBits(c)) = FromBits(v)
  BY XorFromBits
<1> HIDE DEF v, a
<1>4. FromBits(v) \in Nat /\ FromBits(a) \in Nat /\ FromBits(b) \in Nat /\ FromBits(c) \in Nat
  BY <1>1, FromBitsBytes DEF Half
<1>5. (FromBits(b) + FromBits(c) - FromBits(v)) \div 2 = FromBits(a)
  BY <1>2, <1>4
<1> QED
  BY <1>3, <1>5 DEF And24, a

LEMMA NotFromBits ==
  ASSUME NEW b \in Bits16
  PROVE  65535 - FromBits(b) = FromBits(NotBits(b))
<1> DEFINE m == NotBits(b)
<1>1. ASSUME NEW g \in 0 .. 15
      PROVE  b[g] \in {0, 1} /\ m[g] = 1 - b[g]
  BY DEF Bits16, NotBits
<1> HIDE DEF m
<1>2. ASSUME NEW k \in 0 .. 12
      PROVE  Nibble(m, k) = 15 - Nibble(b, k) /\ Nibble(b, k) \in Nat
  <2>1. k \in 0 .. 15 /\ k + 1 \in 0 .. 15 /\ k + 2 \in 0 .. 15 /\ k + 3 \in 0 .. 15
    OBVIOUS
  <2>2. /\ b[k] \in {0, 1} /\ b[k + 1] \in {0, 1} /\ b[k + 2] \in {0, 1} /\ b[k + 3] \in {0, 1}
        /\ m[k] = 1 - b[k] /\ m[k + 1] = 1 - b[k + 1]
        /\ m[k + 2] = 1 - b[k + 2] /\ m[k + 3] = 1 - b[k + 3]
    BY <1>1, <2>1
  <2> QED
    BY <2>2 DEF Nibble
<1>3. /\ Nibble(m, 0) = 15 - Nibble(b, 0) /\ Nibble(b, 0) \in Nat
      /\ Nibble(m, 4) = 15 - Nibble(b, 4) /\ Nibble(b, 4) \in Nat
      /\ Nibble(m, 8) = 15 - Nibble(b, 8) /\ Nibble(b, 8) \in Nat
      /\ Nibble(m, 12) = 15 - Nibble(b, 12) /\ Nibble(b, 12) \in Nat
  BY <1>2
<1>4. 65535 - FromBits(b) = FromBits(m)
  BY <1>3 DEF FromBits
<1> QED
  BY <1>4 DEF m

LEMMA HalfClosed ==
  ASSUME NEW m \in Half, NEW e \in Half
  PROVE  Xor24(m, e) \in Half /\ And24(m, e) \in Half /\ 65535 - m \in Half
<1>1. PICK b \in Bits16 : m = FromBits(b)
  BY HalfBits
<1>2. PICK c \in Bits16 : e = FromBits(c)
  BY HalfBits
<1>3. /\ Xor24(m, e) = FromBits(XorBits(b, c)) /\ And24(m, e) = FromBits(AndBits(b, c))
      /\ 65535 - m = FromBits(NotBits(b))
  BY <1>1, <1>2, XorFromBits, AndFromBits, NotFromBits
<1> QED
  BY <1>3, XorBitsType, FromBitsBytes

LEMMA XorCommutes ==
  ASSUME NEW m \in Half, NEW e \in Half
  PROVE  Xor24(m, e) = Xor24(e, m)
<1>1. PICK b \in Bits16 : m = FromBits(b)
  BY HalfBits
<1>2. PICK c \in Bits16 : e = FromBits(c)
  BY HalfBits
<1>3. XorBits(b, c) = XorBits(c, b)
  BY DEF XorBits
<1> QED
  BY <1>1, <1>2, <1>3, XorFromBits

\* Ch and Maj of 16 bits, as the code and as the standard writes them.
LEMMA ChHalf ==
  ASSUME NEW p \in Half, NEW q \in Half, NEW r \in Half
  PROVE  Xor24(And24(p, Xor24(q, r)), r) = Xor24(And24(p, q), And24(65535 - p, r))
<1>1. PICK b \in Bits16 : p = FromBits(b)
  BY HalfBits
<1>2. PICK c \in Bits16 : q = FromBits(c)
  BY HalfBits
<1>3. PICK d \in Bits16 : r = FromBits(d)
  BY HalfBits
<1>4. And24(p, Xor24(q, r)) = FromBits(AndBits(b, XorBits(c, d)))
  BY <1>1, <1>2, <1>3, XorBitsType, XorFromBits, AndFromBits
<1>5. Xor24(And24(p, Xor24(q, r)), r) = FromBits(XorBits(AndBits(b, XorBits(c, d)), d))
  BY <1>3, <1>4, XorBitsType, XorFromBits
<1>6. And24(p, q) = FromBits(AndBits(b, c))
  BY <1>1, <1>2, AndFromBits
<1>7. And24(65535 - p, r) = FromBits(AndBits(NotBits(b), d))
  BY <1>1, <1>3, XorBitsType, NotFromBits, AndFromBits
<1>8. Xor24(And24(p, q), And24(65535 - p, r)) =
        FromBits(XorBits(AndBits(b, c), AndBits(NotBits(b), d)))
  <2>1. AndBits(b, c) \in Bits16 /\ AndBits(NotBits(b), d) \in Bits16
    BY XorBitsType
  <2> QED
    BY <1>6, <1>7, <2>1, XorFromBits
<1>9. XorBits(AndBits(b, XorBits(c, d)), d) = XorBits(AndBits(b, c), AndBits(NotBits(b), d))
  <2>1. ASSUME NEW k \in 0 .. 15
        PROVE  XorBits(AndBits(b, XorBits(c, d)), d)[k] =
                 XorBits(AndBits(b, c), AndBits(NotBits(b), d))[k]
    <3>1. b[k] \in {0, 1} /\ c[k] \in {0, 1} /\ d[k] \in {0, 1}
      BY DEF Bits16
    <3> QED
      BY <3>1 DEF XorBits, AndBits, NotBits
  <2> QED
    BY <2>1 DEF XorBits
<1> QED
  BY <1>5, <1>8, <1>9

LEMMA MajHalf ==
  ASSUME NEW p \in Half, NEW q \in Half, NEW r \in Half
  PROVE  Xor24(q, And24(Xor24(p, q), Xor24(q, r))) =
           Xor24(Xor24(And24(p, q), And24(p, r)), And24(q, r))
<1>1. PICK b \in Bits16 : p = FromBits(b)
  BY HalfBits
<1>2. PICK c \in Bits16 : q = FromBits(c)
  BY HalfBits
<1>3. PICK d \in Bits16 : r = FromBits(d)
  BY HalfBits
<1>4. /\ Xor24(p, q) = FromBits(XorBits(b, c)) /\ Xor24(q, r) = FromBits(XorBits(c, d))
      /\ And24(p, q) = FromBits(AndBits(b, c)) /\ And24(p, r) = FromBits(AndBits(b, d))
      /\ And24(q, r) = FromBits(AndBits(c, d))
  BY <1>1, <1>2, <1>3, XorFromBits, AndFromBits
<1>5. And24(Xor24(p, q), Xor24(q, r)) = FromBits(AndBits(XorBits(b, c), XorBits(c, d)))
  <2>1. XorBits(b, c) \in Bits16 /\ XorBits(c, d) \in Bits16
    BY XorBitsType
  <2>2. And24(FromBits(XorBits(b, c)), FromBits(XorBits(c, d)))
          = FromBits(AndBits(XorBits(b, c), XorBits(c, d)))
    BY <2>1, AndFromBits
  <2> QED
    BY <1>4, <2>2
<1>6. Xor24(q, And24(Xor24(p, q), Xor24(q, r))) =
        FromBits(XorBits(c, AndBits(XorBits(b, c), XorBits(c, d))))
  BY <1>2, <1>5, XorBitsType, XorFromBits
<1>7. Xor24(And24(p, q), And24(p, r)) = FromBits(XorBits(AndBits(b, c), AndBits(b, d)))
  <2>1. AndBits(b, c) \in Bits16 /\ AndBits(b, d) \in Bits16
    BY XorBitsType
  <2> QED
    BY <1>4, <2>1, XorFromBits
<1>8. Xor24(Xor24(And24(p, q), And24(p, r)), And24(q, r)) =
        FromBits(XorBits(XorBits(AndBits(b, c), AndBits(b, d)), AndBits(c, d)))
  <2>1. AndBits(c, d) \in Bits16 /\ XorBits(AndBits(b, c), AndBits(b, d)) \in Bits16
    BY XorBitsType
  <2> QED
    BY <1>4, <1>7, <2>1, XorFromBits
<1>9. XorBits(c, AndBits(XorBits(b, c), XorBits(c, d))) =
        XorBits(XorBits(AndBits(b, c), AndBits(b, d)), AndBits(c, d))
  <2>1. ASSUME NEW k \in 0 .. 15
        PROVE  XorBits(c, AndBits(XorBits(b, c), XorBits(c, d)))[k] =
                 XorBits(XorBits(AndBits(b, c), AndBits(b, d)), AndBits(c, d))[k]
    <3>1. b[k] \in {0, 1} /\ c[k] \in {0, 1} /\ d[k] \in {0, 1}
      BY DEF Bits16
    <3> QED
      BY <3>1 DEF XorBits, AndBits
  <2> QED
    BY <2>1 DEF XorBits
<1> QED
  BY <1>6, <1>8, <1>9

(***************************************************************************)
(* Words of two halves.                                                    *)
(***************************************************************************)
LEMMA PowersOfTwo == \A k \in 0 .. 16 : 2 ^ k \in Nat \ {0}
<1> DEFINE P(k) == 2 ^ k \in Nat \ {0}
<1>1. /\ P(0) /\ P(1) /\ P(2) /\ P(3) /\ P(4) /\ P(5) /\ P(6) /\ P(7) /\ P(8)
      /\ P(9) /\ P(10) /\ P(11) /\ P(12) /\ P(13) /\ P(14) /\ P(15) /\ P(16)
  OBVIOUS
<1>2. ASSUME NEW k \in 0 .. 16
      PROVE  \/ k = 0 \/ k = 1 \/ k = 2 \/ k = 3 \/ k = 4 \/ k = 5 \/ k = 6 \/ k = 7 \/ k = 8
             \/ k = 9 \/ k = 10 \/ k = 11 \/ k = 12 \/ k = 13 \/ k = 14 \/ k = 15 \/ k = 16
  OBVIOUS
<1> HIDE DEF P
<1>3. \A k \in 0 .. 16 : P(k)
  BY <1>1, <1>2
<1> QED
  BY <1>3 DEF P

LEMMA WordHalves ==
  ASSUME NEW a \in Word32
  PROVE  /\ a[1] \in Half /\ a[2] \in Half /\ a = <<a[1], a[2]>>
         /\ a[1] \in Nat /\ a[2] \in Nat
BY DEF Word32, Half

LEMMA WordType ==
  ASSUME NEW h \in Nat, NEW l \in Nat
  PROVE  Word(h, l) \in Word32
<1>1. h % 65536 \in Half /\ l % 65536 \in Half
  BY DEF Half
<1> QED
  BY <1>1 DEF Word, Word32

LEMMA WordsClosed ==
  ASSUME NEW a \in Word32, NEW y \in Word32
  PROVE  /\ Xor(a, y) \in Word32 /\ And(a, y) \in Word32 /\ Not(a) \in Word32
         /\ Add(a, y) \in Word32
<1>1. a[1] \in Half /\ a[2] \in Half /\ y[1] \in Half /\ y[2] \in Half
  BY WordHalves
<1>2. Xor(a, y) \in Word32 /\ And(a, y) \in Word32 /\ Not(a) \in Word32
  BY <1>1, HalfClosed DEF Xor, And, Not, Word32
<1>3. a[1] + y[1] + (a[2] + y[2]) \div 65536 \in Nat /\ a[2] + y[2] \in Nat
  BY <1>1 DEF Half
<1>4. Add(a, y) \in Word32
  BY <1>3, WordType DEF Add
<1> QED
  BY <1>2, <1>4

LEMMA AddCommutes ==
  ASSUME NEW a \in Word32, NEW y \in Word32
  PROVE  Add(a, y) = Add(y, a)
<1>1. a[1] \in Nat /\ a[2] \in Nat /\ y[1] \in Nat /\ y[2] \in Nat
  BY WordHalves
<1>2. a[1] + y[1] + (a[2] + y[2]) \div 65536 = y[1] + a[1] + (y[2] + a[2]) \div 65536
  BY <1>1
<1>3. a[2] + y[2] = y[2] + a[2]
  BY <1>1
<1> QED
  BY <1>2, <1>3 DEF Add

LEMMA ChWords ==
  ASSUME NEW a \in Word32, NEW y \in Word32, NEW z \in Word32
  PROVE  Xor(And(a, Xor(y, z)), z) = Xor(And(a, y), And(Not(a), z))
<1>1. /\ a[1] \in Half /\ y[1] \in Half /\ z[1] \in Half
      /\ a[2] \in Half /\ y[2] \in Half /\ z[2] \in Half
  BY WordHalves
<1>2. /\ Xor24(And24(a[1], Xor24(y[1], z[1])), z[1]) =
           Xor24(And24(a[1], y[1]), And24(65535 - a[1], z[1]))
      /\ Xor24(And24(a[2], Xor24(y[2], z[2])), z[2]) =
           Xor24(And24(a[2], y[2]), And24(65535 - a[2], z[2]))
  BY <1>1, ChHalf
<1> QED
  BY <1>2 DEF Xor, And, Not

LEMMA MajWords ==
  ASSUME NEW a \in Word32, NEW y \in Word32, NEW z \in Word32
  PROVE  Xor(y, And(Xor(a, y), Xor(y, z))) = Xor(Xor(And(a, y), And(a, z)), And(y, z))
<1>1. /\ a[1] \in Half /\ y[1] \in Half /\ z[1] \in Half
      /\ a[2] \in Half /\ y[2] \in Half /\ z[2] \in Half
  BY WordHalves
<1>2. /\ Xor24(y[1], And24(Xor24(a[1], y[1]), Xor24(y[1], z[1]))) =
           Xor24(Xor24(And24(a[1], y[1]), And24(a[1], z[1])), And24(y[1], z[1]))
      /\ Xor24(y[2], And24(Xor24(a[2], y[2]), Xor24(y[2], z[2]))) =
           Xor24(Xor24(And24(a[2], y[2]), And24(a[2], z[2])), And24(y[2], z[2]))
  BY <1>1, MajHalf
<1> QED
  BY <1>2 DEF Xor, And

LEMMA ShiftType ==
  ASSUME NEW a \in Word32, NEW k \in 1 .. 31
  PROVE  /\ ShiftRight(a, k)[1] \in Nat /\ ShiftRight(a, k)[2] \in Nat
         /\ ShiftLeft(a, k)[1] \in Nat /\ ShiftLeft(a, k)[2] \in Nat
<1>1. PICK h \in Nat : h = a[1]
  BY WordHalves
<1>2. PICK l \in Nat : l = a[2]
  BY WordHalves
<1>3. CASE k >= 16
  <2>1. PICK u \in Nat \ {0} : u = 2 ^ (k - 16)
    <3>1. k - 16 \in 0 .. 16
      BY <1>3
    <3> QED
      BY <3>1, PowersOfTwo
  <2>2. PICK v \in Nat \ {0} : v = 2 ^ (32 - k)
    <3>1. 32 - k \in 0 .. 16
      BY <1>3
    <3> QED
      BY <3>1, PowersOfTwo
  <2>3. ShiftRight(a, k) = <<0, h \div u>>
    BY <1>1, <1>2, <1>3, <2>1 DEF ShiftRight
  <2>4. ShiftLeft(a, k) = <<(l % v) * u, 0>>
    BY <1>1, <1>2, <1>3, <2>1, <2>2 DEF ShiftLeft
  <2>5. h \div u \in Nat /\ (l % v) \in Nat
    OBVIOUS
  <2>6. \A w \in Nat : w * u \in Nat
    OBVIOUS
  <2> QED
    BY <2>3, <2>4, <2>5, <2>6
<1>4. CASE k < 16
  <2>1. PICK u \in Nat \ {0} : u = 2 ^ k
    <3>1. k \in 0 .. 16
      BY <1>4
    <3> QED
      BY <3>1, PowersOfTwo
  <2>2. PICK v \in Nat \ {0} : v = 2 ^ (16 - k)
    <3>1. 16 - k \in 0 .. 16
      BY <1>4
    <3> QED
      BY <3>1, PowersOfTwo
  <2>3. ShiftRight(a, k) = <<h \div u, l \div u + (h % u) * v>>
    BY <1>1, <1>2, <1>4, <2>1, <2>2 DEF ShiftRight
  <2>4. ShiftLeft(a, k) = <<(h % v) * u + l \div v, (l % v) * u>>
    BY <1>1, <1>2, <1>4, <2>1, <2>2 DEF ShiftLeft
  <2>5. h \div u \in Nat /\ l \div u \in Nat /\ l \div v \in Nat
        /\ h % u \in Nat /\ h % v \in Nat /\ l % v \in Nat
    OBVIOUS
  <2>6. \A w \in Nat : w * u \in Nat /\ w * v \in Nat
    OBVIOUS
  <2> QED
    BY <2>3, <2>4, <2>5, <2>6
<1> QED
  BY <1>3, <1>4

LEMMA RotateType ==
  ASSUME NEW a \in Word32, NEW k \in 1 .. 31
  PROVE  RotateRight(a, k) \in Word32 /\ RotateLeft(a, k) \in Word32
<1>1. ASSUME NEW m \in 1 .. 31
      PROVE  RotateRight(a, m) \in Word32
  <2>1. 32 - m \in 1 .. 31
    OBVIOUS
  <2>2. PICK r1 \in Nat, r2 \in Nat : r1 = ShiftRight(a, m)[1] /\ r2 = ShiftRight(a, m)[2]
    BY ShiftType
  <2>3. PICK l1 \in Nat, l2 \in Nat :
          l1 = ShiftLeft(a, 32 - m)[1] /\ l2 = ShiftLeft(a, 32 - m)[2]
    BY <2>1, ShiftType
  <2>4. RotateRight(a, m) = Word(r1 + l1 + (r2 + l2) \div 65536, r2 + l2)
    BY <2>2, <2>3 DEF RotateRight, Add
  <2>5. r1 + l1 + (r2 + l2) \div 65536 \in Nat /\ r2 + l2 \in Nat
    OBVIOUS
  <2> QED
    BY <2>4, <2>5, WordType
<1>2. 32 - k \in 1 .. 31
  OBVIOUS
<1> QED
  BY <1>1, <1>2 DEF RotateLeft

(***************************************************************************)
(* The rounds of SHA256.                                                   *)
(***************************************************************************)
LEMMA ShaBytes ==
  /\ Sha256!Byte = Byte /\ Sha256!XorNibble = XorNibble /\ Sha256!XorByte = XorByte
<1>1. Sha256!Byte = Byte
  BY DEF Sha256!Byte, Byte
<1>2. Sha256!XorNibble = XorNibble
  BY DEF Sha256!XorNibble, XorNibble, Sha256!Bit, Bit
<1>3. Sha256!XorByte = XorByte
  BY <1>1, <1>2 DEF Sha256!XorByte, XorByte
<1> QED
  BY <1>1, <1>2, <1>3

LEMMA ShaWords ==
  ASSUME NEW a, NEW y, NEW k
  PROVE  /\ Sha256!Xor(a, y) = Xor(a, y) /\ Sha256!And(a, y) = And(a, y)
         /\ Sha256!Not(a) = Not(a) /\ Sha256!Add(a, y) = Add(a, y)
         /\ Sha256!ShiftRight(a, k) = ShiftRight(a, k)
         /\ Sha256!RotateRight(a, k) = RotateRight(a, k)
<1>1. \A m, p : Sha256!Xor24(m, p) = Xor24(m, p)
  BY ShaBytes DEF Sha256!Xor24, Xor24
<1>2. \A m, p : Sha256!And24(m, p) = And24(m, p)
  BY <1>1 DEF Sha256!And24, And24
<1>3. \A m, p : Sha256!Add(m, p) = Add(m, p)
  BY DEF Sha256!Add, Add, Sha256!Word, Word
<1>4. \A m, p : Sha256!ShiftRight(m, p) = ShiftRight(m, p)
  BY DEF Sha256!ShiftRight, ShiftRight
<1>5. \A m, p : Sha256!ShiftLeft(m, p) = ShiftLeft(m, p)
  BY DEF Sha256!ShiftLeft, ShiftLeft
<1>6. Sha256!RotateRight(a, k) = RotateRight(a, k)
  BY <1>3, <1>4, <1>5 DEF Sha256!RotateRight, RotateRight
<1>7. Sha256!Xor(a, y) = Xor(a, y)
  BY <1>1 DEF Sha256!Xor, Xor
<1>8. Sha256!And(a, y) = And(a, y)
  BY <1>2 DEF Sha256!And, And
<1>9. Sha256!Not(a) = Not(a)
  BY DEF Sha256!Not, Not
<1> QED
  BY <1>3, <1>4, <1>6, <1>7, <1>8, <1>9

LEMMA ShaClosed ==
  ASSUME NEW a \in Word32, NEW y \in Word32
  PROVE  /\ Sha256!Xor(a, y) \in Word32 /\ Sha256!And(a, y) \in Word32
         /\ Sha256!Not(a) \in Word32 /\ Sha256!Add(a, y) \in Word32
BY ShaWords, WordsClosed

LEMMA ShaRotate ==
  ASSUME NEW a \in Word32, NEW k \in 1 .. 31
  PROVE  Sha256!RotateRight(a, k) \in Word32
BY ShaWords, RotateType

LEMMA ShaShift ==
  ASSUME NEW a \in Word32
  PROVE  Sha256!ShiftRight(a, 3) \in Word32 /\ Sha256!ShiftRight(a, 10) \in Word32
<1>1. PICK h \in Nat, l \in Nat : h = a[1] /\ l = a[2] /\ h < 65536 /\ l < 65536
  BY WordHalves DEF Half
<1>2. 2 ^ 3 = 8 /\ 2 ^ (16 - 3) = 8192 /\ 2 ^ 10 = 1024 /\ 2 ^ (16 - 10) = 64
  OBVIOUS
<1>3. ShiftRight(a, 3) = <<h \div 8, l \div 8 + (h % 8) * 8192>>
  BY <1>1, <1>2 DEF ShiftRight
<1>4. ShiftRight(a, 10) = <<h \div 1024, l \div 1024 + (h % 1024) * 64>>
  BY <1>1, <1>2 DEF ShiftRight
<1>5. h \div 8 \in Half /\ l \div 8 + (h % 8) * 8192 \in Half
  BY <1>1 DEF Half
<1>6. h \div 1024 \in Half /\ l \div 1024 + (h % 1024) * 64 \in Half
  BY <1>1 DEF Half
<1> QED
  BY <1>3, <1>4, <1>5, <1>6, ShaWords DEF Word32

LEMMA SigmaType ==
  ASSUME NEW a \in Word32
  PROVE  /\ Sha256!S0(a) \in Word32 /\ Sha256!S1(a) \in Word32
         /\ Sha256!s0(a) \in Word32 /\ Sha256!s1(a) \in Word32
<1>1. \A k \in 1 .. 31 : Sha256!RotateRight(a, k) \in Word32
  BY ShaRotate
<1>2. Sha256!S0(a) \in Word32
  <2>1. /\ Sha256!RotateRight(a, 2) \in Word32 /\ Sha256!RotateRight(a, 13) \in Word32
        /\ Sha256!RotateRight(a, 22) \in Word32
    BY <1>1
  <2> QED
    BY <2>1, ShaClosed DEF Sha256!S0
<1>3. Sha256!S1(a) \in Word32
  <2>1. /\ Sha256!RotateRight(a, 6) \in Word32 /\ Sha256!RotateRight(a, 11) \in Word32
        /\ Sha256!RotateRight(a, 25) \in Word32
    BY <1>1
  <2> QED
    BY <2>1, ShaClosed DEF Sha256!S1
<1>4. Sha256!s0(a) \in Word32
  <2>1. Sha256!RotateRight(a, 7) \in Word32 /\ Sha256!RotateRight(a, 18) \in Word32
    BY <1>1
  <2> QED
    BY <2>1, ShaClosed, ShaShift DEF Sha256!s0
<1>5. Sha256!s1(a) \in Word32
  <2>1. Sha256!RotateRight(a, 17) \in Word32 /\ Sha256!RotateRight(a, 19) \in Word32
    BY <1>1
  <2> QED
    BY <2>1, ShaClosed, ShaShift DEF Sha256!s1
<1> QED
  BY <1>2, <1>3, <1>4, <1>5

\* Ch and Maj as the code computes them are those of the standard.
LEMMA ShaCh ==
  ASSUME NEW a \in Word32, NEW y \in Word32, NEW z \in Word32
  PROVE  Sha256!Ch(a, y, z) = Sha256!FipsCh(a, y, z) /\ Sha256!Ch(a, y, z) \in Word32
<1>1. Sha256!Ch(a, y, z) = Xor(And(a, Xor(y, z)), z)
  BY ShaWords DEF Sha256!Ch
<1>2. Sha256!FipsCh(a, y, z) = Xor(And(a, y), And(Not(a), z))
  BY ShaWords DEF Sha256!FipsCh
<1>3. Xor(y, z) \in Word32
  BY WordsClosed
<1>4. And(a, Xor(y, z)) \in Word32
  BY <1>3, WordsClosed
<1>5. Xor(And(a, Xor(y, z)), z) \in Word32
  BY <1>4, WordsClosed
<1> QED
  BY <1>1, <1>2, <1>5, ChWords

LEMMA ShaMaj ==
  ASSUME NEW a \in Word32, NEW y \in Word32, NEW z \in Word32
  PROVE  /\ Sha256!Maj(Sha256!Xor(a, y), y, Sha256!Xor(y, z)) = Sha256!FipsMaj(a, y, z)
         /\ Sha256!FipsMaj(a, y, z) \in Word32
<1>1. Sha256!Maj(Sha256!Xor(a, y), y, Sha256!Xor(y, z)) = Xor(y, And(Xor(a, y), Xor(y, z)))
  BY ShaWords DEF Sha256!Maj
<1>2. Sha256!FipsMaj(a, y, z) = Xor(Xor(And(a, y), And(a, z)), And(y, z))
  BY ShaWords DEF Sha256!FipsMaj
<1>3. And(a, y) \in Word32 /\ And(a, z) \in Word32 /\ And(y, z) \in Word32
  BY WordsClosed
<1>4. Xor(And(a, y), And(a, z)) \in Word32
  BY <1>3, WordsClosed
<1>5. Xor(Xor(And(a, y), And(a, z)), And(y, z)) \in Word32
  BY <1>3, <1>4, WordsClosed
<1> QED
  BY <1>1, <1>2, <1>5, MajWords

LEMMA ShaAddCommutes ==
  ASSUME NEW a \in Word32, NEW y \in Word32
  PROVE  Sha256!Add(a, y) = Sha256!Add(y, a)
BY ShaWords, AddCommutes

LEMMA KrndType == \A k \in 1 .. 64 : Sha256!Krnd[k] \in Word32
BY DEF Sha256!Krnd, Word32, Half

(***************************************************************************)
(* The message schedule.                                                   *)
(***************************************************************************)
\* Word t of a schedule, from those before it.
NextWord(w, t) ==
  Sha256!Add(Sha256!Add(Sha256!s1(w[t - 2]), w[t - 7]), Sha256!Add(Sha256!s0(w[t - 15]), w[t - 16]))

MoreStep(given, f, k) ==
  IF k = 0 THEN given ELSE Append(f[k - 1], NextWord(f[k - 1], Len(f[k - 1]) + 1))

More(given) == CHOOSE f : f = [k \in 0 .. 16 |-> MoreStep(given, f, k)]

LEMMA MoreExists ==
  ASSUME NEW given
  PROVE  \A m \in Nat : \E f : f = [k \in 0 .. m |-> MoreStep(given, f, k)]
<1> DEFINE Good == {m \in Nat : \E f : f = [k \in 0 .. m |-> MoreStep(given, f, k)]}
<1>1. 0 \in Good
  <2> DEFINE f == [k \in 0 .. 0 |-> given]
  <2>1. \A k \in 0 .. 0 : MoreStep(given, f, k) = given
    BY DEF MoreStep
  <2>2. f = [k \in 0 .. 0 |-> MoreStep(given, f, k)]
    BY <2>1
  <2> QED
    BY <2>2
<1>2. ASSUME NEW m \in Nat, m \in Good PROVE m + 1 \in Good
  <2>1. PICK f : f = [k \in 0 .. m |-> MoreStep(given, f, k)]
    BY <1>2
  <2> DEFINE g == [k \in 0 .. m + 1 |-> IF k = m + 1 THEN MoreStep(given, f, k) ELSE f[k]]
  <2>2. \A k \in 0 .. m + 1 : MoreStep(given, g, k) = MoreStep(given, f, k)
    <3>1. \A k \in 1 .. m + 1 : k - 1 \in 0 .. m + 1 /\ k - 1 # m + 1
      OBVIOUS
    <3>2. \A k \in 1 .. m + 1 : g[k - 1] = f[k - 1]
      BY <3>1
    <3>3. \A k \in 0 .. m + 1 : k = 0 \/ k \in 1 .. m + 1
      OBVIOUS
    <3> HIDE DEF g
    <3> QED
      BY <3>2, <3>3 DEF MoreStep
  <2>3. \A k \in 0 .. m : f[k] = MoreStep(given, f, k)
    BY <2>1
  <2>4. \A k \in 0 .. m + 1 : k = m + 1 \/ k \in 0 .. m
    OBVIOUS
  <2>5. g = [k \in 0 .. m + 1 |-> MoreStep(given, g, k)]
    <3>1. \A k \in 0 .. m + 1 : g[k] = IF k = m + 1 THEN MoreStep(given, f, k) ELSE f[k]
      OBVIOUS
    <3>2. g = [k \in 0 .. m + 1 |-> g[k]]
      OBVIOUS
    <3> HIDE DEF g
    <3> QED
      BY <2>2, <2>3, <2>4, <3>1, <3>2
  <2> HIDE DEF g
  <2> QED
    BY <2>5
<1>3. \A m \in Nat : m \in Good
  <2> HIDE DEF Good
  <2> QED
    BY <1>1, <1>2, Induction
<1> QED
  BY <1>3

LEMMA MoreIs ==
  ASSUME NEW given
  PROVE  \A k \in 0 .. 16 : More(given)[k] = MoreStep(given, More(given), k)
<1> DEFINE V == More(given)
<1>1. \E f : f = [k \in 0 .. 16 |-> MoreStep(given, f, k)]
  BY MoreExists
<1>2. V = CHOOSE f : f = [k \in 0 .. 16 |-> MoreStep(given, f, k)]
  BY DEF More
<1> HIDE DEF V
<1>3. V = [k \in 0 .. 16 |-> MoreStep(given, V, k)]
  BY <1>1, <1>2, Zenon
<1>4. \A k \in 0 .. 16 : V[k] = MoreStep(given, V, k)
  BY <1>3
<1> QED
  BY <1>4 DEF V

LEMMA MSCHIs ==
  ASSUME NEW given
  PROVE  Sha256!MSCH(given) = More(given)[16]
<1> DEFINE V == More(given)
<1>1. V = CHOOSE f : f = [k \in 0 .. 16 |->
        IF k = 0 THEN given
        ELSE LET w == f[k - 1]
                 t == Len(w) + 1
             IN  Append(w, Sha256!Add(Sha256!Add(Sha256!s1(w[t - 2]), w[t - 7]),
                                      Sha256!Add(Sha256!s0(w[t - 15]), w[t - 16])))]
  BY DEF More, MoreStep, NextWord
<1> HIDE DEF V
<1>2. Sha256!MSCH(given) = V[16]
  BY <1>1 DEF Sha256!MSCH
<1> QED
  BY <1>2 DEF V

\* A schedule: each word after the sixteenth is made from those before it.
Schedule(w) ==
  /\ w \in Seq(Word32) /\ Len(w) >= 16
  /\ \A t \in 17 .. Len(w) : w[t] = NextWord(w, t)

LEMMA NextWordType ==
  ASSUME NEW w \in Seq(Word32), NEW t \in 17 .. Len(w) + 1
  PROVE  NextWord(w, t) \in Word32
<1>1. t - 2 \in 1 .. Len(w) /\ t - 7 \in 1 .. Len(w) /\ t - 15 \in 1 .. Len(w) /\ t - 16 \in 1 .. Len(w)
  OBVIOUS
<1>2. w[t - 2] \in Word32 /\ w[t - 7] \in Word32 /\ w[t - 15] \in Word32 /\ w[t - 16] \in Word32
  BY <1>1
<1>3. Sha256!s1(w[t - 2]) \in Word32 /\ Sha256!s0(w[t - 15]) \in Word32
  BY <1>2, SigmaType
<1>4. /\ Sha256!Add(Sha256!s1(w[t - 2]), w[t - 7]) \in Word32
      /\ Sha256!Add(Sha256!s0(w[t - 15]), w[t - 16]) \in Word32
  BY <1>2, <1>3, ShaClosed
<1> QED
  BY <1>4, ShaClosed DEF NextWord

LEMMA NextWordLocal ==
  ASSUME NEW w, NEW z, NEW t \in Nat, \A k \in 1 .. t - 1 : z[k] = w[k], t >= 17
  PROVE  NextWord(z, t) = NextWord(w, t)
<1>1. t - 2 \in 1 .. t - 1 /\ t - 7 \in 1 .. t - 1 /\ t - 15 \in 1 .. t - 1 /\ t - 16 \in 1 .. t - 1
  OBVIOUS
<1>2. /\ z[t - 2] = w[t - 2] /\ z[t - 7] = w[t - 7]
      /\ z[t - 15] = w[t - 15] /\ z[t - 16] = w[t - 16]
  BY <1>1
<1> QED
  BY <1>2 DEF NextWord

LEMMA ScheduleGrows ==
  ASSUME NEW w, Schedule(w)
  PROVE  LET z == Append(w, NextWord(w, Len(w) + 1))
         IN  /\ Schedule(z) /\ Len(z) = Len(w) + 1
             /\ \A t \in 1 .. Len(w) : z[t] = w[t]
<1> DEFINE a == NextWord(w, Len(w) + 1)
           z == Append(w, a)
<1>1. w \in Seq(Word32) /\ Len(w) \in Nat /\ Len(w) >= 16
  BY DEF Schedule
<1>2. a \in Word32
  BY <1>1, NextWordType
<1> HIDE DEF a
<1>3. /\ z \in Seq(Word32) /\ Len(z) = Len(w) + 1 /\ z[Len(w) + 1] = a
      /\ \A t \in 1 .. Len(w) : z[t] = w[t]
  BY <1>1, <1>2
<1> HIDE DEF z
<1>4. ASSUME NEW t \in 17 .. Len(z) PROVE z[t] = NextWord(z, t)
  <2>1. t \in Nat /\ t >= 17 /\ \A k \in 1 .. t - 1 : z[k] = w[k]
    BY <1>1, <1>3
  <2>2. NextWord(z, t) = NextWord(w, t)
    BY <2>1, NextWordLocal
  <2>3. CASE t = Len(w) + 1
    BY <1>3, <2>2, <2>3 DEF a
  <2>4. CASE t # Len(w) + 1
    <3>1. t \in 17 .. Len(w) /\ t \in 1 .. Len(w)
      BY <1>1, <1>3, <2>4
    <3> QED
      BY <1>3, <2>2, <3>1 DEF Schedule
  <2> QED
    BY <2>3, <2>4
<1>5. Schedule(z)
  BY <1>1, <1>3, <1>4 DEF Schedule
<1> QED
  BY <1>3, <1>5 DEF z, a

LEMMA MSCHGrows ==
  ASSUME NEW given, Schedule(given)
  PROVE  LET z == Sha256!MSCH(given)
         IN  /\ Schedule(z) /\ Len(z) = Len(given) + 16
             /\ \A t \in 1 .. Len(given) : z[t] = given[t]
<1> DEFINE V == More(given)
           P(m) == /\ Schedule(V[m]) /\ Len(V[m]) = Len(given) + m
                   /\ \A t \in 1 .. Len(given) : V[m][t] = given[t]
           Good == {m \in Nat : m <= 16 => P(m)}
<1>1. Len(given) \in Nat
  BY DEF Schedule
<1>2. \A k \in 0 .. 16 : V[k] = MoreStep(given, V, k)
  BY MoreIs
<1> HIDE DEF V
<1>3. P(0)
  <2>1. V[0] = given
    BY <1>2 DEF MoreStep
  <2> QED
    BY <1>1, <2>1
<1>4. ASSUME NEW m \in Nat, P(m), m + 1 <= 16 PROVE P(m + 1)
  <2>1. V[m + 1] = Append(V[m], NextWord(V[m], Len(V[m]) + 1))
    <3>1. m + 1 \in 0 .. 16 /\ m + 1 # 0 /\ (m + 1) - 1 = m
      <4>1. m \in Nat /\ m + 1 <= 16
        BY <1>4
      <4> QED
        BY <4>1
    <3>2. V[m + 1] = MoreStep(given, V, m + 1)
      BY <1>2, <3>1
    <3> QED
      BY <3>1, <3>2 DEF MoreStep
  <2>2. /\ Schedule(V[m + 1]) /\ Len(V[m + 1]) = Len(V[m]) + 1
        /\ \A t \in 1 .. Len(V[m]) : V[m + 1][t] = V[m][t]
    BY <1>4, <2>1, ScheduleGrows
  <2>3. \A t \in 1 .. Len(given) : t \in 1 .. Len(V[m])
    BY <1>1, <1>4
  <2> QED
    BY <1>1, <1>4, <2>2, <2>3
<1>5. 0 \in Good
  BY <1>3
<1>6. \A m \in Nat : m \in Good => m + 1 \in Good
  <2> HIDE DEF P
  <2> QED
    BY <1>4
<1>7. \A m \in Nat : m \in Good
  <2> HIDE DEF Good
  <2> QED
    BY <1>5, <1>6, Induction
<1>8. P(16)
  <2> HIDE DEF P
  <2> QED
    BY <1>7
<1> QED
  BY <1>8, MSCHIs DEF V

(***************************************************************************)
(* The registers, by their roles, are a .. h of the standard, and its last *)
(* sixteen words are the next ones of the schedule, made or to be made.    *)
(***************************************************************************)
Registers(t, r, v) == \A role \in 0 .. 7 : t[Sha256!Reg(role, r)] = v[role + 1]

Upcoming(r, w, last) ==
  /\ Schedule(w) /\ Len(w) = 16 * (r \div 16 + 1)
  /\ last \in Seq(Word32) /\ Len(last) = 16
  /\ \A l \in 1 .. 16 : last[l] = Sha256!MSCH(w)[r + l]

ShaInv ==
  /\ rnd \in 0 .. 64
  /\ state \in [0 .. 7 -> Word32] /\ S \in [0 .. 7 -> Word32]
  /\ fips.hash = Sha256!InOrder(state)
  /\ Registers(S, rnd, fips.v)
  /\ y_xor_z = Sha256!Xor(fips.v[2], fips.v[3])
  /\ rnd < 64 => Upcoming(rnd, W, fips.last)

LEMMA RegIs ==
  ASSUME NEW r \in 0 .. 64
  PROVE  /\ \A role \in 0 .. 7 : Sha256!Reg(role, r) \in 0 .. 7
         /\ \A role \in 0 .. 6 : Sha256!Reg(role + 1, r + 1) = Sha256!Reg(role, r)
         /\ Sha256!Reg(0, r + 1) = Sha256!Reg(7, r)
         /\ \A a, b \in 0 .. 7 : a # b => Sha256!Reg(a, r) # Sha256!Reg(b, r)
         /\ r % 16 = 0 => \A role \in 0 .. 7 : Sha256!Reg(role, r) = role
<1>1. PICK m \in Nat : m = r % 16 /\ m < 16
  OBVIOUS
<1>2. \A role \in 0 .. 7 : Sha256!Reg(role, r) = (64 + role - m) % 8
  BY <1>1 DEF Sha256!Reg
<1>3. (r + 1) % 16 = IF m = 15 THEN 0 ELSE m + 1
  BY <1>1
<1>4. \A role \in 0 .. 7 : Sha256!Reg(role, r + 1) = (64 + role - (IF m = 15 THEN 0 ELSE m + 1)) % 8
  BY <1>3 DEF Sha256!Reg
<1>5. \A role \in 0 .. 7 : Sha256!Reg(role, r) \in 0 .. 7
  BY <1>1, <1>2
<1>6. ASSUME NEW role \in 0 .. 6
      PROVE  Sha256!Reg(role + 1, r + 1) = Sha256!Reg(role, r)
  <2>1. role + 1 \in 0 .. 7 /\ role \in 0 .. 7
    OBVIOUS
  <2>2. (64 + (role + 1) - (IF m = 15 THEN 0 ELSE m + 1)) % 8 = (64 + role - m) % 8
    BY <1>1
  <2> QED
    BY <1>2, <1>4, <2>1, <2>2
<1>7. Sha256!Reg(0, r + 1) = Sha256!Reg(7, r)
  <2>1. (64 + 0 - (IF m = 15 THEN 0 ELSE m + 1)) % 8 = (64 + 7 - m) % 8
    BY <1>1
  <2> QED
    BY <1>2, <1>4, <2>1
<1>8. ASSUME NEW a \in 0 .. 7, NEW b \in 0 .. 7, a # b
      PROVE  Sha256!Reg(a, r) # Sha256!Reg(b, r)
  <2>1. (64 + a - m) % 8 # (64 + b - m) % 8
    BY <1>1, <1>8
  <2> QED
    BY <1>2, <2>1
<1>9. r % 16 = 0 => \A role \in 0 .. 7 : Sha256!Reg(role, r) = role
  BY <1>1, <1>2
<1> QED
  BY <1>5, <1>6, <1>7, <1>8, <1>9

LEMMA InitialState == Sha256!initial_state \in [0 .. 7 -> Word32]
BY DEF Sha256!initial_state, Word32, Half

\* A block of 64 bytes is sixteen words.
LEMMA BlockWords ==
  ASSUME NEW b \in Messages
  PROVE  /\ Sha256!be32dec_vect(b) \in Seq(Word32) /\ Len(Sha256!be32dec_vect(b)) = 16
<1> DEFINE w == [k \in 1 .. 16 |-> Sha256!be32dec(SubSeq(b, 4 * k - 3, 4 * k))]
<1>1. b \in Seq(Nat) /\ Len(b) = 64 /\ \A k \in 1 .. 64 : b[k] < 256
  BY HasherAssumption
<1>2. ASSUME NEW k \in 1 .. 16
      PROVE  w[k] \in Word32
  <2> DEFINE p == SubSeq(b, 4 * k - 3, 4 * k)
  <2>1. p[1] = b[4 * k - 3] /\ p[2] = b[4 * k - 2] /\ p[3] = b[4 * k - 1] /\ p[4] = b[4 * k]
    <3>1. PICK m \in Int, h \in Int : m = 4 * k - 3 /\ h = 4 * k /\ h = m + 3
      OBVIOUS
    <3>2. m \in 1 .. 64 /\ h \in 1 .. 64
      BY <3>1
    <3>3. \A l \in 1 .. 4 : SubSeq(b, m, h)[l] = b[m + l - 1]
      BY <1>1, <3>1, <3>2
    <3> QED
      BY <3>1, <3>3
  <2>2. /\ 4 * k - 3 \in 1 .. 64 /\ 4 * k - 2 \in 1 .. 64
        /\ 4 * k - 1 \in 1 .. 64 /\ 4 * k \in 1 .. 64
    OBVIOUS
  <2>3. \A l \in 1 .. 64 : b[l] \in Nat /\ b[l] < 256
    <3>1. \A l \in 1 .. Len(b) : b[l] \in Nat
      <4>1. b \in Seq(Nat)
        BY <1>1
      <4> QED
        BY <4>1
    <3> QED
      BY <1>1, <3>1
  <2>4. /\ p[1] \in Nat /\ p[2] \in Nat /\ p[3] \in Nat /\ p[4] \in Nat
        /\ p[1] < 256 /\ p[2] < 256 /\ p[3] < 256 /\ p[4] < 256
    <3> HIDE DEF p
    <3> QED
      BY <2>1, <2>2, <2>3
  <2> HIDE DEF p
  <2>5. p[2] + 256 * p[1] \in Half /\ p[4] + 256 * p[3] \in Half
    BY <2>4 DEF Half
  <2>6. w[k] = <<p[2] + 256 * p[1], p[4] + 256 * p[3]>>
    BY DEF Sha256!be32dec, p
  <2> QED
    BY <2>5, <2>6 DEF Word32
<1>3. w = Sha256!be32dec_vect(b)
  BY DEF Sha256!be32dec_vect
<1>4. w = [k \in 1 .. 16 |-> w[k]]
  OBVIOUS
<1> HIDE DEF w
<1>5. w \in Seq(Word32) /\ Len(w) = 16
  BY <1>2, <1>4
<1> QED
  BY <1>3, <1>5

LEMMA ShaStarts == HasherInit => ShaInv
<1> SUFFICES ASSUME HasherInit PROVE ShaInv
  OBVIOUS
<1> DEFINE s0 == Sha256!initial_state
<1>1. /\ state = s0 /\ S = s0 /\ y_xor_z = Sha256!FirstXor(S) /\ rnd = 64
      /\ fips = [v |-> Sha256!InOrder(state), last |-> <<>>, hash |-> Sha256!InOrder(state)]
  BY DEF HasherInit, Sha256!RoundsInit
<1>2. s0 \in [0 .. 7 -> Word32]
  BY InitialState
<1> HIDE DEF s0
<1>3. Registers(S, rnd, fips.v) /\ y_xor_z = Sha256!Xor(fips.v[2], fips.v[3])
  <2>1. \A role \in 0 .. 7 : Sha256!Reg(role, 64) = role
    BY RegIs
  <2> QED
    BY <1>1, <2>1 DEF Registers, Sha256!InOrder, Sha256!FirstXor
<1> QED
  BY <1>1, <1>2, <1>3 DEF ShaInv

LEMMA PrepareKeeps ==
  ASSUME ShaInv, NEW b \in Messages, Sha256!Prepare(b)
  PROVE  ShaInv'
<1> DEFINE w == Sha256!be32dec_vect(b)
<1>1. /\ rnd = 64 /\ rnd' = 0 /\ W' = w /\ S' = state /\ state' = state
      /\ y_xor_z' = Sha256!FirstXor(state)
      /\ fips' = [fips EXCEPT !.v = fips.hash, !.last = w]
  BY DEF Sha256!Prepare
<1>2. w \in Seq(Word32) /\ Len(w) = 16
  BY BlockWords
<1> HIDE DEF w
<1>3. /\ state \in [0 .. 7 -> Word32] /\ fips.hash = Sha256!InOrder(state)
  BY DEF ShaInv
<1>4. fips'.v = Sha256!InOrder(state) /\ fips'.last = w /\ fips'.hash = Sha256!InOrder(state)
  BY <1>1, <1>3
<1>5. Registers(S', rnd', fips'.v) /\ y_xor_z' = Sha256!Xor(fips'.v[2], fips'.v[3])
  <2>1. \A role \in 0 .. 7 : Sha256!Reg(role, 0) = role
    BY RegIs
  <2> QED
    BY <1>1, <1>4, <2>1 DEF Registers, Sha256!InOrder, Sha256!FirstXor
<1>6. Upcoming(rnd', W', fips'.last)
  <2>1. Schedule(w)
    BY <1>2 DEF Schedule
  <2>2. \A l \in 1 .. 16 : Sha256!MSCH(w)[0 + l] = w[l]
    <3>1. \A t \in 1 .. Len(w) : Sha256!MSCH(w)[t] = w[t]
      BY <2>1, MSCHGrows
    <3>2. \A l \in 1 .. 16 : 0 + l = l /\ l \in 1 .. Len(w)
      BY <1>2
    <3> QED
      BY <3>1, <3>2
  <2>3. 16 * (0 \div 16 + 1) = 16
    OBVIOUS
  <2> QED
    BY <1>1, <1>2, <1>4, <2>1, <2>2, <2>3 DEF Upcoming
<1> QED
  BY <1>1, <1>3, <1>4, <1>5, <1>6 DEF ShaInv

\* Sequences.
LEMMA AppendIs ==
  ASSUME NEW T, NEW u \in Seq(T), NEW a \in T
  PROVE  /\ Append(u, a) \in Seq(T) /\ Len(Append(u, a)) = Len(u) + 1
         /\ Append(u, a)[Len(u) + 1] = a
         /\ \A l \in 1 .. Len(u) : Append(u, a)[l] = u[l]
OBVIOUS

LEMMA TailIs ==
  ASSUME NEW T, NEW u \in Seq(T), Len(u) > 0
  PROVE  /\ Tail(u) \in Seq(T) /\ Len(Tail(u)) = Len(u) - 1
         /\ \A l \in 1 .. Len(u) - 1 : Tail(u)[l] = u[l + 1]
OBVIOUS

\* The schedule, one round on: made in pieces of sixteen, its words are those
\* of the standard.
LEMMA ScheduleMoves ==
  ASSUME NEW r \in 0 .. 62, NEW w, NEW last, Upcoming(r, w, last)
  PROVE  Upcoming(r + 1, IF r + 1 \in {16, 32, 48} THEN Sha256!MSCH(w) ELSE w,
                  Append(Tail(last), Sha256!FipsWord(last)))
<1> DEFINE z == Sha256!MSCH(w)
           a == Sha256!FipsWord(last)
           new == Append(Tail(last), a)
           grown == IF r + 1 \in {16, 32, 48} THEN z ELSE w
<1>1. /\ Schedule(w) /\ Len(w) = 16 * (r \div 16 + 1) /\ last \in Seq(Word32) /\ Len(last) = 16
      /\ \A l \in 1 .. 16 : last[l] = z[r + l]
  BY DEF Upcoming
<1>2. Schedule(z) /\ Len(z) = Len(w) + 16 /\ \A t \in 1 .. Len(w) : z[t] = w[t]
  BY <1>1, MSCHGrows
<1> HIDE DEF z
<1>3. r + 17 \in 17 .. Len(z) /\ Len(w) >= r + 1
  <2>1. 16 * (r \div 16) <= r /\ r < 16 * (r \div 16) + 16
    OBVIOUS
  <2>2. Len(w) \in Nat /\ Len(w) <= r + 16 /\ Len(w) >= r + 1
    BY <1>1, <2>1
  <2>3. Len(z) = Len(w) + 16
    BY <1>2
  <2> QED
    BY <2>2, <2>3
<1>4. a = z[r + 17]
  <2>1. z[r + 17] = NextWord(z, r + 17)
    BY <1>2, <1>3 DEF Schedule
  <2>2. /\ (r + 17) - 2 = r + 15 /\ (r + 17) - 7 = r + 10
        /\ (r + 17) - 15 = r + 2 /\ (r + 17) - 16 = r + 1
    OBVIOUS
  <2>3. last[15] = z[r + 15] /\ last[10] = z[r + 10] /\ last[2] = z[r + 2] /\ last[1] = z[r + 1]
    BY <1>1
  <2> QED
    BY <2>1, <2>2, <2>3 DEF NextWord, Sha256!FipsWord
<1>5. a \in Word32
  <2>1. z \in Seq(Word32)
    BY <1>2 DEF Schedule
  <2> QED
    BY <1>3, <1>4, <2>1
<1> HIDE DEF a
<1>6. /\ new \in Seq(Word32) /\ Len(new) = 16 /\ new[16] = a
      /\ \A l \in 1 .. 15 : new[l] = last[l + 1]
  <2> DEFINE rest == Tail(last)
  <2>1. rest \in Seq(Word32) /\ Len(rest) = 15 /\ \A l \in 1 .. 15 : rest[l] = last[l + 1]
    <3>1. /\ Tail(last) \in Seq(Word32) /\ Len(Tail(last)) = Len(last) - 1
          /\ \A l \in 1 .. Len(last) - 1 : Tail(last)[l] = last[l + 1]
      <4>1. last \in Seq(Word32) /\ Len(last) > 0
        BY <1>1
      <4> QED
        BY <4>1, TailIs
    <3>2. Len(last) - 1 = 15
      BY <1>1
    <3> QED
      BY <3>1, <3>2
  <2> HIDE DEF rest
  <2>2. /\ Append(rest, a) \in Seq(Word32) /\ Len(Append(rest, a)) = Len(rest) + 1
        /\ Append(rest, a)[Len(rest) + 1] = a
        /\ \A l \in 1 .. Len(rest) : Append(rest, a)[l] = rest[l]
    <3>1. rest \in Seq(Word32)
      BY <2>1
    <3> QED
      BY <1>5, <3>1, AppendIs
  <2>3. Len(rest) = 15 /\ Len(rest) + 1 = 16
    BY <2>1
  <2> QED
    BY <2>1, <2>2, <2>3 DEF rest
<1> HIDE DEF new
<1>7. \A l \in 1 .. 16 : new[l] = z[(r + 1) + l]
  <2> TAKE l \in 1 .. 16
  <2>1. CASE l = 16
    BY <1>4, <1>6, <2>1
  <2>2. CASE l # 16
    <3>1. l \in 1 .. 15 /\ l + 1 \in 1 .. 16 /\ r + (l + 1) = (r + 1) + l
      BY <2>2
    <3> QED
      BY <1>1, <1>6, <3>1
  <2> QED
    BY <2>1, <2>2
<1>8. CASE r + 1 \in {16, 32, 48}
  <2>1. Len(z) = 16 * ((r + 1) \div 16 + 1) /\ Len(z) = r + 17
    <3>1. /\ Len(w) = 16 * (r \div 16 + 1) /\ Len(z) = Len(w) + 16
      BY <1>1, <1>2
    <3>2. r = 15 \/ r = 31 \/ r = 47
      BY <1>8
    <3> QED
      BY <3>1, <3>2
  <2>2. \A t \in 1 .. Len(z) : Sha256!MSCH(z)[t] = z[t]
    BY <1>2, MSCHGrows
  <2>3. \A l \in 1 .. 16 : (r + 1) + l \in 1 .. Len(z)
    BY <2>1
  <2>4. grown = z
    BY <1>8
  <2>5. Upcoming(r + 1, z, new)
    BY <1>2, <1>6, <1>7, <2>1, <2>2, <2>3 DEF Upcoming
  <2> QED
    BY <2>4, <2>5 DEF z, new, a
<1>9. CASE r + 1 \notin {16, 32, 48}
  <2>1. (r + 1) \div 16 = r \div 16
    BY <1>9
  <2>2. grown = w
    BY <1>9
  <2>3. Upcoming(r + 1, w, new)
    BY <1>1, <1>6, <1>7, <2>1 DEF Upcoming, z
  <2> QED
    BY <2>2, <2>3 DEF z, new, a
<1> QED
  BY <1>8, <1>9

\* What a round computes is what the standard computes.
LEMMA RoundIs ==
  ASSUME NEW v, \A q \in 1 .. 8 : v[q] \in Word32, NEW k \in Word32, NEW w \in Word32
  PROVE  LET h == Sha256!Add(Sha256!Add(v[8], Sha256!S1(v[5])),
                             Sha256!Add(Sha256!Ch(v[5], v[6], v[7]), Sha256!Add(w, k)))
             h2 == Sha256!Add(h, Sha256!Add(Sha256!S0(v[1]),
                     Sha256!Maj(Sha256!Xor(v[1], v[2]), v[2], Sha256!Xor(v[2], v[3]))))
         IN  /\ Sha256!FipsRound(v, k, w) =
                  <<h2, v[1], v[2], v[3], Sha256!Add(v[4], h), v[5], v[6], v[7]>>
             /\ h2 \in Word32 /\ Sha256!Add(v[4], h) \in Word32
<1> DEFINE h == Sha256!Add(Sha256!Add(v[8], Sha256!S1(v[5])),
                           Sha256!Add(Sha256!Ch(v[5], v[6], v[7]), Sha256!Add(w, k)))
           m == Sha256!Add(Sha256!S0(v[1]),
                  Sha256!Maj(Sha256!Xor(v[1], v[2]), v[2], Sha256!Xor(v[2], v[3])))
           T1 == Sha256!Add(Sha256!Add(v[8], Sha256!S1(v[5])),
                            Sha256!Add(Sha256!FipsCh(v[5], v[6], v[7]), Sha256!Add(k, w)))
           T2 == Sha256!Add(Sha256!S0(v[1]), Sha256!FipsMaj(v[1], v[2], v[3]))
<1>1. /\ v[1] \in Word32 /\ v[2] \in Word32 /\ v[3] \in Word32 /\ v[4] \in Word32
      /\ v[5] \in Word32 /\ v[6] \in Word32 /\ v[7] \in Word32 /\ v[8] \in Word32
  OBVIOUS
<1>2. /\ Sha256!Ch(v[5], v[6], v[7]) = Sha256!FipsCh(v[5], v[6], v[7])
      /\ Sha256!Ch(v[5], v[6], v[7]) \in Word32
  BY <1>1, ShaCh
<1>3. Sha256!Add(w, k) = Sha256!Add(k, w) /\ Sha256!Add(w, k) \in Word32
  BY ShaAddCommutes, ShaClosed
<1>4. h = T1
  BY <1>2, <1>3
<1>5. /\ Sha256!Maj(Sha256!Xor(v[1], v[2]), v[2], Sha256!Xor(v[2], v[3])) =
           Sha256!FipsMaj(v[1], v[2], v[3])
      /\ Sha256!FipsMaj(v[1], v[2], v[3]) \in Word32
  BY <1>1, ShaMaj
<1>6. m = T2
  BY <1>5
<1>7. h \in Word32
  <2>1. Sha256!S1(v[5]) \in Word32
    BY <1>1, SigmaType
  <2>2. Sha256!Add(v[8], Sha256!S1(v[5])) \in Word32
    BY <1>1, <2>1, ShaClosed
  <2>3. Sha256!Add(Sha256!Ch(v[5], v[6], v[7]), Sha256!Add(w, k)) \in Word32
    BY <1>2, <1>3, ShaClosed
  <2> QED
    BY <2>2, <2>3, ShaClosed
<1>8. m \in Word32
  <2>1. Sha256!S0(v[1]) \in Word32
    BY <1>1, SigmaType
  <2> QED
    BY <1>5, <1>6, <2>1, ShaClosed
<1>9. Sha256!FipsRound(v, k, w) =
        <<Sha256!Add(T1, T2), v[1], v[2], v[3], Sha256!Add(v[4], T1), v[5], v[6], v[7]>>
  BY DEF Sha256!FipsRound
<1> HIDE DEF h, m, T1, T2
<1>10. Sha256!Add(h, m) \in Word32 /\ Sha256!Add(v[4], h) \in Word32
  BY <1>1, <1>7, <1>8, ShaClosed
<1>11. Sha256!FipsRound(v, k, w) =
         <<Sha256!Add(h, m), v[1], v[2], v[3], Sha256!Add(v[4], h), v[5], v[6], v[7]>>
  BY <1>4, <1>6, <1>9
<1> QED
  BY <1>10, <1>11 DEF h, m

LEMMA RNDKeeps ==
  ASSUME ShaInv, Sha256!RND
  PROVE  ShaInv'
<1> DEFINE r == rnd
           v == fips.v
           k == Sha256!Krnd[r + 1]
           w == W[r + 1]
           h == Sha256!Add(Sha256!Add(v[8], Sha256!S1(v[5])),
                           Sha256!Add(Sha256!Ch(v[5], v[6], v[7]), Sha256!Add(w, k)))
           h2 == Sha256!Add(h, Sha256!Add(Sha256!S0(v[1]),
                   Sha256!Maj(Sha256!Xor(v[1], v[2]), v[2], Sha256!Xor(v[2], v[3]))))
           d == Sha256!Add(v[4], h)
           new == <<h2, v[1], v[2], v[3], d, v[5], v[6], v[7]>>
<1>1. /\ r \in 0 .. 64 /\ state \in [0 .. 7 -> Word32] /\ S \in [0 .. 7 -> Word32]
      /\ fips.hash = Sha256!InOrder(state) /\ Registers(S, r, v)
      /\ y_xor_z = Sha256!Xor(v[2], v[3]) /\ (r < 64 => Upcoming(r, W, fips.last))
  BY DEF ShaInv
<1>2. r < 64 /\ rnd' = r + 1
  BY DEF Sha256!RND
<1>3. /\ S[Sha256!Reg(0, r)] = v[1] /\ S[Sha256!Reg(1, r)] = v[2] /\ S[Sha256!Reg(2, r)] = v[3]
      /\ S[Sha256!Reg(3, r)] = v[4] /\ S[Sha256!Reg(4, r)] = v[5] /\ S[Sha256!Reg(5, r)] = v[6]
      /\ S[Sha256!Reg(6, r)] = v[7] /\ S[Sha256!Reg(7, r)] = v[8]
  <2>1. \A role \in 0 .. 7 : S[Sha256!Reg(role, r)] = v[role + 1]
    BY <1>1 DEF Registers
  <2> HIDE DEF v, r
  <2> QED
    BY <2>1
<1>4. \A m \in 1 .. 8 : v[m] \in Word32
  <2>1. \A role \in 0 .. 7 : Sha256!Reg(role, r) \in 0 .. 7
    BY <1>1, RegIs
  <2> HIDE DEF v, r
  <2> QED
    BY <1>1, <1>3, <2>1
<1>5. k \in Word32
  BY <1>1, <1>2, KrndType
<1>6. w = fips.last[1] /\ w \in Word32
  <2>1. Upcoming(r, W, fips.last)
    BY <1>1, <1>2
  <2>2. Schedule(W) /\ r + 1 \in 1 .. Len(W) /\ fips.last[1] = Sha256!MSCH(W)[r + 1]
    <3>1. Schedule(W) /\ Len(W) = 16 * (r \div 16 + 1) /\ fips.last[1] = Sha256!MSCH(W)[r + 1]
      BY <2>1 DEF Upcoming
    <3>2. r + 1 \in 1 .. 16 * (r \div 16 + 1)
      <4> HIDE DEF r
      <4> QED
        BY <1>1, <1>2
    <3> QED
      BY <3>1, <3>2
  <2>3. Sha256!MSCH(W)[r + 1] = W[r + 1]
    BY <2>2, MSCHGrows
  <2> QED
    BY <2>2, <2>3 DEF Schedule
<1>7. Sha256!FipsRound(v, k, fips.last[1]) = new /\ h2 \in Word32 /\ d \in Word32
  <2> HIDE DEF v, k, w
  <2> QED
    BY <1>4, <1>5, <1>6, RoundIs
<1>8. /\ S' = [S EXCEPT ![Sha256!Reg(3, r)] = d, ![Sha256!Reg(7, r)] = h2]
      /\ y_xor_z' = IF (r + 1) % 16 = 0 THEN Sha256!FirstXor(S') ELSE Sha256!Xor(v[1], v[2])
      /\ W' = IF r + 1 \in {16, 32, 48} THEN Sha256!MSCH(W) ELSE W
      /\ state' = IF r + 1 = 64 THEN [m \in 0 .. 7 |-> Sha256!Add(state[m], S'[m])] ELSE state
      /\ fips' = [v |-> new, last |-> Append(Tail(fips.last), Sha256!FipsWord(fips.last)),
                  hash |-> IF r + 1 = 64 THEN [m \in 1 .. 8 |-> Sha256!Add(fips.hash[m], new[m])]
                                         ELSE fips.hash]
  <2>1. Sha256!Maj(Sha256!Xor(v[1], v[2]), v[2], y_xor_z) =
          Sha256!Maj(Sha256!Xor(v[1], v[2]), v[2], Sha256!Xor(v[2], v[3]))
    BY <1>1
  <2>2. Sha256!FipsRound(fips.v, Sha256!Krnd[rnd + 1], fips.last[1]) = new
    BY <1>7
  <2> QED
    BY <1>2, <1>3, <2>1, <2>2 DEF Sha256!RND
<1> HIDE DEF r, v, k, w, h, h2, d, new
<1>9. \A role \in 0 .. 7 : S'[Sha256!Reg(role, r + 1)] = new[role + 1]
  <2>1. /\ \A role \in 0 .. 7 : Sha256!Reg(role, r) \in 0 .. 7
        /\ \A role \in 0 .. 6 : Sha256!Reg(role + 1, r + 1) = Sha256!Reg(role, r)
        /\ Sha256!Reg(0, r + 1) = Sha256!Reg(7, r)
        /\ \A a, b \in 0 .. 7 : a # b => Sha256!Reg(a, r) # Sha256!Reg(b, r)
    BY <1>1, RegIs
  <2>2. S'[Sha256!Reg(3, r)] = d /\ S'[Sha256!Reg(7, r)] = h2
    BY <1>1, <1>8, <2>1
  <2>3. ASSUME NEW role \in 0 .. 6, role # 3
        PROVE  S'[Sha256!Reg(role, r)] = v[role + 1]
    <3>1. role \in 0 .. 7 /\ role # 7
      OBVIOUS
    <3>2. Sha256!Reg(role, r) # Sha256!Reg(3, r) /\ Sha256!Reg(role, r) # Sha256!Reg(7, r)
      BY <2>1, <2>3, <3>1
    <3>3. S'[Sha256!Reg(role, r)] = S[Sha256!Reg(role, r)]
      BY <1>1, <1>8, <2>1, <3>1, <3>2
    <3> QED
      BY <1>1, <3>1, <3>3 DEF Registers
  <2>4. /\ new[1] = h2 /\ new[2] = v[1] /\ new[3] = v[2] /\ new[4] = v[3]
        /\ new[5] = d /\ new[6] = v[5] /\ new[7] = v[6] /\ new[8] = v[7]
    BY DEF new
  <2>5. S'[Sha256!Reg(0, r + 1)] = new[1]
    BY <2>1, <2>2, <2>4
  <2>6. ASSUME NEW role \in 0 .. 6
        PROVE  S'[Sha256!Reg(role + 1, r + 1)] = new[role + 2]
    <3>1. S'[Sha256!Reg(role + 1, r + 1)] = S'[Sha256!Reg(role, r)]
      BY <2>1
    <3>2. CASE role = 3
      BY <2>2, <2>4, <3>1, <3>2
    <3>3. CASE role # 3
      <4>1. S'[Sha256!Reg(role, r)] = v[role + 1]
        BY <2>3, <3>3
      <4>2. role = 0 \/ role = 1 \/ role = 2 \/ role = 4 \/ role = 5 \/ role = 6
        BY <3>3
      <4>3. v[role + 1] = new[role + 2]
        BY <2>4, <4>2
      <4> QED
        BY <3>1, <4>1, <4>3
    <3> QED
      BY <3>2, <3>3
  <2>7. ASSUME NEW role \in 0 .. 7, role # 0
        PROVE  S'[Sha256!Reg(role, r + 1)] = new[role + 1]
    <3>1. role - 1 \in 0 .. 6 /\ (role - 1) + 1 = role /\ (role - 1) + 2 = role + 1
      BY <2>7
    <3> QED
      BY <2>6, <3>1
  <2> QED
    BY <2>5, <2>7
<1>10. S' \in [0 .. 7 -> Word32]
  BY <1>1, <1>7, <1>8
<1>11. fips'.v = new
  BY <1>8
<1>12. Registers(S', rnd', fips'.v)
  BY <1>2, <1>9, <1>11 DEF Registers
<1>13. y_xor_z' = Sha256!Xor(fips'.v[2], fips'.v[3])
  <2>1. CASE (r + 1) % 16 = 0
    <3>1. /\ Sha256!Reg(1, r + 1) = 1 /\ Sha256!Reg(2, r + 1) = 2
      <4>1. r + 1 \in 0 .. 64
        BY <1>1, <1>2
      <4> QED
        BY <2>1, <4>1, RegIs
    <3>2. S'[1] = new[2] /\ S'[2] = new[3]
      BY <1>9, <3>1
    <3> QED
      BY <1>8, <1>11, <2>1, <3>2 DEF Sha256!FirstXor
  <2>2. CASE (r + 1) % 16 # 0
    BY <1>8, <1>11, <2>2 DEF new
  <2> QED
    BY <2>1, <2>2
<1>14. state' \in [0 .. 7 -> Word32] /\ fips'.hash = Sha256!InOrder(state')
  <2>1. CASE r + 1 = 64
    <3>1. \A m \in 0 .. 7 : S'[m] = new[m + 1]
      <4>1. \A role \in 0 .. 7 : Sha256!Reg(role, 64) = role
        BY RegIs
      <4> QED
        BY <1>9, <2>1, <4>1
    <3>2. state' = [m \in 0 .. 7 |-> Sha256!Add(state[m], S'[m])]
      BY <1>8, <2>1
    <3>3. \A m \in 0 .. 7 : Sha256!Add(state[m], S'[m]) \in Word32
      BY <1>1, <1>10, ShaClosed
    <3>4. fips'.hash = [m \in 1 .. 8 |-> Sha256!Add(fips.hash[m], new[m])]
      BY <1>8, <2>1
    <3>5. \A m \in 1 .. 8 : fips.hash[m] = state[m - 1] /\ new[m] = S'[m - 1] /\ m - 1 \in 0 .. 7
      <4>1. \A m \in 1 .. 8 : m - 1 \in 0 .. 7 /\ (m - 1) + 1 = m
        OBVIOUS
      <4>2. \A m \in 1 .. 8 : fips.hash[m] = state[m - 1]
        BY <1>1 DEF Sha256!InOrder
      <4> QED
        BY <3>1, <4>1, <4>2
    <3>6. Sha256!InOrder(state') = [m \in 1 .. 8 |-> state'[m - 1]]
      BY DEF Sha256!InOrder
    <3>7. \A m \in 1 .. 8 : state'[m - 1] = Sha256!Add(fips.hash[m], new[m])
      BY <3>2, <3>5
    <3> QED
      BY <3>2, <3>3, <3>4, <3>6, <3>7
  <2>2. CASE r + 1 # 64
    BY <1>1, <1>8, <2>2
  <2> QED
    BY <2>1, <2>2
<1>15. ASSUME rnd' < 64 PROVE Upcoming(rnd', W', fips'.last)
  <2>1. r \in 0 .. 62
    BY <1>1, <1>2, <1>15
  <2>2. Upcoming(r, W, fips.last)
    BY <1>1, <1>2
  <2>3. fips'.last = Append(Tail(fips.last), Sha256!FipsWord(fips.last))
    BY <1>8
  <2> QED
    BY <1>2, <1>8, <2>1, <2>2, <2>3, ScheduleMoves
<1>16. rnd' \in 0 .. 64
  BY <1>1, <1>2
<1> QED
  BY <1>10, <1>12, <1>13, <1>14, <1>15, <1>16 DEF ShaInv

\* Whatever blocks are compressed one after another: after every round the
\* registers, read by their roles, are a .. h of FIPS 180-4, and the state is
\* its hash (sha256.c: SHA256_Transform, RNDr, MSCH).
THEOREM RoundsCorrect == HasherSpec => []RoundsMatch
<1>1. ShaInv /\ [HasherNext]_hasherVars => ShaInv'
  <2> SUFFICES ASSUME ShaInv, [HasherNext]_hasherVars PROVE ShaInv'
    OBVIOUS
  <2>1. Sha256!RoundsNext \/ UNCHANGED shaVars
    BY DEF HasherNext, hasherVars, WorkTurn, YespowerTurn, StreamTurn, RoundsTurn, SalsaTurn,
           PwxformTurn, BlockMixTurn
  <2>2. CASE Sha256!RND
    BY <2>2, RNDKeeps
  <2>3. ASSUME NEW b \in Messages, Sha256!Prepare(b) PROVE ShaInv'
    BY <2>3, PrepareKeeps
  <2>4. CASE UNCHANGED shaVars
    BY <2>4 DEF shaVars, ShaInv
  <2> QED
    BY <2>1, <2>2, <2>3, <2>4 DEF Sha256!RoundsNext
<1>2. ShaInv => RoundsMatch
  BY DEF ShaInv, Registers, RoundsMatch, Sha256!RoundsMatch
<1> QED
  BY <1>1, <1>2, ShaStarts, PTL DEF HasherSpec

(***************************************************************************)
(* Shifting to both sides.                                                 *)
(***************************************************************************)
LEMMA XorAssociates ==
  ASSUME NEW m \in Half, NEW h \in Half, NEW o \in Half
  PROVE  Xor24(Xor24(m, h), o) = Xor24(m, Xor24(h, o))
<1>1. PICK b \in Bits16 : m = FromBits(b)
  BY HalfBits
<1>2. PICK c \in Bits16 : h = FromBits(c)
  BY HalfBits
<1>3. PICK d \in Bits16 : o = FromBits(d)
  BY HalfBits
<1>4. XorBits(b, c) \in Bits16 /\ XorBits(c, d) \in Bits16
  BY XorBitsType
<1>5. Xor24(m, h) = FromBits(XorBits(b, c)) /\ Xor24(h, o) = FromBits(XorBits(c, d))
  BY <1>1, <1>2, <1>3, XorFromBits
<1>6. Xor24(Xor24(m, h), o) = FromBits(XorBits(XorBits(b, c), d))
  BY <1>3, <1>4, <1>5, XorFromBits
<1>7. Xor24(m, Xor24(h, o)) = FromBits(XorBits(b, XorBits(c, d)))
  BY <1>1, <1>4, <1>5, XorFromBits
<1>8. XorBits(XorBits(b, c), d) = XorBits(b, XorBits(c, d))
  <2>1. ASSUME NEW k \in 0 .. 15
        PROVE  XorBits(XorBits(b, c), d)[k] = XorBits(b, XorBits(c, d))[k]
    <3>1. b[k] \in {0, 1} /\ c[k] \in {0, 1} /\ d[k] \in {0, 1}
      BY DEF Bits16
    <3> QED
      BY <3>1 DEF XorBits
  <2> QED
    BY <2>1 DEF XorBits
<1> QED
  BY <1>6, <1>7, <1>8

\* What the bits of a small number are, and of a multiple of a power of two.
LEMMA BitsAt ==
  ASSUME NEW b \in Bits16, NEW v \in Nat, v = FromBits(b)
  PROVE  /\ v < 4 => \A k \in 2 .. 15 : b[k] = 0
         /\ v < 128 => \A k \in 7 .. 15 : b[k] = 0
         /\ v < 512 => \A k \in 9 .. 15 : b[k] = 0
         /\ v < 8192 => \A k \in 13 .. 15 : b[k] = 0
         /\ \A a \in Nat : v = a * 4 => \A k \in 0 .. 1 : b[k] = 0
         /\ \A a \in Nat : v = a * 128 => \A k \in 0 .. 6 : b[k] = 0
         /\ \A a \in Nat : v = a * 512 => \A k \in 0 .. 8 : b[k] = 0
         /\ \A a \in Nat : v = a * 8192 => \A k \in 0 .. 12 : b[k] = 0
<1>a. \A k \in 0 .. 15 : b[k] \in Nat /\ b[k] <= 1
  BY DEF Bits16
<1>0. PICK b0 \in Nat : b0 = b[0] /\ b0 <= 1
  BY <1>a
<1>1. PICK b1 \in Nat : b1 = b[1] /\ b1 <= 1
  BY <1>a
<1>2. PICK b2 \in Nat : b2 = b[2] /\ b2 <= 1
  BY <1>a
<1>3. PICK b3 \in Nat : b3 = b[3] /\ b3 <= 1
  BY <1>a
<1>4. PICK b4 \in Nat : b4 = b[4] /\ b4 <= 1
  BY <1>a
<1>5. PICK b5 \in Nat : b5 = b[5] /\ b5 <= 1
  BY <1>a
<1>6. PICK b6 \in Nat : b6 = b[6] /\ b6 <= 1
  BY <1>a
<1>7. PICK b7 \in Nat : b7 = b[7] /\ b7 <= 1
  BY <1>a
<1>8. PICK b8 \in Nat : b8 = b[8] /\ b8 <= 1
  BY <1>a
<1>9. PICK b9 \in Nat : b9 = b[9] /\ b9 <= 1
  BY <1>a
<1>10. PICK b10 \in Nat : b10 = b[10] /\ b10 <= 1
  BY <1>a
<1>11. PICK b11 \in Nat : b11 = b[11] /\ b11 <= 1
  BY <1>a
<1>12. PICK b12 \in Nat : b12 = b[12] /\ b12 <= 1
  BY <1>a
<1>13. PICK b13 \in Nat : b13 = b[13] /\ b13 <= 1
  BY <1>a
<1>14. PICK b14 \in Nat : b14 = b[14] /\ b14 <= 1
  BY <1>a
<1>15. PICK b15 \in Nat : b15 = b[15] /\ b15 <= 1
  BY <1>a
<1>16. v = b0 + 2 * b1 + 4 * b2 + 8 * b3 + 16 * b4 + 32 * b5 + 64 * b6 + 128 * b7
         + 256 * b8 + 512 * b9 + 1024 * b10 + 2048 * b11 + 4096 * b12 + 8192 * b13
         + 16384 * b14 + 32768 * b15
  <2>1. /\ Nibble(b, 0) = b0 + 2 * b1 + 4 * b2 + 8 * b3
        /\ Nibble(b, 4) = b4 + 2 * b5 + 4 * b6 + 8 * b7
        /\ Nibble(b, 8) = b8 + 2 * b9 + 4 * b10 + 8 * b11
        /\ Nibble(b, 12) = b12 + 2 * b13 + 4 * b14 + 8 * b15
    BY <1>0, <1>1, <1>2, <1>3, <1>4, <1>5, <1>6, <1>7, <1>8, <1>9, <1>10, <1>11, <1>12, <1>13, <1>14, <1>15
       DEF Nibble
  <2> QED
    BY <2>1 DEF FromBits
<1>17. v < 4 => \A k \in 2 .. 15 : b[k] = 0
  <2>1. v < 4 => /\ b2 = 0 /\ b3 = 0 /\ b4 = 0 /\ b5 = 0 /\ b6 = 0 /\ b7 = 0 /\ b8 = 0
                  /\ b9 = 0 /\ b10 = 0 /\ b11 = 0 /\ b12 = 0 /\ b13 = 0 /\ b14 = 0 /\ b15 = 0
    BY <1>16
  <2>2. \A k \in 2 .. 15 : \/ k = 2 \/ k = 3 \/ k = 4 \/ k = 5 \/ k = 6 \/ k = 7 \/ k = 8
                            \/ k = 9 \/ k = 10 \/ k = 11 \/ k = 12 \/ k = 13 \/ k = 14 \/ k = 15
    OBVIOUS
  <2> QED
    BY <2>1, <2>2, <1>2, <1>3, <1>4, <1>5, <1>6, <1>7, <1>8, <1>9, <1>10, <1>11, <1>12, <1>13, <1>14, <1>15
<1>18. v < 128 => \A k \in 7 .. 15 : b[k] = 0
  <2>1. v < 128 => /\ b7 = 0 /\ b8 = 0 /\ b9 = 0 /\ b10 = 0 /\ b11 = 0 /\ b12 = 0 /\ b13 = 0
                  /\ b14 = 0 /\ b15 = 0
    BY <1>16
  <2>2. \A k \in 7 .. 15 : \/ k = 7 \/ k = 8 \/ k = 9 \/ k = 10 \/ k = 11 \/ k = 12 \/ k = 13
                            \/ k = 14 \/ k = 15
    OBVIOUS
  <2> QED
    BY <2>1, <2>2, <1>7, <1>8, <1>9, <1>10, <1>11, <1>12, <1>13, <1>14, <1>15
<1>19. v < 512 => \A k \in 9 .. 15 : b[k] = 0
  <2>1. v < 512 => /\ b9 = 0 /\ b10 = 0 /\ b11 = 0 /\ b12 = 0 /\ b13 = 0 /\ b14 = 0 /\ b15 = 0
    BY <1>16
  <2>2. \A k \in 9 .. 15 : \/ k = 9 \/ k = 10 \/ k = 11 \/ k = 12 \/ k = 13 \/ k = 14 \/ k = 15
    OBVIOUS
  <2> QED
    BY <2>1, <2>2, <1>9, <1>10, <1>11, <1>12, <1>13, <1>14, <1>15
<1>20. v < 8192 => \A k \in 13 .. 15 : b[k] = 0
  <2>1. v < 8192 => /\ b13 = 0 /\ b14 = 0 /\ b15 = 0
    BY <1>16
  <2>2. \A k \in 13 .. 15 : \/ k = 13 \/ k = 14 \/ k = 15
    OBVIOUS
  <2> QED
    BY <2>1, <2>2, <1>13, <1>14, <1>15
<1>21. \A a \in Nat : v = a * 4 => \A k \in 0 .. 1 : b[k] = 0
  <2> SUFFICES ASSUME NEW a \in Nat, v = a * 4 PROVE \A k \in 0 .. 1 : b[k] = 0
    OBVIOUS
  <2>a. PICK low \in Nat : low = b0 + 2 * b1
    OBVIOUS
  <2>b. PICK high \in Nat : high = b2 + 2 * b3 + 4 * b4 + 8 * b5 + 16 * b6 + 32 * b7
          + 64 * b8 + 128 * b9 + 256 * b10 + 512 * b11 + 1024 * b12 + 2048 * b13
          + 4096 * b14 + 8192 * b15
    OBVIOUS
  <2>c. v = low + 4 * high
    BY <1>16, <2>a, <2>b
  <2>d. low < 4
    BY <1>0, <1>1, <2>a
  <2>e. low = 0
    <3>1. low = 4 * (a - high)
      BY <2>c
    <3> QED
      BY <2>d, <3>1
  <2>1. /\ b0 = 0 /\ b1 = 0
    BY <2>a, <2>e
  <2>2. \A k \in 0 .. 1 : \/ k = 0 \/ k = 1
    OBVIOUS
  <2> QED
    BY <2>1, <2>2, <1>0, <1>1
<1>22. \A a \in Nat : v = a * 128 => \A k \in 0 .. 6 : b[k] = 0
  <2> SUFFICES ASSUME NEW a \in Nat, v = a * 128 PROVE \A k \in 0 .. 6 : b[k] = 0
    OBVIOUS
  <2>a. PICK low \in Nat : low = b0 + 2 * b1 + 4 * b2 + 8 * b3 + 16 * b4 + 32 * b5
          + 64 * b6
    OBVIOUS
  <2>b. PICK high \in Nat : high = b7 + 2 * b8 + 4 * b9 + 8 * b10 + 16 * b11 + 32 * b12
          + 64 * b13 + 128 * b14 + 256 * b15
    OBVIOUS
  <2>c. v = low + 128 * high
    BY <1>16, <2>a, <2>b
  <2>d. low < 128
    BY <1>0, <1>1, <1>2, <1>3, <1>4, <1>5, <1>6, <2>a
  <2>e. low = 0
    <3>1. low = 128 * (a - high)
      BY <2>c
    <3> QED
      BY <2>d, <3>1
  <2>1. /\ b0 = 0 /\ b1 = 0 /\ b2 = 0 /\ b3 = 0 /\ b4 = 0 /\ b5 = 0 /\ b6 = 0
    BY <2>a, <2>e
  <2>2. \A k \in 0 .. 6 : \/ k = 0 \/ k = 1 \/ k = 2 \/ k = 3 \/ k = 4 \/ k = 5 \/ k = 6
    OBVIOUS
  <2> QED
    BY <2>1, <2>2, <1>0, <1>1, <1>2, <1>3, <1>4, <1>5, <1>6
<1>23. \A a \in Nat : v = a * 512 => \A k \in 0 .. 8 : b[k] = 0
  <2> SUFFICES ASSUME NEW a \in Nat, v = a * 512 PROVE \A k \in 0 .. 8 : b[k] = 0
    OBVIOUS
  <2>a. PICK low \in Nat : low = b0 + 2 * b1 + 4 * b2 + 8 * b3 + 16 * b4 + 32 * b5
          + 64 * b6 + 128 * b7 + 256 * b8
    OBVIOUS
  <2>b. PICK high \in Nat : high = b9 + 2 * b10 + 4 * b11 + 8 * b12 + 16 * b13 + 32 * b14
          + 64 * b15
    OBVIOUS
  <2>c. v = low + 512 * high
    BY <1>16, <2>a, <2>b
  <2>d. low < 512
    BY <1>0, <1>1, <1>2, <1>3, <1>4, <1>5, <1>6, <1>7, <1>8, <2>a
  <2>e. low = 0
    <3>1. low = 512 * (a - high)
      BY <2>c
    <3> QED
      BY <2>d, <3>1
  <2>1. /\ b0 = 0 /\ b1 = 0 /\ b2 = 0 /\ b3 = 0 /\ b4 = 0 /\ b5 = 0 /\ b6 = 0
        /\ b7 = 0 /\ b8 = 0
    BY <2>a, <2>e
  <2>2. \A k \in 0 .. 8 : \/ k = 0 \/ k = 1 \/ k = 2 \/ k = 3 \/ k = 4 \/ k = 5 \/ k = 6
                            \/ k = 7 \/ k = 8
    OBVIOUS
  <2> QED
    BY <2>1, <2>2, <1>0, <1>1, <1>2, <1>3, <1>4, <1>5, <1>6, <1>7, <1>8
<1>24. \A a \in Nat : v = a * 8192 => \A k \in 0 .. 12 : b[k] = 0
  <2> SUFFICES ASSUME NEW a \in Nat, v = a * 8192 PROVE \A k \in 0 .. 12 : b[k] = 0
    OBVIOUS
  <2>a. PICK low \in Nat : low = b0 + 2 * b1 + 4 * b2 + 8 * b3 + 16 * b4 + 32 * b5
          + 64 * b6 + 128 * b7 + 256 * b8 + 512 * b9 + 1024 * b10 + 2048 * b11
          + 4096 * b12
    OBVIOUS
  <2>b. PICK high \in Nat : high = b13 + 2 * b14 + 4 * b15
    OBVIOUS
  <2>c. v = low + 8192 * high
    BY <1>16, <2>a, <2>b
  <2>d. low < 8192
    <3>1. b0 + 2 * b1 + 4 * b2 + 8 * b3 + 16 * b4 + 32 * b5 <= 63
      BY <1>0, <1>1, <1>2, <1>3, <1>4, <1>5
    <3>2. 64 * b6 + 128 * b7 + 256 * b8 + 512 * b9 + 1024 * b10 + 2048 * b11 + 4096 * b12 <= 8128
      BY <1>6, <1>7, <1>8, <1>9, <1>10, <1>11, <1>12
    <3> QED
      BY <3>1, <3>2, <2>a
  <2>e. low = 0
    <3>1. low = 8192 * (a - high)
      BY <2>c
    <3> QED
      BY <2>d, <3>1
  <2>1. /\ b0 = 0 /\ b1 = 0 /\ b2 = 0 /\ b3 = 0 /\ b4 = 0 /\ b5 = 0 /\ b6 = 0
        /\ b7 = 0 /\ b8 = 0 /\ b9 = 0 /\ b10 = 0 /\ b11 = 0 /\ b12 = 0
    BY <2>a, <2>e
  <2>2. \A k \in 0 .. 12 : \/ k = 0 \/ k = 1 \/ k = 2 \/ k = 3 \/ k = 4 \/ k = 5 \/ k = 6
                            \/ k = 7 \/ k = 8 \/ k = 9 \/ k = 10 \/ k = 11 \/ k = 12
    OBVIOUS
  <2> QED
    BY <2>1, <2>2, <1>0, <1>1, <1>2, <1>3, <1>4, <1>5, <1>6, <1>7, <1>8, <1>9, <1>10, <1>11, <1>12
<1> QED
  BY <1>17, <1>18, <1>19, <1>20, <1>21, <1>22, <1>23, <1>24

\* If two numbers have no bit in common, their xor is their sum.
LEMMA NoCommonBit ==
  ASSUME NEW b \in Bits16, NEW c \in Bits16, \A k \in 0 .. 15 : b[k] = 0 \/ c[k] = 0
  PROVE  Xor24(FromBits(b), FromBits(c)) = FromBits(b) + FromBits(c)
<1> DEFINE a == AndBits(b, c)
           g == XorBits(b, c)
<1>1. FromBits(b) + FromBits(c) = FromBits(g) + 2 * FromBits(a)
  BY FromBitsSum
<1>2. \A k \in 0 .. 15 : a[k] = 0
  <2> TAKE k \in 0 .. 15
  <2>1. b[k] \in {0, 1} /\ c[k] \in {0, 1} /\ (b[k] = 0 \/ c[k] = 0)
    BY DEF Bits16
  <2> QED
    BY <2>1 DEF AndBits
<1>3. g \in Bits16
  BY XorBitsType
<1>4. Xor24(FromBits(b), FromBits(c)) = FromBits(g)
  BY XorFromBits
<1> HIDE DEF a, g
<1>5. FromBits(a) = 0
  BY <1>2 DEF FromBits, Nibble
<1>6. FromBits(g) \in Nat /\ FromBits(g) + 2 * 0 = FromBits(g)
  <2>1. FromBits(g) \in Nat
    BY <1>3, FromBitsBytes DEF Half
  <2> QED
    BY <2>1
<1> QED
  BY <1>1, <1>4, <1>5, <1>6

LEMMA Disjoint ==
  ASSUME NEW u \in {4, 128, 512, 8192}, NEW a \in Nat, NEW h \in Nat, h < u, a * u \in Half
  PROVE  /\ h \in Half /\ Xor24(a * u, h) = a * u + h /\ Xor24(h, a * u) = a * u + h
         /\ a * u + h \in Half
<1>1. h \in Half
  BY DEF Half
<1>2. PICK c \in Bits16 : h = FromBits(c)
  BY <1>1, HalfBits
<1>3. PICK m \in Half : m = a * u
  OBVIOUS
<1>4. PICK b \in Bits16 : m = FromBits(b)
  BY HalfBits
<1>5. m \in Nat
  BY <1>3 DEF Half
<1>6. \A k \in 0 .. 15 : b[k] = 0 \/ c[k] = 0
  <2>1. CASE u = 4
    <3>1. \A k \in 2 .. 15 : c[k] = 0
      BY <1>2, <2>1, BitsAt
    <3>2. \A k \in 0 .. 1 : b[k] = 0
      BY <1>3, <1>4, <1>5, <2>1, BitsAt
    <3> QED
      BY <3>1, <3>2
  <2>2. CASE u = 128
    <3>1. \A k \in 7 .. 15 : c[k] = 0
      BY <1>2, <2>2, BitsAt
    <3>2. \A k \in 0 .. 6 : b[k] = 0
      BY <1>3, <1>4, <1>5, <2>2, BitsAt
    <3> QED
      BY <3>1, <3>2
  <2>3. CASE u = 512
    <3>1. \A k \in 9 .. 15 : c[k] = 0
      BY <1>2, <2>3, BitsAt
    <3>2. \A k \in 0 .. 8 : b[k] = 0
      BY <1>3, <1>4, <1>5, <2>3, BitsAt
    <3> QED
      BY <3>1, <3>2
  <2>4. CASE u = 8192
    <3>1. \A k \in 13 .. 15 : c[k] = 0
      BY <1>2, <2>4, BitsAt
    <3>2. \A k \in 0 .. 12 : b[k] = 0
      BY <1>3, <1>4, <1>5, <2>4, BitsAt
    <3> QED
      BY <3>1, <3>2
  <2> QED
    BY <2>1, <2>2, <2>3, <2>4
<1>7. Xor24(m, h) = m + h
  BY <1>2, <1>4, <1>6, NoCommonBit
<1>8. Xor24(h, m) = Xor24(m, h) /\ Xor24(m, h) \in Half
  BY <1>1, XorCommutes, HalfClosed
<1> QED
  BY <1>1, <1>3, <1>7, <1>8

LEMMA XorZero ==
  ASSUME NEW m \in Half
  PROVE  Xor24(m, 0) = m /\ Xor24(0, m) = m
<1>1. 0 \in Half /\ 0 \in Nat /\ 0 < 4 /\ 0 = 0 * 4
  BY DEF Half
<1>2. PICK c \in Bits16 : 0 = FromBits(c)
  BY <1>1, HalfBits
<1>3. PICK b \in Bits16 : m = FromBits(b)
  BY HalfBits
<1>4. \A k \in 0 .. 15 : c[k] = 0
  <2>1. \A k \in 2 .. 15 : c[k] = 0
    BY <1>1, <1>2, BitsAt
  <2>2. \A k \in 0 .. 1 : c[k] = 0
    BY <1>1, <1>2, BitsAt
  <2> QED
    BY <2>1, <2>2
<1>5. Xor24(m, 0) = m + 0
  BY <1>2, <1>3, <1>4, NoCommonBit
<1>6. m + 0 = m
  BY DEF Half
<1> QED
  BY <1>1, <1>5, <1>6, XorCommutes

\* Two words whose halves have no bit in common: | is + and is xor.
Apart(p, q) ==
  /\ p \in Word32 /\ q \in Word32
  /\ Xor24(p[1], q[1]) = p[1] + q[1] /\ Xor24(p[2], q[2]) = p[2] + q[2]

LEMMA ApartAdds ==
  ASSUME NEW p, NEW q, Apart(p, q)
  PROVE  Add(q, p) = Xor(p, q)
<1>1. p[1] \in Half /\ p[2] \in Half /\ q[1] \in Half /\ q[2] \in Half
  BY WordHalves DEF Apart
<1>2. PICK h \in Half : h = Xor24(p[1], q[1]) /\ h = p[1] + q[1]
  <2>1. Xor24(p[1], q[1]) \in Half
    BY <1>1, HalfClosed
  <2>2. Xor24(p[1], q[1]) = p[1] + q[1]
    BY DEF Apart
  <2> QED
    BY <2>1, <2>2
<1>3. PICK l \in Half : l = Xor24(p[2], q[2]) /\ l = p[2] + q[2]
  <2>1. Xor24(p[2], q[2]) \in Half
    BY <1>1, HalfClosed
  <2>2. Xor24(p[2], q[2]) = p[2] + q[2]
    BY DEF Apart
  <2> QED
    BY <2>1, <2>2
<1>4. p[1] \in Nat /\ p[2] \in Nat /\ q[1] \in Nat /\ q[2] \in Nat
  BY <1>1 DEF Half
<1>5. q[2] + p[2] = l /\ q[1] + p[1] = h
  BY <1>2, <1>3, <1>4
<1>6. l \div 65536 = 0 /\ l % 65536 = l /\ h + 0 = h /\ h % 65536 = h
  BY DEF Half
<1>7. Add(q, p) = <<h, l>>
  BY <1>5, <1>6 DEF Add, Word
<1> QED
  BY <1>2, <1>3, <1>7 DEF Xor

LEMMA ShiftsApart ==
  ASSUME NEW v \in Word32, NEW t \in {7, 9, 13, 18}
  PROVE  Apart(ShiftLeft(v, t), ShiftRight(v, 32 - t))
<1>1. PICK h \in Nat, l \in Nat : h = v[1] /\ l = v[2] /\ h < 65536 /\ l < 65536
  BY WordHalves DEF Half
<1>2. CASE t = 7
  <2>1. 2 ^ 7 = 128 /\ 2 ^ (16 - 7) = 512 /\ 2 ^ (32 - 7 - 16) = 512
    OBVIOUS
  <2>2. ShiftLeft(v, t) = <<(h % 512) * 128 + l \div 512, (l % 512) * 128>>
    BY <1>1, <1>2, <2>1 DEF ShiftLeft
  <2>3. ShiftRight(v, 32 - t) = <<0, h \div 512>>
    BY <1>1, <1>2, <2>1 DEF ShiftRight
  <2>4. /\ (h % 512) * 128 + l \div 512 \in Half /\ 0 \in Half
        /\ Xor24((h % 512) * 128 + l \div 512, 0) = (h % 512) * 128 + l \div 512 + 0
    <3>1. PICK m \in Half : m = (h % 512) * 128 + l \div 512
      BY <1>1 DEF Half
    <3>2. m + 0 = m /\ 0 \in Half
      BY DEF Half
    <3> QED
      BY <3>1, <3>2, XorZero
  <2>5. /\ (l % 512) * 128 \in Half /\ h \div 512 \in Half
        /\ Xor24((l % 512) * 128, h \div 512) = (l % 512) * 128 + h \div 512
    <3>1. PICK a \in Nat : a = l % 512
      OBVIOUS
    <3>2. PICK g \in Nat : g = h \div 512
      OBVIOUS
    <3>3. g < 128 /\ a * 128 \in Half
      BY <1>1, <3>1, <3>2 DEF Half
    <3>4. 128 \in {4, 128, 512, 8192}
      OBVIOUS
    <3>5. g \in Half /\ Xor24(a * 128, g) = a * 128 + g
      BY <3>3, <3>4, Disjoint
    <3> QED
      BY <3>1, <3>2, <3>3, <3>5
  <2> QED
    BY <2>2, <2>3, <2>4, <2>5 DEF Apart, Word32
<1>3. CASE t = 9
  <2>1. 2 ^ 9 = 512 /\ 2 ^ (16 - 9) = 128 /\ 2 ^ (32 - 9 - 16) = 128
    OBVIOUS
  <2>2. ShiftLeft(v, t) = <<(h % 128) * 512 + l \div 128, (l % 128) * 512>>
    BY <1>1, <1>3, <2>1 DEF ShiftLeft
  <2>3. ShiftRight(v, 32 - t) = <<0, h \div 128>>
    BY <1>1, <1>3, <2>1 DEF ShiftRight
  <2>4. /\ (h % 128) * 512 + l \div 128 \in Half /\ 0 \in Half
        /\ Xor24((h % 128) * 512 + l \div 128, 0) = (h % 128) * 512 + l \div 128 + 0
    <3>1. PICK m \in Half : m = (h % 128) * 512 + l \div 128
      BY <1>1 DEF Half
    <3>2. m + 0 = m /\ 0 \in Half
      BY DEF Half
    <3> QED
      BY <3>1, <3>2, XorZero
  <2>5. /\ (l % 128) * 512 \in Half /\ h \div 128 \in Half
        /\ Xor24((l % 128) * 512, h \div 128) = (l % 128) * 512 + h \div 128
    <3>1. PICK a \in Nat : a = l % 128
      OBVIOUS
    <3>2. PICK g \in Nat : g = h \div 128
      OBVIOUS
    <3>3. g < 512 /\ a * 512 \in Half
      BY <1>1, <3>1, <3>2 DEF Half
    <3>4. 512 \in {4, 128, 512, 8192}
      OBVIOUS
    <3>5. g \in Half /\ Xor24(a * 512, g) = a * 512 + g
      BY <3>3, <3>4, Disjoint
    <3> QED
      BY <3>1, <3>2, <3>3, <3>5
  <2> QED
    BY <2>2, <2>3, <2>4, <2>5 DEF Apart, Word32
<1>4. CASE t = 13
  <2>1. 2 ^ 13 = 8192 /\ 2 ^ (16 - 13) = 8 /\ 2 ^ (32 - 13 - 16) = 8
    OBVIOUS
  <2>2. ShiftLeft(v, t) = <<(h % 8) * 8192 + l \div 8, (l % 8) * 8192>>
    BY <1>1, <1>4, <2>1 DEF ShiftLeft
  <2>3. ShiftRight(v, 32 - t) = <<0, h \div 8>>
    BY <1>1, <1>4, <2>1 DEF ShiftRight
  <2>4. /\ (h % 8) * 8192 + l \div 8 \in Half /\ 0 \in Half
        /\ Xor24((h % 8) * 8192 + l \div 8, 0) = (h % 8) * 8192 + l \div 8 + 0
    <3>1. PICK m \in Half : m = (h % 8) * 8192 + l \div 8
      BY <1>1 DEF Half
    <3>2. m + 0 = m /\ 0 \in Half
      BY DEF Half
    <3> QED
      BY <3>1, <3>2, XorZero
  <2>5. /\ (l % 8) * 8192 \in Half /\ h \div 8 \in Half
        /\ Xor24((l % 8) * 8192, h \div 8) = (l % 8) * 8192 + h \div 8
    <3>1. PICK a \in Nat : a = l % 8
      OBVIOUS
    <3>2. PICK g \in Nat : g = h \div 8
      OBVIOUS
    <3>3. g < 8192 /\ a * 8192 \in Half
      BY <1>1, <3>1, <3>2 DEF Half
    <3>4. 8192 \in {4, 128, 512, 8192}
      OBVIOUS
    <3>5. g \in Half /\ Xor24(a * 8192, g) = a * 8192 + g
      BY <3>3, <3>4, Disjoint
    <3> QED
      BY <3>1, <3>2, <3>3, <3>5
  <2> QED
    BY <2>2, <2>3, <2>4, <2>5 DEF Apart, Word32
<1>5. CASE t = 18
  <2>1. 2 ^ (18 - 16) = 4 /\ 2 ^ (32 - 18) = 16384 /\ 2 ^ (16 - (32 - 18)) = 4
    OBVIOUS
  <2>2. ShiftLeft(v, t) = <<(l % 16384) * 4, 0>>
    BY <1>1, <1>5, <2>1 DEF ShiftLeft
  <2>3. ShiftRight(v, 32 - t) = <<h \div 16384, l \div 16384 + (h % 16384) * 4>>
    BY <1>1, <1>5, <2>1 DEF ShiftRight
  <2>4. /\ l \div 16384 + (h % 16384) * 4 \in Half /\ 0 \in Half
        /\ Xor24(0, l \div 16384 + (h % 16384) * 4) = 0 + (l \div 16384 + (h % 16384) * 4)
    <3>1. PICK m \in Half : m = l \div 16384 + (h % 16384) * 4
      BY <1>1 DEF Half
    <3>2. 0 + m = m /\ 0 \in Half
      BY DEF Half
    <3> QED
      BY <3>1, <3>2, XorZero
  <2>5. /\ (l % 16384) * 4 \in Half /\ h \div 16384 \in Half
        /\ Xor24((l % 16384) * 4, h \div 16384) = (l % 16384) * 4 + h \div 16384
    <3>1. PICK a \in Nat : a = l % 16384
      OBVIOUS
    <3>2. PICK g \in Nat : g = h \div 16384
      OBVIOUS
    <3>3. g < 4 /\ a * 4 \in Half
      BY <1>1, <3>1, <3>2 DEF Half
    <3>4. 4 \in {4, 128, 512, 8192}
      OBVIOUS
    <3>5. g \in Half /\ Xor24(a * 4, g) = a * 4 + g
      BY <3>3, <3>4, Disjoint
    <3> QED
      BY <3>1, <3>2, <3>3, <3>5
  <2> QED
    BY <2>2, <2>3, <2>4, <2>5 DEF Apart, Word32
<1> QED
  BY <1>2, <1>3, <1>4, <1>5

LEMMA XorWordsAssociate ==
  ASSUME NEW v \in Word32, NEW y \in Word32, NEW z \in Word32
  PROVE  Xor(Xor(v, y), z) = Xor(v, Xor(y, z))
<1>1. /\ v[1] \in Half /\ y[1] \in Half /\ z[1] \in Half
      /\ v[2] \in Half /\ y[2] \in Half /\ z[2] \in Half
  BY WordHalves
<1>2. /\ Xor24(Xor24(v[1], y[1]), z[1]) = Xor24(v[1], Xor24(y[1], z[1]))
      /\ Xor24(Xor24(v[2], y[2]), z[2]) = Xor24(v[2], Xor24(y[2], z[2]))
  BY <1>1, XorAssociates
<1> QED
  BY <1>2 DEF Xor

\* Xor with what is shifted to the left and with what is shifted to the right
\* is xor with the rotated word.
LEMMA RotateXor ==
  ASSUME NEW o \in Word32, NEW v \in Word32, NEW t \in {7, 9, 13, 18}
  PROVE  /\ Xor(Xor(o, ShiftLeft(v, t)), ShiftRight(v, 32 - t)) = Xor(o, RotateLeft(v, t))
         /\ Xor(o, RotateLeft(v, t)) \in Word32
<1>1. Apart(ShiftLeft(v, t), ShiftRight(v, 32 - t))
  BY ShiftsApart
<1>2. 32 - (32 - t) = t /\ t \in 1 .. 31
  OBVIOUS
<1>3. RotateLeft(v, t) = Add(ShiftRight(v, 32 - t), ShiftLeft(v, t))
  BY <1>2 DEF RotateLeft, RotateRight
<1>4. RotateLeft(v, t) = Xor(ShiftLeft(v, t), ShiftRight(v, 32 - t))
  BY <1>1, <1>3, ApartAdds
<1>5. ShiftLeft(v, t) \in Word32 /\ ShiftRight(v, 32 - t) \in Word32
  BY <1>1 DEF Apart
<1>6. RotateLeft(v, t) \in Word32
  BY <1>2, RotateType
<1> QED
  <2>1. Xor(Xor(o, ShiftLeft(v, t)), ShiftRight(v, 32 - t)) =
          Xor(o, Xor(ShiftLeft(v, t), ShiftRight(v, 32 - t)))
    BY <1>5, XorWordsAssociate
  <2>2. Xor(o, RotateLeft(v, t)) \in Word32
    BY <1>6, WordsClosed
  <2> QED
    BY <1>4, <2>1, <2>2

(***************************************************************************)
(* A quarter round, on four words.                                         *)
(***************************************************************************)
QB(a, b, c, d) == Xor(b, RotateLeft(Add(a, d), 7))
QC(a, b, c, d) == Xor(c, RotateLeft(Add(QB(a, b, c, d), a), 9))
QD(a, b, c, d) == Xor(d, RotateLeft(Add(QC(a, b, c, d), QB(a, b, c, d)), 13))
QA(a, b, c, d) == Xor(a, RotateLeft(Add(QD(a, b, c, d), QC(a, b, c, d)), 18))

Four == 0 .. 3
Vectors == [Four -> [Four -> Word32]]
Places == 0 .. 15
Block16 == [Places -> Word32]

LEMMA SalsaWords ==
  ASSUME NEW p, NEW q, NEW t
  PROVE  /\ Salsa!Xor(p, q) = Xor(p, q) /\ Salsa!Add(p, q) = Add(p, q)
         /\ Salsa!ShiftLeft(p, t) = ShiftLeft(p, t) /\ Salsa!ShiftRight(p, t) = ShiftRight(p, t)
         /\ Salsa!RotateLeft(p, t) = RotateLeft(p, t)
<1>1. Salsa!Byte = Byte
  BY DEF Salsa!Byte, Byte
<1>2. Salsa!XorNibble = XorNibble
  BY DEF Salsa!XorNibble, XorNibble, Salsa!Bit, Bit
<1>3. Salsa!XorByte = XorByte
  BY <1>1, <1>2 DEF Salsa!XorByte, XorByte
<1>4. \A m, h : Salsa!Xor24(m, h) = Xor24(m, h)
  BY <1>3 DEF Salsa!Xor24, Xor24
<1>5. \A m, h : Salsa!Add(m, h) = Add(m, h)
  BY DEF Salsa!Add, Add, Salsa!Word, Word
<1>6. \A m, h : Salsa!ShiftRight(m, h) = ShiftRight(m, h)
  BY DEF Salsa!ShiftRight, ShiftRight
<1>7. \A m, h : Salsa!ShiftLeft(m, h) = ShiftLeft(m, h)
  BY DEF Salsa!ShiftLeft, ShiftLeft
<1>8. Salsa!RotateLeft(p, t) = RotateLeft(p, t)
  BY <1>5, <1>6, <1>7 DEF Salsa!RotateLeft, RotateLeft, Salsa!RotateRight, RotateRight
<1>9. Salsa!Xor(p, q) = Xor(p, q)
  BY <1>4 DEF Salsa!Xor, Xor
<1> QED
  BY <1>5, <1>6, <1>7, <1>8, <1>9

LEMMA QuarterType ==
  ASSUME NEW a \in Word32, NEW b \in Word32, NEW c \in Word32, NEW d \in Word32
  PROVE  /\ QA(a, b, c, d) \in Word32 /\ QB(a, b, c, d) \in Word32
         /\ QC(a, b, c, d) \in Word32 /\ QD(a, b, c, d) \in Word32
<1>1. ASSUME NEW o \in Word32, NEW p \in Word32, NEW q \in Word32, NEW t \in {7, 9, 13, 18}
      PROVE  Xor(o, RotateLeft(Add(p, q), t)) \in Word32
  <2>1. Add(p, q) \in Word32
    BY WordsClosed
  <2> QED
    BY <2>1, RotateXor
<1>2. QB(a, b, c, d) \in Word32
  BY <1>1 DEF QB
<1>3. QC(a, b, c, d) \in Word32
  BY <1>1, <1>2 DEF QC
<1>4. QD(a, b, c, d) \in Word32
  BY <1>1, <1>2, <1>3 DEF QD
<1>5. QA(a, b, c, d) \in Word32
  BY <1>1, <1>3, <1>4 DEF QA
<1> QED
  BY <1>2, <1>3, <1>4, <1>5

\* ARX, on one lane.
LEMMA ARXIs ==
  ASSUME NEW e, NEW in1, NEW in2, NEW t \in {7, 9, 13, 18}, NEW l \in Four,
         e[l] \in Word32, in1[l] \in Word32, in2[l] \in Word32
  PROVE  Salsa!ARX(e, in1, in2, t)[l] = Xor(e[l], RotateLeft(Add(in1[l], in2[l]), t))
<1>1. Add(in1[l], in2[l]) \in Word32
  BY WordsClosed
<1>2. Salsa!ARX(e, in1, in2, t)[l] =
        Xor(Xor(e[l], ShiftLeft(Add(in1[l], in2[l]), t)), ShiftRight(Add(in1[l], in2[l]), 32 - t))
  <2>1. Salsa!ARX(e, in1, in2, t)[l] =
          Salsa!Xor(Salsa!Xor(e[l], Salsa!ShiftLeft(Salsa!Add(in1[l], in2[l]), t)),
                    Salsa!ShiftRight(Salsa!Add(in1[l], in2[l]), 32 - t))
    BY DEF Salsa!ARX, Salsa!Lanes, Four
  <2> QED
    BY <2>1, SalsaWords
<1> QED
  BY <1>1, <1>2, RotateXor

LEMMA HalfRoundIs ==
  ASSUME NEW V \in Vectors, NEW a \in Four, NEW b \in Four, NEW c \in Four, NEW d \in Four,
         a # b, a # c, a # d, b # c, b # d, c # d, NEW l \in Four,
         NEW G, G = Salsa!HalfRound(V, a, b, c, d)
  PROVE  /\ G[a][l] = QA(V[a][l], V[b][l], V[c][l], V[d][l])
         /\ G[b][l] = QB(V[a][l], V[b][l], V[c][l], V[d][l])
         /\ G[c][l] = QC(V[a][l], V[b][l], V[c][l], V[d][l])
         /\ G[d][l] = QD(V[a][l], V[b][l], V[c][l], V[d][l])
<1> DEFINE Vb == Salsa!ARX(V[b], V[a], V[d], 7)
           Vc == Salsa!ARX(V[c], Vb, V[a], 9)
           Vd == Salsa!ARX(V[d], Vc, Vb, 13)
           Va == Salsa!ARX(V[a], Vd, Vc, 18)
<1>1. /\ V[a][l] \in Word32 /\ V[b][l] \in Word32 /\ V[c][l] \in Word32 /\ V[d][l] \in Word32
  BY DEF Vectors
<1>2. /\ QA(V[a][l], V[b][l], V[c][l], V[d][l]) \in Word32
      /\ QB(V[a][l], V[b][l], V[c][l], V[d][l]) \in Word32
      /\ QC(V[a][l], V[b][l], V[c][l], V[d][l]) \in Word32
      /\ QD(V[a][l], V[b][l], V[c][l], V[d][l]) \in Word32
  BY <1>1, QuarterType
<1>3. Vb[l] = QB(V[a][l], V[b][l], V[c][l], V[d][l])
  BY <1>1, ARXIs DEF QB
<1> HIDE DEF Vb
<1>4. Vc[l] = QC(V[a][l], V[b][l], V[c][l], V[d][l])
  BY <1>1, <1>2, <1>3, ARXIs DEF QC
<1> HIDE DEF Vc
<1>5. Vd[l] = QD(V[a][l], V[b][l], V[c][l], V[d][l])
  BY <1>1, <1>2, <1>3, <1>4, ARXIs DEF QD
<1> HIDE DEF Vd
<1>6. Va[l] = QA(V[a][l], V[b][l], V[c][l], V[d][l])
  BY <1>1, <1>2, <1>4, <1>5, ARXIs DEF QA
<1> HIDE DEF Va
<1>7. G = [V EXCEPT ![a] = Va, ![b] = Vb, ![c] = Vc, ![d] = Vd]
  BY DEF Salsa!HalfRound, Va, Vb, Vc, Vd
<1>8. G[a] = Va /\ G[b] = Vb /\ G[c] = Vc /\ G[d] = Vd
  BY <1>7 DEF Vectors
<1> QED
  BY <1>3, <1>4, <1>5, <1>6, <1>8

LEMMA StirIs ==
  ASSUME NEW o, NEW p, NEW q, NEW t
  PROVE  Salsa!Stir(o, p, q, t) = Xor(o, RotateLeft(Add(p, q), t))
<1>1. Salsa!Stir(o, p, q, t) = Salsa!Xor(o, Salsa!RotateLeft(Salsa!Add(p, q), t))
  BY DEF Salsa!Stir
<1> QED
  BY <1>1, SalsaWords

\* The other build: one quarter round on four of the sixteen words.
LEMMA QuarterPuts ==
  ASSUME NEW w, NEW q, NEW a, NEW b, NEW c, NEW d, q = <<a, b, c, d>>
  PROVE  Salsa!Quarter(w, q) =
           [w EXCEPT ![a] = QA(w[a], w[b], w[c], w[d]), ![b] = QB(w[a], w[b], w[c], w[d]),
                     ![c] = QC(w[a], w[b], w[c], w[d]), ![d] = QD(w[a], w[b], w[c], w[d])]
<1>1. Salsa!QuarterB(w, q) = QB(w[a], w[b], w[c], w[d])
  <2>1. Salsa!QuarterB(w, q) = Salsa!Stir(w[b], w[a], w[d], 7)
    BY DEF Salsa!QuarterB
  <2> QED
    BY <2>1, StirIs DEF QB
<1>2. Salsa!QuarterC(w, q) = QC(w[a], w[b], w[c], w[d])
  <2>1. Salsa!QuarterC(w, q) = Salsa!Stir(w[c], Salsa!QuarterB(w, q), w[a], 9)
    BY DEF Salsa!QuarterC
  <2> QED
    BY <1>1, <2>1, StirIs DEF QC
<1>3. Salsa!QuarterD(w, q) = QD(w[a], w[b], w[c], w[d])
  <2>1. Salsa!QuarterD(w, q) = Salsa!Stir(w[d], Salsa!QuarterC(w, q), Salsa!QuarterB(w, q), 13)
    BY DEF Salsa!QuarterD
  <2> QED
    BY <1>1, <1>2, <2>1, StirIs DEF QD
<1>4. Salsa!QuarterA(w, q) = QA(w[a], w[b], w[c], w[d])
  <2>1. Salsa!QuarterA(w, q) = Salsa!Stir(w[a], Salsa!QuarterD(w, q), Salsa!QuarterC(w, q), 18)
    BY DEF Salsa!QuarterA
  <2> QED
    BY <1>2, <1>3, <2>1, StirIs DEF QA
<1>5. Salsa!Quarter(w, q) =
        [w EXCEPT ![a] = Salsa!QuarterA(w, q), ![b] = Salsa!QuarterB(w, q),
                  ![c] = Salsa!QuarterC(w, q), ![d] = Salsa!QuarterD(w, q)]
  BY DEF Salsa!Quarter
<1> QED
  BY <1>1, <1>2, <1>3, <1>4, <1>5

LEMMA QuarterIs ==
  ASSUME NEW w \in Block16, NEW a \in Places, NEW b \in Places, NEW c \in Places, NEW d \in Places,
         a # b, a # c, a # d, b # c, b # d, c # d,
         NEW z, z = Salsa!Quarter(w, <<a, b, c, d>>)
  PROVE  /\ z \in Block16
         /\ z[a] = QA(w[a], w[b], w[c], w[d]) /\ z[b] = QB(w[a], w[b], w[c], w[d])
         /\ z[c] = QC(w[a], w[b], w[c], w[d]) /\ z[d] = QD(w[a], w[b], w[c], w[d])
         /\ \A k \in Places : k \notin {a, b, c, d} => z[k] = w[k]
<1> DEFINE va == QA(w[a], w[b], w[c], w[d])
           vb == QB(w[a], w[b], w[c], w[d])
           vc == QC(w[a], w[b], w[c], w[d])
           vd == QD(w[a], w[b], w[c], w[d])
<1>1. Salsa!Quarter(w, <<a, b, c, d>>) = [w EXCEPT ![a] = va, ![b] = vb, ![c] = vc, ![d] = vd]
  BY QuarterPuts
<1>2. va \in Word32 /\ vb \in Word32 /\ vc \in Word32 /\ vd \in Word32
  BY QuarterType DEF Block16
<1> HIDE DEF va, vb, vc, vd
<1>3. z = [w EXCEPT ![a] = va, ![b] = vb, ![c] = vc, ![d] = vd]
  BY <1>1
<1> QED
  BY <1>2, <1>3 DEF Block16, va, vb, vc, vd

(***************************************************************************)
(* Four quarter rounds on sixteen words that are all different: p[l][0] .. *)
(* p[l][3] are the places of the words of quarter l.                       *)
(***************************************************************************)
Parted(p) ==
  /\ p \in [Four -> [Four -> Places]]
  /\ \A l, m, h, g \in Four : p[l][h] = p[m][g] => l = m /\ h = g

Q4(p, l) == <<p[l][0], p[l][1], p[l][2], p[l][3]>>
A4(w, p, l) == QA(w[p[l][0]], w[p[l][1]], w[p[l][2]], w[p[l][3]])
B4(w, p, l) == QB(w[p[l][0]], w[p[l][1]], w[p[l][2]], w[p[l][3]])
C4(w, p, l) == QC(w[p[l][0]], w[p[l][1]], w[p[l][2]], w[p[l][3]])
D4(w, p, l) == QD(w[p[l][0]], w[p[l][1]], w[p[l][2]], w[p[l][3]])

\* z has the results of quarter l of w at the places of the quarter.
Done(z, w, p, l) ==
  /\ z[p[l][0]] = A4(w, p, l) /\ z[p[l][1]] = B4(w, p, l)
  /\ z[p[l][2]] = C4(w, p, l) /\ z[p[l][3]] = D4(w, p, l)
Same(z, w, p, l) ==
  /\ z[p[l][0]] = w[p[l][0]] /\ z[p[l][1]] = w[p[l][1]]
  /\ z[p[l][2]] = w[p[l][2]] /\ z[p[l][3]] = w[p[l][3]]

LEMMA QuarterOf ==
  ASSUME NEW p, Parted(p), NEW w \in Block16, NEW l \in Four
  PROVE  LET z == Salsa!Quarter(w, Q4(p, l))
         IN  z \in Block16 /\ Done(z, w, p, l) /\ \A m \in Four : m # l => Same(z, w, p, m)
<1> 0 \in Four /\ 1 \in Four /\ 2 \in Four /\ 3 \in Four
  BY DEF Four
<1>1. PICK a \in Places, b \in Places, c \in Places, d \in Places :
        a = p[l][0] /\ b = p[l][1] /\ c = p[l][2] /\ d = p[l][3]
  BY DEF Parted
<1>2. a # b /\ a # c /\ a # d /\ b # c /\ b # d /\ c # d
  BY <1>1 DEF Parted
<1>3. PICK z : z = Salsa!Quarter(w, <<a, b, c, d>>)
  OBVIOUS
<1>4. /\ z \in Block16
      /\ z[a] = QA(w[a], w[b], w[c], w[d]) /\ z[b] = QB(w[a], w[b], w[c], w[d])
      /\ z[c] = QC(w[a], w[b], w[c], w[d]) /\ z[d] = QD(w[a], w[b], w[c], w[d])
      /\ \A k \in Places : k \notin {a, b, c, d} => z[k] = w[k]
  <2>1. a \in Places /\ b \in Places /\ c \in Places /\ d \in Places
    BY <1>1
  <2> QED
    BY <1>2, <1>3, <2>1, QuarterIs
<1>5. Done(z, w, p, l)
  BY <1>1, <1>4 DEF Done, A4, B4, C4, D4
<1>6. ASSUME NEW m \in Four, m # l
      PROVE  Same(z, w, p, m)
  <2>1. ASSUME NEW h \in Four
        PROVE  z[p[m][h]] = w[p[m][h]]
    <3>1. p[m][h] \in Places
      BY DEF Parted
    <3>2. p[m][h] \notin {a, b, c, d}
      BY <1>1, <1>6 DEF Parted
    <3> QED
      BY <1>4, <3>1, <3>2
  <2> QED
    BY <2>1 DEF Same
<1> QED
  BY <1>1, <1>3, <1>4, <1>5, <1>6 DEF Q4

\* What is done stays, and what is done to words that are the same is the same.
LEMMA DoneStays ==
  ASSUME NEW p, NEW u, NEW v, NEW w, NEW l, Same(v, u, p, l)
  PROVE  /\ Done(u, w, p, l) => Done(v, w, p, l)
         /\ Same(u, w, p, l) => Same(v, w, p, l)
BY DEF Same, Done

LEMMA DoneToSame ==
  ASSUME NEW p, NEW u, NEW v, NEW w, NEW l, Same(u, w, p, l), Done(v, u, p, l)
  PROVE  Done(v, w, p, l)
BY DEF Same, Done, A4, B4, C4, D4

LEMMA QuartersOf ==
  ASSUME NEW p, Parted(p), NEW w \in Block16, NEW qs, qs = <<Q4(p, 0), Q4(p, 1), Q4(p, 2), Q4(p, 3)>>
  PROVE  LET z == Salsa!Quarters(w, qs)
         IN  z \in Block16 /\ \A l \in Four : Done(z, w, p, l)
<1> 0 \in Four /\ 1 \in Four /\ 2 \in Four /\ 3 \in Four
  BY DEF Four
<1>1. PICK u : u = Salsa!Quarter(w, Q4(p, 0))
  OBVIOUS
<1>2. u \in Block16 /\ Done(u, w, p, 0) /\ Same(u, w, p, 1) /\ Same(u, w, p, 2) /\ Same(u, w, p, 3)
  BY <1>1, QuarterOf
<1>3. PICK v : v = Salsa!Quarter(u, Q4(p, 1))
  OBVIOUS
<1>4. v \in Block16 /\ Done(v, u, p, 1) /\ Same(v, u, p, 0) /\ Same(v, u, p, 2) /\ Same(v, u, p, 3)
  BY <1>2, <1>3, QuarterOf
<1>5. Done(v, w, p, 0) /\ Done(v, w, p, 1) /\ Same(v, w, p, 2) /\ Same(v, w, p, 3)
  BY <1>2, <1>4, DoneStays, DoneToSame
<1>6. PICK t : t = Salsa!Quarter(v, Q4(p, 2))
  OBVIOUS
<1>7. t \in Block16 /\ Done(t, v, p, 2) /\ Same(t, v, p, 0) /\ Same(t, v, p, 1) /\ Same(t, v, p, 3)
  BY <1>4, <1>6, QuarterOf
<1>8. Done(t, w, p, 0) /\ Done(t, w, p, 1) /\ Done(t, w, p, 2) /\ Same(t, w, p, 3)
  BY <1>5, <1>7, DoneStays, DoneToSame
<1>9. PICK z : z = Salsa!Quarter(t, Q4(p, 3))
  OBVIOUS
<1>10. z \in Block16 /\ Done(z, t, p, 3) /\ Same(z, t, p, 0) /\ Same(z, t, p, 1) /\ Same(z, t, p, 2)
  BY <1>7, <1>9, QuarterOf
<1>11. Done(z, w, p, 0) /\ Done(z, w, p, 1) /\ Done(z, w, p, 2) /\ Done(z, w, p, 3)
  BY <1>8, <1>10, DoneStays, DoneToSame
<1>12. z = Salsa!Quarters(w, qs)
  <2>1. qs[1] = Q4(p, 0) /\ qs[2] = Q4(p, 1) /\ qs[3] = Q4(p, 2) /\ qs[4] = Q4(p, 3)
    OBVIOUS
  <2> QED
    BY <1>1, <1>3, <1>6, <1>9, <2>1 DEF Salsa!Quarters
<1>13. \A l \in Four : l = 0 \/ l = 1 \/ l = 2 \/ l = 3
  BY DEF Four
<1> QED
  BY <1>10, <1>11, <1>12, <1>13

\* Vectors a, b, c and d hold the words of w, quarter l in lane l.
Held(V, w, p, a, b, c, d) ==
  \A l \in Four : /\ V[a][l] = w[p[l][0]] /\ V[b][l] = w[p[l][1]]
                  /\ V[c][l] = w[p[l][2]] /\ V[d][l] = w[p[l][3]]

LEMMA HalfRoundType ==
  ASSUME NEW V \in Vectors, NEW a \in Four, NEW b \in Four, NEW c \in Four, NEW d \in Four,
         a # b, a # c, a # d, b # c, b # d, c # d
  PROVE  Salsa!HalfRound(V, a, b, c, d) \in Vectors
<1> DEFINE Vb == Salsa!ARX(V[b], V[a], V[d], 7)
           Vc == Salsa!ARX(V[c], Vb, V[a], 9)
           Vd == Salsa!ARX(V[d], Vc, Vb, 13)
           Va == Salsa!ARX(V[a], Vd, Vc, 18)
<1>1. ASSUME NEW e \in [Four -> Word32], NEW in1 \in [Four -> Word32],
             NEW in2 \in [Four -> Word32], NEW t \in {7, 9, 13, 18}
      PROVE  Salsa!ARX(e, in1, in2, t) \in [Four -> Word32]
  <2>1. PICK f : f = Salsa!ARX(e, in1, in2, t)
    OBVIOUS
  <2>2. \A l \in Four : f[l] \in Word32
    <3> TAKE l \in Four
    <3>1. Add(in1[l], in2[l]) \in Word32
      BY WordsClosed
    <3>2. f[l] = Xor(e[l], RotateLeft(Add(in1[l], in2[l]), t))
      BY <2>1, ARXIs
    <3> QED
      BY <3>1, <3>2, RotateXor
  <2>3. f = [l \in Four |-> f[l]]
    BY <2>1 DEF Salsa!ARX, Salsa!Lanes, Four
  <2> QED
    BY <2>1, <2>2, <2>3 DEF Four
<1>2. /\ V[a] \in [Four -> Word32] /\ V[b] \in [Four -> Word32]
      /\ V[c] \in [Four -> Word32] /\ V[d] \in [Four -> Word32]
  BY DEF Vectors, Four
<1>3. Vb \in [Four -> Word32]
  BY <1>1, <1>2
<1> HIDE DEF Vb
<1>4. Vc \in [Four -> Word32]
  BY <1>1, <1>2, <1>3
<1> HIDE DEF Vc
<1>5. Vd \in [Four -> Word32]
  BY <1>1, <1>2, <1>3, <1>4
<1> HIDE DEF Vd
<1>6. Va \in [Four -> Word32]
  BY <1>1, <1>2, <1>4, <1>5
<1> HIDE DEF Va
<1>7. Salsa!HalfRound(V, a, b, c, d) = [V EXCEPT ![a] = Va, ![b] = Vb, ![c] = Vc, ![d] = Vd]
  BY DEF Salsa!HalfRound, Va, Vb, Vc, Vd
<1> QED
  BY <1>3, <1>4, <1>5, <1>6, <1>7 DEF Vectors

LEMMA HalfRoundHeld ==
  ASSUME NEW p, Parted(p), NEW w \in Block16, NEW V \in Vectors, NEW qs,
         qs = <<Q4(p, 0), Q4(p, 1), Q4(p, 2), Q4(p, 3)>>,
         NEW a \in Four, NEW b \in Four, NEW c \in Four, NEW d \in Four,
         a # b, a # c, a # d, b # c, b # d, c # d, Held(V, w, p, a, b, c, d)
  PROVE  /\ Salsa!Quarters(w, qs) \in Block16
         /\ Salsa!HalfRound(V, a, b, c, d) \in Vectors
         /\ Held(Salsa!HalfRound(V, a, b, c, d), Salsa!Quarters(w, qs), p, a, b, c, d)
<1>1. PICK z : z = Salsa!Quarters(w, qs)
  OBVIOUS
<1>2. z \in Block16 /\ \A l \in Four : Done(z, w, p, l)
  BY <1>1, QuartersOf
<1>3. PICK G : G = Salsa!HalfRound(V, a, b, c, d)
  OBVIOUS
<1>4. ASSUME NEW l \in Four
      PROVE  /\ G[a][l] = QA(V[a][l], V[b][l], V[c][l], V[d][l])
             /\ G[b][l] = QB(V[a][l], V[b][l], V[c][l], V[d][l])
             /\ G[c][l] = QC(V[a][l], V[b][l], V[c][l], V[d][l])
             /\ G[d][l] = QD(V[a][l], V[b][l], V[c][l], V[d][l])
  BY <1>3, HalfRoundIs
<1>5. Held(G, z, p, a, b, c, d)
  <2> SUFFICES ASSUME NEW l \in Four
               PROVE  /\ G[a][l] = z[p[l][0]] /\ G[b][l] = z[p[l][1]]
                      /\ G[c][l] = z[p[l][2]] /\ G[d][l] = z[p[l][3]]
    BY DEF Held
  <2>1. /\ V[a][l] = w[p[l][0]] /\ V[b][l] = w[p[l][1]]
        /\ V[c][l] = w[p[l][2]] /\ V[d][l] = w[p[l][3]]
    BY DEF Held
  <2>2. Done(z, w, p, l)
    BY <1>2
  <2> QED
    BY <1>4, <2>1, <2>2 DEF Done, A4, B4, C4, D4
<1> QED
  BY <1>1, <1>2, <1>3, <1>5, HalfRoundType

(***************************************************************************)
(* The order of the words in the vectors, before the columns and before    *)
(* the rows.                                                               *)
(***************************************************************************)
PC == [l \in Four |-> [m \in Four |-> Salsa!Columns[l + 1][m + 1]]]
PR == [l \in Four |-> [m \in Four |-> Salsa!Rows4[l + 1][m + 1]]]

LEMMA ColumnPlaces ==
  /\ PC[0][0] = 0 /\ PC[0][1] = 4 /\ PC[0][2] = 8 /\ PC[0][3] = 12
  /\ PC[1][0] = 5 /\ PC[1][1] = 9 /\ PC[1][2] = 13 /\ PC[1][3] = 1
  /\ PC[2][0] = 10 /\ PC[2][1] = 14 /\ PC[2][2] = 2 /\ PC[2][3] = 6
  /\ PC[3][0] = 15 /\ PC[3][1] = 3 /\ PC[3][2] = 7 /\ PC[3][3] = 11
<1>1. ASSUME NEW l \in Four, NEW m \in Four
      PROVE  PC[l][m] = Salsa!Columns[l + 1][m + 1]
  BY DEF PC
<1>2. 0 \in Four /\ 1 \in Four /\ 2 \in Four /\ 3 \in Four
  BY DEF Four
<1> QED
  BY <1>1, <1>2 DEF Salsa!Columns

LEMMA RowPlaces ==
  /\ PR[0][0] = 0 /\ PR[0][1] = 1 /\ PR[0][2] = 2 /\ PR[0][3] = 3
  /\ PR[1][0] = 5 /\ PR[1][1] = 6 /\ PR[1][2] = 7 /\ PR[1][3] = 4
  /\ PR[2][0] = 10 /\ PR[2][1] = 11 /\ PR[2][2] = 8 /\ PR[2][3] = 9
  /\ PR[3][0] = 15 /\ PR[3][1] = 12 /\ PR[3][2] = 13 /\ PR[3][3] = 14
<1>1. ASSUME NEW l \in Four, NEW m \in Four
      PROVE  PR[l][m] = Salsa!Rows4[l + 1][m + 1]
  BY DEF PR
<1>2. 0 \in Four /\ 1 \in Four /\ 2 \in Four /\ 3 \in Four
  BY DEF Four
<1> QED
  BY <1>1, <1>2 DEF Salsa!Rows4

\* No word is in two columns, or in two rows.
LEMMA PlacesParted == Parted(PC) /\ Parted(PR)
<1>1. \A l \in Four : l = 0 \/ l = 1 \/ l = 2 \/ l = 3
  BY DEF Four
<1>2. ASSUME NEW l \in Four, NEW m \in Four
      PROVE  PC[l][m] \in Places /\ PC[l][m] % 4 = l
  BY <1>1, ColumnPlaces DEF Places
<1>3. ASSUME NEW l \in Four, NEW m \in Four
      PROVE  PR[l][m] \in Places /\ PR[l][m] \div 4 = l
  BY <1>1, RowPlaces DEF Places
<1>4. ASSUME NEW l \in Four, NEW m \in Four, NEW g \in Four
      PROVE  /\ PC[l][m] = PC[l][g] => m = g
             /\ PR[l][m] = PR[l][g] => m = g
  BY <1>1, ColumnPlaces, RowPlaces
<1>5. PC \in [Four -> [Four -> Places]]
  <2>1. \A l \in Four, m \in Four : Salsa!Columns[l + 1][m + 1] \in Places
    BY <1>2 DEF PC
  <2> QED
    BY <2>1 DEF PC
<1>6. PR \in [Four -> [Four -> Places]]
  <2>1. \A l \in Four, m \in Four : Salsa!Rows4[l + 1][m + 1] \in Places
    BY <1>3 DEF PR
  <2> QED
    BY <2>1 DEF PR
<1>7. ASSUME NEW l \in Four, NEW m \in Four, NEW h \in Four, NEW g \in Four
      PROVE  /\ PC[l][h] = PC[m][g] => l = m /\ h = g
             /\ PR[l][h] = PR[m][g] => l = m /\ h = g
  BY <1>2, <1>3, <1>4
<1> QED
  BY <1>5, <1>6, <1>7 DEF Parted

ColumnsHeld(V, w) == Held(V, w, PC, 0, 1, 2, 3)
RowsHeld(V, w) == Held(V, w, PR, 0, 3, 2, 1)

LEMMA ColumnQuarters == Salsa!Columns = <<Q4(PC, 0), Q4(PC, 1), Q4(PC, 2), Q4(PC, 3)>>
<1>1. /\ Q4(PC, 0) = <<0, 4, 8, 12>> /\ Q4(PC, 1) = <<5, 9, 13, 1>>
      /\ Q4(PC, 2) = <<10, 14, 2, 6>> /\ Q4(PC, 3) = <<15, 3, 7, 11>>
  BY ColumnPlaces DEF Q4
<1> QED
  BY <1>1 DEF Salsa!Columns

LEMMA RowQuarters == Salsa!Rows4 = <<Q4(PR, 0), Q4(PR, 1), Q4(PR, 2), Q4(PR, 3)>>
<1>1. /\ Q4(PR, 0) = <<0, 1, 2, 3>> /\ Q4(PR, 1) = <<5, 6, 7, 4>>
      /\ Q4(PR, 2) = <<10, 11, 8, 9>> /\ Q4(PR, 3) = <<15, 12, 13, 14>>
  BY RowPlaces DEF Q4
<1> QED
  BY <1>1 DEF Salsa!Rows4

\* A vector that is turned is a vector.
LEMMA TurnIs ==
  ASSUME NEW v \in [Four -> Word32], NEW by \in {1, 2, 3}
  PROVE  /\ Salsa!Turn(v, by) \in [Four -> Word32]
         /\ \A l \in Four : Salsa!Turn(v, by)[l] = v[(l + by) % 4]
<1>1. \A l \in Four : (l + by) % 4 \in Four
  BY DEF Four
<1>2. Salsa!Turn(v, by) = [l \in Four |-> v[(l + by) % 4]]
  BY DEF Salsa!Turn, Salsa!Lanes, Four
<1> QED
  BY <1>1, <1>2

\* The columns, then the vectors turned for the rows; the rows, then back.
LEMMA ColumnsStep ==
  ASSUME NEW V \in Vectors, NEW w \in Block16, ColumnsHeld(V, w),
         NEW U, U = Salsa!SALSA20_columns(V), NEW z, z = Salsa!Quarters(w, Salsa!Columns)
  PROVE  U \in Vectors /\ z \in Block16 /\ RowsHeld(U, z)
<1>1. PICK G : G = Salsa!HalfRound(V, 0, 1, 2, 3)
  OBVIOUS
<1>2. 0 \in Four /\ 1 \in Four /\ 2 \in Four /\ 3 \in Four
  BY DEF Four
<1>3. G \in Vectors /\ z \in Block16 /\ Held(G, z, PC, 0, 1, 2, 3)
  BY <1>1, <1>2, PlacesParted, ColumnQuarters, HalfRoundHeld DEF ColumnsHeld
<1>4. U = [G EXCEPT ![1] = Salsa!Turn(@, 3), ![2] = Salsa!Turn(@, 2), ![3] = Salsa!Turn(@, 1)]
  BY <1>1 DEF Salsa!SALSA20_columns
<1>5. /\ G[0] \in [Four -> Word32] /\ G[1] \in [Four -> Word32]
      /\ G[2] \in [Four -> Word32] /\ G[3] \in [Four -> Word32]
  BY <1>2, <1>3 DEF Vectors
<1>6. /\ U[0] = G[0] /\ U[1] = Salsa!Turn(G[1], 3)
      /\ U[2] = Salsa!Turn(G[2], 2) /\ U[3] = Salsa!Turn(G[3], 1)
  BY <1>2, <1>3, <1>4 DEF Vectors
<1>7. U \in Vectors
  <2>1. /\ Salsa!Turn(G[1], 3) \in [Four -> Word32] /\ Salsa!Turn(G[2], 2) \in [Four -> Word32]
        /\ Salsa!Turn(G[3], 1) \in [Four -> Word32]
    BY <1>5, TurnIs
  <2> QED
    BY <1>3, <1>4, <2>1 DEF Vectors
<1>8. /\ \A l \in Four : U[1][l] = G[1][(l + 3) % 4]
      /\ \A l \in Four : U[2][l] = G[2][(l + 2) % 4]
      /\ \A l \in Four : U[3][l] = G[3][(l + 1) % 4]
  BY <1>5, <1>6, TurnIs
<1>9. /\ U[1][0] = G[1][3] /\ U[1][1] = G[1][0] /\ U[1][2] = G[1][1] /\ U[1][3] = G[1][2]
      /\ U[2][0] = G[2][2] /\ U[2][1] = G[2][3] /\ U[2][2] = G[2][0] /\ U[2][3] = G[2][1]
      /\ U[3][0] = G[3][1] /\ U[3][1] = G[3][2] /\ U[3][2] = G[3][3] /\ U[3][3] = G[3][0]
  BY <1>2, <1>8
<1>10. \A l \in Four : /\ G[0][l] = z[PC[l][0]] /\ G[1][l] = z[PC[l][1]]
                       /\ G[2][l] = z[PC[l][2]] /\ G[3][l] = z[PC[l][3]]
  BY <1>3 DEF Held
<1>11. /\ U[0][0] = z[0] /\ U[3][0] = z[1] /\ U[2][0] = z[2] /\ U[1][0] = z[3]
  BY <1>2, <1>6, <1>9, <1>10, ColumnPlaces
<1>12. /\ U[0][1] = z[5] /\ U[3][1] = z[6] /\ U[2][1] = z[7] /\ U[1][1] = z[4]
  BY <1>2, <1>6, <1>9, <1>10, ColumnPlaces
<1>13. /\ U[0][2] = z[10] /\ U[3][2] = z[11] /\ U[2][2] = z[8] /\ U[1][2] = z[9]
  BY <1>2, <1>6, <1>9, <1>10, ColumnPlaces
<1>14. /\ U[0][3] = z[15] /\ U[3][3] = z[12] /\ U[2][3] = z[13] /\ U[1][3] = z[14]
  BY <1>2, <1>6, <1>9, <1>10, ColumnPlaces
<1>15. \A l \in Four : l = 0 \/ l = 1 \/ l = 2 \/ l = 3
  BY DEF Four
<1>16. ASSUME NEW l \in Four
       PROVE  /\ U[0][l] = z[PR[l][0]] /\ U[3][l] = z[PR[l][1]]
              /\ U[2][l] = z[PR[l][2]] /\ U[1][l] = z[PR[l][3]]
  BY <1>11, <1>12, <1>13, <1>14, <1>15, RowPlaces
<1> QED
  BY <1>3, <1>7, <1>16 DEF RowsHeld, Held

LEMMA RowsStep ==
  ASSUME NEW V \in Vectors, NEW w \in Block16, RowsHeld(V, w),
         NEW U, U = Salsa!SALSA20_rows(V), NEW z, z = Salsa!Quarters(w, Salsa!Rows4)
  PROVE  U \in Vectors /\ z \in Block16 /\ ColumnsHeld(U, z)
<1>1. PICK G : G = Salsa!HalfRound(V, 0, 3, 2, 1)
  OBVIOUS
<1>2. 0 \in Four /\ 1 \in Four /\ 2 \in Four /\ 3 \in Four
  BY DEF Four
<1>3. G \in Vectors /\ z \in Block16 /\ Held(G, z, PR, 0, 3, 2, 1)
  BY <1>1, <1>2, PlacesParted, RowQuarters, HalfRoundHeld DEF RowsHeld
<1>4. U = [G EXCEPT ![1] = Salsa!Turn(@, 1), ![2] = Salsa!Turn(@, 2), ![3] = Salsa!Turn(@, 3)]
  BY <1>1 DEF Salsa!SALSA20_rows
<1>5. /\ G[0] \in [Four -> Word32] /\ G[1] \in [Four -> Word32]
      /\ G[2] \in [Four -> Word32] /\ G[3] \in [Four -> Word32]
  BY <1>2, <1>3 DEF Vectors
<1>6. /\ U[0] = G[0] /\ U[1] = Salsa!Turn(G[1], 1)
      /\ U[2] = Salsa!Turn(G[2], 2) /\ U[3] = Salsa!Turn(G[3], 3)
  BY <1>2, <1>3, <1>4 DEF Vectors
<1>7. U \in Vectors
  <2>1. /\ Salsa!Turn(G[1], 1) \in [Four -> Word32] /\ Salsa!Turn(G[2], 2) \in [Four -> Word32]
        /\ Salsa!Turn(G[3], 3) \in [Four -> Word32]
    BY <1>5, TurnIs
  <2> QED
    BY <1>3, <1>4, <2>1 DEF Vectors
<1>8. /\ \A l \in Four : U[1][l] = G[1][(l + 1) % 4]
      /\ \A l \in Four : U[2][l] = G[2][(l + 2) % 4]
      /\ \A l \in Four : U[3][l] = G[3][(l + 3) % 4]
  BY <1>5, <1>6, TurnIs
<1>9. /\ U[1][0] = G[1][1] /\ U[1][1] = G[1][2] /\ U[1][2] = G[1][3] /\ U[1][3] = G[1][0]
      /\ U[2][0] = G[2][2] /\ U[2][1] = G[2][3] /\ U[2][2] = G[2][0] /\ U[2][3] = G[2][1]
      /\ U[3][0] = G[3][3] /\ U[3][1] = G[3][0] /\ U[3][2] = G[3][1] /\ U[3][3] = G[3][2]
  BY <1>2, <1>8
<1>10. \A l \in Four : /\ G[0][l] = z[PR[l][0]] /\ G[3][l] = z[PR[l][1]]
                       /\ G[2][l] = z[PR[l][2]] /\ G[1][l] = z[PR[l][3]]
  BY <1>3 DEF Held
<1>11. /\ U[0][0] = z[0] /\ U[1][0] = z[4] /\ U[2][0] = z[8] /\ U[3][0] = z[12]
  BY <1>2, <1>6, <1>9, <1>10, RowPlaces
<1>12. /\ U[0][1] = z[5] /\ U[1][1] = z[9] /\ U[2][1] = z[13] /\ U[3][1] = z[1]
  BY <1>2, <1>6, <1>9, <1>10, RowPlaces
<1>13. /\ U[0][2] = z[10] /\ U[1][2] = z[14] /\ U[2][2] = z[2] /\ U[3][2] = z[6]
  BY <1>2, <1>6, <1>9, <1>10, RowPlaces
<1>14. /\ U[0][3] = z[15] /\ U[1][3] = z[3] /\ U[2][3] = z[7] /\ U[3][3] = z[11]
  BY <1>2, <1>6, <1>9, <1>10, RowPlaces
<1>15. \A l \in Four : l = 0 \/ l = 1 \/ l = 2 \/ l = 3
  BY DEF Four
<1>16. ASSUME NEW l \in Four
       PROVE  /\ U[0][l] = z[PC[l][0]] /\ U[1][l] = z[PC[l][1]]
              /\ U[2][l] = z[PC[l][2]] /\ U[3][l] = z[PC[l][3]]
  BY <1>11, <1>12, <1>13, <1>14, <1>15, ColumnPlaces
<1> QED
  BY <1>3, <1>7, <1>16 DEF ColumnsHeld, Held

(***************************************************************************)
(* Shuffling.                                                              *)
(***************************************************************************)
LEMMA Sixteen ==
  /\ 0 \in Places /\ 1 \in Places /\ 2 \in Places /\ 3 \in Places /\ 4 \in Places /\ 5 \in Places
  /\ 6 \in Places /\ 7 \in Places /\ 8 \in Places /\ 9 \in Places /\ 10 \in Places
  /\ 11 \in Places /\ 12 \in Places /\ 13 \in Places /\ 14 \in Places /\ 15 \in Places
BY DEF Places

LEMMA EachPlace ==
  ASSUME NEW k \in Places
  PROVE  \/ k = 0 \/ k = 1 \/ k = 2 \/ k = 3 \/ k = 4 \/ k = 5 \/ k = 6 \/ k = 7 \/ k = 8
         \/ k = 9 \/ k = 10 \/ k = 11 \/ k = 12 \/ k = 13 \/ k = 14 \/ k = 15
BY DEF Places

LEMMA Shuffled ==
  ASSUME NEW b \in Block16, NEW t, t = Salsa!salsa20_simd_shuffle(b)
  PROVE  /\ t[0] = b[0] /\ t[1] = b[5] /\ t[2] = b[10] /\ t[3] = b[15]
         /\ t[4] = b[4] /\ t[5] = b[9] /\ t[6] = b[14] /\ t[7] = b[3]
         /\ t[8] = b[8] /\ t[9] = b[13] /\ t[10] = b[2] /\ t[11] = b[7]
         /\ t[12] = b[12] /\ t[13] = b[1] /\ t[14] = b[6] /\ t[15] = b[11]
         /\ t \in Block16
<1>1. PICK low : low = <<0, 5, 2, 7, 4, 1, 6, 3>>
  OBVIOUS
<1>2. PICK high : high = <<2, 7, 4, 1, 6, 3, 0, 5>>
  OBVIOUS
<1>3. t = [k \in Places |-> IF k % 2 = 0 THEN b[2 * low[k \div 2 + 1]]
                                         ELSE b[2 * high[k \div 2 + 1] + 1]]
  BY <1>1, <1>2 DEF Salsa!salsa20_simd_shuffle, Places
<1>4. ASSUME NEW k \in Places
      PROVE  t[k] = IF k % 2 = 0 THEN b[2 * low[k \div 2 + 1]] ELSE b[2 * high[k \div 2 + 1] + 1]
  BY <1>3
<1>tables. /\ low[1] = 0 /\ low[2] = 5 /\ low[3] = 2 /\ low[4] = 7
       /\ low[5] = 4 /\ low[6] = 1 /\ low[7] = 6 /\ low[8] = 3
       /\ high[1] = 2 /\ high[2] = 7 /\ high[3] = 4 /\ high[4] = 1
       /\ high[5] = 6 /\ high[6] = 3 /\ high[7] = 0 /\ high[8] = 5
  BY <1>1, <1>2
<1>entries. /\ t[0] = b[2 * low[1]] /\ t[1] = b[2 * high[1] + 1] /\ t[2] = b[2 * low[2]] /\ t[3] = b[2 * high[2] + 1]
       /\ t[4] = b[2 * low[3]] /\ t[5] = b[2 * high[3] + 1] /\ t[6] = b[2 * low[4]] /\ t[7] = b[2 * high[4] + 1]
       /\ t[8] = b[2 * low[5]] /\ t[9] = b[2 * high[5] + 1] /\ t[10] = b[2 * low[6]] /\ t[11] = b[2 * high[6] + 1]
       /\ t[12] = b[2 * low[7]] /\ t[13] = b[2 * high[7] + 1] /\ t[14] = b[2 * low[8]] /\ t[15] = b[2 * high[8] + 1]
  BY <1>4, Sixteen
<1>5. /\ t[0] = b[0] /\ t[1] = b[5] /\ t[2] = b[10] /\ t[3] = b[15]
  BY <1>tables, <1>entries
<1>6. /\ t[4] = b[4] /\ t[5] = b[9] /\ t[6] = b[14] /\ t[7] = b[3]
  BY <1>tables, <1>entries
<1>7. /\ t[8] = b[8] /\ t[9] = b[13] /\ t[10] = b[2] /\ t[11] = b[7]
  BY <1>tables, <1>entries
<1>8. /\ t[12] = b[12] /\ t[13] = b[1] /\ t[14] = b[6] /\ t[15] = b[11]
  BY <1>tables, <1>entries
<1>9. \A k \in Places : t[k] \in Word32
  BY <1>5, <1>6, <1>7, <1>8, Sixteen, EachPlace DEF Block16
<1>10. t = [k \in Places |-> t[k]]
  BY <1>3
<1>11. t \in Block16
  BY <1>9, <1>10 DEF Block16
<1> QED
  BY <1>5, <1>6, <1>7, <1>8, <1>11

LEMMA Unshuffled ==
  ASSUME NEW b \in Block16, NEW t, t = Salsa!salsa20_simd_unshuffle(b)
  PROVE  /\ t[0] = b[0] /\ t[5] = b[1] /\ t[10] = b[2] /\ t[15] = b[3]
         /\ t[4] = b[4] /\ t[9] = b[5] /\ t[14] = b[6] /\ t[3] = b[7]
         /\ t[8] = b[8] /\ t[13] = b[9] /\ t[2] = b[10] /\ t[7] = b[11]
         /\ t[12] = b[12] /\ t[1] = b[13] /\ t[6] = b[14] /\ t[11] = b[15]
         /\ t \in Block16
<1>1. PICK low : low = <<0, 5, 2, 7, 4, 1, 6, 3>>
  OBVIOUS
<1>2. PICK high : high = <<6, 3, 0, 5, 2, 7, 4, 1>>
  OBVIOUS
<1>3. t = [k \in Places |-> IF k % 2 = 0 THEN b[2 * low[k \div 2 + 1]]
                                         ELSE b[2 * high[k \div 2 + 1] + 1]]
  BY <1>1, <1>2 DEF Salsa!salsa20_simd_unshuffle, Places
<1>4. ASSUME NEW k \in Places
      PROVE  t[k] = IF k % 2 = 0 THEN b[2 * low[k \div 2 + 1]] ELSE b[2 * high[k \div 2 + 1] + 1]
  BY <1>3
<1>tables. /\ low[1] = 0 /\ low[2] = 5 /\ low[3] = 2 /\ low[4] = 7
       /\ low[5] = 4 /\ low[6] = 1 /\ low[7] = 6 /\ low[8] = 3
       /\ high[1] = 6 /\ high[2] = 3 /\ high[3] = 0 /\ high[4] = 5
       /\ high[5] = 2 /\ high[6] = 7 /\ high[7] = 4 /\ high[8] = 1
  BY <1>1, <1>2
<1>entries. /\ t[0] = b[2 * low[1]] /\ t[1] = b[2 * high[1] + 1] /\ t[2] = b[2 * low[2]] /\ t[3] = b[2 * high[2] + 1]
       /\ t[4] = b[2 * low[3]] /\ t[5] = b[2 * high[3] + 1] /\ t[6] = b[2 * low[4]] /\ t[7] = b[2 * high[4] + 1]
       /\ t[8] = b[2 * low[5]] /\ t[9] = b[2 * high[5] + 1] /\ t[10] = b[2 * low[6]] /\ t[11] = b[2 * high[6] + 1]
       /\ t[12] = b[2 * low[7]] /\ t[13] = b[2 * high[7] + 1] /\ t[14] = b[2 * low[8]] /\ t[15] = b[2 * high[8] + 1]
  BY <1>4, Sixteen
<1>5. /\ t[0] = b[0] /\ t[5] = b[1] /\ t[10] = b[2] /\ t[15] = b[3]
  BY <1>tables, <1>entries
<1>6. /\ t[4] = b[4] /\ t[9] = b[5] /\ t[14] = b[6] /\ t[3] = b[7]
  BY <1>tables, <1>entries
<1>7. /\ t[8] = b[8] /\ t[13] = b[9] /\ t[2] = b[10] /\ t[7] = b[11]
  BY <1>tables, <1>entries
<1>8. /\ t[12] = b[12] /\ t[1] = b[13] /\ t[6] = b[14] /\ t[11] = b[15]
  BY <1>tables, <1>entries
<1>9. \A k \in Places : t[k] \in Word32
  BY <1>5, <1>6, <1>7, <1>8, Sixteen, EachPlace DEF Block16
<1>10. t = [k \in Places |-> t[k]]
  BY <1>3
<1>11. t \in Block16
  BY <1>9, <1>10 DEF Block16
<1> QED
  BY <1>5, <1>6, <1>7, <1>8, <1>11

\* What is put back in order and shuffled again is as it was.
LEMMA ShuffleBack ==
  ASSUME NEW b \in Block16
  PROVE  Salsa!salsa20_simd_shuffle(Salsa!salsa20_simd_unshuffle(b)) = b
<1>1. PICK u : u = Salsa!salsa20_simd_unshuffle(b)
  OBVIOUS
<1>2. PICK t : t = Salsa!salsa20_simd_shuffle(u)
  OBVIOUS
<1>3. u \in Block16 /\ t \in Block16
  BY <1>1, <1>2, Unshuffled, Shuffled
<1>4. /\ t[0] = b[0] /\ t[1] = b[1] /\ t[2] = b[2] /\ t[3] = b[3] /\ t[4] = b[4] /\ t[5] = b[5]
      /\ t[6] = b[6] /\ t[7] = b[7] /\ t[8] = b[8] /\ t[9] = b[9] /\ t[10] = b[10] /\ t[11] = b[11]
      /\ t[12] = b[12] /\ t[13] = b[13] /\ t[14] = b[14] /\ t[15] = b[15]
  BY <1>1, <1>2, <1>3, Shuffled, Unshuffled
<1>5. \A k \in Places : t[k] = b[k]
  BY <1>4, EachPlace
<1>6. t = b
  BY <1>3, <1>5 DEF Block16
<1> QED
  BY <1>1, <1>2, <1>6

\* The vectors hold the words by columns if they are the words, shuffled.
LEMMA HeldIsShuffled ==
  ASSUME NEW V \in Vectors, NEW w \in Block16
  PROVE  ColumnsHeld(V, w) <=> Salsa!WRITE_X(V) = Salsa!salsa20_simd_shuffle(w)
<1>1. PICK t : t = Salsa!salsa20_simd_shuffle(w)
  OBVIOUS
<1>2. PICK f : f = Salsa!WRITE_X(V)
  OBVIOUS
<1>3. f = [k \in Places |-> V[k \div 4][k % 4]]
  BY <1>2 DEF Salsa!WRITE_X, Places
<1>4. /\ f[0] = V[0][0] /\ f[1] = V[0][1] /\ f[2] = V[0][2] /\ f[3] = V[0][3]
      /\ f[4] = V[1][0] /\ f[5] = V[1][1] /\ f[6] = V[1][2] /\ f[7] = V[1][3]
      /\ f[8] = V[2][0] /\ f[9] = V[2][1] /\ f[10] = V[2][2] /\ f[11] = V[2][3]
      /\ f[12] = V[3][0] /\ f[13] = V[3][1] /\ f[14] = V[3][2] /\ f[15] = V[3][3]
  BY <1>3, Sixteen
<1>5. /\ t[0] = w[0] /\ t[1] = w[5] /\ t[2] = w[10] /\ t[3] = w[15]
      /\ t[4] = w[4] /\ t[5] = w[9] /\ t[6] = w[14] /\ t[7] = w[3]
      /\ t[8] = w[8] /\ t[9] = w[13] /\ t[10] = w[2] /\ t[11] = w[7]
      /\ t[12] = w[12] /\ t[13] = w[1] /\ t[14] = w[6] /\ t[15] = w[11]
      /\ t \in Block16
  BY <1>1, Shuffled
<1>6. 0 \in Four /\ 1 \in Four /\ 2 \in Four /\ 3 \in Four
  BY DEF Four
<1>7. \A l \in Four : l = 0 \/ l = 1 \/ l = 2 \/ l = 3
  BY DEF Four
<1>8. ASSUME ColumnsHeld(V, w)
      PROVE  f = t
  <2>1. \A l \in Four : /\ V[0][l] = w[PC[l][0]] /\ V[1][l] = w[PC[l][1]]
                        /\ V[2][l] = w[PC[l][2]] /\ V[3][l] = w[PC[l][3]]
    BY <1>8 DEF ColumnsHeld, Held
  <2>2. /\ V[0][0] = w[0] /\ V[1][0] = w[4] /\ V[2][0] = w[8] /\ V[3][0] = w[12]
        /\ V[0][1] = w[5] /\ V[1][1] = w[9] /\ V[2][1] = w[13] /\ V[3][1] = w[1]
        /\ V[0][2] = w[10] /\ V[1][2] = w[14] /\ V[2][2] = w[2] /\ V[3][2] = w[6]
        /\ V[0][3] = w[15] /\ V[1][3] = w[3] /\ V[2][3] = w[7] /\ V[3][3] = w[11]
    BY <1>6, <2>1, ColumnPlaces
  <2>3. \A k \in Places : f[k] = t[k]
    BY <1>4, <1>5, <2>2, EachPlace
  <2> QED
    BY <1>3, <1>5, <2>3 DEF Block16
<1>9. ASSUME f = t
      PROVE  ColumnsHeld(V, w)
  <2>1. ASSUME NEW l \in Four
        PROVE  /\ V[0][l] = w[PC[l][0]] /\ V[1][l] = w[PC[l][1]]
               /\ V[2][l] = w[PC[l][2]] /\ V[3][l] = w[PC[l][3]]
    BY <1>4, <1>5, <1>7, <1>9, ColumnPlaces
  <2> QED
    BY <2>1 DEF ColumnsHeld, Held
<1> QED
  BY <1>1, <1>2, <1>8, <1>9

(***************************************************************************)
(* Blocks in memory.                                                       *)
(***************************************************************************)
LEMMA BytePlaces ==
  ASSUME NEW k \in Places
  PROVE  /\ 4 * k + 1 \in 1 .. 61 /\ 4 * k + 4 = (4 * k + 1) + 3
         /\ 4 * k + 2 = (4 * k + 1) + 1 /\ 4 * k + 3 = (4 * k + 1) + 2
BY DEF Places

LEMMA FourOf ==
  ASSUME NEW T, NEW b \in Seq(T), Len(b) = 64, NEW m \in 1 .. 61
  PROVE  /\ SubSeq(b, m, m + 3)[1] = b[m] /\ SubSeq(b, m, m + 3)[2] = b[m + 1]
         /\ SubSeq(b, m, m + 3)[3] = b[m + 2] /\ SubSeq(b, m, m + 3)[4] = b[m + 3]
         /\ m \in 1 .. 64 /\ m + 1 \in 1 .. 64 /\ m + 2 \in 1 .. 64 /\ m + 3 \in 1 .. 64
OBVIOUS

LEMMA FourBytes ==
  ASSUME NEW b \in Seq(Nat), Len(b) = 64, NEW k \in Places
  PROVE  /\ SubSeq(b, 4 * k + 1, 4 * k + 4)[1] = b[4 * k + 1]
         /\ SubSeq(b, 4 * k + 1, 4 * k + 4)[2] = b[4 * k + 2]
         /\ SubSeq(b, 4 * k + 1, 4 * k + 4)[3] = b[4 * k + 3]
         /\ SubSeq(b, 4 * k + 1, 4 * k + 4)[4] = b[4 * k + 4]
         /\ 4 * k + 1 \in 1 .. 64 /\ 4 * k + 2 \in 1 .. 64
         /\ 4 * k + 3 \in 1 .. 64 /\ 4 * k + 4 \in 1 .. 64
<1>1. PICK m : m = 4 * k + 1
  OBVIOUS
<1>2. m \in 1 .. 61 /\ 4 * k + 4 = m + 3 /\ 4 * k + 2 = m + 1 /\ 4 * k + 3 = m + 2
  BY <1>1, BytePlaces
<1>3. m \in 1 .. 64 /\ m + 1 \in 1 .. 64 /\ m + 2 \in 1 .. 64 /\ m + 3 \in 1 .. 64
  BY <1>2, FourOf
<1>4. /\ SubSeq(b, m, m + 3)[1] = b[m] /\ SubSeq(b, m, m + 3)[2] = b[m + 1]
      /\ SubSeq(b, m, m + 3)[3] = b[m + 2] /\ SubSeq(b, m, m + 3)[4] = b[m + 3]
  BY <1>2, FourOf
<1>5. SubSeq(b, m, m + 3) = SubSeq(b, 4 * k + 1, 4 * k + 4)
  BY <1>1, <1>2
<1> QED
  BY <1>1, <1>2, <1>3, <1>4, <1>5

\* What is loaded from bytes is sixteen words.
LEMMA LoadType ==
  ASSUME NEW b \in Inputs
  PROVE  Salsa!Load(b) \in Block16
<1>1. b \in Seq(Nat) /\ Len(b) = 64 /\ \A k \in 1 .. 64 : b[k] < 256
  BY HasherAssumption
<1>2. \A k \in 1 .. 64 : b[k] \in Nat
  <2>1. b \in Seq(Nat)
    BY <1>1
  <2>2. \A k \in 1 .. Len(b) : b[k] \in Nat
    BY <2>1
  <2> QED
    BY <1>1, <2>2
<1>3. PICK w : w = [k \in Places |-> Salsa!le32dec(SubSeq(b, 4 * k + 1, 4 * k + 4))]
  OBVIOUS
<1>4. ASSUME NEW k \in Places
      PROVE  w[k] \in Word32
  <2>1. PICK t : t = SubSeq(b, 4 * k + 1, 4 * k + 4)
    OBVIOUS
  <2>2. /\ t[1] = b[4 * k + 1] /\ t[2] = b[4 * k + 2] /\ t[3] = b[4 * k + 3] /\ t[4] = b[4 * k + 4]
        /\ 4 * k + 1 \in 1 .. 64 /\ 4 * k + 2 \in 1 .. 64
        /\ 4 * k + 3 \in 1 .. 64 /\ 4 * k + 4 \in 1 .. 64
    BY <1>1, <2>1, FourBytes
  <2>3. /\ t[1] \in Nat /\ t[2] \in Nat /\ t[3] \in Nat /\ t[4] \in Nat
        /\ t[1] < 256 /\ t[2] < 256 /\ t[3] < 256 /\ t[4] < 256
    BY <1>1, <1>2, <2>2
  <2>4. t[3] + 256 * t[4] \in Half /\ t[1] + 256 * t[2] \in Half
    BY <2>3 DEF Half
  <2>5. w[k] = <<t[3] + 256 * t[4], t[1] + 256 * t[2]>>
    BY <1>3, <2>1 DEF Salsa!le32dec
  <2> QED
    BY <2>4, <2>5 DEF Word32
<1>5. w \in Block16
  BY <1>3, <1>4 DEF Block16
<1>6. Salsa!Load(b) = Salsa!salsa20_simd_shuffle(w)
  BY <1>3 DEF Salsa!Load, Places
<1> QED
  BY <1>5, <1>6, Shuffled

LEMMA TwoBytes ==
  ASSUME NEW h \in Nat
  PROVE  (h % 256) + 256 * (h \div 256) = h /\ h % 256 \in Nat /\ h \div 256 \in Nat
OBVIOUS

\* The bytes of a word, put together again.
LEMMA Encoded ==
  ASSUME NEW w \in Word32, NEW t, t = Salsa!le32enc(w)
  PROVE  /\ t[1] \in Nat /\ t[2] \in Nat /\ t[3] \in Nat /\ t[4] \in Nat
         /\ <<t[3] + 256 * t[4], t[1] + 256 * t[2]>> = w
<1>1. PICK h \in Nat, l \in Nat : h = w[1] /\ l = w[2] /\ h < 65536 /\ l < 65536
  BY WordHalves DEF Half
<1>2. t[1] = l % 256 /\ t[2] = l \div 256 /\ t[3] = h % 256 /\ t[4] = h \div 256
  BY <1>1 DEF Salsa!le32enc
<1>3. (h % 256) + 256 * (h \div 256) = h /\ (l % 256) + 256 * (l \div 256) = l
  BY TwoBytes
<1>4. /\ l % 256 \in Nat /\ l \div 256 \in Nat /\ h % 256 \in Nat /\ h \div 256 \in Nat
  BY TwoBytes
<1>5. w = <<h, l>>
  BY <1>1, WordHalves
<1> QED
  BY <1>2, <1>3, <1>4, <1>5

LEMMA LoadStore ==
  ASSUME NEW b \in Block16
  PROVE  Salsa!Load(Salsa!Store(b)) = b
<1>1. PICK w : w = Salsa!salsa20_simd_unshuffle(b)
  OBVIOUS
<1>2. w \in Block16
  BY <1>1, Unshuffled
<1>3. PICK t : t = Salsa!Store(b)
  OBVIOUS
<1>4. t = [k \in 1 .. 64 |-> Salsa!le32enc(w[(k - 1) \div 4])[((k - 1) % 4) + 1]]
  BY <1>1, <1>3 DEF Salsa!Store
<1>5. ASSUME NEW k \in Places, NEW g \in {1, 2, 3, 4}
      PROVE  t[4 * k + g] = Salsa!le32enc(w[k])[g]
  <2>1. PICK m \in 1 .. 64 : m = 4 * k + g
    BY DEF Places
  <2>2. (m - 1) \div 4 = k /\ ((m - 1) % 4) + 1 = g
    BY <2>1 DEF Places
  <2>3. t[m] = Salsa!le32enc(w[(m - 1) \div 4])[((m - 1) % 4) + 1]
    BY <1>4
  <2> QED
    BY <2>1, <2>2, <2>3
<1>6. ASSUME NEW m \in 1 .. 64
      PROVE  t[m] \in Nat
  <2>1. PICK k \in Places, g \in {1, 2, 3, 4} : (m - 1) \div 4 = k /\ ((m - 1) % 4) + 1 = g
    BY DEF Places
  <2>2. t[m] = Salsa!le32enc(w[k])[g]
    BY <1>4, <2>1
  <2>3. w[k] \in Word32
    BY <1>2 DEF Block16
  <2> QED
    BY <2>2, <2>3, Encoded
<1>7. t \in Seq(Nat) /\ Len(t) = 64
  <2>1. t = [m \in 1 .. 64 |-> t[m]]
    BY <1>4
  <2> QED
    BY <1>6, <2>1
<1>8. PICK v : v = [k \in Places |-> Salsa!le32dec(SubSeq(t, 4 * k + 1, 4 * k + 4))]
  OBVIOUS
<1>9. ASSUME NEW k \in Places
      PROVE  v[k] = w[k]
  <2>1. PICK p : p = SubSeq(t, 4 * k + 1, 4 * k + 4)
    OBVIOUS
  <2>2. /\ p[1] = t[4 * k + 1] /\ p[2] = t[4 * k + 2] /\ p[3] = t[4 * k + 3] /\ p[4] = t[4 * k + 4]
    BY <1>7, <2>1, FourBytes
  <2>3. PICK e : e = Salsa!le32enc(w[k])
    OBVIOUS
  <2>4. p[1] = e[1] /\ p[2] = e[2] /\ p[3] = e[3] /\ p[4] = e[4]
    BY <1>5, <2>2, <2>3
  <2>5. w[k] \in Word32
    BY <1>2 DEF Block16
  <2>6. <<e[3] + 256 * e[4], e[1] + 256 * e[2]>> = w[k]
    BY <2>3, <2>5, Encoded
  <2>7. v[k] = <<p[3] + 256 * p[4], p[1] + 256 * p[2]>>
    BY <1>8, <2>1 DEF Salsa!le32dec
  <2> QED
    BY <2>4, <2>6, <2>7
<1>10. v = w
  BY <1>2, <1>8, <1>9 DEF Block16
<1>11. Salsa!Load(t) = Salsa!salsa20_simd_shuffle(v)
  BY <1>8 DEF Salsa!Load, Places
<1> QED
  BY <1>1, <1>3, <1>10, <1>11, ShuffleBack

(***************************************************************************)
(* Both builds at work: before the columns and after the rows the vectors  *)
(* hold the words by columns, in between by rows.                          *)
(***************************************************************************)
SalsaInv ==
  /\ block \in Block16 /\ X \in Vectors /\ words \in Block16
  /\ half \in {"columns", "rows", "end", "done"}
  /\ half \in {"columns", "end"} => ColumnsHeld(X, words)
  /\ half = "rows" => RowsHeld(X, words)
  /\ half = "done" => Salsa!WRITE_X(X) = words

LEMMA FourTimes ==
  ASSUME NEW m \in Nat
  PROVE  m = (m % 4) + 4 * (m \div 4) /\ m % 4 \in 0 .. 3 /\ m \div 4 \in Nat
OBVIOUS

LEMMA LanePlace ==
  ASSUME NEW k \in Places
  PROVE  \E v \in Four, l \in Four : v = k \div 4 /\ l = k % 4 /\ 4 * v + l = k
<1>1. PICK m \in Nat : m = k /\ m < 16
  BY DEF Places
<1>2. PICK v \in Nat : v = m \div 4
  BY FourTimes
<1>3. PICK l \in 0 .. 3 : l = m % 4
  BY FourTimes
<1>4. 4 * v + l = m
  <2>1. m = l + 4 * v
    BY <1>2, <1>3, FourTimes
  <2> QED
    BY <2>1
<1>5. v < 4
  BY <1>1, <1>4
<1> QED
  BY <1>1, <1>2, <1>3, <1>4, <1>5 DEF Four

\* What READ_X reads, WRITE_X writes back.
LEMMA ReadWrite ==
  ASSUME NEW b \in Block16
  PROVE  Salsa!READ_X(b) \in Vectors /\ Salsa!WRITE_X(Salsa!READ_X(b)) = b
<1>1. PICK V : V = Salsa!READ_X(b)
  OBVIOUS
<1>2. V = [v \in Four |-> [l \in Four |-> b[4 * v + l]]]
  BY <1>1 DEF Salsa!READ_X, Salsa!Lanes, Four
<1>3. \A v \in Four, l \in Four : 4 * v + l \in Places
  BY DEF Four, Places
<1>4. V \in Vectors
  BY <1>2, <1>3 DEF Vectors, Block16
<1>5. ASSUME NEW k \in Places
      PROVE  V[k \div 4][k % 4] = b[k]
  <2>1. PICK v \in Four, l \in Four : v = k \div 4 /\ l = k % 4 /\ 4 * v + l = k
    BY LanePlace
  <2>2. V[v][l] = b[4 * v + l]
    BY <1>2
  <2> QED
    BY <2>1, <2>2
<1>6. Salsa!WRITE_X(V) = [k \in Places |-> V[k \div 4][k % 4]]
  BY DEF Salsa!WRITE_X, Places
<1>7. Salsa!WRITE_X(V) = b
  BY <1>5, <1>6 DEF Block16
<1> QED
  BY <1>1, <1>4, <1>7

LEMMA SalsaStarts == HasherInit => SalsaInv
<1> SUFFICES ASSUME HasherInit PROVE SalsaInv
  OBVIOUS
<1>1. /\ block = Salsa!Blank /\ X = Salsa!READ_X(Salsa!Blank) /\ words = Salsa!Blank
      /\ half = "done"
  BY DEF HasherInit, Salsa!SalsaInit
<1>2. Salsa!Blank \in Block16
  BY DEF Salsa!Blank, Block16, Places, Word32, Half
<1> QED
  BY <1>1, <1>2, ReadWrite DEF SalsaInv

\* A block is loaded into vectors for one build, and put in order for the other.
LEMMA StartKeeps ==
  ASSUME SalsaInv, NEW b \in Inputs, NEW r, Salsa!Start(b, r)
  PROVE  SalsaInv'
<1>1. /\ block' = Salsa!Load(b) /\ X' = Salsa!READ_X(block')
      /\ words' = Salsa!salsa20_simd_unshuffle(block') /\ half' = "columns"
  BY DEF Salsa!Start
<1>2. PICK c : c = block'
  OBVIOUS
<1>3. c \in Block16
  BY <1>1, <1>2, LoadType
<1>4. PICK w : w = Salsa!salsa20_simd_unshuffle(c)
  OBVIOUS
<1>5. w \in Block16
  BY <1>3, <1>4, Unshuffled
<1>6. PICK V : V = Salsa!READ_X(c)
  OBVIOUS
<1>7. V \in Vectors /\ Salsa!WRITE_X(V) = c
  BY <1>3, <1>6, ReadWrite
<1>8. ColumnsHeld(V, w)
  BY <1>3, <1>4, <1>5, <1>7, ShuffleBack, HeldIsShuffled
<1>9. words' = w /\ X' = V
  BY <1>1, <1>2, <1>4, <1>6
<1> QED
  BY <1>1, <1>2, <1>3, <1>5, <1>7, <1>8, <1>9 DEF SalsaInv

LEMMA ColumnsKeep ==
  ASSUME SalsaInv, Salsa!ColumnsHalf
  PROVE  SalsaInv'
<1>1. /\ half = "columns" /\ half' = "rows" /\ block' = block
      /\ X' = Salsa!SALSA20_columns(X) /\ words' = Salsa!Quarters(words, Salsa!Columns)
  BY DEF Salsa!ColumnsHalf
<1>2. /\ block \in Block16 /\ X \in Vectors /\ words \in Block16 /\ ColumnsHeld(X, words)
  BY <1>1 DEF SalsaInv
<1>3. X' \in Vectors /\ words' \in Block16 /\ RowsHeld(X', words')
  BY <1>1, <1>2, ColumnsStep
<1> QED
  BY <1>1, <1>2, <1>3 DEF SalsaInv

LEMMA RowsKeep ==
  ASSUME SalsaInv, Salsa!RowsHalf
  PROVE  SalsaInv'
<1>1. /\ half = "rows" /\ half' \in {"end", "columns"} /\ block' = block
      /\ X' = Salsa!SALSA20_rows(X) /\ words' = Salsa!Quarters(words, Salsa!Rows4)
  BY DEF Salsa!RowsHalf
<1>2. /\ block \in Block16 /\ X \in Vectors /\ words \in Block16 /\ RowsHeld(X, words)
  BY <1>1 DEF SalsaInv
<1>3. X' \in Vectors /\ words' \in Block16 /\ ColumnsHeld(X', words')
  BY <1>1, <1>2, RowsStep
<1> QED
  BY <1>1, <1>2, <1>3 DEF SalsaInv

\* What the core was applied to is added, vector by vector or word by word.
LEMMA EndKeeps ==
  ASSUME SalsaInv, Salsa!End
  PROVE  SalsaInv'
<1>1. /\ half = "end" /\ half' = "done" /\ block' = block
      /\ X' = Salsa!SALSA20_wrapper(X, Salsa!READ_X(block)) /\ words' = Salsa!salsa20_end(words, block)
  BY DEF Salsa!End
<1>2. /\ block \in Block16 /\ X \in Vectors /\ words \in Block16 /\ ColumnsHeld(X, words)
  BY <1>1 DEF SalsaInv
<1>3. PICK t : t = Salsa!salsa20_simd_shuffle(words)
  OBVIOUS
<1>4. t \in Block16 /\ Salsa!WRITE_X(X) = t
  BY <1>2, <1>3, Shuffled, HeldIsShuffled
<1>5. PICK Z : Z = Salsa!READ_X(block)
  OBVIOUS
<1>6. Z \in Vectors /\ Salsa!WRITE_X(Z) = block
  BY <1>2, <1>5, ReadWrite
<1>7. X' = [v \in Four |-> [l \in Four |-> Add(X[v][l], Z[v][l])]]
  <2>1. \A p, q : Salsa!Add(p, q) = Add(p, q)
    BY SalsaWords
  <2> QED
    BY <1>1, <1>5, <2>1 DEF Salsa!SALSA20_wrapper, Salsa!Lanes, Four
<1>8. words' = [k \in Places |-> Add(t[k], block[k])]
  <2>1. \A p, q : Salsa!Add(p, q) = Add(p, q)
    BY SalsaWords
  <2> QED
    BY <1>1, <1>3, <2>1 DEF Salsa!salsa20_end, Places
<1>9. X' \in Vectors
  <2>1. \A v \in Four, l \in Four : X[v][l] \in Word32 /\ Z[v][l] \in Word32
    BY <1>2, <1>6 DEF Vectors
  <2>2. \A v \in Four, l \in Four : Add(X[v][l], Z[v][l]) \in Word32
    BY <2>1, WordsClosed
  <2> QED
    BY <1>7, <2>2 DEF Vectors
<1>10. words' \in Block16
  <2>1. \A k \in Places : Add(t[k], block[k]) \in Word32
    BY <1>2, <1>4, WordsClosed DEF Block16
  <2> QED
    BY <1>8, <2>1 DEF Block16
<1>11. ASSUME NEW k \in Places
       PROVE  X'[k \div 4][k % 4] = words'[k]
  <2>1. PICK v \in Four, l \in Four : v = k \div 4 /\ l = k % 4
    BY LanePlace
  <2>2. X'[v][l] = Add(X[v][l], Z[v][l])
    BY <1>7
  <2>3. X[v][l] = t[k] /\ Z[v][l] = block[k]
    <3>1. /\ Salsa!WRITE_X(X) = [h \in Places |-> X[h \div 4][h % 4]]
          /\ Salsa!WRITE_X(Z) = [h \in Places |-> Z[h \div 4][h % 4]]
      BY DEF Salsa!WRITE_X, Places
    <3> QED
      BY <1>4, <1>6, <2>1, <3>1
  <2> QED
    BY <1>8, <2>1, <2>2, <2>3
<1>12. Salsa!WRITE_X(X') = words'
  <2>1. PICK V, w : V = X' /\ w = words'
    OBVIOUS
  <2>2. Salsa!WRITE_X(V) = [h \in Places |-> V[h \div 4][h % 4]]
    BY DEF Salsa!WRITE_X, Places
  <2>3. w \in [Places -> Word32]
    BY <1>10, <2>1 DEF Block16
  <2>4. Salsa!WRITE_X(V) = w
    BY <1>11, <2>1, <2>2, <2>3
  <2> QED
    BY <2>1, <2>4
<1> QED
  BY <1>1, <1>2, <1>9, <1>10, <1>12 DEF SalsaInv

\* Whatever blocks the core is applied to, for two or eight rounds: after every
\* double round the build with vectors holds the words of the other one, and
\* both end with the same block; a block that is stored is the one loaded
\* (yespower-opt.c: SALSA20_2ROUNDS, SALSA20_wrapper, salsa20).
THEOREM SalsaCorrect == HasherSpec => []SalsaMatches
<1>1. SalsaInv /\ [HasherNext]_hasherVars => SalsaInv'
  <2> SUFFICES ASSUME SalsaInv, [HasherNext]_hasherVars PROVE SalsaInv'
    OBVIOUS
  <2>1. Salsa!SalsaNext \/ UNCHANGED coreVars
    BY DEF HasherNext, hasherVars, WorkTurn, YespowerTurn, StreamTurn, RoundsTurn, SalsaTurn,
           PwxformTurn, BlockMixTurn
  <2>2. CASE UNCHANGED coreVars
    BY <2>2 DEF coreVars, SalsaInv
  <2>3. ASSUME NEW b \in Inputs, NEW r, Salsa!Start(b, r) PROVE SalsaInv'
    BY <2>3, StartKeeps
  <2> QED
    BY <2>1, <2>2, <2>3, ColumnsKeep, RowsKeep, EndKeeps DEF Salsa!SalsaNext
<1>2. SalsaInv => SalsaMatches
  <2> SUFFICES ASSUME SalsaInv PROVE SalsaMatches
    OBVIOUS
  <2>1. half \in {"columns", "end"} => Salsa!WRITE_X(X) = Salsa!salsa20_simd_shuffle(words)
    BY HeldIsShuffled DEF SalsaInv
  <2>2. Salsa!Load(Salsa!Store(block)) = block
    BY LoadStore DEF SalsaInv
  <2> QED
    BY <2>1, <2>2 DEF SalsaInv, SalsaMatches, Salsa!SalsaMatches
<1> QED
  BY <1>1, <1>2, SalsaStarts, PTL DEF HasherSpec

(***************************************************************************)
(* Streams.  A text is a sequence of anything; its parts are named, so     *)
(* that nothing is seen of them but the following lemmas.                  *)
(***************************************************************************)
To(l) == 1 .. l
Text(q) == \E l \in Nat : q = [k \in To(l) |-> q[k]]
Part(q, a, b) == SubSeq(q, a, b)
Join(p, q) == p \o q
Then(p, e) == Append(p, e)

\* What p has after the first a entries is what q has after the first b.
Agree(p, a, q, b, l) == \A k \in To(l) : p[a + k] = q[b + k]

LEMMA TextIs ==
  ASSUME NEW q, Text(q)
  PROVE  Len(q) \in Nat /\ q = [k \in To(Len(q)) |-> q[k]]
<1>1. PICK l \in Nat : q = [k \in To(l) |-> q[k]]
  BY DEF Text
<1> DEFINE T == {q[k] : k \in To(l)}
<1>2. q \in Seq(T)
  BY <1>1 DEF To
<1>3. DOMAIN q = 1 .. l
  BY <1>1 DEF To
<1> HIDE DEF T
<1>4. Len(q) = l
  BY <1>2, <1>3
<1> QED
  BY <1>1, <1>4

LEMMA TextMade ==
  ASSUME NEW l \in Nat, NEW q, q = [k \in To(l) |-> q[k]]
  PROVE  Text(q) /\ Len(q) = l
<1>1. Text(q)
  BY DEF Text
<1>2. q = [k \in To(Len(q)) |-> q[k]] /\ Len(q) \in Nat
  BY <1>1, TextIs
<1>3. 1 .. l = 1 .. Len(q)
  BY <1>2 DEF To
<1> QED
  BY <1>1, <1>2, <1>3

LEMMA TextEqual ==
  ASSUME NEW p, NEW q, NEW l, Text(p), Text(q), Len(p) = l, Len(q) = l, Agree(p, 0, q, 0, l)
  PROVE  p = q
<1>1. \A k \in To(l) : k \in Nat /\ 0 + k = k
  BY DEF To
<1>2. \A k \in To(l) : p[k] = q[k]
  BY <1>1 DEF Agree
<1> QED
  BY <1>2, TextIs

LEMMA AgreeBack ==
  ASSUME NEW p, NEW a, NEW q, NEW b, NEW l, Agree(p, a, q, b, l)
  PROVE  Agree(q, b, p, a, l)
BY DEF Agree

LEMMA AgreeOn ==
  ASSUME NEW p, NEW a, NEW q, NEW b, NEW r, NEW c, NEW l, Agree(p, a, q, b, l), Agree(q, b, r, c, l)
  PROVE  Agree(p, a, r, c, l)
BY DEF Agree

LEMMA AgreeSelf ==
  ASSUME NEW p, NEW a, NEW l
  PROVE  Agree(p, a, p, a, l)
BY DEF Agree

LEMMA AgreeFront ==
  ASSUME NEW p, NEW a, NEW q, NEW b, NEW l \in Nat, NEW m \in Nat, m <= l, Agree(p, a, q, b, l)
  PROVE  Agree(p, a, q, b, m)
<1>1. \A k \in To(m) : k \in To(l)
  BY DEF To
<1> QED
  BY <1>1 DEF Agree

LEMMA AgreeWithin ==
  ASSUME NEW p, NEW a \in Nat, NEW q, NEW b \in Nat, NEW l \in Nat, Agree(p, a, q, b, l),
         NEW d \in Nat, NEW m \in Nat, d + m <= l, NEW e, e = a + d, NEW f, f = b + d
  PROVE  Agree(p, e, q, f, m)
<1>1. \A k \in To(m) : d + k \in To(l) /\ a + (d + k) = e + k /\ b + (d + k) = f + k
  BY DEF To
<1> QED
  BY <1>1 DEF Agree

LEMMA AgreeBoth ==
  ASSUME NEW p, NEW a \in Nat, NEW q, NEW b \in Nat, NEW l \in Nat, NEW m \in Nat,
         NEW e, e = a + l, NEW f, f = b + l, NEW o, o = l + m,
         Agree(p, a, q, b, l), Agree(p, e, q, f, m)
  PROVE  Agree(p, a, q, b, o)
<1>1. ASSUME NEW k \in To(o), k \notin To(l)
      PROVE  k - l \in To(m) /\ e + (k - l) = a + k /\ f + (k - l) = b + k
  BY <1>1 DEF To
<1> QED
  BY <1>1 DEF Agree

LEMMA TextPart ==
  ASSUME NEW q, Text(q), NEW a \in Nat, NEW b \in Nat, a >= 1, a <= b + 1, b <= Len(q)
  PROVE  /\ Text(Part(q, a, b)) /\ Len(Part(q, a, b)) = b + 1 - a
         /\ Agree(Part(q, a, b), 0, q, a - 1, b + 1 - a)
<1> DEFINE T == {q[k] : k \in To(Len(q))}
           p == SubSeq(q, a, b)
<1>1. q \in Seq(T) /\ Len(q) \in Nat
  BY TextIs DEF To
<1> HIDE DEF T
<1>2. p = [k \in To(b + 1 - a) |-> q[a - 1 + k]]
  BY <1>1, SMT DEF To
<1> HIDE DEF p
<1>3. p = [k \in To(b + 1 - a) |-> p[k]] /\ b + 1 - a \in Nat
  BY <1>2 DEF To
<1>4. Text(p) /\ Len(p) = b + 1 - a
  BY <1>3, TextMade
<1>5. Part(q, a, b) = p
  BY DEF Part, p
<1>6. \A k \in To(b + 1 - a) : 0 + k = k
  BY DEF To
<1>7. Agree(p, 0, q, a - 1, b + 1 - a)
  BY <1>2, <1>6 DEF Agree
<1> QED
  BY <1>4, <1>5, <1>7

LEMMA TextJoined ==
  ASSUME NEW p, NEW q, Text(p), Text(q)
  PROVE  /\ Text(Join(p, q)) /\ Len(Join(p, q)) = Len(p) + Len(q)
         /\ Agree(Join(p, q), 0, p, 0, Len(p))
         /\ Agree(Join(p, q), Len(p), q, 0, Len(q))
<1> DEFINE T == {p[k] : k \in To(Len(p))} \cup {q[k] : k \in To(Len(q))}
           r == p \o q
           l == Len(p) + Len(q)
<1>1. p \in Seq(T) /\ q \in Seq(T) /\ Len(p) \in Nat /\ Len(q) \in Nat
  BY TextIs DEF To
<1> HIDE DEF T
<1>2. /\ r \in Seq(T) /\ Len(r) = l
      /\ \A k \in To(Len(p)) : r[k] = p[k]
      /\ \A k \in To(Len(q)) : r[Len(p) + k] = q[k]
  BY <1>1, SMT DEF To
<1> HIDE DEF r
<1>3. r = [k \in To(l) |-> r[k]] /\ l \in Nat
  BY <1>1, <1>2 DEF To
<1>4. Text(r)
  BY <1>3, TextMade
<1>5. Join(p, q) = r
  BY DEF Join, r
<1>6. \A l0 \in Nat : \A k \in To(l0) : 0 + k = k
  BY DEF To
<1>7. Agree(r, 0, p, 0, Len(p)) /\ Agree(r, Len(p), q, 0, Len(q))
  BY <1>1, <1>2, <1>6 DEF Agree
<1> QED
  BY <1>2, <1>4, <1>5, <1>7

LEMMA TextThen ==
  ASSUME NEW p, NEW e, Text(p)
  PROVE  /\ Text(Then(p, e)) /\ Len(Then(p, e)) = Len(p) + 1
         /\ Agree(Then(p, e), 0, p, 0, Len(p))
         /\ Then(p, e)[Len(p) + 1] = e
<1> DEFINE T == {p[k] : k \in To(Len(p))} \cup {e}
           r == Append(p, e)
           l == Len(p) + 1
<1>1. p \in Seq(T) /\ e \in T /\ Len(p) \in Nat
  BY TextIs DEF To
<1> HIDE DEF T
<1>2. /\ r \in Seq(T) /\ Len(r) = l
      /\ \A k \in To(Len(p)) : r[k] = p[k]
      /\ r[Len(p) + 1] = e
  BY <1>1, SMT DEF To
<1> HIDE DEF r
<1>3. r = [k \in To(l) |-> r[k]] /\ l \in Nat
  BY <1>1, <1>2 DEF To
<1>4. Text(r)
  BY <1>3, TextMade
<1>5. Then(p, e) = r
  BY DEF Then, r
<1>6. \A k \in To(Len(p)) : 0 + k = k
  BY DEF To
<1>7. Agree(r, 0, p, 0, Len(p))
  BY <1>2, <1>6 DEF Agree
<1> QED
  BY <1>2, <1>4, <1>5, <1>7

Block64(t) == Text(t) /\ Len(t) = 64

\* t are w blocks of the bytes q.
Blocked(t, q, w) ==
  /\ Text(t) /\ Len(t) = w
  /\ \A b \in To(w) : Block64(t[b]) /\ Agree(t[b], 0, q, 64 * (b - 1), 64)

LEMMA Blocks64 ==
  ASSUME NEW l \in Nat
  PROVE  /\ l \div 64 \in Nat /\ l % 64 \in 0 .. 63 /\ l = 64 * (l \div 64) + (l % 64)
         /\ (8 * l) \div 8 = l
OBVIOUS

LEMMA Parts64 ==
  ASSUME NEW w \in Nat, NEW p \in 0 .. 63, NEW l, l = 64 * w + p
  PROVE  l \in Nat /\ l \div 64 = w /\ l % 64 = p
OBVIOUS

LEMMA PutIs ==
  ASSUME NEW b, NEW p \in Nat, NEW q, NEW l \in Nat, Text(q), Len(q) = l, p + l <= 64
  PROVE  /\ Block64(Digests!Put(b, p, q))
         /\ Agree(Digests!Put(b, p, q), 0, b, 0, p)
         /\ Agree(Digests!Put(b, p, q), p, q, 0, l)
         /\ Agree(Digests!Put(b, p, q), p + l, b, p + l, 64 - (p + l))
<1> DEFINE c == Digests!Put(b, p, q)
           e == p + l
<1>0. e \in Nat /\ e = p + l /\ e <= 64
  OBVIOUS
<1> HIDE DEF e
<1>1. /\ c = [k \in To(64) |-> c[k]]
      /\ \A k \in To(64) : c[k] = IF k > p /\ k <= e THEN q[k - p] ELSE b[k]
  BY <1>0 DEF Digests!Put, To
<1> HIDE DEF c
<1>2. Block64(c)
  <2>1. c = [k \in To(64) |-> c[k]] /\ 64 \in Nat
    BY <1>1
  <2>2. Text(c) /\ Len(c) = 64
    BY <2>1, TextMade
  <2> QED
    BY <2>2 DEF Block64
<1>3. \A k \in To(p) : 0 + k = k /\ k \in To(64) /\ ~ (k > p)
  BY DEF To
<1>4. \A k \in To(l) : p + k \in To(64) /\ p + k > p /\ p + k <= e /\ (p + k) - p = 0 + k
  BY <1>0 DEF To
<1>5. \A k \in To(64 - e) : e + k \in To(64) /\ ~ (e + k <= e)
  BY <1>0 DEF To
<1>6. Agree(c, 0, b, 0, p)
  BY <1>1, <1>3 DEF Agree
<1>7. Agree(c, p, q, 0, l)
  BY <1>1, <1>4 DEF Agree
<1>8. Agree(c, e, b, e, 64 - e)
  BY <1>1, <1>5 DEF Agree
<1> QED
  BY <1>2, <1>6, <1>7, <1>8 DEF c, e

LEMMA BlockAt ==
  ASSUME NEW q, NEW l \in Nat, Text(q), Len(q) = l, NEW b \in Nat, b >= 1, 64 * b <= l
  PROVE  /\ Block64(Part(q, 64 * b - 63, 64 * b))
         /\ Agree(Part(q, 64 * b - 63, 64 * b), 0, q, 64 * (b - 1), 64)
<1> DEFINE a == 64 * b - 63
           e == 64 * b
<1>1. /\ a \in Nat /\ e \in Nat /\ a >= 1 /\ a <= e + 1 /\ e <= Len(q)
      /\ e + 1 - a = 64 /\ a - 1 = 64 * (b - 1)
  OBVIOUS
<1> HIDE DEF a, e
<1>2. /\ Text(Part(q, a, e)) /\ Len(Part(q, a, e)) = e + 1 - a
      /\ Agree(Part(q, a, e), 0, q, a - 1, e + 1 - a)
  BY <1>1, TextPart
<1>3. Block64(Part(q, a, e)) /\ Agree(Part(q, a, e), 0, q, 64 * (b - 1), 64)
  BY <1>1, <1>2 DEF Block64
<1> QED
  BY <1>3 DEF a, e

LEMMA BlockedAre ==
  ASSUME NEW q, NEW l \in Nat, NEW w, Text(q), Len(q) = l, l \div 64 = w
  PROVE  /\ Blocked(Digests!BlocksOf(q), q, w)
         /\ Digests!BlocksOf(q) = [b \in To(w) |-> Part(q, 64 * b - 63, 64 * b)]
<1>1. w \in Nat /\ 64 * w <= l
  BY Blocks64
<1>2. Digests!BlocksOf(q) = [b \in To(w) |-> Part(q, 64 * b - 63, 64 * b)]
  BY DEF Digests!BlocksOf, To, Part
<1> DEFINE t == [b \in To(w) |-> Part(q, 64 * b - 63, 64 * b)]
<1>3. t = [b \in To(w) |-> t[b]] /\ \A b \in To(w) : t[b] = Part(q, 64 * b - 63, 64 * b)
  OBVIOUS
<1> HIDE DEF t
<1>4. Text(t) /\ Len(t) = w
  BY <1>1, <1>3, TextMade
<1>5. ASSUME NEW b \in To(w)
      PROVE  Block64(t[b]) /\ Agree(t[b], 0, q, 64 * (b - 1), 64)
  <2>1. b \in Nat /\ b >= 1 /\ 64 * b <= l
    BY <1>1 DEF To
  <2> QED
    BY <1>3, <2>1, BlockAt
<1>6. Blocked(t, q, w)
  BY <1>4, <1>5 DEF Blocked
<1>7. Digests!BlocksOf(q) = t
  BY <1>2 DEF t
<1>8. Blocked(Digests!BlocksOf(q), q, w)
  BY <1>6, <1>7
<1> QED
  BY <1>2, <1>8

LEMMA BlockedOnce ==
  ASSUME NEW q, NEW w, NEW t, NEW u, Blocked(t, q, w), Blocked(u, q, w)
  PROVE  t = u
<1>1. ASSUME NEW b \in To(w) PROVE t[b] = u[b]
  <2>1. /\ Block64(t[b]) /\ Agree(t[b], 0, q, 64 * (b - 1), 64)
        /\ Block64(u[b]) /\ Agree(u[b], 0, q, 64 * (b - 1), 64)
    BY DEF Blocked
  <2>2. Agree(t[b], 0, u[b], 0, 64)
    BY <2>1, AgreeBack, AgreeOn
  <2> QED
    BY <2>1, <2>2, TextEqual DEF Block64
<1>2. \A k \in To(w) : 0 + k = k
  BY DEF To
<1>3. Agree(t, 0, u, 0, w)
  BY <1>1, <1>2 DEF Agree
<1>4. Text(t) /\ Text(u) /\ Len(t) = w /\ Len(u) = w
  BY DEF Blocked
<1> QED
  BY <1>3, <1>4, TextEqual

LEMMA BlockedIs ==
  ASSUME NEW q, NEW l \in Nat, NEW w, NEW t, Text(q), Len(q) = l, l \div 64 = w, Blocked(t, q, w)
  PROVE  t = Digests!BlocksOf(q)
<1>1. Blocked(Digests!BlocksOf(q), q, w)
  BY BlockedAre
<1> QED
  BY <1>1, BlockedOnce

LEMMA BlockedSame ==
  ASSUME NEW t, NEW q, NEW w \in Nat, NEW z, Blocked(t, q, w), Agree(z, 0, q, 0, 64 * w)
  PROVE  Blocked(t, z, w)
<1>1. ASSUME NEW b \in To(w) PROVE Agree(t[b], 0, z, 64 * (b - 1), 64)
  <2> DEFINE d == 64 * (b - 1)
  <2>1. d \in Nat /\ d + 64 <= 64 * w /\ d = 0 + d /\ 64 * w \in Nat
    BY DEF To
  <2>2. Agree(t[b], 0, q, d, 64)
    BY DEF Blocked
  <2> HIDE DEF d
  <2>3. Agree(z, d, q, d, 64)
    BY <2>1, AgreeWithin
  <2>4. Agree(t[b], 0, z, d, 64)
    BY <2>2, <2>3, AgreeBack, AgreeOn
  <2> QED
    BY <2>4 DEF d
<1> QED
  BY <1>1 DEF Blocked

LEMMA BlockedThen ==
  ASSUME NEW t, NEW q, NEW w \in Nat, NEW z, NEW e, NEW v, v = w + 1,
         Blocked(t, q, w), Agree(z, 0, q, 0, 64 * w), Block64(e), Agree(e, 0, z, 64 * w, 64)
  PROVE  Blocked(Then(t, e), z, v)
<1> DEFINE u == Then(t, e)
<1>1. Blocked(t, z, w)
  BY BlockedSame
<1>2. Text(u) /\ Len(u) = v /\ Agree(u, 0, t, 0, w) /\ u[v] = e
  BY <1>1, TextThen DEF Blocked
<1> HIDE DEF u
<1>3. ASSUME NEW b \in To(v) PROVE Block64(u[b]) /\ Agree(u[b], 0, z, 64 * (b - 1), 64)
  <2>1. CASE b = v
    <3>1. 64 * (b - 1) = 64 * w
      BY <2>1
    <3> QED
      BY <1>2, <2>1, <3>1
  <2>2. CASE b # v
    <3>1. b \in To(w) /\ 0 + b = b
      BY <2>2 DEF To
    <3>2. u[b] = t[b]
      BY <1>2, <3>1 DEF Agree
    <3> QED
      BY <1>1, <3>1, <3>2 DEF Blocked
  <2> QED
    BY <2>1, <2>2
<1>4. Blocked(u, z, v)
  BY <1>2, <1>3 DEF Blocked
<1> QED
  BY <1>4 DEF u

LEMMA BlockedJoin ==
  ASSUME NEW t, NEW z, NEW w \in Nat, NEW u, NEW y, NEW v \in Nat, NEW o, o = w + v,
         Blocked(t, z, w), Blocked(u, y, v), Agree(y, 0, z, 64 * w, 64 * v)
  PROVE  Blocked(Join(t, u), z, o)
<1> DEFINE r == Join(t, u)
<1>1. Text(r) /\ Len(r) = o /\ Agree(r, 0, t, 0, w) /\ Agree(r, w, u, 0, v)
  BY TextJoined DEF Blocked
<1> HIDE DEF r
<1>2. ASSUME NEW b \in To(o) PROVE Block64(r[b]) /\ Agree(r[b], 0, z, 64 * (b - 1), 64)
  <2>1. CASE b <= w
    <3>1. b \in To(w) /\ 0 + b = b
      BY <2>1 DEF To
    <3>2. r[b] = t[b]
      BY <1>1, <3>1 DEF Agree
    <3> QED
      BY <3>1, <3>2 DEF Blocked
  <2>2. CASE ~ (b <= w)
    <3> DEFINE k == b - w
               d == 64 * (k - 1)
               e == 64 * (b - 1)
    <3>1. k \in To(v) /\ w + k = b /\ 0 + k = k
      BY <2>2 DEF To
    <3>2. /\ 64 * v \in Nat /\ 64 * w \in Nat /\ d \in Nat /\ d + 64 <= 64 * v /\ d = 0 + d
          /\ e = 64 * w + d
      BY <2>2 DEF To
    <3> HIDE DEF k
    <3>3. r[b] = u[k]
      BY <1>1, <3>1 DEF Agree
    <3>4. Block64(u[k]) /\ Agree(u[k], 0, y, d, 64)
      BY <3>1 DEF Blocked
    <3> HIDE DEF d, e
    <3>5. Agree(y, d, z, e, 64)
      BY <3>2, AgreeWithin
    <3>6. Agree(u[k], 0, z, e, 64)
      BY <3>4, <3>5, AgreeOn
    <3> QED
      BY <3>3, <3>4, <3>6 DEF e
  <2> QED
    BY <2>1, <2>2
<1>3. Blocked(r, z, o)
  BY <1>1, <1>2 DEF Blocked
<1> QED
  BY <1>3 DEF r

\* A context that the bytes q went through: w blocks compressed, p bytes kept.
HoldsAt(c, q, w, p) ==
  /\ Text(q) /\ Len(q) = 64 * w + p /\ 8 * Len(q) < CountLimit
  /\ c = [state |-> c.state, count |-> 8 * Len(q), buf |-> c.buf]
  /\ Blocked(c.state, q, w) /\ Block64(c.buf) /\ Agree(c.buf, 0, q, 64 * w, p)

Holds(c, q) == \E w \in Nat, p \in 0 .. 63 : HoldsAt(c, q, w, p)

First(b, p, q) == Digests!Put(b, p, Part(q, 1, 64 - p))
Beyond(p, q) == Part(q, 65 - p, Len(q))
Wholes(p, q) == Len(Beyond(p, q)) \div 64
Further(p, q) == [b \in To(Wholes(p, q)) |-> Part(Beyond(p, q), 64 * b - 63, 64 * b)]

LEMMA UpdateIs ==
  ASSUME NEW c, NEW q, NEW p, p = Digests!Buffered(c), NEW t, t = (c.count + 8 * Len(q)) % CountLimit
  PROVE  Digests!SHA256_Update(c, q)
           = IF Len(q) < 64 - p
               THEN [c EXCEPT !.count = t, !.buf = Digests!Put(c.buf, p, q)]
               ELSE [state |-> Join(Then(c.state, First(c.buf, p, q)), Further(p, q)), count |-> t,
                     buf |-> Digests!Put(First(c.buf, p, q), 0,
                               Part(Beyond(p, q), 64 * Wholes(p, q) + 1, Len(Beyond(p, q))))]
BY DEF Digests!SHA256_Update, First, Beyond, Wholes, Further, Digests!SHA256_Transform,
       Part, Join, Then, To

LEMMA Small ==
  ASSUME NEW k \in Nat, NEW l \in Nat, k < l
  PROVE  k % l = k
OBVIOUS

LEMMA BufferedIs ==
  ASSUME NEW c, NEW q, NEW w \in Nat, NEW p \in 0 .. 63, HoldsAt(c, q, w, p)
  PROVE  Digests!Buffered(c) = p /\ c.count = 8 * Len(q) /\ Len(q) \in Nat
<1> DEFINE l == Len(q)
<1>1. c.count = 8 * l /\ l = 64 * w + p
  BY DEF HoldsAt
<1> HIDE DEF l
<1>2. l \in Nat /\ l % 64 = p
  BY <1>1, Parts64
<1>3. (8 * l) \div 8 = l
  BY <1>2, Blocks64
<1>4. Digests!Buffered(c) = p
  BY <1>1, <1>2, <1>3 DEF Digests!Buffered
<1> QED
  BY <1>1, <1>2, <1>4 DEF l

LEMMA Room ==
  ASSUME NEW w \in Nat, NEW p \in 0 .. 63, NEW l \in Nat, l < 64 - p
  PROVE  64 * w \in Nat /\ p \in Nat /\ p + l \in 0 .. 63 /\ p + l \in Nat /\ p + l <= 64
OBVIOUS

LEMMA CountIs ==
  ASSUME NEW c, NEW q, Holds(c, q), NEW z, Text(z), 8 * (Len(q) + Len(z)) < CountLimit
  PROVE  (c.count + 8 * Len(z)) % CountLimit = 8 * (Len(q) + Len(z))
<1>1. c.count = 8 * Len(q) /\ Len(q) \in Nat
  BY BufferedIs DEF Holds
<1>2. Len(z) \in Nat
  BY TextIs
<1>3. CountLimit \in Nat
  BY HasherAssumption
<1> DEFINE t == 8 * (Len(q) + Len(z))
<1>4. t \in Nat /\ c.count + 8 * Len(z) = t /\ t < CountLimit
  BY <1>1, <1>2
<1> HIDE DEF t
<1>5. t % CountLimit = t
  BY <1>3, <1>4, Small
<1> QED
  BY <1>4, <1>5 DEF t

\* What is added fits into the buffer, or fills it.
LEMMA UpdateShort ==
  ASSUME NEW c, NEW q, NEW w \in Nat, NEW p \in 0 .. 63, HoldsAt(c, q, w, p),
         NEW a, NEW l \in Nat, Text(a), Len(a) = l, l < 64 - p,
         NEW t, t = 8 * (Len(q) + l), t < CountLimit,
         NEW u, u = [state |-> c.state, count |-> t, buf |-> Digests!Put(c.buf, p, a)]
  PROVE  HoldsAt(u, Join(q, a), w, p + l)
<1> DEFINE z == Join(q, a)
           b == Digests!Put(c.buf, p, a)
           h == Len(q)
           e == 64 * w
           sum == p + l
<1>1. /\ Text(q) /\ h = e + p
      /\ Blocked(c.state, q, w) /\ Block64(c.buf) /\ Agree(c.buf, 0, q, e, p)
  BY DEF HoldsAt
<1>0. e \in Nat /\ h \in Nat /\ p \in Nat /\ sum \in 0 .. 63 /\ sum \in Nat /\ sum <= 64 /\ 0 \in Nat /\ e <= h
      /\ 0 + e = e /\ 0 + e <= h /\ e + p <= h /\ 0 + p = p
  <2>1. e \in Nat /\ p \in Nat /\ sum \in 0 .. 63 /\ sum \in Nat /\ sum <= 64
    BY Room
  <2>2. h = e + p
    BY <1>1
  <2> HIDE DEF e, h, sum
  <2> QED
    BY <2>1, <2>2
<1>2. /\ Text(z) /\ Len(z) = h + l /\ Agree(z, 0, q, 0, h) /\ Agree(z, h, a, 0, l)
  BY <1>1, TextJoined
<1>3. Block64(b) /\ Agree(b, 0, c.buf, 0, p) /\ Agree(b, p, a, 0, l)
  BY <1>0, PutIs
<1>4. u.state = c.state /\ u.buf = b /\ u = [state |-> u.state, count |-> t, buf |-> u.buf]
  OBVIOUS
<1> HIDE DEF z, b, h, e, sum
<1>5. Agree(z, 0, q, 0, e) /\ Agree(z, e, q, e, p)
  <2>1. Agree(z, 0, q, 0, e)
    BY <1>0, <1>2, AgreeFront
  <2>2. Agree(z, e, q, e, p)
    BY <1>0, <1>2, AgreeWithin, Zenon
  <2> QED
    BY <2>1, <2>2
<1>6. Blocked(c.state, z, w)
  BY <1>1, <1>5, BlockedSame DEF e
<1>7. Agree(b, 0, z, e, p)
  BY <1>1, <1>3, <1>5, AgreeOn, AgreeBack
<1>8. Agree(b, p, z, h, l)
  BY <1>2, <1>3, AgreeOn, AgreeBack
<1>9. Agree(b, 0, z, e, sum)
  <2>1. sum = p + l /\ h = e + p
    BY <1>1 DEF sum
  <2> QED
    BY <1>0, <1>7, <1>8, <2>1, AgreeBoth
<1>10. Len(z) = e + sum /\ t = 8 * Len(z)
  <2>1. h = e + p /\ sum = p + l /\ t = 8 * (h + l) /\ Len(z) = h + l
    BY <1>1, <1>2 DEF sum, h
  <2> QED
    BY <1>0, <2>1
<1> QED
  BY <1>2, <1>3, <1>4, <1>6, <1>9, <1>10 DEF HoldsAt, z, e, sum

LEMMA RoomLong ==
  ASSUME NEW w \in Nat, NEW p \in 0 .. 63, NEW l \in Nat, ~ (l < 64 - p), NEW m, m = l - (64 - p)
  PROVE  /\ p \in Nat /\ 64 - p \in Nat /\ 64 - p <= l /\ p + (64 - p) = 64
         /\ 64 - p >= 1 /\ 65 - p \in Nat /\ 65 - p >= 1 /\ 65 - p <= l + 1 /\ l + 1 - (65 - p) = m
         /\ (65 - p) - 1 = 64 - p /\ (64 - p) + 1 - 1 = 64 - p /\ m \in Nat
         /\ 64 * w \in Nat /\ (64 * w + p) + (64 - p) = 64 * (w + 1) /\ w + 1 \in Nat
         /\ 64 * (w + 1) \in Nat /\ (64 * w + p) + l = 64 * (w + 1) + m
OBVIOUS

\* The block that is filled.
LEMMA FirstIs ==
  ASSUME NEW c, NEW q, NEW w \in Nat, NEW p \in 0 .. 63, HoldsAt(c, q, w, p),
         NEW a, NEW l \in Nat, Text(a), Len(a) = l, ~ (l < 64 - p)
  PROVE  /\ Block64(First(c.buf, p, a))
         /\ Agree(First(c.buf, p, a), 0, Join(q, a), 64 * w, 64)
<1> DEFINE z == Join(q, a)
           h == Len(q)
           e == 64 * w
           k == 64 - p
           b == First(c.buf, p, a)
           piece == Part(a, 1, k)
<1>1. /\ Text(q) /\ h = e + p /\ Block64(c.buf) /\ Agree(c.buf, 0, q, e, p)
  BY DEF HoldsAt
<1>2. /\ p \in Nat /\ k \in Nat /\ k <= l /\ p + k = 64 /\ k >= 1 /\ e \in Nat
      /\ 1 \in Nat /\ 1 >= 1 /\ 1 <= k + 1 /\ 1 - 1 = 0 /\ k + 1 - 1 = k
  BY RoomLong
<1>3. b = Digests!Put(c.buf, p, piece)
  BY DEF First
<1>4. /\ Text(z) /\ Agree(z, 0, q, 0, h) /\ Agree(z, h, a, 0, l)
  BY <1>1, TextJoined
<1> HIDE DEF z, h, e, k, piece, b
<1>5. Text(piece) /\ Len(piece) = k /\ Agree(piece, 0, a, 0, k)
  <2>1. Text(piece) /\ Len(piece) = k + 1 - 1 /\ Agree(piece, 0, a, 1 - 1, k + 1 - 1)
    BY <1>2, TextPart DEF piece
  <2> QED
    BY <1>2, <2>1
<1>6. Block64(b) /\ Agree(b, 0, c.buf, 0, p) /\ Agree(b, p, piece, 0, k)
  <2>1. p + k <= 64
    BY <1>2
  <2> QED
    BY <1>2, <1>3, <1>5, <2>1, PutIs
<1>7. Agree(z, e, q, e, p)
  <2>1. h \in Nat /\ e + p <= h /\ 0 + e = e /\ 0 \in Nat
    BY <1>1, <1>2
  <2> QED
    BY <1>2, <1>4, <2>1, AgreeWithin, Zenon
<1>8. Agree(b, 0, z, e, p)
  BY <1>1, <1>6, <1>7, AgreeOn, AgreeBack
<1>9. Agree(b, p, z, h, k)
  <2>1. Agree(z, h, a, 0, k)
    BY <1>2, <1>4, AgreeFront
  <2> QED
    BY <1>5, <1>6, <2>1, AgreeOn, AgreeBack
<1>10. Agree(b, 0, z, e, 64)
  <2>1. p = 0 + p /\ 64 = p + k
    BY <1>2
  <2> QED
    BY <1>1, <1>2, <1>8, <1>9, <2>1, AgreeBoth
<1> QED
  BY <1>6, <1>10 DEF b, z, e

LEMMA RestIs ==
  ASSUME NEW p \in 0 .. 63, NEW a, NEW l \in Nat, Text(a), Len(a) = l, ~ (l < 64 - p)
  PROVE  /\ Text(Beyond(p, a)) /\ Len(Beyond(p, a)) = l - (64 - p) /\ l - (64 - p) \in Nat
         /\ Agree(Beyond(p, a), 0, a, 64 - p, l - (64 - p))
<1> DEFINE d == 65 - p
           m == l - (64 - p)
<1>1. d \in Nat /\ d >= 1 /\ d <= l + 1 /\ l + 1 - d = m /\ d - 1 = 64 - p /\ m \in Nat
  BY RoomLong
<1> HIDE DEF d, m
<1>2. /\ Text(Part(a, d, l)) /\ Len(Part(a, d, l)) = l + 1 - d
      /\ Agree(Part(a, d, l), 0, a, d - 1, l + 1 - d)
  <2>1. l <= Len(a)
    OBVIOUS
  <2> QED
    BY <1>1, <2>1, TextPart
<1>3. Beyond(p, a) = Part(a, d, l)
  BY DEF Beyond, d
<1> QED
  BY <1>1, <1>2, <1>3 DEF m

LEMMA UpdateLong ==
  ASSUME NEW c, NEW q, NEW w \in Nat, NEW p \in 0 .. 63, HoldsAt(c, q, w, p),
         NEW a, NEW l \in Nat, Text(a), Len(a) = l, ~ (l < 64 - p),
         NEW t, t = 8 * (Len(q) + l), t < CountLimit,
         NEW u, u = [state |-> Join(Then(c.state, First(c.buf, p, a)), Further(p, a)), count |-> t,
                     buf |-> Digests!Put(First(c.buf, p, a), 0,
                               Part(Beyond(p, a), 64 * Wholes(p, a) + 1, Len(Beyond(p, a))))]
  PROVE  Holds(u, Join(q, a))
<1> DEFINE z == Join(q, a)
           h == Len(q)
           k == 64 - p
           f == First(c.buf, p, a)
           y == Beyond(p, a)
           m == l - k
           v == m \div 64
           r == m % 64
           w1 == w + 1
           o == w1 + v
           e == 64 * w1
           g == 64 * v
           piece == Part(y, g + 1, m)
           b == Digests!Put(f, 0, piece)
<1>1. Text(q) /\ h = 64 * w + p /\ Blocked(c.state, q, w)
  BY DEF HoldsAt
<1>2. Block64(f) /\ Agree(f, 0, z, 64 * w, 64)
  BY FirstIs
<1>3. Text(y) /\ Len(y) = m /\ m \in Nat /\ Agree(y, 0, a, k, m)
  BY RestIs, Zenon
<1>4. /\ Text(z) /\ Len(z) = h + l /\ Agree(z, 0, q, 0, h) /\ Agree(z, h, a, 0, l)
  BY <1>1, TextJoined
<1>5. /\ v \in Nat /\ r \in 0 .. 63 /\ m = g + r /\ g \in Nat
  BY <1>3, Blocks64
<1>6. /\ k \in Nat /\ k <= l /\ 64 * w \in Nat /\ h + k = e /\ w1 \in Nat /\ e \in Nat
      /\ h + l = e + m /\ h \in Nat /\ 64 * w <= h
  <2>1. /\ k \in Nat /\ k <= l /\ 64 * w \in Nat /\ (64 * w + p) + k = e /\ w1 \in Nat /\ e \in Nat
        /\ (64 * w + p) + l = e + m /\ p \in Nat
    BY RoomLong
  <2> HIDE DEF e, m, k, h
  <2> QED
    BY <1>1, <2>1
<1>7. /\ u.state = Join(Then(c.state, f), Further(p, a)) /\ u.count = t /\ u.buf = b
      /\ u = [state |-> u.state, count |-> t, buf |-> u.buf]
  BY <1>3 DEF Wholes
<1>8. Blocked(Further(p, a), y, v)
  <2>1. Further(p, a) = [d \in To(v) |-> Part(y, 64 * d - 63, 64 * d)]
    BY <1>3 DEF Further, Wholes
  <2> HIDE DEF y, m
  <2>2. Digests!BlocksOf(y) = [d \in To(v) |-> Part(y, 64 * d - 63, 64 * d)]
    BY <1>3, BlockedAre
  <2>3. Blocked(Digests!BlocksOf(y), y, v)
    BY <1>3, BlockedAre
  <2> QED
    BY <2>1, <2>2, <2>3
<1> HIDE DEF z, h, k, f, y, m, v, r, b, piece
<1>9. Blocked(Then(c.state, f), z, w1)
  <2>1. Agree(z, 0, q, 0, 64 * w)
    BY <1>4, <1>6, AgreeFront
  <2> QED
    BY <1>1, <1>2, <2>1, BlockedThen
<1> HIDE DEF w1
<1>10. Agree(y, 0, z, e, m)
  <2>1. Agree(z, e, a, k, m)
    <3>1. k + m <= l /\ e = h + k /\ 0 + k = k /\ 0 \in Nat
      BY <1>6 DEF m
    <3> QED
      BY <1>3, <1>4, <1>6, <3>1, AgreeWithin, Zenon
  <2> QED
    BY <1>3, <2>1, AgreeOn, AgreeBack
<1>11. Agree(y, 0, z, e, g)
  BY <1>3, <1>5, <1>10, AgreeFront
<1>12. Blocked(u.state, z, o)
  BY <1>5, <1>6, <1>7, <1>8, <1>9, <1>11, BlockedJoin
<1> HIDE DEF g, e
<1>13. Text(piece) /\ Len(piece) = r /\ Agree(piece, 0, y, g, r)
  <2> DEFINE d == g + 1
  <2>1. d \in Nat /\ d >= 1 /\ d <= m + 1 /\ m + 1 - d = r /\ d - 1 = g /\ m <= Len(y)
    BY <1>3, <1>5
  <2> HIDE DEF d
  <2>2. /\ Text(Part(y, d, m)) /\ Len(Part(y, d, m)) = m + 1 - d
        /\ Agree(Part(y, d, m), 0, y, d - 1, m + 1 - d)
    BY <1>3, <2>1, TextPart
  <2> QED
    BY <2>1, <2>2 DEF piece, d
<1>14. Block64(b) /\ Agree(b, 0, piece, 0, r)
  <2>1. 0 \in Nat /\ r \in Nat /\ 0 + r <= 64
    BY <1>5
  <2> QED
    BY <1>13, <2>1, PutIs DEF b
<1>15. Agree(b, 0, z, 64 * o, r)
  <2>1. 64 * o = e + g /\ g \in Nat /\ e \in Nat /\ r \in Nat /\ g + r <= m /\ 0 + g = g /\ 0 \in Nat
    BY <1>5, <1>6 DEF e, g
  <2>2. Agree(y, g, z, 64 * o, r)
    BY <1>3, <1>10, <2>1, AgreeWithin, Zenon
  <2> QED
    BY <1>13, <1>14, <2>2, AgreeOn
<1>16. o \in Nat /\ Len(z) = 64 * o + r /\ t = 8 * Len(z)
  BY <1>4, <1>5, <1>6 DEF e, g, h
<1>17. HoldsAt(u, z, o, r)
  <2> HIDE DEF o
  <2> QED
    BY <1>4, <1>7, <1>12, <1>14, <1>15, <1>16 DEF HoldsAt
<1>18. Holds(u, z)
  BY <1>5, <1>16, <1>17 DEF Holds
<1> QED
  BY <1>18 DEF z

LEMMA UpdateKeeps ==
  ASSUME NEW c, NEW q, NEW a, Holds(c, q), Text(a), 8 * (Len(q) + Len(a)) < CountLimit
  PROVE  Holds(Digests!SHA256_Update(c, a), Join(q, a))
<1>1. PICK w \in Nat, p \in 0 .. 63 : HoldsAt(c, q, w, p)
  BY DEF Holds
<1> DEFINE l == Len(a)
           t == (c.count + 8 * l) % CountLimit
           u == Digests!SHA256_Update(c, a)
<1>2. p = Digests!Buffered(c)
  BY <1>1, BufferedIs
<1>3. t = 8 * (Len(q) + l) /\ t < CountLimit
  BY CountIs
<1>4. l \in Nat
  BY TextIs
<1>5. CASE l < 64 - p
  <2>1. u = [c EXCEPT !.count = t, !.buf = Digests!Put(c.buf, p, a)]
    BY <1>2, <1>5, UpdateIs
  <2>2. c = [state |-> c.state, count |-> c.count, buf |-> c.buf]
    BY <1>1 DEF HoldsAt
  <2> HIDE DEF u, t, l
  <2>3. u = [state |-> c.state, count |-> t, buf |-> Digests!Put(c.buf, p, a)]
    BY <2>1, <2>2
  <2>4. HoldsAt(u, Join(q, a), w, p + l)
    BY <1>1, <1>3, <1>4, <1>5, <2>3, UpdateShort DEF l
  <2>5. p + l \in 0 .. 63
    BY <1>4, <1>5
  <2> QED
    BY <2>4, <2>5 DEF Holds, u
<1>6. CASE ~ (l < 64 - p)
  <2>1. u = [state |-> Join(Then(c.state, First(c.buf, p, a)), Further(p, a)), count |-> t,
             buf |-> Digests!Put(First(c.buf, p, a), 0,
                       Part(Beyond(p, a), 64 * Wholes(p, a) + 1, Len(Beyond(p, a))))]
    BY <1>2, <1>6, UpdateIs
  <2> HIDE DEF u, t
  <2>2. Holds(u, Join(q, a))
    BY <1>1, <1>3, <1>4, <1>6, <2>1, UpdateLong
  <2> QED
    BY <2>2 DEF u
<1> QED
  BY <1>5, <1>6

One == <<Digests!Value(128)>>

LEMMA ZerosIs ==
  ASSUME NEW l \in Nat
  PROVE  /\ Text(Digests!Zeros(l)) /\ Len(Digests!Zeros(l)) = l
         /\ \A k \in To(l) : Digests!Zeros(l)[k] = Digests!Value(0)
<1> DEFINE z == Digests!Zeros(l)
<1>1. z = [k \in To(l) |-> z[k]] /\ \A k \in To(l) : z[k] = Digests!Value(0)
  BY DEF Digests!Zeros, To
<1> HIDE DEF z
<1>2. Text(z) /\ Len(z) = l
  BY <1>1, TextMade
<1> QED
  BY <1>1, <1>2 DEF z

LEMMA ZerosAgree ==
  ASSUME NEW l \in Nat, NEW m \in Nat, NEW a \in Nat, NEW b \in Nat, NEW k \in Nat,
         a + k <= l, b + k <= m
  PROVE  Agree(Digests!Zeros(l), a, Digests!Zeros(m), b, k)
<1>1. \A g \in To(k) : a + g \in To(l) /\ b + g \in To(m)
  BY DEF To
<1> QED
  BY <1>1, ZerosIs DEF Agree

LEMMA OneIs == Text(One) /\ Len(One) = 1
<1>1. One = [k \in To(1) |-> One[k]] /\ 1 \in Nat
  BY DEF One, To
<1> QED
  BY <1>1, TextMade

LEMMA JoinedIs ==
  ASSUME NEW p, NEW q, Text(p), Text(q), NEW l, NEW m, Len(p) = l, Len(q) = m
  PROVE  /\ Text(Join(p, q)) /\ Len(Join(p, q)) = l + m
         /\ Agree(Join(p, q), 0, p, 0, l) /\ Agree(Join(p, q), l, q, 0, m)
BY TextJoined

LEMMA PadIs ==
  /\ Text(Digests!PAD) /\ Len(Digests!PAD) = 64
  /\ Agree(Digests!PAD, 0, One, 0, 1) /\ Agree(Digests!PAD, 1, Digests!Zeros(63), 0, 63)
<1> DEFINE z == Digests!Zeros(63)
<1>1. Digests!PAD = Join(One, z)
  BY DEF Digests!PAD, Join, One
<1>2. Text(z) /\ Len(z) = 63
  <2>1. 63 \in Nat
    OBVIOUS
  <2> QED
    BY <2>1, ZerosIs
<1> HIDE DEF z
<1>3. /\ Text(Join(One, z)) /\ Len(Join(One, z)) = 1 + 63
      /\ Agree(Join(One, z), 0, One, 0, 1) /\ Agree(Join(One, z), 1, z, 0, 63)
  BY <1>2, OneIs, JoinedIs, Zenon
<1>4. 1 + 63 = 64
  OBVIOUS
<1> QED
  BY <1>1, <1>3, <1>4 DEF z

LEMMA LengthIs ==
  ASSUME NEW v
  PROVE  /\ Text(Digests!be32enc(v)) /\ Len(Digests!be32enc(v)) = 4
         /\ Text(Digests!be64enc(v)) /\ Len(Digests!be64enc(v)) = 8
         /\ Agree(Digests!be64enc(v), 0, Digests!Zeros(4), 0, 4)
         /\ Agree(Digests!be64enc(v), 4, Digests!be32enc(v), 0, 4)
<1> DEFINE b == Digests!be32enc(v)
           z == Digests!Zeros(4)
<1>1. b = [k \in To(4) |-> b[k]]
  BY DEF Digests!be32enc, To
<1>2. Digests!be64enc(v) = Join(z, b)
  BY DEF Digests!be64enc, Join
<1>3. 4 \in Nat
  OBVIOUS
<1>4. Text(z) /\ Len(z) = 4
  BY <1>3, ZerosIs
<1> HIDE DEF b, z
<1>5. Text(b) /\ Len(b) = 4
  BY <1>1, <1>3, TextMade
<1>6. /\ Text(Join(z, b)) /\ Len(Join(z, b)) = 4 + 4
      /\ Agree(Join(z, b), 0, z, 0, 4) /\ Agree(Join(z, b), 4, b, 0, 4)
  BY <1>4, <1>5, TextJoined
<1> QED
  BY <1>2, <1>5, <1>6 DEF b, z

\* AgreeWithin where both begin at the same place.
LEMMA AgreeInside ==
  ASSUME NEW p, NEW q, NEW l \in Nat, Agree(p, 0, q, 0, l),
         NEW d \in Nat, NEW m \in Nat, d + m <= l
  PROVE  Agree(p, d, q, d, m)
<1>1. 0 + d = d /\ 0 \in Nat
  OBVIOUS
<1> QED
  BY <1>1, AgreeWithin, Zenon

\* The padded bytes: a one, zeros up to eight bytes before the end of a block,
\* and the length.
LEMMA PadRoom ==
  ASSUME NEW p \in 0 .. 63, NEW z, z = (119 - p) % 64
  PROVE  z \in 0 .. 63 /\ z = IF p < 56 THEN 55 - p ELSE 119 - p
OBVIOUS

LEMMA PaddedIs ==
  ASSUME NEW q, NEW l \in Nat, Text(q), Len(q) = l, NEW z, z = (119 - (l % 64)) % 64
  PROVE  /\ Text(Digests!Padded(q)) /\ Len(Digests!Padded(q)) = l + z + 9 /\ z \in 0 .. 63
         /\ Agree(Digests!Padded(q), 0, q, 0, l)
         /\ Agree(Digests!Padded(q), l, Digests!PAD, 0, 1 + z)
         /\ Agree(Digests!Padded(q), l + z + 1, Digests!be64enc(8 * l), 0, 8)
<1> DEFINE P == Digests!Padded(q)
           Z == Digests!Zeros(z)
           E == Digests!be64enc(8 * l)
           A == Join(q, One)
           B == Join(A, Z)
           e == l + 1
           f == l + z + 1
           g == 1 + z
<1>1. P = Join(B, E)
  BY DEF Digests!Padded, Join, One
<1>2. z \in 0 .. 63 /\ z \in Nat
  <2>1. l % 64 \in 0 .. 63
    BY Blocks64
  <2> QED
    BY <2>1, PadRoom
<1>3. Text(Z) /\ Len(Z) = z
  BY <1>2, ZerosIs
<1>4. Text(E) /\ Len(E) = 8
  BY LengthIs
<1>5. Text(A) /\ Len(A) = e /\ Agree(A, 0, q, 0, l) /\ Agree(A, l, One, 0, 1)
  BY OneIs, TextJoined
<1>6. e \in Nat /\ f \in Nat /\ f = e + z /\ g \in Nat /\ l <= e /\ e <= f /\ l + 1 = e
      /\ 0 + 1 = 1 /\ 1 \in Nat /\ 0 \in Nat /\ 1 + z = g /\ l + 1 <= e /\ 0 + l = l /\ e <= f
      /\ l <= f /\ 0 + e = e
  BY <1>2
<1> HIDE DEF P, Z, E, A, B, e, f, g
<1>7. Text(B) /\ Len(B) = f /\ Agree(B, 0, A, 0, e) /\ Agree(B, e, Z, 0, z)
  BY <1>3, <1>5, <1>6, TextJoined DEF B
<1>8. Text(P) /\ Len(P) = f + 8 /\ Agree(P, 0, B, 0, f) /\ Agree(P, f, E, 0, 8)
  BY <1>1, <1>4, <1>7, TextJoined
<1>9. Agree(P, 0, A, 0, e)
  BY <1>6, <1>7, <1>8, AgreeFront, AgreeOn
<1>10. Agree(P, 0, q, 0, l)
  BY <1>5, <1>6, <1>9, AgreeFront, AgreeOn
<1>11. Agree(P, l, One, 0, 1)
  <2>1. Agree(P, l, A, l, 1)
    BY <1>6, <1>9, AgreeInside, Zenon
  <2> QED
    BY <1>5, <2>1, AgreeOn
<1>12. Agree(P, e, Z, 0, z)
  <2>1. Agree(P, e, B, e, z)
    <3>1. e + z <= f
      BY <1>6
    <3> QED
      BY <1>2, <1>6, <1>8, <3>1, AgreeInside, Zenon
  <2> QED
    BY <1>7, <2>1, AgreeOn
<1>13. Agree(P, l, Digests!PAD, 0, g)
  <2>1. Agree(P, l, Digests!PAD, 0, 1)
    BY <1>11, PadIs, AgreeOn, AgreeBack
  <2>2. Agree(Z, 0, Digests!Zeros(63), 0, z)
    <3>1. 63 \in Nat /\ 0 + z <= z /\ 0 + z <= 63
      BY <1>2
    <3> QED
      BY <1>2, <1>6, <3>1, ZerosAgree DEF Z
  <2>3. Agree(Digests!PAD, 1, Digests!Zeros(63), 0, z)
    <3>1. 63 \in Nat /\ z <= 63
      BY <1>2
    <3> QED
      BY <1>2, <3>1, PadIs, AgreeFront
  <2>4. Agree(P, e, Digests!PAD, 1, z)
    BY <1>12, <2>2, <2>3, AgreeOn, AgreeBack
  <2> QED
    BY <1>2, <1>6, <2>1, <2>4, AgreeBoth
<1>14. f + 8 = l + z + 9
  BY <1>2 DEF f
<1> QED
  BY <1>2, <1>8, <1>10, <1>13, <1>14 DEF P, E, f, g

LEMMA PadPart ==
  ASSUME NEW k \in Nat, k >= 1, k <= 64
  PROVE  /\ Text(Part(Digests!PAD, 1, k)) /\ Len(Part(Digests!PAD, 1, k)) = k
         /\ Agree(Part(Digests!PAD, 1, k), 0, Digests!PAD, 0, k)
<1> DEFINE D == Digests!PAD
<1>1. Text(D) /\ Len(D) = 64
  BY PadIs
<1>2. 1 \in Nat /\ 1 >= 1 /\ 1 <= k + 1 /\ k + 1 - 1 = k /\ 1 - 1 = 0
  OBVIOUS
<1> HIDE DEF D
<1>3. /\ Text(Part(D, 1, k)) /\ Len(Part(D, 1, k)) = k + 1 - 1
      /\ Agree(Part(D, 1, k), 0, D, 1 - 1, k + 1 - 1)
  BY <1>1, <1>2, TextPart
<1> QED
  BY <1>2, <1>3 DEF D

\* Padding follows what is buffered.
LEMMA FillIs ==
  ASSUME NEW c, NEW q, NEW w \in Nat, NEW p \in 0 .. 63, HoldsAt(c, q, w, p),
         NEW z, Agree(z, 0, q, 0, Len(q)), NEW m \in Nat, Agree(z, Len(q), Digests!PAD, 0, m),
         NEW k \in Nat, k >= 1, k <= m, p + k <= 64
  PROVE  /\ Block64(Digests!Put(c.buf, p, Part(Digests!PAD, 1, k)))
         /\ Agree(Digests!Put(c.buf, p, Part(Digests!PAD, 1, k)), 0, z, 64 * w, p + k)
<1> DEFINE D == Digests!PAD
           t == Part(D, 1, k)
           b == Digests!Put(c.buf, p, t)
           e == 64 * w
           h == Len(q)
           f == p + k
<1>1. /\ Text(q) /\ h = e + p /\ Block64(c.buf) /\ Agree(c.buf, 0, q, e, p)
  BY DEF HoldsAt
<1>2. e \in Nat /\ p \in Nat /\ k <= 64 /\ f = p + k
  OBVIOUS
<1>3. Text(t) /\ Len(t) = k /\ Agree(t, 0, D, 0, k)
  BY <1>2, PadPart
<1> HIDE DEF e, f
<1>4. h \in Nat /\ e + p <= h /\ 0 + p = p
  BY <1>1, <1>2
<1> HIDE DEF h, D, t, b
<1>5. Block64(b) /\ Agree(b, 0, c.buf, 0, p) /\ Agree(b, p, t, 0, k)
  BY <1>2, <1>3, PutIs DEF b
<1>6. Agree(b, 0, z, e, p)
  <2>1. Agree(z, 0, q, 0, h)
    BY DEF h
  <2>2. Agree(z, e, q, e, p)
    BY <1>2, <1>4, <2>1, AgreeInside, Zenon
  <2> QED
    BY <1>1, <1>5, <2>2, AgreeOn, AgreeBack
<1>7. Agree(b, p, z, h, k)
  <2>1. Agree(z, h, D, 0, m)
    BY DEF h, D
  <2>2. Agree(z, h, D, 0, k)
    BY <2>1, AgreeFront
  <2> QED
    BY <1>3, <1>5, <2>2, AgreeOn, AgreeBack
<1>8. Agree(b, 0, z, e, f)
  BY <1>1, <1>2, <1>4, <1>6, <1>7, AgreeBoth
<1> QED
  BY <1>5, <1>8 DEF b, t, D, e, f

\* The length ends the last block.
LEMMA PadTailIs ==
  ASSUME NEW b, NEW z, NEW e \in Nat, Agree(b, 0, z, e, 56), NEW v,
         NEW f, f = e + 56, Agree(z, f, Digests!be64enc(v), 0, 8)
  PROVE  /\ Block64(Digests!Put(b, 56, Digests!be64enc(v)))
         /\ Agree(Digests!Put(b, 56, Digests!be64enc(v)), 0, z, e, 64)
<1> DEFINE E == Digests!be64enc(v)
           a == Digests!Put(b, 56, E)
           m == 56
           k == 8
           o == 64
<1>1. Text(E) /\ Len(E) = k
  BY LengthIs
<1>2. m \in Nat /\ k \in Nat /\ m + k <= o /\ o = m + k /\ 0 + m = m /\ 0 \in Nat /\ f = e + m /\ o = 64
  OBVIOUS
<1>3. Agree(b, 0, z, e, m) /\ Agree(z, f, E, 0, k) /\ a = Digests!Put(b, m, E)
  OBVIOUS
<1> HIDE DEF E, m, k, o, a
<1>4. Block64(a) /\ Agree(a, 0, b, 0, m) /\ Agree(a, m, E, 0, k)
  <2>1. m + k <= 64
    BY <1>2
  <2> QED
    BY <1>1, <1>2, <1>3, <2>1, PutIs
<1>5. Agree(a, 0, z, e, m) /\ Agree(a, m, z, f, k)
  BY <1>3, <1>4, AgreeOn, AgreeBack
<1>6. Agree(a, 0, z, e, o)
  <2>1. /\ 0 \in Nat /\ e \in Nat /\ m \in Nat /\ k \in Nat
        /\ m = 0 + m /\ f = e + m /\ o = m + k
    BY <1>2
  <2>2. Agree(a, 0, z, e, m) /\ Agree(a, m, z, f, k)
    BY <1>5
  <2> QED
    BY <2>1, <2>2, AgreeBoth, ZenonT(30)
<1> QED
  BY <1>4, <1>6 DEF a, o, E

LEMMA FinalRoom ==
  ASSUME NEW w \in Nat, NEW p \in 0 .. 63, NEW l, l = 64 * w + p, NEW z,
         z = IF p < 56 THEN 55 - p ELSE 119 - p, NEW t, t = l + z + 9
  PROVE  /\ l \in Nat /\ z \in Nat /\ 1 + z \in Nat /\ w + 1 \in Nat /\ t \in Nat /\ p \in Nat
         /\ 64 * w \in Nat /\ 64 * w <= l /\ 64 * (w + 1) \in Nat
         /\ p < 56 =>
              /\ 56 - p \in Nat /\ 56 - p >= 1 /\ 56 - p <= 1 + z /\ p + (56 - p) <= 64
              /\ p + (56 - p) = 56 /\ l + z + 1 = 64 * w + 56 /\ t \div 64 = w + 1
         /\ ~ (p < 56) =>
              /\ 64 - p \in Nat /\ 64 - p >= 1 /\ 64 - p <= 1 + z /\ p + (64 - p) <= 64
              /\ p + (64 - p) = 64 /\ l + (64 - p) = 64 * (w + 1) /\ (64 - p) + 56 <= 1 + z
              /\ l + z + 1 = 64 * (w + 1) + 56 /\ t \div 64 = (w + 1) + 1
              /\ 1 + (63 - p) = 64 - p /\ 63 - p \in Nat /\ (63 - p) + 56 <= 119 - p
              /\ 0 + (64 - p) = 64 - p
OBVIOUS

\* The last block, where there is one block more.
LEMMA ShortBlock ==
  ASSUME NEW c, NEW q, NEW w \in Nat, NEW p \in 0 .. 63, HoldsAt(c, q, w, p), p < 56
  PROVE  /\ Block64(Digests!Put(Digests!Put(c.buf, p, Part(Digests!PAD, 1, 56 - p)), 56,
                                Digests!be64enc(c.count)))
         /\ Agree(Digests!Put(Digests!Put(c.buf, p, Part(Digests!PAD, 1, 56 - p)), 56,
                              Digests!be64enc(c.count)), 0, Digests!Padded(q), 64 * w, 64)
<1> DEFINE l == Len(q)
           P == Digests!Padded(q)
           E == Digests!be64enc(8 * l)
           z == (119 - (l % 64)) % 64
           h == l + z + 9
           k == 56 - p
           b == Digests!Put(c.buf, p, Part(Digests!PAD, 1, k))
           a == Digests!Put(b, 56, E)
           e == 64 * w
           v == w + 1
<1>1. /\ Text(q) /\ l = e + p /\ c.count = 8 * l /\ Blocked(c.state, q, w)
  BY DEF HoldsAt
<1>2. l \in Nat /\ l % 64 = p
  BY <1>1, Parts64
<1>3. z = IF p < 56 THEN 55 - p ELSE 119 - p
  BY <1>2, PadRoom
<1>4. /\ Text(P) /\ Len(P) = h /\ Agree(P, 0, q, 0, l) /\ Agree(P, l, Digests!PAD, 0, 1 + z)
      /\ Agree(P, l + z + 1, E, 0, 8)
  BY <1>1, <1>2, PaddedIs
<1>5. /\ z \in Nat /\ 1 + z \in Nat /\ h \in Nat /\ e \in Nat /\ e <= l
      /\ k \in Nat /\ k >= 1 /\ k <= 1 + z /\ p + k <= 64 /\ p + k = 56
      /\ l + z + 1 = e + 56 /\ h \div 64 = v
  <2> HIDE DEF z
  <2> QED
    BY <1>1, <1>3, FinalRoom
<1> HIDE DEF P, E, z, h, k, e
<1>6. Block64(b) /\ Agree(b, 0, P, e, 56)
  <2>1. Block64(b) /\ Agree(b, 0, P, e, p + k)
    BY <1>4, <1>5, FillIs DEF e
  <2> QED
    BY <1>5, <2>1
<1> HIDE DEF b
<1>7. Block64(a) /\ Agree(a, 0, P, e, 64)
  <2>1. Agree(P, e + 56, E, 0, 8)
    BY <1>4, <1>5
  <2> QED
    BY <1>5, <1>6, <2>1, PadTailIs DEF E
<1> QED
  BY <1>1, <1>7 DEF P, a, b, k, E, e

\* The end of a stream in one block more.
LEMMA FinalShort ==
  ASSUME NEW c, NEW q, NEW w \in Nat, NEW p \in 0 .. 63, HoldsAt(c, q, w, p), p < 56
  PROVE  Then(c.state, Digests!Put(Digests!Put(c.buf, p, Part(Digests!PAD, 1, 56 - p)), 56,
                                   Digests!be64enc(c.count)))
           = Digests!BlocksOf(Digests!Padded(q))
<1> DEFINE l == Len(q)
           P == Digests!Padded(q)
           a == Digests!Put(Digests!Put(c.buf, p, Part(Digests!PAD, 1, 56 - p)), 56,
                            Digests!be64enc(c.count))
           z == (119 - (l % 64)) % 64
           h == l + z + 9
           e == 64 * w
           v == w + 1
<1>1. Text(q) /\ l = e + p /\ Blocked(c.state, q, w)
  BY DEF HoldsAt
<1>2. l \in Nat /\ l % 64 = p
  BY <1>1, Parts64
<1>3. z = IF p < 56 THEN 55 - p ELSE 119 - p
  BY <1>2, PadRoom
<1>4. Text(P) /\ Len(P) = h /\ Agree(P, 0, q, 0, l)
  BY <1>1, <1>2, PaddedIs
<1>5. h \in Nat /\ e \in Nat /\ e <= l /\ h \div 64 = v
  <2> HIDE DEF z
  <2> QED
    BY <1>1, <1>3, FinalRoom
<1>6. Block64(a) /\ Agree(a, 0, P, e, 64)
  BY ShortBlock
<1> HIDE DEF a, l, P, z, h, e
<1>7. Agree(P, 0, q, 0, e)
  BY <1>2, <1>4, <1>5, AgreeFront
<1>8. Blocked(Then(c.state, a), P, v)
  BY <1>1, <1>6, <1>7, BlockedThen DEF e
<1>9. Then(c.state, a) = Digests!BlocksOf(P)
  BY <1>4, <1>5, <1>8, BlockedIs
<1> QED
  BY <1>9 DEF P, a

\* Behind its first byte, padding is zeros.
LEMMA PadZeros ==
  ASSUME NEW d \in Nat, NEW k \in Nat, NEW f, f = 1 + d, d + k <= 63, NEW m \in Nat, k <= m
  PROVE  Agree(Digests!PAD, f, Digests!Zeros(m), 0, k)
<1> DEFINE o == 63
<1>1. o \in Nat /\ d + k <= o /\ 0 + d = d /\ 0 \in Nat /\ 1 \in Nat /\ 0 + k <= m
  OBVIOUS
<1>2. Agree(Digests!PAD, 1, Digests!Zeros(o), 0, o)
  BY PadIs
<1> HIDE DEF o
<1>3. Agree(Digests!PAD, f, Digests!Zeros(o), d, k)
  BY <1>1, <1>2, AgreeWithin, Zenon
<1>4. Agree(Digests!Zeros(o), d, Digests!Zeros(m), 0, k)
  BY <1>1, ZerosAgree
<1> QED
  BY <1>3, <1>4, AgreeOn

\* A block of zeros.
LEMMA ClearIs ==
  ASSUME NEW b, NEW z, NEW e, Agree(z, e, Digests!Zeros(56), 0, 56)
  PROVE  Agree(Digests!Put(b, 0, Digests!Zeros(56)), 0, z, e, 56)
<1> DEFINE m == 56
           t == Digests!Zeros(m)
           a == Digests!Put(b, 0, t)
<1>1. m \in Nat /\ 0 \in Nat /\ 0 + m <= 64
  OBVIOUS
<1> HIDE DEF m
<1>2. Text(t) /\ Len(t) = m
  BY <1>1, ZerosIs
<1> HIDE DEF t, a
<1>3. Agree(a, 0, t, 0, m)
  BY <1>1, <1>2, PutIs DEF a
<1>4. Agree(t, 0, z, e, m)
  BY AgreeBack DEF t, m
<1>5. Agree(a, 0, z, e, m)
  BY <1>3, <1>4, AgreeOn
<1> QED
  BY <1>5 DEF a, t, m

\* The end of a stream in two blocks more.
LEMMA FinalLong ==
  ASSUME NEW c, NEW q, NEW w \in Nat, NEW p \in 0 .. 63, HoldsAt(c, q, w, p), ~ (p < 56),
         NEW b, b = Digests!Put(c.buf, p, Part(Digests!PAD, 1, 64 - p))
  PROVE  Then(Then(c.state, b),
              Digests!Put(Digests!Put(b, 0, Digests!Zeros(56)), 56, Digests!be64enc(c.count)))
           = Digests!BlocksOf(Digests!Padded(q))
<1> DEFINE l == Len(q)
           P == Digests!Padded(q)
           E == Digests!be64enc(8 * l)
           z == (119 - (l % 64)) % 64
           h == l + z + 9
           k == 64 - p
           y == Digests!Put(b, 0, Digests!Zeros(56))
           a == Digests!Put(y, 56, E)
           e == 64 * w
           v == w + 1
           f == 64 * v
           g == 1 + z
           d == 63 - p
           o == 56
<1>1. /\ Text(q) /\ l = e + p /\ c.count = 8 * l /\ Blocked(c.state, q, w)
  BY DEF HoldsAt
<1>2. l \in Nat /\ l % 64 = p
  BY <1>1, Parts64
<1>3. z = IF p < 56 THEN 55 - p ELSE 119 - p
  BY <1>2, PadRoom
<1>4. /\ Text(P) /\ Len(P) = h /\ Agree(P, 0, q, 0, l) /\ Agree(P, l, Digests!PAD, 0, g)
      /\ Agree(P, l + z + 1, E, 0, 8)
  BY <1>1, <1>2, PaddedIs
<1>5. /\ g \in Nat /\ h \in Nat /\ e \in Nat /\ e <= l /\ v \in Nat /\ f \in Nat
      /\ k \in Nat /\ k >= 1 /\ k <= g /\ p + k <= 64 /\ p + k = 64 /\ k + o <= g
      /\ f = l + k /\ l + z + 1 = f + 56 /\ h \div 64 = v + 1 /\ k = 0 + k /\ k = 1 + d /\ d \in Nat
  <2> HIDE DEF z, h
  <2>1. h = l + z + 9 /\ 1 + z \in Nat
    BY <1>1, <1>3, FinalRoom DEF h
  <2> HIDE DEF l
  <2>2. /\ h \in Nat /\ e \in Nat /\ e <= l /\ v \in Nat /\ f \in Nat
        /\ k \in Nat /\ k >= 1 /\ k <= 1 + z /\ p + k <= 64 /\ p + k = 64 /\ k + 56 <= 1 + z
        /\ l + k = f /\ l + z + 1 = f + 56 /\ h \div 64 = v + 1
        /\ 0 + k = k /\ 1 + d = k /\ d \in Nat
    BY <1>1, <1>3, <2>1, FinalRoom
  <2> HIDE DEF e, v, f, k, d
  <2> QED
    BY <2>1, <2>2
<1>6. o \in Nat /\ d + o <= 63 /\ 0 \in Nat
  <2>1. d + o = 119 - p /\ 119 - p <= 63
    OBVIOUS
  <2> QED
    BY <2>1
<1> HIDE DEF P, E, z, h, k, e, g, f, v, d
<1>7. Block64(b) /\ Agree(b, 0, P, e, 64)
  <2>1. Block64(b) /\ Agree(b, 0, P, e, p + k)
    BY <1>4, <1>5, FillIs DEF e, k
  <2> QED
    BY <1>5, <2>1
<1>8. Agree(P, 0, q, 0, e)
  BY <1>2, <1>4, <1>5, AgreeFront
<1>9. Blocked(Then(c.state, b), P, v)
  BY <1>1, <1>7, <1>8, BlockedThen DEF e, v
<1>10. Agree(y, 0, P, f, o)
  <2>1. Agree(P, f, Digests!PAD, k, o)
    <3> HIDE DEF o, l
    <3>1. /\ Agree(P, l, Digests!PAD, 0, g) /\ l \in Nat /\ 0 \in Nat /\ g \in Nat
          /\ k \in Nat /\ o \in Nat /\ k + o <= g /\ f = l + k /\ k = 0 + k
      BY <1>2, <1>4, <1>5, <1>6
    <3> QED
      BY <3>1, AgreeWithin, Zenon
  <2>2. Agree(Digests!PAD, k, Digests!Zeros(o), 0, o)
    <3>1. k = 1 + d /\ o <= o
      BY <1>5
    <3> HIDE DEF o
    <3> QED
      BY <1>5, <1>6, <3>1, PadZeros
  <2>3. Agree(P, f, Digests!Zeros(o), 0, o)
    BY <2>1, <2>2, AgreeOn
  <2> QED
    BY <2>3, ClearIs
<1> HIDE DEF y
<1>11. Block64(a) /\ Agree(a, 0, P, f, 64)
  <2>1. Agree(P, f + 56, E, 0, 8)
    BY <1>4, <1>5
  <2> QED
    BY <1>5, <1>10, <2>1, PadTailIs DEF E
<1> HIDE DEF a, l
<1>12. Blocked(Then(Then(c.state, b), a), P, v + 1)
  BY <1>5, <1>9, <1>11, BlockedThen, AgreeSelf DEF f
<1>13. Then(Then(c.state, b), a) = Digests!BlocksOf(P)
  BY <1>4, <1>5, <1>12, BlockedIs
<1> QED
  BY <1>1, <1>13 DEF P, a, y, E

LEMMA FinalIs ==
  ASSUME NEW c, NEW q, Holds(c, q)
  PROVE  Digests!SHA256_Final(c) = Digests!HashOf(q)
<1>1. PICK w \in Nat, p \in 0 .. 63 : HoldsAt(c, q, w, p)
  BY DEF Holds
<1>2. Digests!Buffered(c) = p
  BY <1>1, BufferedIs
<1>3. Digests!SHA256_Pad(c)
        = IF p < 56
            THEN Then(c.state, Digests!Put(Digests!Put(c.buf, p, Part(Digests!PAD, 1, 56 - p)), 56,
                                           Digests!be64enc(c.count)))
            ELSE Then(Then(c.state, Digests!Put(c.buf, p, Part(Digests!PAD, 1, 64 - p))),
                      Digests!Put(Digests!Put(Digests!Put(c.buf, p, Part(Digests!PAD, 1, 64 - p)), 0,
                                              Digests!Zeros(56)), 56, Digests!be64enc(c.count)))
  BY <1>2 DEF Digests!SHA256_Pad, Digests!SHA256_Transform, Then, Part
<1>4. Digests!SHA256_Pad(c) = Digests!BlocksOf(Digests!Padded(q))
  <2>1. CASE p < 56
    BY <1>1, <1>3, <2>1, FinalShort
  <2>2. CASE ~ (p < 56)
    BY <1>1, <1>3, <2>2, FinalLong
  <2> QED
    BY <2>1, <2>2
<1> QED
  BY <1>4 DEF Digests!SHA256_Final, Digests!HashOf

LEMMA InitHolds == Holds(Digests!SHA256_Init, <<>>)
<1> DEFINE c == Digests!SHA256_Init
<1>1. c = [state |-> <<>>, count |-> 0, buf |-> Digests!Bytes("stack", 64)]
  BY DEF Digests!SHA256_Init
<1>2. Text(<<>>) /\ Len(<<>>) = 0
  <2>1. <<>> = [k \in To(0) |-> <<>>[k]] /\ 0 \in Nat
    BY DEF To
  <2> QED
    BY <2>1, TextMade
<1>3. Block64(c.buf)
  <2> DEFINE b == Digests!Bytes("stack", 64)
  <2>1. b = [k \in To(64) |-> b[k]] /\ 64 \in Nat
    BY DEF Digests!Bytes, To
  <2> HIDE DEF b
  <2>2. Text(b) /\ Len(b) = 64
    BY <2>1, TextMade
  <2> QED
    BY <1>1, <2>2 DEF b, Block64
<1>4. To(0) = {}
  BY DEF To
<1>5. Blocked(<<>>, <<>>, 0)
  BY <1>2, <1>4 DEF Blocked
<1>6. Agree(c.buf, 0, <<>>, 64 * 0, 0)
  BY <1>4 DEF Agree
<1>7. 0 < CountLimit /\ 8 * 0 = 0 /\ 0 = 64 * 0 + 0
  BY HasherAssumption
<1>8. /\ c.state = <<>> /\ c.count = 0 /\ c = [state |-> c.state, count |-> 0, buf |-> c.buf]
  BY <1>1
<1> HIDE DEF c
<1>9. HoldsAt(c, <<>>, 0, 0)
  BY <1>2, <1>3, <1>5, <1>6, <1>7, <1>8 DEF HoldsAt
<1>10. 0 \in Nat /\ 0 \in 0 .. 63
  OBVIOUS
<1> QED
  BY <1>9, <1>10 DEF Holds, c

LEMMA FirstHolds ==
  ASSUME NEW a, Text(a), 8 * Len(a) < CountLimit
  PROVE  Holds(Digests!SHA256_Update(Digests!SHA256_Init, a), a)
<1> DEFINE l == Len(a)
           z == Join(<<>>, a)
<1>1. l \in Nat /\ 0 + l = l
  BY TextIs
<1>2. Text(<<>>) /\ Len(<<>>) = 0
  <2>1. <<>> = [k \in To(0) |-> <<>>[k]] /\ 0 \in Nat
    BY DEF To
  <2> QED
    BY <2>1, TextMade
<1>3. z = a
  <2>1. Text(z) /\ Len(z) = 0 + l /\ Agree(z, 0, a, 0, l)
    <3>1. Text(z) /\ Len(z) = Len(<<>>) + Len(a) /\ Agree(z, Len(<<>>), a, 0, Len(a))
      BY <1>2, TextJoined
    <3> QED
      BY <1>2, <3>1
  <2> HIDE DEF z
  <2> QED
    BY <1>1, <2>1, TextEqual
<1>4. 8 * (Len(<<>>) + Len(a)) < CountLimit
  BY <1>1, <1>2
<1>5. Holds(Digests!SHA256_Update(Digests!SHA256_Init, a), z)
  BY <1>4, InitHolds, UpdateKeeps
<1> QED
  BY <1>3, <1>5

LEMMA BufIs ==
  ASSUME NEW a, Text(a), 8 * Len(a) < CountLimit
  PROVE  Digests!SHA256_Buf(a) = Digests!HashOf(a)
BY FirstHolds, FinalIs DEF Digests!SHA256_Buf

(***************************************************************************)
(* HMAC.                                                                   *)
(***************************************************************************)
KeyOf(key) == IF Len(key) > 64 THEN Digests!HashOf(key) ELSE key
Inner(key) == Digests!Xored(KeyOf(key), "ipad")
Outer(key) == Digests!Xored(KeyOf(key), "opad")

\* What is hashed within: q; without: the key and that hash.
HmacHolds(h, key, q) ==
  h = [ictx |-> h.ictx, octx |-> h.octx] /\ Holds(h.ictx, q) /\ Holds(h.octx, Outer(key))

LEMMA XoredIs ==
  ASSUME NEW key, NEW with
  PROVE  Text(Digests!Xored(key, with)) /\ Len(Digests!Xored(key, with)) = 64
<1> DEFINE b == Digests!Xored(key, with)
<1>1. b = [k \in To(64) |-> b[k]] /\ 64 \in Nat
  BY DEF Digests!Xored, To
<1> HIDE DEF b
<1>2. Text(b) /\ Len(b) = 64
  BY <1>1, TextMade
<1> QED
  BY <1>2 DEF b

LEMMA DigestIs ==
  ASSUME NEW m
  PROVE  Text(Digests!HashOf(m)) /\ Len(Digests!HashOf(m)) = 32
<1> DEFINE b == Digests!HashOf(m)
<1>1. b = [k \in To(32) |-> b[k]] /\ 32 \in Nat
  BY DEF Digests!HashOf, Digests!be32enc_vect, To
<1> HIDE DEF b
<1>2. Text(b) /\ Len(b) = 32
  BY <1>1, TextMade
<1> QED
  BY <1>2 DEF b

LEMMA KeyIs ==
  ASSUME NEW key, Text(key), 8 * Len(key) < CountLimit, 2048 < CountLimit
  PROVE  /\ Text(Inner(key)) /\ Len(Inner(key)) = 64 /\ Text(Outer(key)) /\ Len(Outer(key)) = 64
         /\ HmacHolds(Digests!HMAC_SHA256_Init(key), key, Inner(key))
<1>1. /\ Text(Inner(key)) /\ Len(Inner(key)) = 64 /\ Text(Outer(key)) /\ Len(Outer(key)) = 64
  BY XoredIs DEF Inner, Outer
<1>2. Digests!SHA256_Buf(key) = Digests!HashOf(key)
  BY BufIs
<1>3. Digests!HMAC_SHA256_Init(key)
        = [ictx |-> Digests!SHA256_Update(Digests!SHA256_Init, Inner(key)),
           octx |-> Digests!SHA256_Update(Digests!SHA256_Init, Outer(key))]
  BY <1>2 DEF Digests!HMAC_SHA256_Init, Inner, Outer, KeyOf
<1>4. 8 * Len(Inner(key)) < CountLimit /\ 8 * Len(Outer(key)) < CountLimit
  <2>1. 8 * 64 < CountLimit
    BY HasherAssumption
  <2> QED
    BY <1>1, <2>1
<1>5. /\ Holds(Digests!SHA256_Update(Digests!SHA256_Init, Inner(key)), Inner(key))
      /\ Holds(Digests!SHA256_Update(Digests!SHA256_Init, Outer(key)), Outer(key))
  <2>1. Text(Inner(key)) /\ Text(Outer(key))
    BY <1>1
  <2>2. \A b : Text(b) /\ 8 * Len(b) < CountLimit => Holds(Digests!SHA256_Update(Digests!SHA256_Init, b), b)
    BY FirstHolds
  <2> QED
    BY <1>4, <2>1, <2>2
<1>6. HmacHolds(Digests!HMAC_SHA256_Init(key), key, Inner(key))
  BY <1>3, <1>5 DEF HmacHolds
<1> QED
  BY <1>1, <1>6

LEMMA HmacUpdateKeeps ==
  ASSUME NEW h, NEW key, NEW q, HmacHolds(h, key, q), NEW a, Text(a),
         8 * (Len(q) + Len(a)) < CountLimit
  PROVE  HmacHolds(Digests!HMAC_SHA256_Update(h, a), key, Join(q, a))
<1>1. Holds(Digests!SHA256_Update(h.ictx, a), Join(q, a))
  BY UpdateKeeps DEF HmacHolds
<1>2. h = [ictx |-> h.ictx, octx |-> h.octx]
  BY DEF HmacHolds
<1>3. Digests!HMAC_SHA256_Update(h, a) = [ictx |-> Digests!SHA256_Update(h.ictx, a), octx |-> h.octx]
  <2>1. Digests!HMAC_SHA256_Update(h, a) = [h EXCEPT !.ictx = Digests!SHA256_Update(h.ictx, a)]
    BY DEF Digests!HMAC_SHA256_Update
  <2> QED
    BY <1>2, <2>1
<1>4. Holds(h.octx, Outer(key))
  BY DEF HmacHolds
<1> QED
  BY <1>1, <1>3, <1>4 DEF HmacHolds

LEMMA HmacFinalIs ==
  ASSUME NEW h, NEW key, Text(key), 8 * Len(key) < CountLimit, 2048 < CountLimit,
         NEW m, HmacHolds(h, key, Join(Inner(key), m))
  PROVE  Digests!HMAC_SHA256_Final(h) = Digests!MacOf(key, m)
<1> DEFINE mid == Join(Inner(key), m)
           d == Digests!HashOf(mid)
           o == Outer(key)
<1>1. Digests!SHA256_Final(h.ictx) = d
  BY FinalIs DEF HmacHolds
<1>2. Holds(h.octx, o)
  BY DEF HmacHolds
<1>3. Text(d) /\ Len(d) = 32 /\ Len(o) = 64
  BY DigestIs, KeyIs
<1>4. Digests!MacOf(key, m) = Digests!HashOf(Join(o, d))
  BY DEF Digests!MacOf, Inner, Outer, KeyOf, Join
<1>5. Digests!HMAC_SHA256_Final(h) = Digests!SHA256_Final(Digests!SHA256_Update(h.octx, d))
  BY <1>1 DEF Digests!HMAC_SHA256_Final
<1>6. 8 * (Len(o) + Len(d)) < CountLimit
  <2>1. 8 * (64 + 32) < CountLimit
    BY HasherAssumption
  <2> QED
    BY <1>3, <2>1
<1> HIDE DEF mid, d, o
<1>7. Holds(Digests!SHA256_Update(h.octx, d), Join(o, d))
  <2>1. Text(d)
    BY <1>3
  <2>2. \A c, q, a : Holds(c, q) /\ Text(a) /\ 8 * (Len(q) + Len(a)) < CountLimit
          => Holds(Digests!SHA256_Update(c, a), Join(q, a))
    BY UpdateKeeps
  <2> QED
    BY <1>2, <1>6, <2>1, <2>2
<1> QED
  BY <1>4, <1>5, <1>7, FinalIs

LEMMA MacIs ==
  ASSUME NEW key, Text(key), 8 * Len(key) < CountLimit, 2048 < CountLimit,
         NEW m, Text(m), 8 * (64 + Len(m)) < CountLimit
  PROVE  /\ Digests!HMAC_SHA256_Final(
              Digests!HMAC_SHA256_Update(Digests!HMAC_SHA256_Init(key), m)) = Digests!MacOf(key, m)
         /\ Digests!HMAC_SHA256_Buf(key, m) = Digests!MacOf(key, m)
<1> DEFINE h == Digests!HMAC_SHA256_Init(key)
           u == Digests!HMAC_SHA256_Update(h, m)
<1>1. HmacHolds(h, key, Inner(key)) /\ Len(Inner(key)) = 64
  BY KeyIs
<1> HIDE DEF h
<1>2. HmacHolds(u, key, Join(Inner(key), m))
  <2>1. 8 * (Len(Inner(key)) + Len(m)) < CountLimit
    BY <1>1
  <2> QED
    <3>1. \A q : HmacHolds(h, key, q) /\ 8 * (Len(q) + Len(m)) < CountLimit
            => HmacHolds(Digests!HMAC_SHA256_Update(h, m), key, Join(q, m))
      BY HmacUpdateKeeps
    <3>2. HmacHolds(h, key, Inner(key))
      BY <1>1
    <3>3. HmacHolds(Digests!HMAC_SHA256_Update(h, m), key, Join(Inner(key), m))
      BY <2>1, <3>1, <3>2
    <3> QED
      BY <3>3 DEF u
<1> HIDE DEF u
<1>3. Digests!HMAC_SHA256_Final(u) = Digests!MacOf(key, m)
  BY <1>2, HmacFinalIs
<1>4. Digests!HMAC_SHA256_Buf(key, m) = Digests!HMAC_SHA256_Final(u)
  BY DEF Digests!HMAC_SHA256_Buf, u, h
<1> QED
  BY <1>3, <1>4 DEF u, h

LEMMA JoinJoin ==
  ASSUME NEW p, NEW q, NEW r, Text(p), Text(q), Text(r)
  PROVE  Join(Join(p, q), r) = Join(p, Join(q, r))
<1> DEFINE T == {p[k] : k \in To(Len(p))} \cup {q[k] : k \in To(Len(q))} \cup {r[k] : k \in To(Len(r))}
<1>1. p \in Seq(T) /\ q \in Seq(T) /\ r \in Seq(T)
  <2>1. Len(p) \in Nat /\ p = [k \in To(Len(p)) |-> p[k]]
    BY TextIs
  <2>2. Len(q) \in Nat /\ q = [k \in To(Len(q)) |-> q[k]]
    BY TextIs
  <2>3. Len(r) \in Nat /\ r = [k \in To(Len(r)) |-> r[k]]
    BY TextIs
  <2>4. p \in Seq(T)
    BY <2>1 DEF To
  <2>5. q \in Seq(T)
    BY <2>2 DEF To
  <2>6. r \in Seq(T)
    BY <2>3 DEF To
  <2> QED
    BY <2>4, <2>5, <2>6
<1> HIDE DEF T
<1>2. (p \o q) \o r = p \o (q \o r)
  BY <1>1, SMT
<1> QED
  BY <1>2 DEF Join

(***************************************************************************)
(* PBKDF2.                                                                 *)
(***************************************************************************)
Salted(salt, g) == Join(salt, Digests!be32enc(g))
Chain(key, salt, c, g) ==
  CHOOSE u : u = [k \in To(c) |-> Digests!MacOf(key, IF k = 1 THEN Salted(salt, g) ELSE u[k - 1])]
Keyed(key, m) ==
  Digests!HMAC_SHA256_Final(Digests!HMAC_SHA256_Update(Digests!HMAC_SHA256_Init(key), m))
Started(key, salt, m) ==
  Digests!HMAC_SHA256_Final(Digests!HMAC_SHA256_Update(
    Digests!HMAC_SHA256_Update(Digests!HMAC_SHA256_Init(key), salt), m))
Looped(u, key, salt, c, g) ==
  [k \in To(c) |-> IF k = 1 THEN Started(key, salt, Digests!be32enc(g)) ELSE Keyed(key, u[k - 1])]
Loop(key, salt, c, g) == CHOOSE u : u = Looped(u, key, salt, c, g)

Chained(u, key, m, c) == u = [k \in To(c) |-> Digests!MacOf(key, IF k = 1 THEN m ELSE u[k - 1])]
Values(u, c) == {u[k] : k \in To(c)}

LEMMA DerivedIs ==
  ASSUME NEW key, NEW salt, NEW c, NEW g
  PROVE  Digests!DerivedOf(key, salt, c, g) = Values(Chain(key, salt, c, g), c)
BY Zenon DEF Values, Digests!DerivedOf, Chain, Salted, Join, To

LEMMA GenericIs ==
  ASSUME NEW key, NEW salt, NEW c, NEW g
  PROVE  Digests!GenericBlock(key, salt, c, g) = Values(Loop(key, salt, c, g), c)
BY Zenon DEF Values, Digests!GenericBlock, Loop, Looped, Started, Keyed, To
Word4(m) == Text(m) /\ Len(m) = 4

LEMMA Be32Is ==
  ASSUME NEW g
  PROVE  Word4(Digests!be32enc(g))
BY LengthIs DEF Word4

LEMMA KeyedIs ==
  ASSUME NEW key, Text(key), 8 * Len(key) < CountLimit, 2048 < CountLimit, NEW d
  PROVE  Keyed(key, Digests!MacOf(key, d)) = Digests!MacOf(key, Digests!MacOf(key, d))
<1> DEFINE m == Digests!MacOf(key, d)
<1>1. Text(m) /\ Len(m) = 32
  <2>1. \A q : Text(Digests!HashOf(q)) /\ Len(Digests!HashOf(q)) = 32
    BY DigestIs
  <2> QED
    BY <2>1 DEF Digests!MacOf
<1> HIDE DEF m
<1>2. 8 * (64 + Len(m)) < CountLimit
  <2>1. 8 * (64 + 32) < CountLimit
    BY HasherAssumption
  <2> QED
    BY <1>1, <2>1
<1>3. Keyed(key, m) = Digests!MacOf(key, m)
  <2>1. Text(m)
    BY <1>1
  <2> QED
    BY <1>2, <2>1, MacIs DEF Keyed
<1> QED
  BY <1>3 DEF m

\* After a salt, what HMAC goes on with.
LEMMA SaltedHolds ==
  ASSUME NEW key, Text(key), 8 * Len(key) < CountLimit, 2048 < CountLimit,
         NEW salt, Text(salt), 8 * (Len(salt) + 100) < CountLimit, NEW m, Word4(m),
         NEW h, h = Digests!HMAC_SHA256_Update(Digests!HMAC_SHA256_Init(key), salt)
  PROVE  /\ HmacHolds(h, key, Join(Inner(key), salt))
         /\ HmacHolds(Digests!HMAC_SHA256_Update(h, m), key, Join(Inner(key), Join(salt, m)))
         /\ HmacHolds(Digests!HMAC_SHA256_Update(h, m), key, Join(Join(Inner(key), salt), m))
         /\ Len(Join(Inner(key), salt)) = 64 + Len(salt) /\ Text(Join(Inner(key), salt))
<1> DEFINE o == Inner(key)
           q == Join(o, salt)
           r == Digests!HMAC_SHA256_Init(key)
<1>1. HmacHolds(r, key, o) /\ Text(o) /\ Len(o) = 64
  BY KeyIs
<1>2. \A b, p, a : HmacHolds(b, key, p) /\ Text(a) /\ 8 * (Len(p) + Len(a)) < CountLimit
        => HmacHolds(Digests!HMAC_SHA256_Update(b, a), key, Join(p, a))
  BY HmacUpdateKeeps
<1>3. Len(salt) \in Nat
  BY TextIs
<1> HIDE DEF o, r
<1>4. Text(q) /\ Len(q) = 64 + Len(salt)
  <2>1. Text(o)
    BY <1>1
  <2>2. Text(q) /\ Len(q) = Len(o) + Len(salt)
    BY <2>1, TextJoined
  <2> HIDE DEF q
  <2> QED
    BY <1>1, <2>2
<1>5. 8 * (Len(o) + Len(salt)) < CountLimit /\ 8 * (Len(q) + Len(m)) < CountLimit
  <2>1. 8 * (64 + Len(salt)) < CountLimit /\ 8 * ((64 + Len(salt)) + 4) < CountLimit
    BY <1>3, HasherAssumption
  <2> QED
    BY <1>1, <1>4, <2>1 DEF Word4
<1>6. HmacHolds(h, key, q)
  <2>1. HmacHolds(r, key, o) /\ 8 * (Len(o) + Len(salt)) < CountLimit
    BY <1>1, <1>5
  <2> QED
    BY <1>2, <2>1 DEF r
<1> HIDE DEF q
<1>7. HmacHolds(Digests!HMAC_SHA256_Update(h, m), key, Join(q, m))
  <2>1. 8 * (Len(q) + Len(m)) < CountLimit
    BY <1>5
  <2>2. Text(m)
    BY DEF Word4
  <2> QED
    BY <1>2, <1>6, <2>1, <2>2
<1>8. Join(q, m) = Join(o, Join(salt, m))
  BY <1>1, JoinJoin DEF q, Word4
<1> QED
  BY <1>4, <1>6, <1>7, <1>8 DEF o, q

LEMMA StartedIs ==
  ASSUME NEW key, Text(key), 8 * Len(key) < CountLimit, 2048 < CountLimit,
         NEW salt, Text(salt), 8 * (Len(salt) + 100) < CountLimit, NEW g
  PROVE  Started(key, salt, Digests!be32enc(g)) = Digests!MacOf(key, Salted(salt, g))
<1> DEFINE m == Digests!be32enc(g)
           h == Digests!HMAC_SHA256_Update(Digests!HMAC_SHA256_Init(key), salt)
           u == Digests!HMAC_SHA256_Update(h, m)
<1>1. Word4(m)
  BY Be32Is
<1> HIDE DEF m
<1>2. HmacHolds(u, key, Join(Inner(key), Join(salt, m)))
  BY <1>1, SaltedHolds
<1>3. Started(key, salt, m) = Digests!HMAC_SHA256_Final(u)
  BY DEF Started
<1> HIDE DEF u
<1>4. Digests!HMAC_SHA256_Final(u) = Digests!MacOf(key, Join(salt, m))
  BY <1>2, HmacFinalIs
<1> QED
  BY <1>3, <1>4 DEF Salted, m

\* There are functions defined by that recursion.
LEMMA ChainIs ==
  ASSUME NEW key, NEW salt, NEW c \in Nat, NEW g
  PROVE  Chained(Chain(key, salt, c, g), key, Salted(salt, g), c)
<1> DEFINE m == Salted(salt, g)
           Made(u, l) == u = [k \in To(l) |-> Digests!MacOf(key, IF k = 1 THEN m ELSE u[k - 1])]
           Q == {l \in Nat : \E u : Made(u, l)}
<1> HIDE DEF m
<1>1. 0 \in Q
  <2>1. Made(<<>>, 0)
    BY DEF To
  <2> QED
    BY <2>1
<1>2. ASSUME NEW l \in Nat, l \in Q PROVE l + 1 \in Q
  <2>1. PICK u : Made(u, l)
    BY <1>2
  <2> DEFINE v == [k \in To(l + 1) |->
                     IF k <= l THEN u[k] ELSE Digests!MacOf(key, IF k = 1 THEN m ELSE u[k - 1])]
  <2>2. \A k \in To(l + 1) : v[k] = IF k <= l THEN u[k]
                               ELSE Digests!MacOf(key, IF k = 1 THEN m ELSE u[k - 1])
    OBVIOUS
  <2>3. v = [k \in To(l + 1) |-> v[k]]
    OBVIOUS
  <2> HIDE DEF v
  <2>4. ASSUME NEW k \in To(l + 1)
        PROVE  v[k] = Digests!MacOf(key, IF k = 1 THEN m ELSE v[k - 1])
    <3>1. k # 1 => v[k - 1] = u[k - 1]
      <4>1. k # 1 => k - 1 \in To(l + 1) /\ k - 1 <= l
        BY DEF To
      <4> QED
        BY <2>2, <4>1
    <3>2. k <= l => u[k] = Digests!MacOf(key, IF k = 1 THEN m ELSE u[k - 1])
      <4>1. k <= l => k \in To(l)
        BY DEF To
      <4> QED
        BY <2>1, <4>1
    <3> QED
      BY <2>2, <3>1, <3>2
  <2>5. Made(v, l + 1)
    BY <2>3, <2>4
  <2> QED
    BY <2>5
<1>3. c \in Q
  <2> HIDE DEF Q
  <2>1. \A l \in Nat : l \in Q => l + 1 \in Q
    BY <1>2
  <2>2. \A l \in Nat : l \in Q
    BY <1>1, <2>1, Induction
  <2> QED
    BY <2>2
<1>4. \E u : Made(u, c)
  BY <1>3
<1>5. Chain(key, salt, c, g) = CHOOSE u : Made(u, c)
  BY DEF Chain, m
<1> HIDE DEF Made
<1>6. Made(Chain(key, salt, c, g), c)
  BY <1>4, <1>5
<1> QED
  BY <1>6 DEF Made, m, Chained

LEMMA SameOn ==
  ASSUME NEW u, NEW v, NEW c, u = [k \in To(c) |-> u[k]], v = [k \in To(c) |-> v[k]],
         \A k \in To(c) : u[k] = v[k]
  PROVE  u = v
OBVIOUS

LEMMA ChainedAt ==
  ASSUME NEW u, NEW key, NEW m, NEW c, Chained(u, key, m, c)
  PROVE  /\ u = [k \in To(c) |-> u[k]]
         /\ \A k \in To(c) : u[k] = Digests!MacOf(key, IF k = 1 THEN m ELSE u[k - 1])
BY DEF Chained

LEMMA GenericMatches ==
  ASSUME NEW key, Text(key), 8 * Len(key) < CountLimit, 2048 < CountLimit,
         NEW salt, Text(salt), 8 * (Len(salt) + 100) < CountLimit, NEW c \in Nat, NEW g
  PROVE  Digests!GenericBlock(key, salt, c, g) = Digests!DerivedOf(key, salt, c, g)
<1> DEFINE a == Chain(key, salt, c, g)
           b == Loop(key, salt, c, g)
           m == Salted(salt, g)
<1>1. Chained(a, key, m, c)
  BY ChainIs
<1>2. Started(key, salt, Digests!be32enc(g)) = Digests!MacOf(key, m)
  BY StartedIs
<1>3. ASSUME NEW d PROVE Keyed(key, Digests!MacOf(key, d)) = Digests!MacOf(key, Digests!MacOf(key, d))
  BY KeyedIs
<1>4. b = CHOOSE w : w = Looped(w, key, salt, c, g)
  BY DEF Loop
<1> HIDE DEF a, b, m
<1>0. \A k \in To(c) : a[k] = Digests!MacOf(key, IF k = 1 THEN m ELSE a[k - 1])
  BY <1>1, ChainedAt
<1>5. \A k \in To(c) : k = 1 \/ k - 1 \in To(c)
  BY DEF To
<1>6. \A k \in To(c) : a[k] = IF k = 1 THEN Started(key, salt, Digests!be32enc(g)) ELSE Keyed(key, a[k - 1])
  <2>1. \A k \in To(c) : \E d : a[k] = Digests!MacOf(key, d)
    BY <1>0
  <2>2. \A k \in To(c) : k # 1 => Keyed(key, a[k - 1]) = Digests!MacOf(key, a[k - 1])
    BY <1>3, <1>5, <2>1
  <2>3. ASSUME NEW k \in To(c)
        PROVE  a[k] = IF k = 1 THEN Started(key, salt, Digests!be32enc(g)) ELSE Keyed(key, a[k - 1])
    <3>1. CASE k = 1
      BY <1>0, <1>2, <3>1
    <3>2. CASE k # 1
      <4>1. a[k] = Digests!MacOf(key, a[k - 1])
        <5>1. (IF k = 1 THEN m ELSE a[k - 1]) = a[k - 1]
          BY <3>2
        <5> QED
          BY <1>0, <5>1
      <4> QED
        BY <2>2, <3>2, <4>1
    <3> QED
      BY <3>1, <3>2
  <2> QED
    BY <2>3
<1>7. a = Looped(a, key, salt, c, g)
  <2> DEFINE f == Looped(a, key, salt, c, g)
  <2>1. a = [k \in To(c) |-> a[k]]
    BY <1>1, ChainedAt
  <2>2. f = [k \in To(c) |-> f[k]] /\ \A k \in To(c) : a[k] = f[k]
    BY <1>6 DEF Looped
  <2> HIDE DEF f
  <2>3. a = f
    BY <2>1, <2>2, SameOn
  <2> QED
    BY <2>3 DEF f
<1>8. b = Looped(b, key, salt, c, g)
  BY <1>4, <1>7
<1>16. \A k \in To(c) : b[k] = IF k = 1 THEN Started(key, salt, Digests!be32enc(g)) ELSE Keyed(key, b[k - 1])
  <2>1. \A k \in To(c) : Looped(b, key, salt, c, g)[k]
          = IF k = 1 THEN Started(key, salt, Digests!be32enc(g)) ELSE Keyed(key, b[k - 1])
    BY DEF Looped
  <2> QED
    BY <1>8, <2>1
<1>13. \A k \in To(c) : \A h : k # 1 /\ h = k - 1 => b[k] = Keyed(key, b[h]) /\ a[k] = Keyed(key, a[h])
  <2> SUFFICES ASSUME NEW k \in To(c), NEW h, k # 1, h = k - 1
               PROVE  b[k] = Keyed(key, b[h]) /\ a[k] = Keyed(key, a[h])
    OBVIOUS
  <2>2. b[k] = Keyed(key, b[k - 1])
    BY <1>16
  <2>3. a[k] = Keyed(key, a[k - 1])
    BY <1>6
  <2> QED
    BY <2>2, <2>3
<1> DEFINE Q == {l \in Nat : l \in To(c) => b[l] = a[l]}
<1>9. 0 \in Q
  BY DEF To
<1>10. ASSUME NEW l \in Nat, l \in Q PROVE l + 1 \in Q
  <2>1. CASE l = 0
    <3>1. l + 1 = 1
      BY <2>1
    <3>2. l + 1 \in To(c) => b[l + 1] = a[l + 1]
      BY <1>6, <1>16, <3>1
    <3> QED
      BY <3>2
  <2>2. CASE l # 0
    <3>1. l + 1 # 1 /\ (l + 1) - 1 = l /\ (l + 1 \in To(c) => l \in To(c))
      BY <2>2 DEF To
    <3>2. l + 1 \in To(c) => b[l] = a[l]
      BY <1>10, <3>1
    <3>3. l + 1 \in To(c) => b[l + 1] = Keyed(key, b[l])
      BY <1>13, <3>1
    <3>4. l + 1 \in To(c) => a[l + 1] = Keyed(key, a[l])
      BY <1>13, <3>1
    <3>5. l + 1 \in To(c) => b[l + 1] = a[l + 1]
      BY <3>2, <3>3, <3>4
    <3> QED
      BY <3>5
  <2> QED
    BY <2>1, <2>2
<1>11. \A k \in To(c) : b[k] = a[k]
  <2>1. \A l \in Nat : l \in Q
    <3> HIDE DEF Q
    <3>1. \A l \in Nat : l \in Q => l + 1 \in Q
      BY <1>10
    <3> QED
      BY <1>9, <3>1, Induction
  <2>2. \A k \in To(c) : k \in Nat
    BY DEF To
  <2> QED
    BY <2>1, <2>2
<1>12. Values(a, c) = Values(b, c)
  BY <1>11 DEF Values
<1>14. Digests!DerivedOf(key, salt, c, g) = Values(a, c)
  BY DerivedIs DEF a
<1>15. Digests!GenericBlock(key, salt, c, g) = Values(b, c)
  BY GenericIs DEF b
<1> QED
  BY <1>12, <1>14, <1>15

\* The length but for its last byte, behind a block that ends with that byte.
LEMMA LastByte ==
  ASSUME NEW b, Block64(b), NEW y, Text(y), Len(y) = 8
  PROVE  Digests!Put([b EXCEPT ![64] = y[8]], 56, Part(y, 1, 7)) = Digests!Put(b, 56, y)
<1> DEFINE s7 == Part(y, 1, 7)
           d == [b EXCEPT ![64] = y[8]]
           P == Digests!Put(d, 56, s7)
           ref == Digests!Put(b, 56, y)
<1>1. Text(s7) /\ Len(s7) = 7 /\ Agree(s7, 0, y, 0, 7)
  <2>1. 1 \in Nat /\ 7 \in Nat /\ 1 >= 1 /\ 1 <= 7 + 1 /\ 7 <= 8 /\ 7 + 1 - 1 = 7 /\ 1 - 1 = 0
    OBVIOUS
  <2> QED
    BY <2>1, TextPart
<1>2. \A k \in To(7) : s7[k] = y[k]
  <2>1. \A k \in To(7) : 0 + k = k
    BY DEF To
  <2> QED
    BY <1>1, <2>1 DEF Agree
<1> HIDE DEF s7
<1>3. b = [k \in To(64) |-> b[k]]
  BY TextIs DEF Block64
<1>4. \A k \in To(64) : d[k] = IF k = 64 THEN y[8] ELSE b[k]
  BY <1>3 DEF To
<1> HIDE DEF d
<1>5. /\ P = [k \in To(64) |-> P[k]]
      /\ \A k \in To(64) : P[k] = IF k > 56 /\ k <= 56 + 7 THEN s7[k - 56] ELSE d[k]
  BY <1>1 DEF Digests!Put, To
<1>6. /\ ref = [k \in To(64) |-> ref[k]]
      /\ \A k \in To(64) : ref[k] = IF k > 56 /\ k <= 56 + 8 THEN y[k - 56] ELSE b[k]
  BY DEF Digests!Put, To
<1> HIDE DEF P, ref
<1>7. ASSUME NEW k \in To(64) PROVE P[k] = ref[k]
  <2>1. CASE k <= 56
    <3>1. k # 64 /\ ~ (k > 56)
      BY <2>1 DEF To
    <3> QED
      BY <1>4, <1>5, <1>6, <3>1
  <2>2. CASE k > 56 /\ k <= 63
    <3>1. k - 56 \in To(7) /\ k <= 56 + 7 /\ k <= 56 + 8
      BY <2>2 DEF To
    <3>2. P[k] = s7[k - 56]
      BY <1>5, <2>2, <3>1
    <3>3. ref[k] = y[k - 56]
      BY <1>6, <2>2, <3>1
    <3> QED
      BY <1>2, <3>1, <3>2, <3>3
  <2>3. CASE k = 64
    <3>1. ~ (k <= 56 + 7) /\ k > 56 /\ k <= 56 + 8 /\ k - 56 = 8
      BY <2>3
    <3>2. P[k] = d[k]
      BY <1>5, <3>1
    <3>3. ref[k] = y[k - 56]
      BY <1>6, <3>1
    <3>4. d[k] = y[8]
      BY <1>4, <2>3
    <3> QED
      BY <3>1, <3>2, <3>3, <3>4
  <2>4. k <= 56 \/ (k > 56 /\ k <= 63) \/ k = 64
    BY DEF To
  <2> QED
    BY <2>1, <2>2, <2>3, <2>4
<1>8. P = ref
  BY <1>5, <1>6, <1>7, SameOn
<1> QED
  BY <1>8 DEF P, ref, d, s7

LEMMA AlmostRoom ==
  ASSUME NEW w \in Nat, NEW p \in Nat, p < 56, NEW l, l = 64 * w + p, NEW k, k = 56 - p
  PROVE  /\ k \in Nat /\ k >= 1 /\ k <= 64 /\ k < 64 - p /\ p + k <= 64
         /\ l + k = 64 * w + 56 /\ 8 * (l + k) <= 8 * (l + 64)
OBVIOUS

\* A block that is padded beforehand: the context keeps it in its buffer.
LEMMA PadAlmostIs ==
  ASSUME NEW c, NEW q, NEW w \in Nat, NEW p \in 0 .. 63, HoldsAt(c, q, w, p), p < 56,
         8 * (Len(q) + 64) < CountLimit
  PROVE  /\ Digests!SHA256_Pad_Almost(c).state = c.state
         /\ Digests!SHA256_Pad_Almost(c).buf
              = Digests!Put(Digests!Put(c.buf, p, Part(Digests!PAD, 1, 56 - p)), 56,
                            Digests!be64enc(c.count))
<1> DEFINE l == Len(q)
           E == Digests!be64enc(c.count)
           k == 56 - p
           D == Part(Digests!PAD, 1, k)
           b == Digests!Put(c.buf, p, D)
           f == Digests!SHA256_Update(c, D)
           g == [f EXCEPT !.buf[64] = E[8]]
           y == Part(E, 1, 7)
           a == Digests!SHA256_Pad_Almost(c)
           t == (c.count + 8 * Len(D)) % CountLimit
           o == (g.count + 8 * Len(y)) % CountLimit
<1>1. Digests!Buffered(c) = p /\ c.count = 8 * l /\ l \in Nat
  BY BufferedIs
<1>2. l = 64 * w + p /\ Block64(c.buf) /\ Holds(c, q)
  BY DEF HoldsAt, Holds
<1>3. /\ k \in Nat /\ k >= 1 /\ k <= 64 /\ k < 64 - p /\ p + k <= 64
      /\ l + k = 64 * w + 56 /\ 8 * (l + k) <= 8 * (l + 64)
  <2> HIDE DEF l
  <2> QED
    BY <1>2, AlmostRoom
<1>4. Text(D) /\ Len(D) = k
  <2> HIDE DEF k
  <2> QED
    BY <1>3, PadPart
<1>5. a = Digests!SHA256_Update(g, y)
  BY <1>1 DEF Digests!SHA256_Pad_Almost, Part
<1>6. Text(E) /\ Len(E) = 8
  BY LengthIs
<1> HIDE DEF E
<1>7. Len(y) = 7
  <2>1. 1 \in Nat /\ 7 \in Nat /\ 1 >= 1 /\ 1 <= 7 + 1 /\ 7 <= 8 /\ 7 + 1 - 1 = 7
    OBVIOUS
  <2> QED
    BY <1>6, <2>1, TextPart
<1> HIDE DEF D, y
<1>8. f = [c EXCEPT !.count = t, !.buf = b]
  <2>1. Len(D) < 64 - p
    BY <1>3, <1>4
  <2> HIDE DEF k, l
  <2> QED
    BY <1>1, <2>1, UpdateIs
<1>9. t = 8 * (l + k)
  <2>1. 8 * (Len(q) + Len(D)) < CountLimit
    <3> HIDE DEF k
    <3>1. 8 * (l + k) < CountLimit
      <4> HIDE DEF l
      <4>1. 8 * (l + 64) < CountLimit
        BY DEF l
      <4> QED
        BY <1>1, <1>3, <4>1, HasherAssumption
    <3> QED
      BY <1>4, <3>1
  <2>2. t = 8 * (Len(q) + Len(D))
    BY <1>2, <1>4, <2>1, CountIs
  <2> QED
    BY <1>4, <2>2
<1>10. c = [state |-> c.state, count |-> c.count, buf |-> c.buf]
  BY DEF HoldsAt
<1> HIDE DEF f, b, t, a
<1>11. g = [state |-> c.state, count |-> t, buf |-> [b EXCEPT ![64] = E[8]]]
  <2>1. f = [state |-> c.state, count |-> t, buf |-> b]
    BY <1>8, <1>10
  <2> QED
    BY <2>1
<1> HIDE DEF g
<1>12. Digests!Buffered(g) = 56
  <2>1. g.count = t
    BY <1>11
  <2> DEFINE e == l + k
  <2>2. t = 8 * e /\ e = 64 * w + 56 /\ 56 \in 0 .. 63
    BY <1>3, <1>9
  <2> HIDE DEF e
  <2>3. e \in Nat /\ e % 64 = 56
    BY <2>2, Parts64
  <2>4. t \div 8 = e
    BY <2>2, <2>3, Blocks64
  <2> QED
    BY <2>1, <2>3, <2>4 DEF Digests!Buffered
<1>13. a = [g EXCEPT !.count = o, !.buf = Digests!Put(g.buf, 56, y)]
  <2> DEFINE m == 56
  <2>1. Len(y) < 64 - m
    BY <1>7
  <2>2. Digests!Buffered(g) = m
    BY <1>12
  <2> HIDE DEF m
  <2>3. a = [g EXCEPT !.count = o, !.buf = Digests!Put(g.buf, m, y)]
    BY <1>5, <2>1, <2>2, UpdateIs
  <2> QED
    BY <2>3 DEF m
<1> HIDE DEF o
<1>14. a.state = c.state /\ a.buf = Digests!Put([b EXCEPT ![64] = E[8]], 56, y)
  BY <1>11, <1>13
<1>15. Block64(b)
  <2> HIDE DEF k
  <2>1. p \in Nat /\ k \in Nat /\ p + k <= 64
    BY <1>3
  <2> QED
    BY <1>4, <2>1, PutIs DEF b
<1>16. a.buf = Digests!Put(b, 56, E)
  BY <1>6, <1>14, <1>15, LastByte DEF y
<1> QED
  BY <1>14, <1>16 DEF a, b, D, E, k

PaddedLen(l) == l + ((119 - (l % 64)) % 64) + 9

LEMMA PaddedText ==
  ASSUME NEW q, NEW l \in Nat, Text(q), Len(q) = l
  PROVE  Text(Digests!Padded(q)) /\ Len(Digests!Padded(q)) = PaddedLen(l)
<1> DEFINE z == (119 - (l % 64)) % 64
<1>1. z = (119 - (l % 64)) % 64
  OBVIOUS
<1> HIDE DEF z
<1>2. Text(Digests!Padded(q)) /\ Len(Digests!Padded(q)) = l + z + 9
  BY <1>1, PaddedIs
<1> QED
  BY <1>1, <1>2 DEF PaddedLen

LEMMA TailSame ==
  ASSUME NEW q, NEW r, NEW l \in Nat, Text(q), Text(r), Len(q) = l, Len(r) = l,
         NEW z, z = (119 - (l % 64)) % 64, NEW h, h = z + 9
  PROVE  Agree(Digests!Padded(q), l, Digests!Padded(r), l, h)
<1> DEFINE P == Digests!Padded(q)
           ref == Digests!Padded(r)
           D == Digests!PAD
           E == Digests!be64enc(8 * l)
           g == 1 + z
           f == l + z + 1
           k == 8
<1>1. /\ Agree(P, l, D, 0, g) /\ Agree(P, f, E, 0, k) /\ Agree(ref, l, D, 0, g) /\ Agree(ref, f, E, 0, k)
      /\ z \in 0 .. 63
  <2>1. Agree(P, l, D, 0, g) /\ Agree(P, f, E, 0, k)
    BY PaddedIs, Zenon
  <2>3. z \in 0 .. 63
    BY PaddedIs
  <2>2. Agree(ref, l, D, 0, g) /\ Agree(ref, f, E, 0, k)
    BY PaddedIs, Zenon
  <2> QED
    BY <2>1, <2>2, <2>3
<1>2. g \in Nat /\ f = l + g /\ k \in Nat /\ h = g + k
  BY <1>1
<1> HIDE DEF P, ref, D, E, g, f, k
<1>3. Agree(P, l, ref, l, g) /\ Agree(P, f, ref, f, k)
  BY <1>1, AgreeOn, AgreeBack
<1>4. Agree(P, l, ref, l, h)
  BY <1>2, <1>3, AgreeBoth, Zenon
<1> QED
  BY <1>4 DEF P, ref

\* c is padded beforehand: behind the p bytes of q in its block, y is in the
\* place of what will be hashed.
Sized(q, m) == Text(q) /\ Len(q) = m

Placed(c, q, y, w, p, m) ==
  /\ w \in Nat /\ p \in 0 .. 63 /\ m \in Nat
  /\ Text(q) /\ Text(y) /\ Len(q) = 64 * w + p /\ Len(y) = m /\ p + m < 56
  /\ HoldsAt(c, Join(q, y), w, p + m) /\ 8 * (Len(Join(q, y)) + 64) < CountLimit

\* Bytes placed in a block padded beforehand: as if they had been hashed
\* in the place of those that were.
LEMMA Replaced ==
  ASSUME NEW c, NEW q, NEW y, NEW w, NEW p, NEW m, Placed(c, q, y, w, p, m), NEW x0, Sized(x0, m),
         NEW A, A = Digests!SHA256_Pad_Almost(c)
  PROVE  Then(A.state, Digests!Put(A.buf, p, x0)) = Digests!BlocksOf(Digests!Padded(Join(q, x0)))
<1> DEFINE qy == Join(q, y)
           qx == Join(q, x0)
           Py == Digests!Padded(qy)
           Px == Digests!Padded(qx)
           B == A.buf
           G == Digests!Put(B, p, x0)
           h == Len(q)
           l == h + m
           o == p + m
           e == 64 * w
           z == (119 - (l % 64)) % 64
           t == l + z + 9
           k == 64 - o
           v == w + 1
           n64 == 64
<1> w \in Nat /\ p \in 0 .. 63 /\ m \in Nat /\ Text(x0) /\ Len(x0) = m
  BY DEF Placed, Sized
<1>0. /\ Text(q) /\ Text(y) /\ Len(q) = 64 * w + p /\ Len(y) = m /\ p + m < 56
      /\ HoldsAt(c, Join(q, y), w, p + m) /\ 8 * (Len(Join(q, y)) + 64) < CountLimit
  BY DEF Placed
<1>1. /\ p \in Nat /\ e \in Nat /\ h \in Nat /\ l \in Nat /\ o \in Nat /\ o \in 0 .. 63 /\ o < 56
      /\ h <= l /\ e + p <= h /\ e <= h /\ l = e + o /\ o + k <= n64
      /\ k \in Nat /\ k = z + 9 /\ v \in Nat /\ t \in Nat /\ t \div 64 = v
      /\ n64 = o + k /\ p <= n64 /\ o <= n64
  <2>1. h = 64 * w + p /\ p + m < 56
    BY <1>0
  <2>2. l = h + m /\ o = p + m /\ z = (119 - (l % 64)) % 64 /\ t = l + z + 9
    OBVIOUS
  <2> HIDE DEF h, l, o, z, t
  <2>3. l = 64 * w + o /\ o \in 0 .. 63 /\ o < 56 /\ o \in Nat /\ h \in Nat /\ l \in Nat
    BY <2>1, <2>2
  <2>4. l % 64 = o
    BY <2>3, Parts64
  <2>5. z = 55 - o
    BY <2>2, <2>3, <2>4, PadRoom
  <2>6. t = 64 * (w + 1)
    BY <2>2, <2>3, <2>5
  <2> QED
    BY <2>1, <2>2, <2>3, <2>5, <2>6
<1>2. /\ Text(qy) /\ Len(qy) = l /\ Agree(qy, 0, q, 0, h)
      /\ Text(qx) /\ Len(qx) = l /\ Agree(qx, 0, q, 0, h) /\ Agree(qx, h, x0, 0, m)
  BY <1>0, TextJoined
<1>3. n64 \in Nat /\ 0 \in Nat /\ o = p + m /\ h = e + p /\ l = h + m /\ 0 + p = p /\ 0 + o = o /\ p = 0 + p /\ o = 0 + o
  BY <1>0
<1>4. A.state = c.state /\ Block64(B) /\ Agree(B, 0, Py, e, n64)
  <2>1. HoldsAt(c, qy, w, o) /\ 8 * (Len(qy) + 64) < CountLimit
    BY <1>0
  <2> HIDE DEF qy, o, B, Py
  <2>2. A.state = c.state /\ A.buf = Digests!Put(Digests!Put(c.buf, o, Part(Digests!PAD, 1, 56 - o)), 56,
                                                 Digests!be64enc(c.count))
    BY <1>1, <2>1, PadAlmostIs
  <2> DEFINE b0 == Digests!Put(Digests!Put(c.buf, o, Part(Digests!PAD, 1, 56 - o)), 56,
                               Digests!be64enc(c.count))
  <2>4. Block64(b0) /\ Agree(b0, 0, Digests!Padded(qy), 64 * w, 64)
    BY <1>1, <2>1, ShortBlock
  <2>5. A.buf = b0
    BY <2>2
  <2> HIDE DEF b0
  <2>3. Block64(B) /\ Agree(B, 0, Digests!Padded(qy), e, 64)
    BY <2>4, <2>5 DEF B
  <2> QED
    BY <2>2, <2>3 DEF Py
<1>5. Blocked(A.state, qy, w)
  BY <1>0, <1>4 DEF HoldsAt
<1>6. /\ Agree(Py, 0, qy, 0, l) /\ Agree(Px, 0, qx, 0, l) /\ Text(Px) /\ Len(Px) = t
  <2> HIDE DEF qy, qx, l, h
  <2>1. Agree(Py, 0, qy, 0, l)
    BY <1>1, <1>2, PaddedIs
  <2>2. Agree(Px, 0, qx, 0, l)
    BY <1>1, <1>2, PaddedIs
  <2>3. z = (119 - (l % 64)) % 64 /\ t = l + z + 9
    OBVIOUS
  <2> HIDE DEF z, t
  <2>4. Text(Px) /\ Len(Px) = l + z + 9
    <3>1. l \in Nat /\ Text(qx) /\ Len(qx) = l /\ z = (119 - (l % 64)) % 64
      BY <1>1, <1>2, <2>3
    <3>2. Text(Digests!Padded(qx)) /\ Len(Digests!Padded(qx)) = PaddedLen(l)
      BY <3>1, PaddedText
    <3> QED
      BY <2>3, <3>2 DEF PaddedLen
  <2> QED
    BY <2>1, <2>2, <2>3, <2>4
<1>7. Agree(Py, l, Px, l, k)
  <2> HIDE DEF qy, qx, l, h, z, k
  <2> QED
    BY <1>1, <1>2, TailSame DEF z
<1>8. Block64(G) /\ Agree(G, 0, B, 0, p) /\ Agree(G, p, x0, 0, m) /\ Agree(G, o, B, o, k)
  <2>1. p + m <= 64
    BY <1>1
  <2> QED
    BY <1>1, <2>1, PutIs
<1> HIDE DEF qy, qx, Py, Px, B, G, h, l, o, e, z, t, k, v, n64
<1>9. Agree(Py, 0, q, 0, h) /\ Agree(Px, 0, q, 0, h)
  <2>1. Agree(Py, 0, qy, 0, h) /\ Agree(Px, 0, qx, 0, h)
    BY <1>1, <1>6, AgreeFront
  <2> QED
    BY <1>2, <2>1, AgreeOn
<1>10. Agree(G, 0, Px, e, p)
  <2>1. Agree(B, 0, Py, e, p)
    BY <1>1, <1>3, <1>4, AgreeFront
  <2>2. Agree(Py, e, q, e, p)
    BY <1>1, <1>9, AgreeInside, Zenon
  <2>3. Agree(Px, e, q, e, p)
    BY <1>1, <1>9, AgreeInside, Zenon
  <2> QED
    BY <1>8, <2>1, <2>2, <2>3, AgreeOn, AgreeBack
<1>11. Agree(G, p, Px, h, m)
  <2>1. h + m <= l
    BY <1>1, <1>3
  <2>2. Agree(Px, h, qx, h, m)
    BY <1>1, <1>6, <2>1, AgreeInside, Zenon
  <2> QED
    BY <1>2, <1>8, <2>2, AgreeOn, AgreeBack
<1>12. Agree(G, o, Px, l, k)
  <2>1. Agree(B, o, Py, l, k)
    <3>1. e \in Nat /\ o \in Nat /\ k \in Nat /\ l = e + o /\ o + k <= n64 /\ n64 \in Nat /\ o = 0 + o
      BY <1>1, <1>3
    <3> QED
      BY <1>3, <1>4, <3>1, AgreeWithin, Zenon
  <2> QED
    BY <1>7, <1>8, <2>1, AgreeOn, AgreeBack
<1>13. Agree(G, 0, Px, e, o)
  BY <1>1, <1>3, <1>10, <1>11, AgreeBoth, Zenon
<1>14. Agree(G, 0, Px, e, n64)
  <2>1. e \in Nat /\ o \in Nat /\ k \in Nat /\ l = e + o /\ n64 = o + k
    BY <1>1
  <2> QED
    BY <1>3, <1>12, <1>13, <2>1, AgreeBoth, Zenon
<1>15. Agree(Px, 0, qy, 0, e)
  <2>1. Agree(Px, 0, q, 0, e) /\ Agree(qy, 0, q, 0, e)
    BY <1>1, <1>2, <1>9, AgreeFront
  <2> QED
    BY <2>1, AgreeOn, AgreeBack
<1>16. Blocked(Then(A.state, G), Px, v)
  BY <1>5, <1>8, <1>14, <1>15, BlockedThen DEF e, v, n64
<1>17. Then(A.state, G) = Digests!BlocksOf(Px)
  BY <1>1, <1>6, <1>16, BlockedIs
<1> QED
  BY <1>17 DEF G, B, Px, qx

LEMMA HoldsThere ==
  ASSUME NEW c, NEW q, Holds(c, q), NEW w \in Nat, NEW p \in 0 .. 63,
         NEW k, Len(q) = k, k = 64 * w + p
  PROVE  HoldsAt(c, q, w, p)
<1>1. PICK w1 \in Nat, p1 \in 0 .. 63 : HoldsAt(c, q, w1, p1)
  BY DEF Holds
<1>2. Len(q) = 64 * w1 + p1
  BY <1>1 DEF HoldsAt
<1>3. w1 = w /\ p1 = p
  <2> DEFINE l == Len(q)
  <2>1. l = 64 * w1 + p1 /\ l = 64 * w + p
    BY <1>2
  <2> HIDE DEF l
  <2>2. l \div 64 = w1 /\ l % 64 = p1
    BY <2>1, Parts64
  <2>3. l \div 64 = w /\ l % 64 = p
    BY <2>1, Parts64
  <2> QED
    BY <2>2, <2>3
<1> QED
  BY <1>1, <1>3

\* The outer context: its count is put forward by a digest, so that it is
\* padded as if what its buffer begins with were that digest.
Ahead(c) == [c EXCEPT !.count = @ + 256]
Old(c) == Part(c.buf, 1, 32)

LEMMA AheadHolds ==
  ASSUME NEW c, NEW q, Holds(c, q), Block64(q), 2048 < CountLimit
  PROVE  /\ HoldsAt(Ahead(c), Join(q, Old(c)), 1, 32) /\ Text(q) /\ Text(Old(c))
         /\ Len(Old(c)) = 32 /\ Len(Join(q, Old(c))) = 96
<1> DEFINE y == Old(c)
           z == Join(q, y)
           u == Ahead(c)
<1>1. HoldsAt(c, q, 1, 0)
  <2>1. PICK w \in Nat, p \in 0 .. 63 : HoldsAt(c, q, w, p)
    BY DEF Holds
  <2>2. Len(q) = 64 * w + p
    BY <2>1 DEF HoldsAt
  <2>3. w = 1 /\ p = 0
    <3> DEFINE l == Len(q)
    <3>1. l = 64 * w + p
      BY <2>2
    <3>2. l = 64
      BY DEF Block64
    <3> HIDE DEF l
    <3> QED
      BY <3>1, <3>2
  <2> QED
    BY <2>1, <2>3
<1>2. /\ Text(q) /\ c = [state |-> c.state, count |-> 8 * 64, buf |-> c.buf]
      /\ Blocked(c.state, q, 1) /\ Block64(c.buf) /\ Len(q) = 64
  <2>1. /\ Text(q) /\ c = [state |-> c.state, count |-> 8 * Len(q), buf |-> c.buf]
        /\ Blocked(c.state, q, 1) /\ Block64(c.buf)
    BY <1>1 DEF HoldsAt
  <2>2. Len(q) = 64
    BY DEF Block64
  <2> QED
    BY <2>1, <2>2
<1>3. Text(y) /\ Len(y) = 32 /\ Agree(y, 0, c.buf, 0, 32)
  <2> DEFINE b == c.buf
             a == 1
             e == 32
  <2>1. Text(b) /\ y = Part(b, a, e)
    BY <1>2 DEF Block64, Old
  <2>2. a \in Nat /\ e \in Nat /\ a >= 1 /\ a <= e + 1 /\ e <= Len(b) /\ e + 1 - a = e /\ a - 1 = 0
    BY <1>2 DEF Block64
  <2> HIDE DEF b, a, e
  <2>3. /\ Text(Part(b, a, e)) /\ Len(Part(b, a, e)) = e + 1 - a
        /\ Agree(Part(b, a, e), 0, b, a - 1, e + 1 - a)
    BY <2>1, <2>2, TextPart
  <2>4. Text(y) /\ Len(y) = e /\ Agree(y, 0, b, 0, e)
    BY <2>1, <2>2, <2>3
  <2> QED
    BY <2>4 DEF b, e
<1> HIDE DEF y
<1>4. Text(z) /\ Len(z) = 64 + 32 /\ Agree(z, 0, q, 0, 64) /\ Agree(z, 64, y, 0, 32)
  <2> DEFINE l == 64
             m == 32
  <2>1. Text(q) /\ Text(y) /\ Len(q) = l /\ Len(y) = m
    BY <1>2, <1>3
  <2> HIDE DEF l, m
  <2>2. Text(z) /\ Len(z) = l + m /\ Agree(z, 0, q, 0, l) /\ Agree(z, l, y, 0, m)
    BY <2>1, JoinedIs
  <2> QED
    BY <2>2 DEF l, m
<1>5. /\ u.state = c.state /\ u.buf = c.buf
      /\ u = [state |-> c.state, count |-> 8 * 64 + 256, buf |-> c.buf]
  <2>1. u = [c EXCEPT !.count = c.count + 256] /\ c.count = 8 * 64
    BY <1>2 DEF Ahead
  <2>2. u = [state |-> c.state, count |-> 8 * 64 + 256, buf |-> c.buf]
    BY <1>2, <2>1
  <2> HIDE DEF u
  <2> QED
    BY <2>2
<1> HIDE DEF z, u
<1>6. Blocked(u.state, z, 1)
  <2>1. 1 \in Nat /\ 64 * 1 = 64
    OBVIOUS
  <2>2. Agree(z, 0, q, 0, 64 * 1)
    BY <1>4, <2>1
  <2> QED
    BY <1>2, <1>5, <2>1, <2>2, BlockedSame
<1>7. Agree(u.buf, 0, z, 64 * 1, 32)
  <2>1. 64 * 1 = 64
    OBVIOUS
  <2>2. Agree(c.buf, 0, z, 64, 32)
    BY <1>3, <1>4, AgreeOn, AgreeBack
  <2> QED
    BY <1>5, <2>1, <2>2
<1>8. Len(z) = 96 /\ Len(z) = 64 * 1 + 32 /\ 8 * Len(z) < CountLimit
  <2>1. 8 * 96 < CountLimit /\ 64 + 32 = 96 /\ 64 * 1 + 32 = 96
    BY HasherAssumption
  <2> QED
    BY <1>4, <2>1
<1>9. u = [state |-> u.state, count |-> 8 * Len(z), buf |-> u.buf]
  <2>1. 8 * 64 + 256 = 8 * 96
    OBVIOUS
  <2>2. 8 * Len(z) = 8 * 64 + 256
    BY <1>8, <2>1
  <2> QED
    BY <1>5, <2>2
<1>10. HoldsAt(u, z, 1, 32)
  BY <1>2, <1>4, <1>5, <1>6, <1>7, <1>8, <1>9 DEF HoldsAt
<1> QED
  BY <1>2, <1>3, <1>8, <1>10 DEF u, z, y

LEMMA HoldsBuffered ==
  ASSUME NEW c, NEW q, Holds(c, q), NEW w \in Nat, NEW p \in 0 .. 63, NEW k, Len(q) = k, k = 64 * w + p
  PROVE  HoldsAt(c, q, w, p) /\ Digests!Buffered(c) = p
<1>1. HoldsAt(c, q, w, p)
  BY HoldsThere
<1>2. Digests!Buffered(c) = p
  BY <1>1, BufferedIs
<1> QED
  BY <1>1, <1>2

FastKey(key, salt) ==
  /\ Text(key) /\ 8 * Len(key) < CountLimit /\ 2048 < CountLimit
  /\ Text(salt) /\ 8 * (Len(salt) + 192) < CountLimit /\ Len(salt) % 64 <= 51

Salt0(key, salt) == Digests!HMAC_SHA256_Update(Digests!HMAC_SHA256_Init(key), salt)
Counted(key, salt) == Digests!HMAC_SHA256_Update(Salt0(key, salt), Digests!Zeros(4))
WithSalt(key, salt) == Join(Inner(key), salt)

FastAt(key, salt, w, p) ==
  /\ HoldsAt(Counted(key, salt).ictx, Join(WithSalt(key, salt), Digests!Zeros(4)), w, p + 4)
  /\ Digests!Buffered(Salt0(key, salt).ictx) = p
  /\ Digests!Buffered(Counted(key, salt).ictx) = p + 4
  /\ Text(WithSalt(key, salt)) /\ Len(WithSalt(key, salt)) = 64 * w + p
  /\ Len(Join(WithSalt(key, salt), Digests!Zeros(4))) = Len(salt) + 68
  /\ Holds(Salt0(key, salt).octx, Outer(key))

\* The inner context, before and after the room for the counter.
LEMMA CountedHolds ==
  ASSUME NEW key, NEW salt, FastKey(key, salt)
  PROVE  \E w \in Nat, p \in 0 .. 51 : FastAt(key, salt, w, p)
<1> DEFINE l == Len(salt)
           z == Digests!Zeros(4)
           h == Salt0(key, salt)
           c == Counted(key, salt)
           q == WithSalt(key, salt)
<1>1. Text(key) /\ 8 * Len(key) < CountLimit /\ 2048 < CountLimit /\ Text(salt) /\ l % 64 <= 51
  BY DEF FastKey
<1>2. l \in Nat
  BY <1>1, TextIs
<1>3. 8 * (Len(salt) + 100) < CountLimit
  <2>1. 8 * (l + 192) < CountLimit
    BY DEF FastKey
  <2> HIDE DEF l
  <2>2. 8 * (l + 100) < CountLimit
    BY <1>2, <2>1, HasherAssumption
  <2> QED
    BY <2>2 DEF l
<1>4. Word4(z)
  <2>1. 4 \in Nat
    OBVIOUS
  <2> QED
    BY <2>1, ZerosIs DEF Word4
<1> HIDE DEF z
<1>5. PICK w \in Nat, p \in 0 .. 51 : 64 + l = 64 * w + p
  <2> DEFINE d == l \div 64
             r == l % 64
  <2>3. l % 64 <= 51
    BY <1>1
  <2> HIDE DEF l
  <2>1. d \in Nat /\ r \in 0 .. 63 /\ l = 64 * d + r /\ r <= 51
    BY <1>2, <2>3, Blocks64
  <2> HIDE DEF d, r
  <2>2. d + 1 \in Nat /\ r \in 0 .. 51 /\ 64 + l = 64 * (d + 1) + r
    BY <2>1
  <2> QED
    BY <2>2
<1> DEFINE o == p + 4
<1>12. p \in 0 .. 63 /\ o \in 0 .. 63 /\ 64 + l + 4 = 64 * w + o
  <2> HIDE DEF l
  <2> QED
    BY <1>2, <1>5
<1>6. HmacHolds(h, key, q) /\ HmacHolds(c, key, Join(q, z)) /\ Len(q) = 64 + l /\ Text(q)
  BY <1>1, <1>3, <1>4, SaltedHolds DEF Counted, Salt0, WithSalt, z
<1> HIDE DEF h, c, q
<1>7. Len(Join(q, z)) = 64 + l + 4
  <2>1. Len(Join(q, z)) = Len(q) + Len(z)
    BY <1>4, <1>6, TextJoined DEF Word4
  <2>2. Len(z) = 4
    BY <1>4 DEF Word4
  <2> QED
    BY <1>6, <2>1, <2>2
<1>8. Holds(h.ictx, q) /\ Holds(c.ictx, Join(q, z)) /\ Holds(h.octx, Outer(key))
  BY <1>6 DEF HmacHolds
<1> HIDE DEF l, o
<1>9. Digests!Buffered(h.ictx) = p
  BY <1>5, <1>6, <1>8, <1>12, HoldsBuffered
<1>10. HoldsAt(c.ictx, Join(q, z), w, o) /\ Digests!Buffered(c.ictx) = o
  BY <1>5, <1>7, <1>8, <1>12, HoldsBuffered
<1>11. 64 + l + 4 = l + 68
  BY <1>2
<1>13. FastAt(key, salt, w, p)
  BY <1>5, <1>6, <1>7, <1>8, <1>9, <1>10, <1>11 DEF h, c, q, z, o, l, FastAt
<1> QED
  BY <1>13

LEMMA InnerIs ==
  ASSUME NEW key, NEW salt, FastKey(key, salt), NEW w \in Nat, NEW p \in 0 .. 51,
         FastAt(key, salt, w, p), NEW x0, Word4(x0),
         NEW A, A = Digests!SHA256_Pad_Almost(Counted(key, salt).ictx)
  PROVE  Then(A.state, Digests!Put(A.buf, p, x0))
           = Digests!BlocksOf(Digests!Padded(Join(WithSalt(key, salt), x0)))
<1> DEFINE c == Counted(key, salt).ictx
           q == WithSalt(key, salt)
           y == Digests!Zeros(4)
           m == 4
           j0 == Join(q, y)
<1>1. Text(q) /\ Len(q) = 64 * w + p /\ HoldsAt(c, j0, w, p + m) /\ Len(j0) = Len(salt) + 68
  BY DEF FastAt
<1>2. m \in Nat /\ p \in 0 .. 63 /\ p + m < 56
  OBVIOUS
<1>3. Text(y) /\ Len(y) = m
  BY <1>2, ZerosIs
<1>4. Text(x0) /\ Len(x0) = m
  BY DEF Word4
<1>5. 8 * (Len(j0) + 64) < CountLimit
  <2> DEFINE l == Len(salt)
  <2>1. l \in Nat /\ 8 * (l + 192) < CountLimit
    BY TextIs DEF FastKey
  <2> HIDE DEF l
  <2>2. 8 * ((l + 68) + 64) < CountLimit
    BY <2>1, HasherAssumption
  <2>3. Len(j0) = l + 68
    BY <1>1 DEF l
  <2> HIDE DEF j0
  <2> QED
    BY <2>2, <2>3
<1>6. A = Digests!SHA256_Pad_Almost(c)
  OBVIOUS
<1> HIDE DEF c, q, y, m, j0
<1>7. Then(A.state, Digests!Put(A.buf, p, x0)) = Digests!BlocksOf(Digests!Padded(Join(q, x0)))
  <2>1. Text(q) /\ Len(q) = 64 * w + p /\ HoldsAt(c, Join(q, y), w, p + m)
    BY <1>1 DEF j0
  <2>2. 8 * (Len(Join(q, y)) + 64) < CountLimit
    BY <1>5 DEF j0
  <2>3. Placed(c, q, y, w, p, m)
    BY <1>2, <1>3, <2>1, <2>2 DEF Placed
  <2>4. Sized(x0, m)
    BY <1>4 DEF Sized
  <2> QED
    BY <1>6, <2>3, <2>4, Replaced
<1> QED
  BY <1>7 DEF q

LEMMA OuterIs ==
  ASSUME NEW c, NEW q, Holds(c, q), Block64(q), 2048 < CountLimit, NEW x0,
         Text(x0), Len(x0) = 32, NEW A, A = Digests!SHA256_Pad_Almost(Ahead(c))
  PROVE  Then(A.state, Digests!Put(A.buf, 0, x0)) = Digests!BlocksOf(Digests!Padded(Join(q, x0)))
<1> DEFINE y == Old(c)
           m == 32
           w == 1
           p == 0
           d == Ahead(c)
           z == Join(q, y)
<1>1. HoldsAt(d, z, 1, 32) /\ Text(q) /\ Text(y) /\ Len(y) = 32 /\ Len(z) = 96
  BY AheadHolds
<1>2. m \in Nat /\ w \in Nat /\ p \in 0 .. 63 /\ p + m < 56 /\ p + m = 32
  OBVIOUS
<1>3. Len(q) = 64 * w + p
  <2>1. Len(q) = 64 /\ 64 = 64 * w + p
    BY DEF Block64
  <2> QED
    BY <2>1
<1>4. 8 * (Len(z) + 64) < CountLimit
  <2> HIDE DEF z
  <2>1. 8 * (96 + 64) < CountLimit
    BY HasherAssumption
  <2> QED
    BY <1>1, <2>1
<1> HIDE DEF z, d, y
<1>5. HoldsAt(d, z, w, p + m)
  BY <1>1
<1>6. Len(y) = m /\ Len(x0) = m /\ A = Digests!SHA256_Pad_Almost(d)
  BY <1>1 DEF d
<1> HIDE DEF m, w, p
<1>7. Then(A.state, Digests!Put(A.buf, p, x0)) = Digests!BlocksOf(Digests!Padded(Join(q, x0)))
  <2>1. Text(q) /\ Text(y)
    BY <1>1
  <2>2. HoldsAt(d, Join(q, y), w, p + m) /\ 8 * (Len(Join(q, y)) + 64) < CountLimit
    BY <1>4, <1>5 DEF z
  <2>3. Placed(d, q, y, w, p, m)
    BY <1>2, <1>3, <1>6, <2>1, <2>2 DEF Placed
  <2>4. Sized(x0, m)
    BY DEF Sized, m
  <2> QED
    BY <1>6, <2>3, <2>4, Replaced
<1> QED
  BY <1>7 DEF p

LEMMA PreparedIs ==
  ASSUME NEW key, NEW salt, NEW f, f = Digests!FastPrepared(key, salt)
  PROVE  /\ f.refused = (\/ Digests!Buffered(Counted(key, salt).ictx)
                              < Digests!Buffered(Salt0(key, salt).ictx)
                         \/ Digests!Buffered(Counted(key, salt).ictx) >= 56)
         /\ f.ivec = Digests!Buffered(Salt0(key, salt).ictx)
         /\ f.ictx = Digests!SHA256_Pad_Almost(Counted(key, salt).ictx)
         /\ f.octx = Digests!SHA256_Pad_Almost(Ahead(Salt0(key, salt).octx))
<1>1. f = [refused |-> \/ Digests!Buffered(Counted(key, salt).ictx)
                              < Digests!Buffered(Salt0(key, salt).ictx)
                       \/ Digests!PadRefused(Counted(key, salt).ictx),
           ivec |-> Digests!Buffered(Salt0(key, salt).ictx),
           ictx |-> Digests!SHA256_Pad_Almost(Counted(key, salt).ictx),
           octx |-> Digests!SHA256_Pad_Almost(Ahead(Salt0(key, salt).octx))]
  BY DEF Digests!FastPrepared, Counted, Salt0, Ahead
<1> QED
  BY <1>1 DEF Digests!PadRefused

LEMMA FastIs ==
  ASSUME NEW key, NEW salt, FastKey(key, salt), NEW f, f = Digests!FastPrepared(key, salt)
  PROVE  f.refused = FALSE /\ \A g : Digests!FastBlock(f, g) = Digests!MacOf(key, Salted(salt, g))
<1>1. PICK w \in Nat, p \in 0 .. 51 : FastAt(key, salt, w, p)
  BY CountedHolds
<1>2. f.refused = FALSE
  <2>1. Digests!Buffered(Counted(key, salt).ictx) = p + 4 /\ Digests!Buffered(Salt0(key, salt).ictx) = p
    BY <1>1 DEF FastAt
  <2>2. ~ (p + 4 < p) /\ ~ (p + 4 >= 56)
    OBVIOUS
  <2> QED
    BY <2>1, <2>2, PreparedIs
<1>3. ASSUME NEW g PROVE Digests!FastBlock(f, g) = Digests!MacOf(key, Salted(salt, g))
  <2> DEFINE b == Digests!be32enc(g)
             q == WithSalt(key, salt)
             i0 == Join(q, b)
             d == Digests!HashOf(i0)
             o == Outer(key)
  <2>1. Word4(b)
    BY Be32Is
  <2>2. Text(key) /\ Text(salt) /\ 8 * Len(key) < CountLimit /\ 2048 < CountLimit
    BY DEF FastKey
  <2>3. /\ f.ivec = p /\ f.ictx = Digests!SHA256_Pad_Almost(Counted(key, salt).ictx)
        /\ f.octx = Digests!SHA256_Pad_Almost(Ahead(Salt0(key, salt).octx))
    BY <1>1, PreparedIs DEF FastAt
  <2> HIDE DEF b
  <2>4. Then(f.ictx.state, Digests!Put(f.ictx.buf, p, b)) = Digests!BlocksOf(Digests!Padded(i0))
    BY <1>1, <2>1, <2>3, InnerIs
  <2>5. Digests!be32enc_vect(Then(f.ictx.state, Digests!Put(f.ictx.buf, f.ivec, b))) = d
    BY <2>3, <2>4 DEF Digests!HashOf
  <2>6. Text(d) /\ Len(d) = 32
    BY DigestIs
  <2>7. Block64(o) /\ Holds(Salt0(key, salt).octx, o)
    BY <1>1, <2>2, KeyIs DEF FastAt, Block64
  <2> HIDE DEF d, i0, o
  <2>8. Then(f.octx.state, Digests!Put(f.octx.buf, 0, d)) = Digests!BlocksOf(Digests!Padded(Join(o, d)))
    BY <2>2, <2>3, <2>6, <2>7, OuterIs
  <2>9. Digests!FastBlock(f, g) = Digests!HashOf(Join(o, d))
    <3>1. Digests!FastBlock(f, g)
            = Digests!be32enc_vect(Then(f.octx.state, Digests!Put(f.octx.buf, 0,
                Digests!be32enc_vect(Then(f.ictx.state, Digests!Put(f.ictx.buf, f.ivec, b))))))
      BY DEF Digests!FastBlock, Digests!SHA256_Transform, Then, b
    <3> QED
      BY <2>5, <2>8, <3>1 DEF Digests!HashOf
  <2>10. Digests!MacOf(key, Salted(salt, g)) = Digests!HashOf(Join(o, d))
    <3>1. Text(Inner(key))
      BY <2>2, KeyIs
    <3>2. i0 = Join(Inner(key), Salted(salt, g))
      BY <2>1, <2>2, <3>1, JoinJoin DEF i0, WithSalt, Salted, Word4, b
    <3>3. Digests!MacOf(key, Salted(salt, g))
            = Digests!HashOf(Join(o, Digests!HashOf(Join(Inner(key), Salted(salt, g)))))
      BY DEF Digests!MacOf, Inner, Outer, KeyOf, Join, o
    <3> QED
      BY <3>2, <3>3 DEF d
  <2> QED
    BY <2>9, <2>10
<1> QED
  BY <1>2, <1>3

BlockLen(d, g) == IF d - 32 * (g - 1) > 32 THEN 32 ELSE d - 32 * (g - 1)
Ready(key, salt, c, d) ==
  Digests!IsFast(Len(salt), c, d) /\ ~ Digests!FastPrepared(key, salt).refused

LEMMA DeriveMade ==
  ASSUME NEW key, NEW salt, NEW c, NEW d
  PROVE  Digests!PBKDF2_SHA256(key, salt, c, d)
           = [g \in To((d + 31) \div 32) |->
                IF Ready(key, salt, c, d)
                  THEN [xor |-> {Digests!FastBlock(Digests!FastPrepared(key, salt), g)}, len |-> 32]
                  ELSE [xor |-> Digests!GenericBlock(key, salt, c, g), len |-> BlockLen(d, g)]]
BY Zenon DEF Digests!PBKDF2_SHA256, Ready, BlockLen, To

\* The last block of output is cut to what is left.
LEMMA BlockLenIs ==
  ASSUME NEW d \in Nat, NEW h, h = (d + 31) \div 32, NEW g \in To(h)
  PROVE  /\ g < h \/ d % 32 = 0 => BlockLen(d, g) = 32
         /\ ~ (g < h) /\ d % 32 # 0 => BlockLen(d, g) = d % 32
<1>1. h \in Nat /\ g \in Nat /\ g >= 1 /\ g <= h /\ 32 * h <= d + 31 /\ d <= 32 * h
  BY DEF To
<1>2. CASE g < h
  <2>1. d - 32 * (g - 1) > 32
    BY <1>1, <1>2
  <2> QED
    BY <1>2, <2>1 DEF BlockLen
<1>3. CASE ~ (g < h)
  <2> DEFINE k == h - 1
             r == d - 32 * k
  <2>1. g = h
    BY <1>1, <1>3
  <2>2. k \in Nat /\ r \in 1 .. 32 /\ d = 32 * k + r
    BY <1>1
  <2>3. BlockLen(d, g) = r
    BY <2>1, <2>2 DEF BlockLen
  <2> HIDE DEF k, r
  <2>4. d % 32 = IF r = 32 THEN 0 ELSE r
    BY <2>2
  <2> QED
    BY <1>3, <2>2, <2>3, <2>4
<1> QED
  BY <1>2, <1>3

\* One round of PBKDF2: a single MAC.
LEMMA OneRound ==
  ASSUME NEW key, NEW salt, NEW c, c = 1, NEW g
  PROVE  Digests!DerivedOf(key, salt, c, g) = {Digests!MacOf(key, Salted(salt, g))}
<1> DEFINE u == Chain(key, salt, c, g)
           m == Salted(salt, g)
<1>1. c \in Nat /\ To(c) = {1}
  BY DEF To
<1>2. Chained(u, key, m, c)
  BY <1>1, ChainIs
<1> HIDE DEF u, m
<1>3. \A k \in To(c) : u[k] = Digests!MacOf(key, IF k = 1 THEN m ELSE u[k - 1])
  BY <1>2, ChainedAt
<1>4. u[1] = Digests!MacOf(key, m)
  BY <1>1, <1>3
<1>5. Values(u, c) = {u[1]}
  BY <1>1 DEF Values
<1>6. Digests!DerivedOf(key, salt, c, g) = Values(u, c)
  BY DerivedIs DEF u
<1> QED
  BY <1>4, <1>5, <1>6 DEF m

DeriveKey(key, salt) ==
  /\ Text(key) /\ 8 * Len(key) < CountLimit /\ 2048 < CountLimit
  /\ Text(salt) /\ 8 * (Len(salt) + 192) < CountLimit

\* The h blocks of d bytes of output.
Derived(u, key, salt, c, d, h) ==
  /\ Text(u) /\ Len(u) = h
  /\ \A g \in To(h) : /\ u[g].xor = Digests!DerivedOf(key, salt, c, g)
                      /\ u[g].len = IF g < h \/ d % 32 = 0 THEN 32 ELSE d % 32

LEMMA DerivesIs ==
  ASSUME NEW key, NEW salt, DeriveKey(key, salt), NEW c \in Nat \ {0}, NEW d \in Nat,
         NEW h, h = (d + 31) \div 32, NEW u, u = Digests!PBKDF2_SHA256(key, salt, c, d)
  PROVE  Derived(u, key, salt, c, d, h)
<1> DEFINE f == Digests!FastPrepared(key, salt)
<1>0. h \in Nat
  OBVIOUS
<1>1. /\ Text(key) /\ 8 * Len(key) < CountLimit /\ 2048 < CountLimit
      /\ Text(salt) /\ 8 * (Len(salt) + 100) < CountLimit
  <2> DEFINE l == Len(salt)
  <2>1. l \in Nat /\ 8 * (l + 192) < CountLimit
    BY TextIs DEF DeriveKey
  <2> HIDE DEF l
  <2>2. 8 * (l + 100) < CountLimit
    BY <2>1, HasherAssumption
  <2> QED
    BY <2>2 DEF DeriveKey, l
<1>2. u = [g \in To(h) |->
             IF Ready(key, salt, c, d)
               THEN [xor |-> {Digests!FastBlock(f, g)}, len |-> 32]
               ELSE [xor |-> Digests!GenericBlock(key, salt, c, g), len |-> BlockLen(d, g)]]
  BY DeriveMade
<1>3. u = [g \in To(h) |-> u[g]]
  BY <1>2
<1>4. Text(u) /\ Len(u) = h
  BY <1>0, <1>3, TextMade
<1> HIDE DEF f
<1>5. ASSUME NEW g \in To(h)
      PROVE  /\ u[g].xor = Digests!DerivedOf(key, salt, c, g)
             /\ u[g].len = IF g < h \/ d % 32 = 0 THEN 32 ELSE d % 32
  <2>1. CASE Ready(key, salt, c, d)
    <3>1. c = 1 /\ d % 32 = 0 /\ Len(salt) % 64 <= 51
      BY <2>1 DEF Ready, Digests!IsFast
    <3>2. u[g].xor = {Digests!FastBlock(f, g)} /\ u[g].len = 32
      BY <1>2, <2>1
    <3>3. FastKey(key, salt)
      BY <3>1 DEF FastKey, DeriveKey
    <3>4. Digests!FastBlock(f, g) = Digests!MacOf(key, Salted(salt, g))
      BY <3>3, FastIs DEF f
    <3>5. Digests!DerivedOf(key, salt, c, g) = {Digests!MacOf(key, Salted(salt, g))}
      BY <3>1, OneRound
    <3> QED
      BY <3>1, <3>2, <3>4, <3>5
  <2>2. CASE ~ Ready(key, salt, c, d)
    <3>1. u[g].xor = Digests!GenericBlock(key, salt, c, g) /\ u[g].len = BlockLen(d, g)
      BY <1>2, <2>2
    <3>2. c \in Nat
      OBVIOUS
    <3>3. Digests!GenericBlock(key, salt, c, g) = Digests!DerivedOf(key, salt, c, g)
      BY <1>1, <3>2, GenericMatches
    <3>4. BlockLen(d, g) = IF g < h \/ d % 32 = 0 THEN 32 ELSE d % 32
      BY BlockLenIs
    <3> QED
      BY <3>1, <3>3, <3>4
  <2> QED
    BY <2>1, <2>2
<1> QED
  BY <1>4, <1>5 DEF Derived

LEMMA BytesIs ==
  ASSUME NEW name, NEW l \in Nat
  PROVE  /\ Text(Digests!Bytes(name, l)) /\ Len(Digests!Bytes(name, l)) = l
         /\ \A k \in To(l) : Digests!Bytes(name, l)[k] = <<name, k>>
<1> DEFINE q == Digests!Bytes(name, l)
<1>1. q = [k \in To(l) |-> q[k]] /\ \A k \in To(l) : q[k] = <<name, k>>
  BY DEF Digests!Bytes, To
<1> HIDE DEF q
<1>2. Text(q) /\ Len(q) = l
  BY <1>1, TextMade
<1> QED
  BY <1>1, <1>2 DEF q

Said(l) == Digests!Bytes("message", l)

LEMMA MessageIs ==
  ASSUME NEW a \in Nat, NEW b \in Nat, NEW e, e = a + b
  PROVE  /\ Text(Digests!Message(a, e)) /\ Len(Digests!Message(a, e)) = b
         /\ Agree(Digests!Message(a, e), 0, Said(e), a, b)
<1> DEFINE f == a + 1
<1>1. f \in Nat /\ e \in Nat /\ f >= 1 /\ f <= e + 1 /\ f - 1 = a /\ e + 1 - f = b /\ e <= e
  OBVIOUS
<1>2. Digests!Message(a, e) = Part(Said(e), f, e)
  BY DEF Digests!Message, Part, Said
<1> HIDE DEF f
<1>3. Text(Said(e)) /\ Len(Said(e)) = e
  BY <1>1, BytesIs DEF Said
<1>4. /\ Text(Part(Said(e), f, e)) /\ Len(Part(Said(e), f, e)) = e + 1 - f
      /\ Agree(Part(Said(e), f, e), 0, Said(e), f - 1, e + 1 - f)
  BY <1>1, <1>3, TextPart
<1> QED
  BY <1>1, <1>2, <1>4

LEMMA SaidAll ==
  ASSUME NEW l \in Nat
  PROVE  Digests!Message(0, l) = Said(l)
<1>1. l = 0 + l /\ 0 \in Nat
  OBVIOUS
<1>2. /\ Text(Digests!Message(0, l)) /\ Len(Digests!Message(0, l)) = l
      /\ Agree(Digests!Message(0, l), 0, Said(l), 0, l)
  BY <1>1, MessageIs
<1>3. Text(Said(l)) /\ Len(Said(l)) = l
  BY BytesIs DEF Said
<1> QED
  BY <1>2, <1>3, TextEqual

\* The bytes of a message are the same however long it gets.
LEMMA SaidAgree ==
  ASSUME NEW a \in Nat, NEW b \in Nat, NEW e, e = a + b
  PROVE  Agree(Said(e), 0, Said(a), 0, a)
<1>1. e \in Nat
  OBVIOUS
<1>2. \A k \in To(a) : k \in To(e) /\ 0 + k = k
  BY DEF To
<1>3. /\ \A k \in To(e) : Said(e)[k] = <<"message", k>>
      /\ \A k \in To(a) : Said(a)[k] = <<"message", k>>
  BY <1>1, BytesIs DEF Said
<1> QED
  BY <1>2, <1>3 DEF Agree

LEMMA SaidFurther ==
  ASSUME NEW a \in Nat, NEW b \in Nat, NEW e, e = a + b
  PROVE  Join(Said(a), Digests!Message(a, e)) = Said(e)
<1> DEFINE p == Said(a)
           q == Digests!Message(a, e)
           z == Join(p, q)
           y == Said(e)
<1>1. /\ e \in Nat /\ 0 \in Nat /\ a = 0 + a
  OBVIOUS
<1>2. Text(p) /\ Len(p) = a /\ Text(y) /\ Len(y) = e
  BY <1>1, BytesIs DEF Said
<1>3. Text(q) /\ Len(q) = b /\ Agree(q, 0, y, a, b)
  BY MessageIs
<1>4. Agree(y, 0, p, 0, a)
  BY SaidAgree
<1> HIDE DEF p, q, y
<1>5. Text(z) /\ Len(z) = a + b /\ Agree(z, 0, p, 0, a) /\ Agree(z, a, q, 0, b)
  <2>1. Text(p) /\ Text(q) /\ Len(p) = a /\ Len(q) = b
    BY <1>2, <1>3
  <2>2. /\ Text(Join(p, q)) /\ Len(Join(p, q)) = Len(p) + Len(q)
        /\ Agree(Join(p, q), 0, p, 0, Len(p)) /\ Agree(Join(p, q), Len(p), q, 0, Len(q))
    BY <2>1, TextJoined
  <2> QED
    BY <2>1, <2>2
<1> HIDE DEF z
<1>6. Agree(z, 0, y, 0, a)
  BY <1>4, <1>5, AgreeBack, AgreeOn
<1>7. Agree(z, a, y, a, b)
  BY <1>3, <1>5, AgreeOn
<1>8. Agree(z, 0, y, 0, e)
  BY <1>1, <1>6, <1>7, AgreeBoth
<1>9. z = y
  BY <1>2, <1>5, <1>8, TextEqual
<1> QED
  BY <1>9 DEF z, p, q, y

(***************************************************************************)
(* Jobs.  The context of a stream went through what was said so far.       *)
(***************************************************************************)
Result ==
  /\ job.kind = "done" => out = Digests!HashOf(Said(job.len))
  /\ job.kind = "mac" =>
       out = Digests!MacOf(Digests!Bytes("key", job.key), Said(job.len))
  /\ job.kind = "derive" =>
       /\ Len(out) = (job.dkLen + 31) \div 32
       /\ \A g \in To(Len(out)) :
            /\ out[g].xor = Digests!DerivedOf(Digests!Bytes("key", job.key),
                                              Digests!Bytes("salt", job.salt), job.c, g)
            /\ out[g].len = IF g < Len(out) \/ job.dkLen % 32 = 0 THEN 32 ELSE job.dkLen % 32

StreamInv ==
  /\ job.kind = "stream" =>
       /\ job = [kind |-> "stream", len |-> job.len]
       /\ job.len \in Nat /\ job.len <= MaxMessage /\ Holds(stream, Said(job.len))
  /\ job.kind = "done" => job.len \in Nat
  /\ job.kind = "mac" => job.len \in Nat
  /\ Result

LEMMA SaidIs ==
  ASSUME NEW l \in Nat
  PROVE  Text(Said(l)) /\ Len(Said(l)) = l
BY BytesIs DEF Said

LEMMA StreamStarts == HasherInit => StreamInv
<1> SUFFICES ASSUME HasherInit PROVE StreamInv
  OBVIOUS
<1>1. job.kind = "none"
  BY DEF HasherInit, Digests!Init, Digests!Idle
<1> QED
  BY <1>1 DEF StreamInv, Result

LEMMA BeginKeeps == StreamInv /\ Digests!Begin => StreamInv'
<1> SUFFICES ASSUME StreamInv, Digests!Begin PROVE StreamInv'
  OBVIOUS
<1>1. job' = [kind |-> "stream", len |-> 0] /\ stream' = Digests!SHA256_Init
  BY DEF Digests!Begin
<1>2. Said(0) = <<>>
  BY DEF Said, Digests!Bytes
<1>3. Holds(stream', Said(0))
  BY <1>1, <1>2, InitHolds
<1>4. job'.kind = "stream" /\ job'.len = 0 /\ 0 \in Nat /\ 0 <= MaxMessage
  BY <1>1, HasherAssumption
<1> QED
  BY <1>1, <1>3, <1>4 DEF StreamInv, Result

LEMMA UpdateStepKeeps ==
  ASSUME StreamInv, NEW l \in Chunks, Digests!Update(l)
  PROVE  StreamInv'
<1>1. /\ job.kind = "stream" /\ job.len + l <= MaxMessage
      /\ job' = [job EXCEPT !.len = @ + l]
      /\ stream' = Digests!SHA256_Update(stream, Digests!Message(job.len, job.len + l))
  BY DEF Digests!Update
<1>2. PICK a : a = job.len
  OBVIOUS
<1>3. /\ job = [kind |-> "stream", len |-> a] /\ a \in Nat /\ Holds(stream, Said(a))
  BY <1>1, <1>2 DEF StreamInv
<1>4. l \in Nat /\ MaxMessage \in Nat /\ CountLimit \in Nat /\ 8 * MaxMessage < CountLimit
  BY HasherAssumption
<1>5. PICK e : e = a + l
  OBVIOUS
<1>6. /\ job' = [kind |-> "stream", len |-> e] /\ e \in Nat /\ e <= MaxMessage
      /\ stream' = Digests!SHA256_Update(stream, Digests!Message(a, e))
  BY <1>1, <1>2, <1>3, <1>4, <1>5
<1>7. Text(Digests!Message(a, e)) /\ Len(Digests!Message(a, e)) = l
  BY <1>3, <1>4, <1>5, MessageIs
<1>8. Text(Said(a)) /\ Len(Said(a)) = a
  BY <1>3, SaidIs
<1>9. 8 * (Len(Said(a)) + Len(Digests!Message(a, e))) < CountLimit
  BY <1>3, <1>4, <1>5, <1>6, <1>7, <1>8
<1>10. Holds(stream', Join(Said(a), Digests!Message(a, e)))
  BY <1>3, <1>6, <1>7, <1>9, UpdateKeeps
<1>11. Join(Said(a), Digests!Message(a, e)) = Said(e)
  BY <1>3, <1>4, <1>5, SaidFurther
<1>12. job'.kind = "stream" /\ job'.len = e
  BY <1>6
<1> QED
  BY <1>6, <1>10, <1>11, <1>12 DEF StreamInv, Result

LEMMA FinalKeeps == StreamInv /\ Digests!Final => StreamInv'
<1> SUFFICES ASSUME StreamInv, Digests!Final PROVE StreamInv'
  OBVIOUS
<1>1. /\ job.kind = "stream" /\ job' = [kind |-> "done", len |-> job.len]
      /\ out' = Digests!SHA256_Final(stream)
  BY DEF Digests!Final
<1>2. job.len \in Nat /\ Holds(stream, Said(job.len))
  BY <1>1 DEF StreamInv
<1>3. out' = Digests!HashOf(Said(job.len))
  BY <1>1, <1>2, FinalIs
<1>4. job'.kind = "done" /\ job'.len = job.len
  BY <1>1
<1> QED
  BY <1>2, <1>3, <1>4 DEF StreamInv, Result

LEMMA MacKeeps ==
  ASSUME StreamInv, NEW k \in Keys, NEW l \in Salts, Digests!Mac(k, l)
  PROVE  StreamInv'
<1> DEFINE key == Digests!Bytes("key", k)
           m == Said(l)
<1>1. /\ job' = [kind |-> "mac", key |-> k, len |-> l]
      /\ out' = Digests!HMAC_SHA256_Buf(key, m)
  BY DEF Digests!Mac, Said
<1>2. /\ k \in Nat /\ l \in Nat /\ CountLimit \in Nat /\ 2048 < CountLimit
      /\ 8 * (k + 192) < CountLimit /\ 8 * (l + 192) < CountLimit
  BY HasherAssumption
<1>3. 8 * k < CountLimit /\ 8 * (64 + l) < CountLimit
  BY <1>2
<1>4. Text(key) /\ Len(key) = k /\ Text(m) /\ Len(m) = l
  BY <1>2, BytesIs, SaidIs
<1> HIDE DEF key, m
<1>5. 8 * Len(key) < CountLimit /\ 8 * (64 + Len(m)) < CountLimit
  BY <1>3, <1>4
<1>6. out' = Digests!MacOf(key, m)
  BY <1>1, <1>2, <1>4, <1>5, MacIs
<1>7. job'.kind = "mac" /\ job'.key = k /\ job'.len = l
  BY <1>1
<1> QED
  BY <1>2, <1>6, <1>7 DEF StreamInv, Result, key, m

LEMMA DeriveKeeps ==
  ASSUME StreamInv, NEW k \in Keys, NEW l \in Salts, NEW c \in Rounds, NEW d \in Outputs,
         Digests!Derive(k, l, c, d)
  PROVE  StreamInv'
<1> DEFINE key == Digests!Bytes("key", k)
           salt == Digests!Bytes("salt", l)
<1>1. /\ job' = [kind |-> "derive", key |-> k, salt |-> l, c |-> c, dkLen |-> d]
      /\ out' = Digests!PBKDF2_SHA256(key, salt, c, d)
  BY DEF Digests!Derive
<1>2. /\ k \in Nat /\ l \in Nat /\ c \in Nat \ {0} /\ d \in Nat /\ CountLimit \in Nat
      /\ 2048 < CountLimit /\ 8 * (k + 192) < CountLimit /\ 8 * (l + 192) < CountLimit
  BY HasherAssumption
<1>3. 8 * k < CountLimit
  BY <1>2
<1>4. Text(key) /\ Len(key) = k /\ Text(salt) /\ Len(salt) = l
  BY <1>2, BytesIs
<1> HIDE DEF key, salt
<1>5. DeriveKey(key, salt)
  BY <1>2, <1>3, <1>4 DEF DeriveKey
<1>6. PICK u, h : u = out' /\ h = (d + 31) \div 32
  OBVIOUS
<1>7. Derived(u, key, salt, c, d, h)
  BY <1>1, <1>2, <1>5, <1>6, DerivesIs
<1>8. /\ Len(u) = h
      /\ \A g \in To(h) : /\ u[g].xor = Digests!DerivedOf(key, salt, c, g)
                          /\ u[g].len = IF g < h \/ d % 32 = 0 THEN 32 ELSE d % 32
  BY <1>7 DEF Derived
<1>9. /\ job'.kind = "derive" /\ job'.key = k /\ job'.salt = l /\ job'.c = c /\ job'.dkLen = d
  BY <1>1
<1>10. /\ Len(out') = (job'.dkLen + 31) \div 32
       /\ \A g \in To(Len(out')) :
            /\ out'[g].xor = Digests!DerivedOf(key, salt, job'.c, g)
            /\ out'[g].len = IF g < Len(out') \/ job'.dkLen % 32 = 0 THEN 32 ELSE job'.dkLen % 32
  BY <1>6, <1>8, <1>9
<1>11. Result'
  BY <1>9, <1>10 DEF Result, key, salt
<1> QED
  BY <1>9, <1>11 DEF StreamInv

\* The context a stream is in, as its fields.
LEMMA HoldsSaid ==
  ASSUME NEW l \in Nat, NEW c, Holds(c, Said(l))
  PROVE  /\ c.state = Digests!BlocksOf(Said(l))
         /\ Part(c.buf, 1, Digests!Buffered(c)) = Digests!Message(l - (l % 64), l)
         /\ c.count = (8 * l) % CountLimit
<1> DEFINE q == Said(l)
<1>1. Text(q) /\ Len(q) = l
  BY SaidIs
<1>2. PICK w \in Nat, p \in 0 .. 63 : HoldsAt(c, q, w, p)
  BY DEF Holds
<1> HIDE DEF q
<1>3. /\ l = 64 * w + p /\ 8 * l < CountLimit /\ c.count = 8 * l
      /\ Blocked(c.state, q, w) /\ Block64(c.buf) /\ Agree(c.buf, 0, q, 64 * w, p)
  <2>1. c.count = 8 * Len(q)
    BY <1>2, BufferedIs
  <2> QED
    BY <1>1, <1>2, <2>1 DEF HoldsAt
<1>4. l \div 64 = w /\ l % 64 = p
  <2>1. l = 64 * w + p
    BY <1>3
  <2> QED
    BY <2>1, Parts64
<1>5. c.state = Digests!BlocksOf(q)
  BY <1>1, <1>3, <1>4, BlockedIs
<1>6. Digests!Buffered(c) = p
  BY <1>2, BufferedIs
<1>7. PICK a : a = 64 * w
  OBVIOUS
<1>8. a \in Nat /\ p \in Nat /\ l = a + p /\ l - p = a
  BY <1>3, <1>7
<1>9. Part(c.buf, 1, p) = Digests!Message(a, l)
  <2> DEFINE u == Part(c.buf, 1, p)
             v == Digests!Message(a, l)
  <2>1. 1 \in Nat /\ 1 >= 1 /\ 1 <= p + 1 /\ p <= 64 /\ p + 1 - 1 = p /\ 1 - 1 = 0
    OBVIOUS
  <2>2. Text(c.buf) /\ Len(c.buf) = 64
    BY <1>3 DEF Block64
  <2>3. Text(u) /\ Len(u) = p + 1 - 1 /\ Agree(u, 0, c.buf, 1 - 1, p + 1 - 1)
    BY <1>8, <2>1, <2>2, TextPart
  <2>4. Text(v) /\ Len(v) = p /\ Agree(v, 0, q, a, p)
    BY <1>8, MessageIs DEF q
  <2> HIDE DEF u, v
  <2>5. Agree(u, 0, c.buf, 0, p) /\ Len(u) = p
    BY <2>1, <2>3
  <2>6. Agree(c.buf, 0, q, a, p)
    BY <1>3, <1>7
  <2>7. Agree(u, 0, v, 0, p)
    BY <2>4, <2>5, <2>6, AgreeOn, AgreeBack
  <2>8. u = v
    BY <2>3, <2>4, <2>5, <2>7, TextEqual
  <2> QED
    BY <2>8 DEF u, v
<1>10. c.count = (8 * l) % CountLimit
  <2> DEFINE t == 8 * l
  <2>1. t \in Nat /\ t < CountLimit /\ c.count = t /\ CountLimit \in Nat
    BY <1>3, HasherAssumption
  <2> HIDE DEF t
  <2>2. t % CountLimit = t
    BY <2>1, Small
  <2> QED
    BY <2>1, <2>2 DEF t
<1>11. Digests!Message(l - (l % 64), l) = Digests!Message(a, l)
  BY <1>4, <1>8
<1>12. Part(c.buf, 1, Digests!Buffered(c)) = Digests!Message(l - (l % 64), l)
  BY <1>6, <1>9, <1>11
<1> QED
  BY <1>5, <1>10, <1>12 DEF q

LEMMA StreamMatches == StreamInv => DigestsMatch
<1> SUFFICES ASSUME StreamInv PROVE Digests!DigestsMatch
  BY DEF DigestsMatch
<1>1. ASSUME job.kind = "stream"
      PROVE  /\ stream.state = Digests!BlocksOf(Digests!Message(0, job.len))
             /\ SubSeq(stream.buf, 1, Digests!Buffered(stream))
                  = Digests!Message(job.len - (job.len % 64), job.len)
             /\ stream.count = (8 * job.len) % CountLimit
  <2>1. job.len \in Nat /\ Holds(stream, Said(job.len))
    BY <1>1 DEF StreamInv
  <2> QED
    BY <2>1, HoldsSaid, SaidAll DEF Part
<1>2. job.kind = "done" => out = Digests!HashOf(Digests!Message(0, job.len))
  BY SaidAll DEF StreamInv, Result
<1>3. job.kind = "mac" =>
        out = Digests!MacOf(Digests!Bytes("key", job.key), Digests!Bytes("message", job.len))
  BY DEF StreamInv, Result, Said
<1>4. job.kind = "derive" =>
        /\ Len(out) = (job.dkLen + 31) \div 32
        /\ \A g \in 1 .. Len(out) :
             /\ out[g].xor = Digests!DerivedOf(Digests!Bytes("key", job.key),
                                               Digests!Bytes("salt", job.salt), job.c, g)
             /\ out[g].len = IF g < Len(out) \/ job.dkLen % 32 = 0 THEN 32
                                                                  ELSE job.dkLen % 32
  BY DEF StreamInv, Result, To
<1> QED
  BY <1>1, <1>2, <1>3, <1>4 DEF Digests!DigestsMatch

\* However a message is cut into updates, of any lengths in any number, the
\* blocks compressed, the buffer and the count are those of the bytes said so
\* far, and the digest is the one FIPS 180-4 defines; HMAC and PBKDF2 agree with
\* RFC 2104 and RFC 8018 for any key, salt, count of rounds and length of
\* output, also where PBKDF2 takes its short cut with blocks padded beforehand
\* (sha256.c: SHA256_Update, SHA256_Pad, HMAC_SHA256_Init, SHA256_Pad_Almost,
\* PBKDF2_SHA256).
THEOREM DigestsCorrect == HasherSpec => []DigestsMatch
<1>1. StreamInv /\ [HasherNext]_hasherVars => StreamInv'
  <2> SUFFICES ASSUME StreamInv, [HasherNext]_hasherVars PROVE StreamInv'
    OBVIOUS
  <2>1. Digests!Next \/ UNCHANGED streamVars
    BY DEF HasherNext, hasherVars, WorkTurn, YespowerTurn, StreamTurn, RoundsTurn, SalsaTurn,
           PwxformTurn, BlockMixTurn
  <2>2. CASE UNCHANGED streamVars
    BY <2>2 DEF streamVars, StreamInv, Result
  <2>3. ASSUME NEW l \in Chunks, Digests!Update(l) PROVE StreamInv'
    BY <2>3, UpdateStepKeeps
  <2>4. ASSUME NEW k \in Keys, NEW l \in Salts, Digests!Mac(k, l) PROVE StreamInv'
    BY <2>4, MacKeeps
  <2>5. ASSUME NEW k \in Keys, NEW l \in Salts, NEW c \in Rounds, NEW d \in Outputs,
               Digests!Derive(k, l, c, d)
        PROVE  StreamInv'
    BY <2>5, DeriveKeeps
  <2> QED
    BY <2>1, <2>2, <2>3, <2>4, <2>5, BeginKeeps, FinalKeeps DEF Digests!Next
<1>2. StreamInv => DigestsMatch
  BY StreamMatches
<1> QED
  BY <1>1, <1>2, StreamStarts, PTL DEF HasherSpec

(***************************************************************************)
(* Words of up to 24 bits.                                                 *)
(***************************************************************************)
Word24 == {m \in Nat : m < 16777216}

\* The bits of 2 * m + p: those of m, moved up.
Moved(b, p) == [k \in 0 .. 15 |-> IF k = 0 THEN p ELSE b[k - 1]]

LEMMA MovedIs ==
  ASSUME NEW b \in Bits16, NEW p \in {0, 1}
  PROVE  Moved(b, p) \in Bits16 /\ FromBits(Moved(b, p)) + 65536 * b[15] = 2 * FromBits(b) + p
<1> DEFINE c == Moved(b, p)
<1>1. c \in Bits16
  BY DEF Moved, Bits16
<1>2. /\ c[0] = p /\ c[1] = b[0] /\ c[2] = b[1] /\ c[3] = b[2]
      /\ c[4] = b[3] /\ c[5] = b[4] /\ c[6] = b[5] /\ c[7] = b[6]
      /\ c[8] = b[7] /\ c[9] = b[8] /\ c[10] = b[9] /\ c[11] = b[10]
      /\ c[12] = b[11] /\ c[13] = b[12] /\ c[14] = b[13] /\ c[15] = b[14]
  BY DEF Moved
<1> HIDE DEF c
<1>3. /\ b[0] \in {0, 1} /\ b[1] \in {0, 1} /\ b[2] \in {0, 1} /\ b[3] \in {0, 1}
      /\ b[4] \in {0, 1} /\ b[5] \in {0, 1} /\ b[6] \in {0, 1} /\ b[7] \in {0, 1}
      /\ b[8] \in {0, 1} /\ b[9] \in {0, 1} /\ b[10] \in {0, 1} /\ b[11] \in {0, 1}
      /\ b[12] \in {0, 1} /\ b[13] \in {0, 1} /\ b[14] \in {0, 1} /\ b[15] \in {0, 1}
  BY DEF Bits16
<1>4. /\ Nibble(c, 0) + 16 * b[3] = 2 * Nibble(b, 0) + p
      /\ Nibble(c, 4) + 16 * b[7] = 2 * Nibble(b, 4) + b[3]
      /\ Nibble(c, 8) + 16 * b[11] = 2 * Nibble(b, 8) + b[7]
      /\ Nibble(c, 12) + 16 * b[15] = 2 * Nibble(b, 12) + b[11]
  <2>1. Nibble(c, 0) + 16 * b[3] = 2 * Nibble(b, 0) + p
    BY <1>2, <1>3 DEF Nibble
  <2>2. Nibble(c, 4) + 16 * b[7] = 2 * Nibble(b, 4) + b[3]
    BY <1>2, <1>3 DEF Nibble
  <2>3. Nibble(c, 8) + 16 * b[11] = 2 * Nibble(b, 8) + b[7]
    BY <1>2, <1>3 DEF Nibble
  <2>4. Nibble(c, 12) + 16 * b[15] = 2 * Nibble(b, 12) + b[11]
    BY <1>2, <1>3 DEF Nibble
  <2> QED
    BY <2>1, <2>2, <2>3, <2>4
<1>5. /\ Nibble(b, 0) \in Nat /\ Nibble(b, 4) \in Nat /\ Nibble(b, 8) \in Nat /\ Nibble(b, 12) \in Nat
      /\ Nibble(c, 0) \in Nat /\ Nibble(c, 4) \in Nat /\ Nibble(c, 8) \in Nat /\ Nibble(c, 12) \in Nat
  BY <1>1, NibbleType
<1>6. FromBits(c) + 65536 * b[15] = 2 * FromBits(b) + p
  BY <1>3, <1>4, <1>5 DEF FromBits
<1> QED
  BY <1>1, <1>6 DEF c

LEMMA MovedAnd ==
  ASSUME NEW b \in Bits16, NEW c \in Bits16, NEW p \in {0, 1}, NEW q \in {0, 1}
  PROVE  AndBits(Moved(b, p), Moved(c, q)) = Moved(AndBits(b, c), p * q) /\ p * q \in {0, 1}
<1>1. \A k \in 0 .. 15 : k # 0 => k - 1 \in 0 .. 15
  OBVIOUS
<1> QED
  BY <1>1 DEF AndBits, Moved

\* A word of 24 bits is a byte and a half word.
LEMMA SplitWord ==
  ASSUME NEW u \in Word24
  PROVE  \E h \in Byte, l \in Half : u = 65536 * h + l
<1> DEFINE h == u \div 65536
           l == u % 65536
<1>1. u \in Nat /\ u < 16777216
  BY DEF Word24
<1>2. h \in Nat /\ l \in Nat /\ l < 65536 /\ u = 65536 * h + l
  BY <1>1
<1> HIDE DEF h, l
<1>3. h < 256
  BY <1>1, <1>2
<1>4. h \in Byte /\ l \in Half
  BY <1>2, <1>3 DEF Byte, Half
<1> QED
  BY <1>2, <1>4

LEMMA ByteHalf ==
  ASSUME NEW h \in Byte
  PROVE  h \in Half /\ h \in Nat /\ h < 256
BY DEF Byte, Half

LEMMA HalfBytes ==
  ASSUME NEW l \in Half
  PROVE  \E p \in Byte, q \in Byte : l = 256 * p + q
<1> DEFINE p == l \div 256
           q == l % 256
<1>1. l \in Nat /\ l < 65536
  BY DEF Half
<1>2. p \in Nat /\ q \in Nat /\ q < 256 /\ l = 256 * p + q
  BY <1>1
<1> HIDE DEF p, q
<1>3. p < 256
  BY <1>1, <1>2
<1>4. p \in Byte /\ q \in Byte
  BY <1>2, <1>3 DEF Byte
<1> QED
  BY <1>2, <1>4

\* Xor and and go through the two parts.
LEMMA LowByte ==
  ASSUME NEW h \in Byte, NEW p \in Byte, NEW q \in Byte, h = 256 * p + q
  PROVE  q = h
BY DEF Byte

LEMMA ByteIsHalf ==
  ASSUME NEW h \in Byte, NEW g \in Byte
  PROVE  Xor24(h, g) = XorByte[h][g] /\ XorByte[h][g] \in Byte
<1>1. 0 \in Byte /\ 256 * 0 + h = h /\ 256 * 0 + g = g
  BY DEF Byte
<1>2. Xor24(256 * 0 + h, 256 * 0 + g) = 65536 * XorByte[0][0] + 256 * XorByte[0][0] + XorByte[h][g]
  BY <1>1, HalfXor
<1>3. Xor24(h, g) = 65536 * 0 + 256 * 0 + XorByte[h][g]
  BY <1>1, <1>2, XorNothing
<1>4. Xor24(h, g) \in Nat
  BY HalfClosed, ByteHalf DEF Half
<1>5. XorByte[h][g] \in Byte
  <2>1. PICK b \in Bits16 : h = FromBits(b)
    BY ByteHalf, HalfBits
  <2>2. PICK c \in Bits16 : g = FromBits(c)
    BY ByteHalf, HalfBits
  <2>3. /\ High(b) \in Byte /\ Low(b) \in Byte /\ h = 256 * High(b) + Low(b)
        /\ High(c) \in Byte /\ Low(c) \in Byte /\ g = 256 * High(c) + Low(c)
    BY <2>1, <2>2, FromBitsBytes
  <2>4. Low(b) = h /\ Low(c) = g
    BY <2>3, LowByte
  <2>5. XorByte[h][g] = Low(XorBits(b, c))
    BY <2>4, BytesXor
  <2>6. Low(XorBits(b, c)) \in Byte
    BY FromBitsBytes, XorBitsType
  <2> QED
    BY <2>5, <2>6
<1> QED
  BY <1>3, <1>5 DEF Byte

LEMMA XorParts ==
  ASSUME NEW h \in Byte, NEW l \in Half, NEW g \in Byte, NEW m \in Half
  PROVE  Xor24(65536 * h + l, 65536 * g + m) = 65536 * Xor24(h, g) + Xor24(l, m)
<1>1. PICK p \in Byte, q \in Byte : l = 256 * p + q
  BY HalfBytes
<1>2. PICK r \in Byte, t \in Byte : m = 256 * r + t
  BY HalfBytes
<1>3. Xor24(l, m) = 65536 * 0 + 256 * XorByte[p][r] + XorByte[q][t]
  BY <1>1, <1>2, HalfXor, XorNothing
<1> DEFINE u == 65536 * h + l
           v == 65536 * g + m
<1>4. /\ u \div 65536 = h /\ (u \div 256) % 256 = p /\ u % 256 = q
      /\ v \div 65536 = g /\ (v \div 256) % 256 = r /\ v % 256 = t
  BY <1>1, <1>2 DEF Byte
<1> HIDE DEF u, v
<1>5. Xor24(u, v) = 65536 * XorByte[h][g] + 256 * XorByte[p][r] + XorByte[q][t]
  BY <1>4 DEF Xor24
<1>6. XorByte[p][r] \in Nat /\ XorByte[q][t] \in Nat /\ XorByte[h][g] \in Nat
  <2>1. ASSUME NEW a \in Byte, NEW e \in Byte PROVE XorByte[a][e] \in Nat
    <3>1. Xor24(a, e) \in Half
      BY HalfClosed, ByteHalf
    <3> QED
      BY <3>1, ByteIsHalf DEF Half
  <2> QED
    BY <2>1
<1>7. Xor24(u, v) = 65536 * XorByte[h][g] + Xor24(l, m)
  BY <1>3, <1>5, <1>6
<1> QED
  BY <1>7, ByteIsHalf DEF u, v

LEMMA HalfSum ==
  ASSUME NEW l \in Half, NEW m \in Half
  PROVE  /\ Xor24(l, m) \in Nat /\ And24(l, m) \in Nat
         /\ l + m = Xor24(l, m) + 2 * And24(l, m)
<1>1. PICK b \in Bits16 : l = FromBits(b)
  BY HalfBits
<1>2. PICK c \in Bits16 : m = FromBits(c)
  BY HalfBits
<1>3. l + m = Xor24(l, m) + 2 * And24(l, m)
  BY <1>1, <1>2, FromBitsSum, XorFromBits, AndFromBits
<1> QED
  BY <1>3, HalfClosed DEF Half

LEMMA AndParts ==
  ASSUME NEW h \in Byte, NEW l \in Half, NEW g \in Byte, NEW m \in Half
  PROVE  And24(65536 * h + l, 65536 * g + m) = 65536 * And24(h, g) + And24(l, m)
<1> DEFINE u == 65536 * h + l
           v == 65536 * g + m
<1>1. h \in Half /\ g \in Half /\ h \in Nat /\ g \in Nat /\ l \in Nat /\ m \in Nat
  BY ByteHalf DEF Half
<1>2. /\ Xor24(l, m) \in Nat /\ And24(l, m) \in Nat
      /\ l + m = Xor24(l, m) + 2 * And24(l, m)
  BY HalfSum
<1>3. /\ Xor24(h, g) \in Nat /\ And24(h, g) \in Nat
      /\ h + g = Xor24(h, g) + 2 * And24(h, g)
  BY <1>1, HalfSum
<1>4. Xor24(u, v) = 65536 * Xor24(h, g) + Xor24(l, m)
  BY XorParts
<1>5. u + v = 65536 * (h + g) + (l + m)
  BY <1>1
<1>6. u + v - Xor24(u, v) = 2 * (65536 * And24(h, g) + And24(l, m))
  <2>1. u \in Nat /\ v \in Nat
    BY <1>1
  <2>2. \A y, x0, x1, x2, a1, a2 \in Nat :
          /\ y = 65536 * (h + g) + (l + m) /\ h + g = x1 + 2 * a1 /\ l + m = x2 + 2 * a2
          /\ x0 = 65536 * x1 + x2
          => y - x0 = 2 * (65536 * a1 + a2)
    BY <1>1
  <2>3. Xor24(u, v) \in Nat
    BY <1>2, <1>3, <1>4
  <2> HIDE DEF u, v
  <2>4. PICK y \in Nat : y = u + v
    BY <2>1
  <2>5. y - Xor24(u, v) = 2 * (65536 * And24(h, g) + And24(l, m))
    BY <1>2, <1>3, <1>4, <1>5, <2>2, <2>3, <2>4
  <2>6. \A k, m1, r \in Nat : (k + m1) - r = k + m1 - r
    OBVIOUS
  <2>7. (u + v) - Xor24(u, v) = u + v - Xor24(u, v)
    BY <2>1, <2>3, <2>6
  <2> QED
    BY <2>4, <2>5, <2>7
<1>7. \A k \in Nat : (2 * k) \div 2 = k
  OBVIOUS
<1>8. 65536 * And24(h, g) + And24(l, m) \in Nat
  BY <1>2, <1>3
<1> HIDE DEF u, v
<1>9. And24(u, v) = 65536 * And24(h, g) + And24(l, m)
  BY <1>6, <1>7, <1>8 DEF And24
<1> QED
  BY <1>9 DEF u, v

LEMMA Word24Closed ==
  ASSUME NEW u \in Word24, NEW v \in Word24
  PROVE  Xor24(u, v) \in Word24 /\ And24(u, v) \in Nat
<1>1. PICK h \in Byte, l \in Half : u = 65536 * h + l
  BY SplitWord
<1>2. PICK g \in Byte, m \in Half : v = 65536 * g + m
  BY SplitWord
<1>3. Xor24(u, v) = 65536 * Xor24(h, g) + Xor24(l, m)
  BY <1>1, <1>2, XorParts
<1>4. And24(u, v) = 65536 * And24(h, g) + And24(l, m)
  BY <1>1, <1>2, AndParts
<1>5. And24(h, g) \in Nat /\ And24(l, m) \in Nat
  BY ByteHalf, HalfSum
<1>6. Xor24(h, g) \in Nat /\ Xor24(h, g) < 256
  <2>1. Xor24(h, g) \in Byte
    BY ByteIsHalf
  <2> QED
    BY <2>1 DEF Byte
<1>7. Xor24(l, m) \in Nat /\ Xor24(l, m) < 65536
  BY HalfClosed DEF Half
<1> QED
  BY <1>3, <1>4, <1>5, <1>6, <1>7 DEF Word24

\* One bit more on the right.
LEMMA AndStep ==
  ASSUME NEW a \in Nat, NEW e \in Nat, NEW p \in {0, 1}, NEW q \in {0, 1},
         2 * a + p \in Word24, 2 * e + q \in Word24
  PROVE  And24(2 * a + p, 2 * e + q) = 2 * And24(a, e) + p * q
<1>1. a < 8388608 /\ e < 8388608 /\ a \in Word24 /\ e \in Word24
  BY DEF Word24
<1>2. PICK h \in Byte, l \in Half : a = 65536 * h + l
  BY <1>1, SplitWord
<1>3. PICK g \in Byte, m \in Half : e = 65536 * g + m
  BY <1>1, SplitWord
<1>4. PICK b \in Bits16 : l = FromBits(b)
  BY HalfBits
<1>5. PICK c \in Bits16 : m = FromBits(c)
  BY HalfBits
<1>6. PICK d \in Bits16 : h = FromBits(d)
  BY ByteHalf, HalfBits
<1>7. PICK f \in Bits16 : g = FromBits(f)
  BY ByteHalf, HalfBits
<1>8. h < 128 /\ g < 128 /\ h \in Nat /\ g \in Nat /\ l \in Nat /\ m \in Nat
  BY <1>1, <1>2, <1>3 DEF Half, Byte
<1>9. /\ b[15] \in {0, 1} /\ c[15] \in {0, 1} /\ d[15] \in {0, 1} /\ f[15] \in {0, 1}
  BY DEF Bits16
<1>10. /\ Moved(b, p) \in Bits16 /\ FromBits(Moved(b, p)) + 65536 * b[15] = 2 * l + p
       /\ Moved(c, q) \in Bits16 /\ FromBits(Moved(c, q)) + 65536 * c[15] = 2 * m + q
       /\ Moved(d, b[15]) \in Bits16 /\ FromBits(Moved(d, b[15])) + 65536 * d[15] = 2 * h + b[15]
       /\ Moved(f, c[15]) \in Bits16 /\ FromBits(Moved(f, c[15])) + 65536 * f[15] = 2 * g + c[15]
  BY <1>4, <1>5, <1>6, <1>7, <1>9, MovedIs
<1> DEFINE l2 == FromBits(Moved(b, p))
           m2 == FromBits(Moved(c, q))
           h2 == FromBits(Moved(d, b[15]))
           g2 == FromBits(Moved(f, c[15]))
<1>11. l2 \in Half /\ m2 \in Half /\ h2 \in Half /\ g2 \in Half
  BY <1>10, FromBitsBytes
<1>12. d[15] = 0 /\ f[15] = 0
  <2>1. h2 \in Nat /\ g2 \in Nat
    BY <1>11 DEF Half
  <2> HIDE DEF h2, g2
  <2>2. h2 + 65536 * d[15] = 2 * h + b[15] /\ g2 + 65536 * f[15] = 2 * g + c[15]
    BY <1>10 DEF h2, g2
  <2> QED
    BY <1>8, <1>9, <2>1, <2>2
<1>13. /\ l2 + 65536 * b[15] = 2 * l + p /\ m2 + 65536 * c[15] = 2 * m + q
       /\ h2 = 2 * h + b[15] /\ g2 = 2 * g + c[15]
  <2>1. h2 \in Nat /\ g2 \in Nat
    BY <1>11 DEF Half
  <2>2. h2 + 65536 * 0 = 2 * h + b[15] /\ g2 + 65536 * 0 = 2 * g + c[15]
    BY <1>10, <1>12
  <2> QED
    BY <1>10, <2>1, <2>2
<1>14. And24(l2, m2) = FromBits(AndBits(Moved(b, p), Moved(c, q)))
  BY <1>10, AndFromBits
<1>15. And24(h2, g2) = FromBits(AndBits(Moved(d, b[15]), Moved(f, c[15])))
  BY <1>10, AndFromBits
<1>16. And24(l, m) = FromBits(AndBits(b, c)) /\ And24(h, g) = FromBits(AndBits(d, f))
  BY <1>4, <1>5, <1>6, <1>7, AndFromBits
<1>17. AndBits(b, c) \in Bits16 /\ AndBits(d, f) \in Bits16
  BY XorBitsType
<1>18. AndBits(b, c)[15] = b[15] * c[15] /\ AndBits(d, f)[15] = 0
  <2>1. AndBits(d, f)[15] = d[15] * f[15] /\ AndBits(b, c)[15] = b[15] * c[15]
    BY DEF AndBits
  <2> QED
    BY <1>12, <2>1
<1>19. /\ And24(l2, m2) + 65536 * (b[15] * c[15]) = 2 * And24(l, m) + p * q
       /\ p * q \in {0, 1}
  <2>1. AndBits(Moved(b, p), Moved(c, q)) = Moved(AndBits(b, c), p * q) /\ p * q \in {0, 1}
    BY MovedAnd
  <2>2. FromBits(Moved(AndBits(b, c), p * q)) + 65536 * AndBits(b, c)[15]
          = 2 * FromBits(AndBits(b, c)) + p * q
    BY <1>17, <2>1, MovedIs
  <2> QED
    BY <1>14, <1>16, <1>18, <2>1, <2>2
<1>20. /\ And24(h2, g2) + 65536 * 0 = 2 * And24(h, g) + b[15] * c[15]
       /\ b[15] * c[15] \in {0, 1}
  <2>1. /\ AndBits(Moved(d, b[15]), Moved(f, c[15])) = Moved(AndBits(d, f), b[15] * c[15])
        /\ b[15] * c[15] \in {0, 1}
    BY <1>9, MovedAnd
  <2>2. FromBits(Moved(AndBits(d, f), b[15] * c[15])) + 65536 * AndBits(d, f)[15]
          = 2 * FromBits(AndBits(d, f)) + b[15] * c[15]
    BY <1>17, <2>1, MovedIs
  <2> QED
    BY <1>15, <1>16, <1>18, <2>1, <2>2
<1>21. h2 \in Byte /\ g2 \in Byte
  <2> HIDE DEF h2, g2
  <2> QED
    <3>1. \A k \in Nat, r \in {0, 1} : k < 128 => 2 * k + r \in Byte
      BY DEF Byte
    <3>2. h2 = 2 * h + b[15] /\ g2 = 2 * g + c[15]
      BY <1>13
    <3> QED
      BY <1>8, <1>9, <3>1, <3>2
<1>22. 2 * a + p = 65536 * h2 + l2 /\ 2 * e + q = 65536 * g2 + m2
  <2>1. l2 \in Nat /\ m2 \in Nat
    BY <1>11 DEF Half
  <2> HIDE DEF h2, g2, l2, m2
  <2> QED
    BY <1>2, <1>3, <1>8, <1>9, <1>13, <2>1
<1>23. And24(65536 * h2 + l2, 65536 * g2 + m2) = 65536 * And24(h2, g2) + And24(l2, m2)
  BY <1>11, <1>21, AndParts
<1>24. And24(a, e) = 65536 * And24(h, g) + And24(l, m)
  BY <1>2, <1>3, AndParts
<1>25. /\ And24(h2, g2) \in Nat /\ And24(l2, m2) \in Nat /\ And24(h, g) \in Nat /\ And24(l, m) \in Nat
  BY <1>11, HalfSum, ByteHalf
<1> HIDE DEF h2, g2, l2, m2
<1>26. PICK y \in {0, 1}, z \in {0, 1} : y = b[15] * c[15] /\ z = p * q
  BY <1>19, <1>20
<1>27. 65536 * And24(h2, g2) + And24(l2, m2) = 2 * (65536 * And24(h, g) + And24(l, m)) + z
  BY <1>19, <1>20, <1>25, <1>26
<1> QED
  BY <1>22, <1>23, <1>24, <1>26, <1>27

\* u is cut above the bits of t.
CutAt(u, t, a, p) ==
  u \in Word24 /\ t \in Nat /\ a \in Nat /\ p \in Nat /\ p < t /\ u = t * a + p

\* And goes through the two parts, and t - 1 are all bits of the lower one.
Splits(t) ==
  /\ t \in Nat \ {0}
  /\ \A u, v, a, e, p, q : CutAt(u, t, a, p) /\ CutAt(v, t, e, q)
       => And24(u, v) = t * And24(a, e) + And24(p, q)
  /\ \A p \in Nat : p < t => And24(p, t - 1) = p

LEMMA AndZero == And24(0, 0) = 0
<1>1. 0 \in Half
  BY DEF Half
<1>2. And24(0, 0) \in Nat /\ Xor24(0, 0) \in Nat /\ 0 + 0 = Xor24(0, 0) + 2 * And24(0, 0)
  BY <1>1, HalfSum
<1> QED
  BY <1>2

LEMMA SplitsOne == Splits(1)
<1>1. ASSUME NEW u, NEW v, NEW a, NEW e, NEW p, NEW q, CutAt(u, 1, a, p), CutAt(v, 1, e, q)
      PROVE  And24(u, v) = 1 * And24(a, e) + And24(p, q)
  <2>1. p = 0 /\ q = 0 /\ u = a /\ v = e /\ u \in Word24 /\ v \in Word24
    BY <1>1 DEF CutAt
  <2>2. And24(u, v) \in Nat
    BY <2>1, Word24Closed
  <2> QED
    BY <2>1, <2>2, AndZero
<1>2. ASSUME NEW p \in Nat, p < 1 PROVE And24(p, 1 - 1) = p
  <2>1. p = 0 /\ 1 - 1 = 0
    BY <1>2
  <2> QED
    BY <2>1, AndZero
<1> QED
  BY <1>1, <1>2 DEF Splits

\* u is a with the bit p to the right of it.
Longer(a, p, u) == a \in Nat /\ p \in {0, 1} /\ u \in Word24 /\ u = 2 * a + p

Lengthened(u, v, a, e, p, q) == And24(u, v) = 2 * And24(a, e) + p * q

LEMMA AndLonger ==
  ASSUME NEW u, NEW v, NEW a, NEW e, NEW p, NEW q, Longer(a, p, u), Longer(e, q, v)
  PROVE  Lengthened(u, v, a, e, p, q)
<1>1. a \in Nat /\ e \in Nat /\ p \in {0, 1} /\ q \in {0, 1} /\ u = 2 * a + p /\ v = 2 * e + q
  BY Zenon DEF Longer
<1>2. 2 * a + p \in Word24 /\ 2 * e + q \in Word24
  BY <1>1, Zenon DEF Longer
<1>3. And24(2 * a + p, 2 * e + q) = 2 * And24(a, e) + p * q
  BY <1>1, <1>2, AndStep
<1> QED
  BY <1>1, <1>3, Zenon DEF Lengthened

LEMMA WordNat == \A k \in Word24 : k \in Nat
BY SMT DEF Word24

LEMMA WordBelow == \A k \in Nat, u \in Word24 : k <= u => k \in Word24
BY SMT DEF Word24

\* Parts of a part.
LEMMA PartHalves ==
  ASSUME NEW t \in Nat, NEW s0, s0 = 2 * t, NEW u, NEW a, NEW p, CutAt(u, s0, a, p)
  PROVE  \E p1 \in Nat, b \in {0, 1}, c \in Nat :
           /\ p = 2 * p1 + b /\ u = 2 * c + b /\ p1 < t /\ c = t * a + p1 /\ c \in Word24
           /\ p \in Word24 /\ CutAt(c, t, a, p1) /\ Longer(c, b, u) /\ Longer(p1, b, p)
<1>1. u \in Word24 /\ u \in Nat /\ a \in Nat /\ p \in Nat /\ p < s0 /\ u = s0 * a + p
  <2>1. u \in Word24 /\ a \in Nat /\ p \in Nat /\ p < s0 /\ u = s0 * a + p
    BY Zenon DEF CutAt
  <2> QED
    BY <2>1, WordNat, Zenon
<1>2. PICK p1 \in Nat, b \in {0, 1} : p = 2 * p1 + b
  BY <1>1, Halve
<1>3. PICK m \in Nat : m = t * a
  BY <1>1
<1>4. s0 * a = 2 * m
  BY <1>1, <1>3
<1>5. PICK c \in Nat : c = m + p1
  OBVIOUS
<1>6. u = 2 * c + b /\ p1 < t /\ c <= u /\ p <= u
  BY <1>1, <1>2, <1>4, <1>5
<1>7. c \in Word24 /\ p \in Word24
  BY <1>1, <1>6, WordBelow, Zenon
<1>8. c = t * a + p1
  BY <1>3, <1>5
<1>9. CutAt(c, t, a, p1)
  BY <1>1, <1>6, <1>7, <1>8 DEF CutAt
<1>11. Longer(c, b, u) /\ Longer(p1, b, p)
  BY <1>1, <1>2, <1>6, <1>7, Zenon DEF Longer
<1> QED
  BY <1>2, <1>6, <1>7, <1>8, <1>9, <1>11, Zenon

\* The parts of a number are not above it.
LEMMA PartsBelow ==
  ASSUME NEW t \in Nat, t # 0, NEW a \in Nat, NEW p \in Nat, NEW c \in Nat, c = t * a + p
  PROVE  a <= c /\ p <= c
<1>1. PICK y \in Nat : t = y + 1
  OBVIOUS
<1>2. y * a \in Nat /\ (y + 1) * a = y * a + a
  OBVIOUS
<1>3. PICK m \in Nat : m = y * a
  BY <1>2
<1>4. c = (m + a) + p
  BY <1>1, <1>2, <1>3
<1> QED
  BY <1>3, <1>4

\* Twice t is a word still.
Doubles(t) == t <= 8388608

LEMMA SplitsMore ==
  ASSUME NEW t, Splits(t), Doubles(t), NEW s0, s0 = 2 * t
  PROVE  Splits(s0)
<1>1. t \in Nat \ {0} /\ s0 \in Nat \ {0}
  BY DEF Splits
<1>2. ASSUME NEW u, NEW v, NEW a, NEW e, NEW p, NEW q, CutAt(u, s0, a, p), CutAt(v, s0, e, q)
      PROVE  And24(u, v) = s0 * And24(a, e) + And24(p, q)
  <2>1. PICK p1 \in Nat, b \in {0, 1}, c \in Nat :
           /\ p = 2 * p1 + b /\ u = 2 * c + b /\ p1 < t /\ c = t * a + p1 /\ c \in Word24
           /\ p \in Word24 /\ CutAt(c, t, a, p1) /\ Longer(c, b, u) /\ Longer(p1, b, p)
    BY <1>1, <1>2, PartHalves
  <2>2. PICK q1 \in Nat, d \in {0, 1}, f \in Nat :
           /\ q = 2 * q1 + d /\ v = 2 * f + d /\ q1 < t /\ f = t * e + q1 /\ f \in Word24
           /\ q \in Word24 /\ CutAt(f, t, e, q1) /\ Longer(f, d, v) /\ Longer(q1, d, q)
    BY <1>1, <1>2, PartHalves
  <2>3. u \in Word24 /\ v \in Word24 /\ a \in Nat /\ e \in Nat
    BY <1>2 DEF CutAt
  <2>13. Longer(c, b, u) /\ Longer(p1, b, p)
    BY <2>1, Zenon
  <2>14. Longer(f, d, v) /\ Longer(q1, d, q)
    BY <2>2, Zenon
  <2>15. Lengthened(u, v, c, f, b, d) /\ Lengthened(p, q, p1, q1, b, d)
    BY <2>13, <2>14, AndLonger
  <2>4. And24(u, v) = 2 * And24(c, f) + b * d
    BY <2>15, Zenon DEF Lengthened
  <2>5. And24(p, q) = 2 * And24(p1, q1) + b * d
    BY <2>15, Zenon DEF Lengthened
  <2>6. And24(c, f) = t * And24(a, e) + And24(p1, q1)
    BY <2>1, <2>2 DEF Splits
  <2>7. a \in Word24 /\ e \in Word24 /\ p1 \in Word24 /\ q1 \in Word24
    <3>3. a <= c /\ p1 <= c /\ e <= f /\ q1 <= f
      <4>1. t \in Nat /\ t # 0
        BY <1>1, SMT
      <4>2. a <= c /\ p1 <= c
        BY <2>1, <2>3, <4>1, PartsBelow, SMT
      <4>3. e <= f /\ q1 <= f
        BY <2>2, <2>3, <4>1, PartsBelow, SMT
      <4> QED
        BY <4>2, <4>3, SMT
    <3> QED
      BY <2>1, <2>2, <2>3, <3>3, WordBelow, Zenon
  <2>8. And24(a, e) \in Nat /\ And24(p1, q1) \in Nat /\ And24(c, f) \in Nat
    BY <2>1, <2>2, <2>7, Word24Closed
  <2>9. PICK z \in {0, 1} : z = b * d
    OBVIOUS
  <2>10. \A x1, x2 \in Nat : 2 * (t * x1 + x2) + z = s0 * x1 + (2 * x2 + z)
    BY <1>1
  <2>11. And24(u, v) = 2 * (t * And24(a, e) + And24(p1, q1)) + z
    BY <2>1, <2>2, <2>4, <2>6, <2>9
  <2>12. And24(p, q) = 2 * And24(p1, q1) + z
    BY <2>1, <2>2, <2>5, <2>9
  <2> QED
    BY <2>8, <2>10, <2>11, <2>12
<1>3. ASSUME NEW p \in Nat, p < s0 PROVE And24(p, s0 - 1) = p
  <2>1. PICK p1 \in Nat, b \in {0, 1} : p = 2 * p1 + b
    BY Halve
  <2>2. p1 < t /\ s0 - 1 = 2 * (t - 1) + 1 /\ t - 1 \in Nat
    BY <1>1, <1>3, <2>1
  <2>3. And24(p1, t - 1) = p1
    BY <2>2, SMT DEF Splits
  <2>4. 2 * p1 + b \in Word24 /\ 2 * (t - 1) + 1 \in Word24
    BY <1>1, <1>3, <2>1, <2>2, SMT DEF Word24, Doubles
  <2>5. And24(2 * p1 + b, 2 * (t - 1) + 1) = 2 * And24(p1, t - 1) + b * 1
    BY <2>2, <2>4, AndStep
  <2> QED
    BY <2>1, <2>2, <2>3, <2>5
<1> QED
  BY <1>1, <1>2, <1>3 DEF Splits

LEMMA SplitsAll ==
  /\ Splits(4) /\ Splits(8) /\ Splits(16) /\ Splits(32) /\ Splits(64) /\ Splits(128)
  /\ Splits(256) /\ Splits(512) /\ Splits(1024) /\ Splits(2048) /\ Splits(4096)
<1>1. \A t, s0 : Splits(t) /\ Doubles(t) /\ s0 = 2 * t => Splits(s0)
  BY SplitsMore, Zenon
<1>14. \A t \in Nat : t <= 2048 => Doubles(t)
  BY SMT DEF Doubles
<1>2. Splits(2)
  <2>1. Doubles(1) /\ 2 = 2 * 1
    BY <1>14, SMT
  <2> QED
    BY <1>1, SplitsOne, <2>1, SMT
<1>3. Splits(4)
  <2>1. Doubles(2) /\ 4 = 2 * 2
    BY <1>14, SMT
  <2> QED
    BY <1>1, <1>2, <2>1, SMT
<1>4. Splits(8)
  <2>1. Doubles(4) /\ 8 = 2 * 4
    BY <1>14, SMT
  <2> QED
    BY <1>1, <1>3, <2>1, SMT
<1>5. Splits(16)
  <2>1. Doubles(8) /\ 16 = 2 * 8
    BY <1>14, SMT
  <2> QED
    BY <1>1, <1>4, <2>1, SMT
<1>6. Splits(32)
  <2>1. Doubles(16) /\ 32 = 2 * 16
    BY <1>14, SMT
  <2> QED
    BY <1>1, <1>5, <2>1, SMT
<1>7. Splits(64)
  <2>1. Doubles(32) /\ 64 = 2 * 32
    BY <1>14, SMT
  <2> QED
    BY <1>1, <1>6, <2>1, SMT
<1>8. Splits(128)
  <2>1. Doubles(64) /\ 128 = 2 * 64
    BY <1>14, SMT
  <2> QED
    BY <1>1, <1>7, <2>1, SMT
<1>9. Splits(256)
  <2>1. Doubles(128) /\ 256 = 2 * 128
    BY <1>14, SMT
  <2> QED
    BY <1>1, <1>8, <2>1, SMT
<1>10. Splits(512)
  <2>1. Doubles(256) /\ 512 = 2 * 256
    BY <1>14, SMT
  <2> QED
    BY <1>1, <1>9, <2>1, SMT
<1>11. Splits(1024)
  <2>1. Doubles(512) /\ 1024 = 2 * 512
    BY <1>14, SMT
  <2> QED
    BY <1>1, <1>10, <2>1, SMT
<1>12. Splits(2048)
  <2>1. Doubles(1024) /\ 2048 = 2 * 1024
    BY <1>14, SMT
  <2> QED
    BY <1>1, <1>11, <2>1, SMT
<1>13. Splits(4096)
  <2>1. Doubles(2048) /\ 4096 = 2 * 2048
    BY <1>14, SMT
  <2> QED
    BY <1>1, <1>12, <2>1, SMT
<1> QED
  BY <1>3, <1>4, <1>5, <1>6, <1>7, <1>8, <1>9, <1>10, <1>11, <1>12, <1>13

(***************************************************************************)
(* PWXFORM: the sizes, and what masking leaves.                            *)
(***************************************************************************)
\* The bound of a word, of two joined, and the entries of an S-box.
OneWord == 2 ^ Bits
TwoWords == 2 ^ (2 * Bits)
Boxes == 2 ^ Swidth

LEMMA PwxSizes ==
  /\ Splits(OneWord) /\ Splits(Boxes) /\ Splits(16)
  /\ OneWord \in Nat /\ OneWord > 0 /\ OneWord <= 4096
  /\ TwoWords \in Nat /\ TwoWords > 0 /\ TwoWords <= 16777216
  /\ Boxes \in Nat /\ Boxes > 0 /\ Boxes % 4 = 0 /\ 16 * Boxes < OneWord
<1>1. Bits \in 8 .. 12 /\ Swidth \in 2 .. Bits - 5
  BY HasherAssumption
<1>2. Bits = 8 \/ Bits = 9 \/ Bits = 10 \/ Bits = 11 \/ Bits = 12
  BY <1>1
<1>3. Swidth = 2 \/ Swidth = 3 \/ Swidth = 4 \/ Swidth = 5 \/ Swidth = 6 \/ Swidth = 7
  BY <1>1
<1>4. /\ 2 ^ 2 = 4 /\ 2 ^ 3 = 8 /\ 2 ^ 4 = 16 /\ 2 ^ 5 = 32 /\ 2 ^ 6 = 64 /\ 2 ^ 7 = 128
      /\ 2 ^ 8 = 256 /\ 2 ^ 9 = 512 /\ 2 ^ 10 = 1024 /\ 2 ^ 11 = 2048 /\ 2 ^ 12 = 4096
      /\ 2 ^ 16 = 65536 /\ 2 ^ 18 = 262144 /\ 2 ^ 20 = 1048576 /\ 2 ^ 22 = 4194304
      /\ 2 ^ 24 = 16777216
  OBVIOUS
<1>5. CASE Bits = 8
  <2>1. 2 * Bits = 16 /\ (Swidth = 2 \/ Swidth = 3)
    BY <1>1, <1>3, <1>5, SMT
  <2>2. OneWord = 2 ^ 8 /\ TwoWords = 2 ^ 16
    BY <1>5, <2>1, Zenon DEF OneWord, TwoWords
  <2>3. Boxes = 2 ^ 2 \/ Boxes = 2 ^ 3
    BY <2>1, Zenon DEF Boxes
  <2>4. OneWord = 256 /\ TwoWords = 65536
    BY <1>4, <2>2, SMT
  <2>5. Boxes = 4 \/ Boxes = 8
    BY <1>4, <2>3, SMT
  <2> QED
    BY <2>4, <2>5, SplitsAll, SMT
<1>6. CASE Bits = 9
  <2>1. 2 * Bits = 18 /\ (Swidth = 2 \/ Swidth = 3 \/ Swidth = 4)
    BY <1>1, <1>3, <1>6, SMT
  <2>2. OneWord = 2 ^ 9 /\ TwoWords = 2 ^ 18
    BY <1>6, <2>1, Zenon DEF OneWord, TwoWords
  <2>3. Boxes = 2 ^ 2 \/ Boxes = 2 ^ 3 \/ Boxes = 2 ^ 4
    BY <2>1, Zenon DEF Boxes
  <2>4. OneWord = 512 /\ TwoWords = 262144
    BY <1>4, <2>2, SMT
  <2>5. Boxes = 4 \/ Boxes = 8 \/ Boxes = 16
    BY <1>4, <2>3, SMT
  <2> QED
    BY <2>4, <2>5, SplitsAll, SMT
<1>7. CASE Bits = 10
  <2>1. 2 * Bits = 20 /\ (Swidth = 2 \/ Swidth = 3 \/ Swidth = 4 \/ Swidth = 5)
    BY <1>1, <1>3, <1>7, SMT
  <2>2. OneWord = 2 ^ 10 /\ TwoWords = 2 ^ 20
    BY <1>7, <2>1, Zenon DEF OneWord, TwoWords
  <2>3. Boxes = 2 ^ 2 \/ Boxes = 2 ^ 3 \/ Boxes = 2 ^ 4 \/ Boxes = 2 ^ 5
    BY <2>1, Zenon DEF Boxes
  <2>4. OneWord = 1024 /\ TwoWords = 1048576
    BY <1>4, <2>2, SMT
  <2>5. Boxes = 4 \/ Boxes = 8 \/ Boxes = 16 \/ Boxes = 32
    BY <1>4, <2>3, SMT
  <2> QED
    BY <2>4, <2>5, SplitsAll, SMT
<1>8. CASE Bits = 11
  <2>1. 2 * Bits = 22 /\ (Swidth = 2 \/ Swidth = 3 \/ Swidth = 4 \/ Swidth = 5 \/ Swidth = 6)
    BY <1>1, <1>3, <1>8, SMT
  <2>2. OneWord = 2 ^ 11 /\ TwoWords = 2 ^ 22
    BY <1>8, <2>1, Zenon DEF OneWord, TwoWords
  <2>3. Boxes = 2 ^ 2 \/ Boxes = 2 ^ 3 \/ Boxes = 2 ^ 4 \/ Boxes = 2 ^ 5 \/ Boxes = 2 ^ 6
    BY <2>1, Zenon DEF Boxes
  <2>4. OneWord = 2048 /\ TwoWords = 4194304
    BY <1>4, <2>2, SMT
  <2>5. Boxes = 4 \/ Boxes = 8 \/ Boxes = 16 \/ Boxes = 32 \/ Boxes = 64
    BY <1>4, <2>3, SMT
  <2> QED
    BY <2>4, <2>5, SplitsAll, SMT
<1>9. CASE Bits = 12
  <2>1. 2 * Bits = 24 /\ (Swidth = 2 \/ Swidth = 3 \/ Swidth = 4 \/ Swidth = 5 \/ Swidth = 6 \/ Swidth = 7)
    BY <1>1, <1>3, <1>9, SMT
  <2>2. OneWord = 2 ^ 12 /\ TwoWords = 2 ^ 24
    BY <1>9, <2>1, Zenon DEF OneWord, TwoWords
  <2>3. Boxes = 2 ^ 2 \/ Boxes = 2 ^ 3 \/ Boxes = 2 ^ 4 \/ Boxes = 2 ^ 5 \/ Boxes = 2 ^ 6 \/ Boxes = 2 ^ 7
    BY <2>1, Zenon DEF Boxes
  <2>4. OneWord = 4096 /\ TwoWords = 16777216
    BY <1>4, <2>2, SMT
  <2>5. Boxes = 4 \/ Boxes = 8 \/ Boxes = 16 \/ Boxes = 32 \/ Boxes = 64 \/ Boxes = 128
    BY <1>4, <2>3, SMT
  <2> QED
    BY <2>4, <2>5, SplitsAll, SMT
<1> QED
  BY <1>2, <1>5, <1>6, <1>7, <1>8, <1>9

LEMMA AndNone ==
  ASSUME NEW h \in Half
  PROVE  And24(h, 0) = 0
<1> DEFINE z == [k \in 0 .. 15 |-> 0]
<1>1. PICK b \in Bits16 : h = FromBits(b)
  BY HalfBits
<1>2. z \in Bits16 /\ FromBits(z) = 0
  BY DEF Bits16, FromBits, Nibble
<1>3. AndBits(b, z) = z
  BY DEF AndBits, Bits16
<1> HIDE DEF z
<1> QED
  BY <1>1, <1>2, <1>3, AndFromBits

LEMMA AndNothing ==
  ASSUME NEW c \in Word24
  PROVE  And24(c, 0) = 0
<1>1. PICK h \in Byte, l \in Half : c = 65536 * h + l
  BY SplitWord
<1>2. 0 \in Byte /\ 0 \in Half /\ 65536 * 0 + 0 = 0
  BY DEF Byte, Half
<1>3. And24(65536 * h + l, 65536 * 0 + 0) = 65536 * And24(h, 0) + And24(l, 0)
  BY <1>2, AndParts
<1>4. And24(h, 0) = 0 /\ And24(l, 0) = 0
  BY ByteHalf, AndNone
<1> QED
  BY <1>1, <1>2, <1>3, <1>4

LEMMA Division ==
  ASSUME NEW v \in Nat, NEW t \in Nat, t > 0
  PROVE  /\ v \div t \in Nat /\ v % t \in Nat /\ v % t < t /\ v = t * (v \div t) + (v % t)
         /\ v \div t <= v /\ v % t <= v
<1> DEFINE k0 == v \div t
           r0 == v % t
<1>1. k0 \in Nat /\ r0 \in Nat /\ r0 < t /\ v = t * k0 + r0
  <2>1. k0 \in Int /\ r0 \in 0 .. t - 1
    OBVIOUS
  <2>2. v = t * k0 + r0
    OBVIOUS
  <2>3. k0 \in Nat
    OBVIOUS
  <2>4. r0 \in Nat /\ r0 < t
    <3> HIDE DEF k0, r0
    <3> QED
      BY <2>1
  <2> QED
    BY <2>2, <2>3, <2>4, Zenon
<1>3. k0 <= v /\ r0 <= v
  <2> HIDE DEF k0, r0
  <2> QED
    BY <1>1, PartsBelow
<1> QED
  BY <1>1, <1>3, Zenon

LEMMA CutAtIs ==
  ASSUME NEW v \in Word24, NEW t \in Nat, t > 0
  PROVE  /\ CutAt(v, t, v \div t, v % t) /\ v \div t \in Word24 /\ v % t \in Word24
         /\ v \in Nat
<1>1. v \in Nat /\ v < 16777216
  BY SMT DEF Word24
<1> QED
  BY <1>1, Division, SMT DEF CutAt, Word24

\* The lower bits are what a division leaves.
LEMMA AndLow ==
  ASSUME NEW t \in Nat, t > 0, t <= 4096, Splits(t), NEW c \in Word24
  PROVE  And24(c, t - 1) = c % t
<1> DEFINE m == t - 1
           a == c \div t
           r == c % t
<1>1. CutAt(c, t, a, r) /\ a \in Nat /\ a <= c /\ r \in Nat /\ r < t
  <2>1. CutAt(c, t, a, r)
    BY CutAtIs
  <2>2. c \in Nat
    BY DEF Word24
  <2>3. a \in Nat /\ a <= c /\ r \in Nat /\ r < t
    BY <2>2, Division
  <2> QED
    BY <2>1, <2>3
<1>2. CutAt(m, t, 0, m)
  BY SMT DEF CutAt, Word24
<1>3. a \in Word24
  BY CutAtIs
<1>4. And24(r, m) = r
  BY <1>1 DEF Splits
<1> HIDE DEF a, m, r
<1>5. And24(c, m) = t * And24(a, 0) + And24(r, m)
  BY <1>1, <1>2 DEF Splits
<1>6. t * 0 + r = r
  BY <1>1
<1>7. And24(c, m) = r
  BY <1>3, <1>4, <1>5, <1>6, AndNothing
<1> QED
  BY <1>7 DEF m, r

\* The mask of the entries, which are of 16 bytes.
Mask == (Boxes - 1) * 16

LEMMA MaskIs ==
  /\ Mask \in Nat /\ Mask < OneWord /\ Mask \in Word24 /\ Mask = 16 * (Boxes - 1)
  /\ Mask * OneWord + Mask \in Word24
<1>1. Mask \in Nat /\ Mask < OneWord /\ Mask < 4096 /\ Mask = 16 * (Boxes - 1)
  BY PwxSizes, SMT DEF Mask
<1>2. Mask * OneWord + Mask \in Word24
  <2>1. \A m, t \in Nat : m < 4096 /\ t <= 4096 => m * t <= m * 4096
    OBVIOUS
  <2>2. Mask * OneWord <= Mask * 4096 /\ Mask * OneWord \in Nat
    BY <1>1, <2>1, PwxSizes, SMT
  <2> QED
    BY <1>1, <2>2, SMT DEF Word24
<1> QED
  BY <1>1, <1>2, SMT DEF Word24

LEMMA Masked ==
  ASSUME NEW c \in Word24
  PROVE  /\ And24(c, Mask) = 16 * ((c \div 16) % Boxes)
         /\ (c \div 16) % Boxes \in Nat /\ (c \div 16) % Boxes < Boxes
<1> DEFINE a == c \div 16
           r == c % 16
           m == Boxes - 1
<1>1. CutAt(c, 16, a, r) /\ a \in Word24 /\ r \in Nat /\ r < 16
  BY CutAtIs DEF CutAt
<1>2. a \in Nat
  BY <1>1, SMT DEF Word24
<1>3. CutAt(Mask, 16, m, 0) /\ m \in Nat
  BY MaskIs, PwxSizes, SMT DEF CutAt
<1>4. And24(r, 0) = 0
  BY <1>1, AndNone DEF Half
<1>5. And24(a, m) = a % Boxes
  <2>1. Boxes <= 4096
    BY PwxSizes, SMT
  <2> QED
    BY <1>1, <2>1, AndLow, PwxSizes, SMT
<1>6. a % Boxes \in Nat /\ a % Boxes < Boxes
  BY <1>2, Division, PwxSizes, SMT
<1> HIDE DEF a, r, m
<1>7. And24(c, Mask) = 16 * And24(a, m) + And24(r, 0)
  BY <1>1, <1>3, PwxSizes, SMT DEF Splits
<1>8. And24(c, Mask) = 16 * (a % Boxes)
  BY <1>4, <1>5, <1>6, <1>7
<1> QED
  BY <1>6, <1>8 DEF a

LEMMA PwxWords == \A a, e : Pwx256!Xor24(a, e) = Xor24(a, e) /\ Pwx256!And24(a, e) = And24(a, e)
<1>1. Pwx256!Byte = Byte
  BY DEF Pwx256!Byte, Byte
<1>2. Pwx256!XorNibble = XorNibble
  BY DEF Pwx256!XorNibble, XorNibble, Pwx256!Bit, Bit
<1>3. Pwx256!XorByte = XorByte
  BY <1>1, <1>2 DEF Pwx256!XorByte, XorByte
<1>4. \A a, e : Pwx256!Xor24(a, e) = Xor24(a, e)
  BY <1>3 DEF Pwx256!Xor24, Xor24
<1> QED
  BY <1>4 DEF Pwx256!And24, And24

\* The two halves of a double word, and the entries they look up.
LowOf(v) == v % OneWord
HighOf(v) == v \div OneWord
Entry(c) == (c \div 16) % Boxes

LEMMA PwxNames ==
  /\ Pwx256!Entries = Boxes /\ Pwx256!Smask = Mask
  /\ Pwx256!Smask_to_Smask2(Mask) = Mask * OneWord + Mask
  /\ \A v : Pwx256!Low(v) = LowOf(v) /\ Pwx256!High(v) = HighOf(v)
<1>1. Pwx256!Entries = Boxes
  BY DEF Pwx256!Entries, Boxes
<1>2. Pwx256!Smask = Mask
  BY <1>1 DEF Pwx256!Smask, Mask
<1> QED
  BY <1>1, <1>2 DEF Pwx256!Smask_to_Smask2, Pwx256!Low, Pwx256!High, LowOf, HighOf, OneWord

LEMMA EntryIs ==
  ASSUME NEW c \in Word24
  PROVE  Entry(c) \in Nat /\ Entry(c) < Boxes /\ (16 * Entry(c)) \div 16 = Entry(c)
BY Masked DEF Entry

LEMMA PwxQuotient ==
  ASSUME NEW q \in Nat, NEW r \in Nat, NEW t \in Nat, r < t, NEW v \in Nat, v = t * q + r
  PROVE  v % t = r /\ v \div t = q
OBVIOUS

\* Both halves are masked at once.
LEMMA MaskedBoth ==
  ASSUME NEW v \in Word24, NEW y, y = And24(v, Mask * OneWord + Mask)
  PROVE  LowOf(y) = 16 * Entry(LowOf(v)) /\ HighOf(y) = 16 * Entry(HighOf(v))
<1> DEFINE l == LowOf(v)
           h == HighOf(v)
           e == Entry(l)
           f == Entry(h)
           m == Mask
           b == OneWord
<1>1. CutAt(v, b, h, l) /\ l \in Word24 /\ h \in Word24
  BY CutAtIs, PwxSizes, SMT DEF LowOf, HighOf
<1>2. CutAt(m * b + m, b, m, m)
  <2>1. m \in Nat /\ m < b /\ m * b + m \in Word24 /\ b \in Nat
    BY MaskIs, PwxSizes, SMT
  <2>2. m * b + m = b * m + m
    BY <2>1
  <2> QED
    BY <2>1, <2>2, SMT DEF CutAt
<1>3. And24(h, m) = 16 * f /\ And24(l, m) = 16 * e
  BY <1>1, Masked DEF Entry
<1>4. e \in Nat /\ f \in Nat /\ 16 * e < b
  <2>1. e \in Nat /\ f \in Nat /\ e < Boxes
    BY <1>1, EntryIs
  <2>2. Boxes \in Nat /\ b \in Nat /\ 16 * Boxes < b
    BY PwxSizes, SMT
  <2> HIDE DEF e, f, b
  <2> QED
    BY <2>1, <2>2
<1>5. b \in Nat /\ b > 0 /\ Splits(b)
  BY PwxSizes
<1> HIDE DEF l, h, e, f, m, b
<1>6. y = b * (16 * f) + 16 * e
  BY <1>1, <1>2, <1>3, <1>5 DEF Splits, m, b
<1>7. y % b = 16 * e /\ y \div b = 16 * f
  <2>1. PICK q0 \in Nat : q0 = 16 * f
    BY <1>4
  <2>2. PICK r0 \in Nat : r0 = 16 * e
    BY <1>4
  <2>3. y = b * q0 + r0 /\ r0 < b
    BY <1>4, <1>6, <2>1, <2>2
  <2>4. b * q0 = q0 * b
    BY <1>5
  <2>6. y \in Nat
    BY <1>5, <2>3
  <2>5. y % b = r0 /\ y \div b = q0
    <3>1. \A q, r, t, v0 \in Nat : r < t /\ v0 = t * q + r => v0 % t = r /\ v0 \div t = q
      BY PwxQuotient
    <3> QED
      BY <1>5, <2>3, <2>6, <3>1, Zenon
  <2> QED
    BY <2>1, <2>2, <2>5
<1> QED
  BY <1>7 DEF LowOf, HighOf, e, f, l, h, b

(***************************************************************************)
(* PWXFORM: one step computes the same in every build.                     *)
(***************************************************************************)
Lanes(v) == <<LowOf(v[1]), HighOf(v[1]), LowOf(v[2]), HighOf(v[2])>>
Pair(v) == v[1] \in Word24 /\ v[2] \in Word24

LEMMA OneWordIs == OneWord \in Nat /\ OneWord > 0
BY PwxSizes, SMT

LEMMA HalvesAreWords ==
  ASSUME NEW c \in Word24
  PROVE  /\ LowOf(c) \in Word24 /\ HighOf(c) \in Word24 /\ LowOf(c) \in Nat /\ HighOf(c) \in Nat
         /\ LowOf(c) + HighOf(c) * OneWord = c
<1>1. CutAt(c, OneWord, HighOf(c), LowOf(c)) /\ HighOf(c) \in Word24 /\ LowOf(c) \in Word24
  BY CutAtIs, OneWordIs, Zenon DEF LowOf, HighOf
<1>2. /\ c = OneWord * HighOf(c) + LowOf(c) /\ OneWord \in Nat /\ HighOf(c) \in Nat
      /\ LowOf(c) \in Nat
  BY <1>1, Zenon DEF CutAt
<1>3. \A t, a, p \in Nat : p + a * t = t * a + p
  OBVIOUS
<1> QED
  BY <1>1, <1>2, <1>3, Zenon

LEMMA LanesAre ==
  ASSUME NEW v
  PROVE  /\ Pwx256!AsLanes(v) = Lanes(v)
         /\ Lanes(v)[1] = LowOf(v[1]) /\ Lanes(v)[2] = HighOf(v[1])
         /\ Lanes(v)[3] = LowOf(v[2]) /\ Lanes(v)[4] = HighOf(v[2])
<1>1. Pwx256!AsLanes(v) = Lanes(v)
  BY PwxNames, Zenon DEF Pwx256!AsLanes, Lanes
<1> QED
  BY <1>1, SMT DEF Lanes

\* _mm_srli_si128 and _mm_shuffle_epi32 put the upper words where the
\* product takes them from.
LEMMA UpperIs ==
  ASSUME NEW build, NEW l
  PROVE  Pwx256!HI32(build, l)[1] = l[2] /\ Pwx256!HI32(build, l)[3] = l[4]
<1>1. CASE build = "avx"
  <2>1. Pwx256!HI32(build, l) = <<l[2], l[3], l[4], 0>>
    BY <1>1 DEF Pwx256!HI32
  <2> QED
    BY <2>1
<1>2. CASE build # "avx"
  <2>1. Pwx256!HI32(build, l) = <<l[2], l[1], l[4], l[3]>>
    BY <1>2 DEF Pwx256!HI32
  <2> QED
    BY <2>1
<1> QED
  BY <1>1, <1>2

LEMMA ExtractIs ==
  ASSUME NEW build, NEW v, Pair(v)
  PROVE  Pwx256!EXTRACT64(build, v) = v[1]
<1> DEFINE l == Pwx256!AsLanes(v)
<1>1. l[1] = LowOf(v[1]) /\ Pwx256!HI32(build, l)[1] = HighOf(v[1])
  BY LanesAre, UpperIs, Zenon
<1>2. LowOf(v[1]) + HighOf(v[1]) * OneWord = v[1]
  BY HalvesAreWords, Zenon DEF Pair
<1> HIDE DEF l
<1>3. Pwx256!Joined(l[1], Pwx256!HI32(build, l)[1]) = v[1]
  BY <1>1, <1>2, Zenon DEF Pwx256!Joined, OneWord
<1>4. CASE build = "sse2"
  BY <1>3, <1>4, Zenon DEF Pwx256!EXTRACT64, l
<1>5. CASE build # "sse2"
  BY <1>5, Zenon DEF Pwx256!EXTRACT64
<1> QED
  BY <1>4, <1>5, Zenon

\* What the offsets select.
Found(v, at2) == at2[1] \div 16 = Entry(LowOf(v[1])) /\ at2[2] \div 16 = Entry(HighOf(v[1]))

LEMMA LookupIs ==
  ASSUME NEW d
  PROVE  /\ Pwx256!Lookup(d)[1] = Entry(LowOf(d)) /\ Pwx256!Lookup(d)[2] = Entry(HighOf(d))
<1>1. Pwx256!Lookup(d) = <<Entry(LowOf(d)), Entry(HighOf(d))>>
  BY PwxNames, Zenon DEF Pwx256!Lookup, Entry
<1> QED
  BY <1>1

LEMMA OffsetsIs ==
  ASSUME NEW build, NEW v, Pair(v)
  PROVE  Found(v, Pwx256!Offsets(build, v))
<1> DEFINE lo == LowOf(v[1])
           hi == HighOf(v[1])
           pair == <<16 * Entry(lo), 16 * Entry(hi)>>
<1>1. v[1] \in Word24 /\ lo \in Word24 /\ hi \in Word24
  BY HalvesAreWords, Zenon DEF Pair
<1>2. Pwx256!Offsets(build, v) = pair
  <2>1. CASE build = "sse4"
    <3>1. And24(lo, Mask) = 16 * Entry(lo) /\ And24(hi, Mask) = 16 * Entry(hi)
      BY <1>1, Masked, Zenon DEF Entry
    <3>2. Pwx256!AsLanes(v)[1] = lo /\ Pwx256!AsLanes(v)[2] = hi
      BY LanesAre, Zenon
    <3> HIDE DEF lo, hi
    <3> QED
      BY <2>1, <3>1, <3>2, PwxNames, PwxWords, Zenon DEF Pwx256!Offsets
  <2>2. CASE build # "sse4"
    <3> DEFINE y == And24(v[1], Mask * OneWord + Mask)
    <3>1. LowOf(y) = 16 * Entry(lo) /\ HighOf(y) = 16 * Entry(hi)
      BY <1>1, MaskedBoth, Zenon
    <3>2. Pwx256!And24(Pwx256!EXTRACT64(build, v), Pwx256!Smask_to_Smask2(Pwx256!Smask)) = y
      BY ExtractIs, PwxNames, PwxWords, Zenon
    <3> HIDE DEF lo, hi, y
    <3> QED
      BY <2>2, <3>1, <3>2, PwxNames, Zenon DEF Pwx256!Offsets
  <2> QED
    BY <2>1, <2>2, Zenon
<1>3. (16 * Entry(lo)) \div 16 = Entry(lo) /\ (16 * Entry(hi)) \div 16 = Entry(hi)
  BY <1>1, EntryIs, Zenon
<1> HIDE DEF lo, hi
<1>4. pair[1] = 16 * Entry(lo) /\ pair[2] = 16 * Entry(hi)
  OBVIOUS
<1> HIDE DEF pair
<1> QED
  BY <1>2, <1>3, <1>4, Zenon DEF Found, lo, hi

LEMMA ProductIs ==
  ASSUME NEW build, NEW v
  PROVE  /\ Pwx256!Product(build, v)[1] = HighOf(v[1]) * LowOf(v[1])
         /\ Pwx256!Product(build, v)[2] = HighOf(v[2]) * LowOf(v[2])
<1> DEFINE a == HighOf(v[1]) * LowOf(v[1])
           b == HighOf(v[2]) * LowOf(v[2])
<1>1. CASE build = "generic"
  BY <1>1, PwxNames, Zenon DEF Pwx256!Product
<1>2. CASE build # "generic"
  <2> DEFINE l == Pwx256!AsLanes(v)
             h == Pwx256!HI32(build, l)
  <2>1. l[1] = LowOf(v[1]) /\ h[1] = HighOf(v[1]) /\ l[3] = LowOf(v[2]) /\ h[3] = HighOf(v[2])
    <3>1. h[1] = l[2] /\ h[3] = l[4]
      BY UpperIs, Zenon
    <3>2. l[1] = LowOf(v[1]) /\ l[2] = HighOf(v[1]) /\ l[3] = LowOf(v[2]) /\ l[4] = HighOf(v[2])
      BY LanesAre, Zenon
    <3> HIDE DEF l, h
    <3> QED
      BY <3>1, <3>2, Zenon
  <2>2. Pwx256!Product(build, v) = <<h[1] * l[1], h[3] * l[3]>>
    BY <1>2, Zenon DEF Pwx256!Product, Pwx256!mul_epu32
  <2> HIDE DEF l, h
  <2>3. Pwx256!Product(build, v) = <<a, b>>
    BY <2>1, <2>2, Zenon
  <2> HIDE DEF a, b
  <2>4. <<a, b>>[1] = a /\ <<a, b>>[2] = b
    OBVIOUS
  <2>5. Pwx256!Product(build, v)[1] = a /\ Pwx256!Product(build, v)[2] = b
    BY <2>3, <2>4, Zenon
  <2> QED
    BY <2>5, Zenon DEF a, b
<1> QED
  BY <1>1, <1>2, Zenon

(***************************************************************************)
(* PWXFORM: what a step does to the fields.                                *)
(***************************************************************************)
Memory(xs, sb, a, b, c, p) == [X |-> xs, S |-> sb, S0 |-> a, S1 |-> b, S2 |-> c, w |-> p]
Tabled(xs, t, p) == [X |-> xs, T |-> t, count |-> p]

IsMemory(m, xs, sb, a, b, c, p) == m = Memory(xs, sb, a, b, c, p)
IsTabled(q, xs, t, p) == q = Tabled(xs, t, p)

\* The new value of v, from the entries it has looked up.
Fresh(v, e, f) ==
  [d \in 1 .. 2 |-> Xor24((HighOf(v[d]) * LowOf(v[d]) + e[d]) % TwoWords, f[d])]

LEMMA FreshIs ==
  ASSUME NEW build, NEW v, NEW e, NEW f
  PROVE  Pwx256!AddXor(Pwx256!Product(build, v), e, f) = Fresh(v, e, f)
<1> DEFINE r == Pwx256!Product(build, v)
<1>1. r[1] = HighOf(v[1]) * LowOf(v[1]) /\ r[2] = HighOf(v[2]) * LowOf(v[2])
  BY ProductIs, Zenon
<1> HIDE DEF r
<1>2. \A d \in 1 .. 2 : r[d] = HighOf(v[d]) * LowOf(v[d])
  BY <1>1
<1>3. \A d \in 1 .. 2 : Pwx256!Xor24((r[d] + e[d]) % (2 ^ (2 * Bits)), f[d])
                          = Xor24((HighOf(v[d]) * LowOf(v[d]) + e[d]) % TwoWords, f[d])
  BY <1>2, PwxWords, Zenon DEF TwoWords
<1>4. Pwx256!AddXor(r, e, f) = Fresh(v, e, f)
  BY <1>3, Zenon DEF Pwx256!AddXor, Fresh
<1> QED
  BY <1>4, Zenon DEF r

LEMMA TwoWordsIs == TwoWords \in Nat /\ TwoWords > 0 /\ (\A k \in Nat : k < TwoWords => k \in Word24)
BY PwxSizes, SMT DEF Word24

LEMMA FreshPair ==
  ASSUME NEW v, NEW e, NEW f, Pair(v), Pair(e), Pair(f)
  PROVE  Pair(Fresh(v, e, f))
<1>1. ASSUME NEW d \in 1 .. 2 PROVE Fresh(v, e, f)[d] \in Word24
  <2>1. v[d] \in Word24 /\ e[d] \in Word24 /\ f[d] \in Word24
    <3>1. d = 1 \/ d = 2
      OBVIOUS
    <3> QED
      BY <3>1, Zenon DEF Pair
  <2>2. HighOf(v[d]) \in Nat /\ LowOf(v[d]) \in Nat /\ e[d] \in Nat
    BY <2>1, HalvesAreWords, WordNat, Zenon
  <2>3. PICK k \in Nat : k = HighOf(v[d]) * LowOf(v[d]) + e[d]
    BY <2>2
  <2>4. k % TwoWords \in Nat /\ k % TwoWords < TwoWords
    BY Division, TwoWordsIs
  <2>5. k % TwoWords \in Word24
    BY <2>4, TwoWordsIs, Zenon
  <2>6. Xor24(k % TwoWords, f[d]) \in Word24
    BY <2>1, <2>5, Word24Closed, Zenon
  <2>7. Fresh(v, e, f)[d] = Xor24((HighOf(v[d]) * LowOf(v[d]) + e[d]) % TwoWords, f[d])
    BY Zenon DEF Fresh
  <2> QED
    BY <2>3, <2>6, <2>7, Zenon
<1>2. 1 \in 1 .. 2 /\ 2 \in 1 .. 2
  OBVIOUS
<1> QED
  BY <1>1, <1>2, Zenon DEF Pair

LEMMA FieldsAre ==
  ASSUME NEW xs, NEW sb, NEW a, NEW b, NEW c, NEW p, NEW m, IsMemory(m, xs, sb, a, b, c, p)
  PROVE  /\ m.X = xs /\ m.S = sb /\ m.S0 = a /\ m.S1 = b /\ m.S2 = c /\ m.w = p
         /\ m["S0"] = a /\ m["S1"] = b
BY DEF Memory, IsMemory

LEMMA ChangesAre ==
  ASSUME NEW xs, NEW sb, NEW a, NEW b, NEW c, NEW p, NEW m, IsMemory(m, xs, sb, a, b, c, p)
  PROVE  /\ \A k, e : IsMemory([m EXCEPT !.X[k] = e], [xs EXCEPT ![k] = e], sb, a, b, c, p)
         /\ \A k, e : IsMemory([m EXCEPT !.S[k] = e], xs, [sb EXCEPT ![k] = e], a, b, c, p)
         /\ \A q : IsMemory([m EXCEPT !.w = q], xs, sb, a, b, c, q)
<1>3. \A k, e : IsMemory([m EXCEPT !.X[k] = e], [xs EXCEPT ![k] = e], sb, a, b, c, p)
  BY DEF Memory, IsMemory
<1>4. \A k, e : IsMemory([m EXCEPT !.S[k] = e], xs, [sb EXCEPT ![k] = e], a, b, c, p)
  BY DEF Memory, IsMemory
<1>5. \A q : IsMemory([m EXCEPT !.w = q], xs, sb, a, b, c, q)
  BY DEF Memory, IsMemory
<1> QED
  BY <1>3, <1>4, <1>5, Zenon

LEMMA SimdIs ==
  ASSUME NEW build, NEW xs, NEW sb, NEW a, NEW b, NEW c, NEW p, NEW k, Pair(xs[k]),
         NEW m, IsMemory(m, xs, sb, a, b, c, p)
  PROVE  IsMemory(Pwx256!PWXFORM_SIMD(build, m, k),
                  [xs EXCEPT ![k] = Fresh(xs[k], sb[a + Entry(LowOf(xs[k][1]))],
                                          sb[b + Entry(HighOf(xs[k][1]))])], sb, a, b, c, p)
<1> DEFINE o == Pwx256!Offsets(build, xs[k])
           e == sb[a + Entry(LowOf(xs[k][1]))]
           f == sb[b + Entry(HighOf(xs[k][1]))]
<1>1. o[1] \div 16 = Entry(LowOf(xs[k][1])) /\ o[2] \div 16 = Entry(HighOf(xs[k][1]))
  BY OffsetsIs, Zenon DEF Found
<1>2. m.X = xs /\ m.S = sb /\ m.S0 = a /\ m.S1 = b
  BY FieldsAre
<1>3. Pwx256!PWXFORM_SIMD(build, m, k)
        = [m EXCEPT !.X[k] = Pwx256!AddXor(Pwx256!Product(build, xs[k]),
                                           sb[a + (o[1] \div 16)], sb[b + (o[2] \div 16)])]
  BY <1>2, Zenon DEF Pwx256!PWXFORM_SIMD
<1>4. Pwx256!AddXor(Pwx256!Product(build, xs[k]), sb[a + (o[1] \div 16)], sb[b + (o[2] \div 16)])
        = Fresh(xs[k], e, f)
  <2>1. sb[a + (o[1] \div 16)] = e /\ sb[b + (o[2] \div 16)] = f
    <3> HIDE DEF o
    <3> QED
      BY <1>1, Zenon
  <2> HIDE DEF o, e, f
  <2> QED
    BY <2>1, FreshIs, Zenon
<1> DEFINE z == Pwx256!AddXor(Pwx256!Product(build, xs[k]),
                              sb[a + (o[1] \div 16)], sb[b + (o[2] \div 16)])
<1>6. Pwx256!PWXFORM_SIMD(build, m, k) = [m EXCEPT !.X[k] = z] /\ z = Fresh(xs[k], e, f)
  BY <1>3, <1>4, Zenon
<1> HIDE DEF e, f, z
<1>5. IsMemory([m EXCEPT !.X[k] = z], [xs EXCEPT ![k] = z], sb, a, b, c, p)
  BY ChangesAre, Zenon
<1>7. IsMemory(Pwx256!PWXFORM_SIMD(build, m, k), [xs EXCEPT ![k] = Fresh(xs[k], e, f)],
               sb, a, b, c, p)
  BY <1>5, <1>6, Zenon
<1> QED
  BY <1>7, Zenon DEF e, f

\* A step of the definition.
FreshFrom(xs, t, k) ==
  Fresh(xs[k], t[1][Entry(LowOf(xs[k][1]))], t[2][Entry(HighOf(xs[k][1]))])

LEMMA TabledFields ==
  ASSUME NEW q, NEW xs, NEW t, NEW p, IsTabled(q, xs, t, p)
  PROVE  q.X = xs /\ q.T = t /\ q.count = p
BY DEF IsTabled, Tabled

\* z comes of step k.
Stepped(z, xs, t, p, k) ==
  z = [X |-> [xs EXCEPT ![k] = FreshFrom(xs, t, k)],
       T |-> IF Pwx256!PlainWrites(k)
             THEN [t EXCEPT ![Pwx256!PlainTable(k)][p % Boxes] = FreshFrom(xs, t, k)]
             ELSE t,
       count |-> IF Pwx256!PlainWrites(k) /\ k % 2 = 0 THEN p + 1 ELSE p]

LEMMA PlainStepIs ==
  ASSUME NEW q, NEW xs, NEW t, NEW p, IsTabled(q, xs, t, p), NEW k
  PROVE  Stepped(Pwx256!PlainStep(q, k), xs, t, p, k)
<1> DEFINE o == Pwx256!Lookup(q.X[k][1])
           f == Pwx256!PlainNew(q, k)
<1>1. q.X = xs /\ q.T = t /\ q.count = p
  BY TabledFields
<1>2. Pwx256!Entries = Boxes
  BY PwxNames, Zenon
<1>3. f = FreshFrom(xs, t, k)
  <2>1. o[1] = Entry(LowOf(xs[k][1])) /\ o[2] = Entry(HighOf(xs[k][1]))
    BY <1>1, LookupIs, Zenon
  <2>2. f = [d \in 1 .. 2 |->
               Pwx256!Xor24((Pwx256!High(q.X[k][d]) * Pwx256!Low(q.X[k][d]) + q.T[1][o[1]][d])
                              % (2 ^ (2 * Bits)), q.T[2][o[2]][d])]
    BY Zenon DEF Pwx256!PlainNew
  <2> HIDE DEF o, f
  <2>3. \A d \in 1 .. 2 :
          Pwx256!Xor24((Pwx256!High(q.X[k][d]) * Pwx256!Low(q.X[k][d]) + q.T[1][o[1]][d])
                         % (2 ^ (2 * Bits)), q.T[2][o[2]][d])
            = Xor24((HighOf(xs[k][d]) * LowOf(xs[k][d]) + t[1][o[1]][d]) % TwoWords, t[2][o[2]][d])
    BY <1>1, PwxWords, PwxNames, Zenon DEF TwoWords
  <2> QED
    BY <2>1, <2>2, <2>3, Zenon DEF FreshFrom, Fresh
<1>4. Pwx256!PlainStep(q, k)
        = [X |-> [q.X EXCEPT ![k] = f],
           T |-> IF Pwx256!PlainWrites(k)
                 THEN [q.T EXCEPT ![Pwx256!PlainTable(k)][q.count % Pwx256!Entries] = f] ELSE q.T,
           count |-> IF Pwx256!PlainWrites(k) /\ k % 2 = 0 THEN q.count + 1 ELSE q.count]
  BY Zenon DEF Pwx256!PlainStep
<1> HIDE DEF f
<1> QED
  BY <1>1, <1>2, <1>3, <1>4, Zenon DEF Stepped

LEMMA ReadTabled ==
  ASSUME NEW q, NEW xs, NEW t, NEW p, IsTabled(q, xs, t, p), NEW k, ~Pwx256!PlainWrites(k)
  PROVE  IsTabled(Pwx256!PlainStep(q, k), [xs EXCEPT ![k] = FreshFrom(xs, t, k)], t, p)
<1>1. Stepped(Pwx256!PlainStep(q, k), xs, t, p, k)
  BY PlainStepIs, Zenon
<1> QED
  BY <1>1, Zenon DEF Stepped, IsTabled, Tabled

OddSteps == {1, 3}
EvenSteps == {2, 4}

LEMMA OddTabled ==
  ASSUME NEW q, NEW xs, NEW t, NEW p, IsTabled(q, xs, t, p), NEW k, Pwx256!PlainWrites(k), k \in OddSteps
  PROVE  IsTabled(Pwx256!PlainStep(q, k), [xs EXCEPT ![k] = FreshFrom(xs, t, k)],
                  [t EXCEPT ![1][p % Boxes] = FreshFrom(xs, t, k)], p)
<1>1. Stepped(Pwx256!PlainStep(q, k), xs, t, p, k)
  BY PlainStepIs, Zenon
<1>2. Pwx256!PlainTable(k) = 1 /\ k % 2 # 0
  BY SMT DEF Pwx256!PlainTable, OddSteps, EvenSteps
<1> QED
  BY <1>1, <1>2, Zenon DEF Stepped, IsTabled, Tabled

LEMMA EvenTabled ==
  ASSUME NEW q, NEW xs, NEW t, NEW p, IsTabled(q, xs, t, p), NEW k, Pwx256!PlainWrites(k), k \in EvenSteps
  PROVE  IsTabled(Pwx256!PlainStep(q, k), [xs EXCEPT ![k] = FreshFrom(xs, t, k)],
                  [t EXCEPT ![2][p % Boxes] = FreshFrom(xs, t, k)], p + 1)
<1>1. Stepped(Pwx256!PlainStep(q, k), xs, t, p, k)
  BY PlainStepIs, Zenon
<1>2. Pwx256!PlainTable(k) = 2 /\ k % 2 = 0
  BY SMT DEF Pwx256!PlainTable, OddSteps, EvenSteps
<1> QED
  BY <1>1, <1>2, Zenon DEF Stepped, IsTabled, Tabled

(***************************************************************************)
(* PWXFORM: three parts of memory and three tables.                        *)
(***************************************************************************)
\* The parts, in one of the orders in which they are passed on.
PartsApart(a, b, c) ==
  \/ a = 0 /\ b = Boxes /\ c = 2 * Boxes
  \/ a = 2 * Boxes /\ b = 0 /\ c = Boxes
  \/ a = Boxes /\ b = 2 * Boxes /\ c = 0

Domains(sb, t) ==
  /\ DOMAIN sb = 0 .. 3 * Boxes - 1 /\ DOMAIN t = 1 .. 3
  /\ \A d \in 1 .. 3 : DOMAIN t[d] = 0 .. Boxes - 1

Entries3(sb, t, a, b, c) ==
  \A e \in 0 .. Boxes - 1 :
    /\ sb[a + e] = t[1][e] /\ sb[b + e] = t[2][e] /\ sb[c + e] = t[3][e]
    /\ Pair(t[1][e]) /\ Pair(t[2][e]) /\ Pair(t[3][e])

Tables(sb, t, a, b, c) == PartsApart(a, b, c) /\ Domains(sb, t) /\ Entries3(sb, t, a, b, c)

LEMMA BoxesIs == Boxes \in Nat /\ Boxes > 0 /\ Boxes % 4 = 0
BY PwxSizes, SMT

LEMMA PartsApartIs ==
  ASSUME NEW a, NEW b, NEW c, PartsApart(a, b, c), NEW e \in 0 .. Boxes - 1, NEW g \in 0 .. Boxes - 1
  PROVE  /\ a + e \in 0 .. 3 * Boxes - 1 /\ b + e \in 0 .. 3 * Boxes - 1
         /\ c + e \in 0 .. 3 * Boxes - 1
         /\ (a + e = a + g => e = g) /\ (b + e = b + g => e = g)
         /\ b + e # a + g /\ c + e # a + g /\ a + e # b + g /\ c + e # b + g
<1>1. PICK o \in Nat : o = Boxes
  BY BoxesIs
<1>2. e \in 0 .. o - 1 /\ g \in 0 .. o - 1
  BY <1>1
<1>3. CASE a = 0 /\ b = Boxes /\ c = 2 * Boxes
  BY <1>1, <1>2, <1>3
<1>4. CASE a = 2 * Boxes /\ b = 0 /\ c = Boxes
  BY <1>1, <1>2, <1>4
<1>5. CASE a = Boxes /\ b = 2 * Boxes /\ c = 0
  BY <1>1, <1>2, <1>5
<1> QED
  BY <1>3, <1>4, <1>5, Zenon DEF PartsApart

\* What is written to a part is written to its table.
LEMMA WriteFirst ==
  ASSUME NEW sb, NEW t, NEW a, NEW b, NEW c, Tables(sb, t, a, b, c),
         NEW g \in 0 .. Boxes - 1, NEW v, Pair(v)
  PROVE  Tables([sb EXCEPT ![a + g] = v], [t EXCEPT ![1][g] = v], a, b, c)
<1> DEFINE sb2 == [sb EXCEPT ![a + g] = v]
           t2 == [t EXCEPT ![1][g] = v]
<1>1. PartsApart(a, b, c) /\ Domains(sb, t) /\ Entries3(sb, t, a, b, c)
  BY Zenon DEF Tables
<1>2. DOMAIN sb2 = 0 .. 3 * Boxes - 1 /\ sb2[a + g] = v
      /\ \A e \in 0 .. 3 * Boxes - 1 : e # a + g => sb2[e] = sb[e]
  <2>1. DOMAIN sb = 0 .. 3 * Boxes - 1
    BY <1>1 DEF Domains
  <2>2. a + g \in 0 .. 3 * Boxes - 1
    BY <1>1, PartsApartIs
  <2> QED
    BY <2>1, <2>2
<1>3. /\ DOMAIN t2 = 1 .. 3 /\ t2[1] = [t[1] EXCEPT ![g] = v] /\ t2[2] = t[2] /\ t2[3] = t[3]
  BY <1>1 DEF Domains
<1>4. DOMAIN t2[1] = 0 .. Boxes - 1 /\ t2[1][g] = v
      /\ \A e \in 0 .. Boxes - 1 : e # g => t2[1][e] = t[1][e]
  <2>1. DOMAIN t[1] = 0 .. Boxes - 1
    BY <1>1 DEF Domains
  <2> HIDE DEF t2
  <2> QED
    BY <1>3, <2>1
<1> HIDE DEF sb2, t2
<1>5. Domains(sb2, t2)
  <2>1. DOMAIN t[2] = 0 .. Boxes - 1 /\ DOMAIN t[3] = 0 .. Boxes - 1
    BY <1>1 DEF Domains
  <2>2. \A d \in 1 .. 3 : d = 1 \/ d = 2 \/ d = 3
    OBVIOUS
  <2> QED
    BY <1>2, <1>3, <1>4, <2>1, <2>2, Zenon DEF Domains
<1>6. Entries3(sb2, t2, a, b, c)
  <2> SUFFICES ASSUME NEW e \in 0 .. Boxes - 1
               PROVE  /\ sb2[a + e] = t2[1][e] /\ sb2[b + e] = t2[2][e] /\ sb2[c + e] = t2[3][e]
                      /\ Pair(t2[1][e]) /\ Pair(t2[2][e]) /\ Pair(t2[3][e])
    BY Zenon DEF Entries3
  <2>1. /\ a + e \in 0 .. 3 * Boxes - 1 /\ b + e \in 0 .. 3 * Boxes - 1
        /\ c + e \in 0 .. 3 * Boxes - 1 /\ (a + e = a + g => e = g)
        /\ b + e # a + g /\ c + e # a + g
    BY <1>1, PartsApartIs
  <2>2. /\ sb[a + e] = t[1][e] /\ sb[b + e] = t[2][e] /\ sb[c + e] = t[3][e]
        /\ Pair(t[1][e]) /\ Pair(t[2][e]) /\ Pair(t[3][e])
    BY <1>1, Zenon DEF Entries3
  <2>3. sb2[b + e] = t2[2][e] /\ sb2[c + e] = t2[3][e] /\ Pair(t2[2][e]) /\ Pair(t2[3][e])
    BY <1>2, <1>3, <2>1, <2>2, Zenon
  <2>4. sb2[a + e] = t2[1][e] /\ Pair(t2[1][e])
    BY <1>2, <1>4, <2>1, <2>2, Zenon
  <2> QED
    BY <2>3, <2>4, Zenon
<1> QED
  BY <1>1, <1>5, <1>6, Zenon DEF Tables, sb2, t2

LEMMA WriteSecond ==
  ASSUME NEW sb, NEW t, NEW a, NEW b, NEW c, Tables(sb, t, a, b, c),
         NEW g \in 0 .. Boxes - 1, NEW v, Pair(v)
  PROVE  Tables([sb EXCEPT ![b + g] = v], [t EXCEPT ![2][g] = v], a, b, c)
<1> DEFINE sb2 == [sb EXCEPT ![b + g] = v]
           t2 == [t EXCEPT ![2][g] = v]
<1>1. PartsApart(a, b, c) /\ Domains(sb, t) /\ Entries3(sb, t, a, b, c)
  BY Zenon DEF Tables
<1>2. DOMAIN sb2 = 0 .. 3 * Boxes - 1 /\ sb2[b + g] = v
      /\ \A e \in 0 .. 3 * Boxes - 1 : e # b + g => sb2[e] = sb[e]
  <2>1. DOMAIN sb = 0 .. 3 * Boxes - 1
    BY <1>1 DEF Domains
  <2>2. b + g \in 0 .. 3 * Boxes - 1
    BY <1>1, PartsApartIs
  <2> QED
    BY <2>1, <2>2
<1>3. /\ DOMAIN t2 = 1 .. 3 /\ t2[2] = [t[2] EXCEPT ![g] = v] /\ t2[1] = t[1] /\ t2[3] = t[3]
  BY <1>1 DEF Domains
<1>4. DOMAIN t2[2] = 0 .. Boxes - 1 /\ t2[2][g] = v
      /\ \A e \in 0 .. Boxes - 1 : e # g => t2[2][e] = t[2][e]
  <2>1. DOMAIN t[2] = 0 .. Boxes - 1
    BY <1>1 DEF Domains
  <2> HIDE DEF t2
  <2> QED
    BY <1>3, <2>1
<1> HIDE DEF sb2, t2
<1>5. Domains(sb2, t2)
  <2>1. DOMAIN t[1] = 0 .. Boxes - 1 /\ DOMAIN t[3] = 0 .. Boxes - 1
    BY <1>1 DEF Domains
  <2>2. \A d \in 1 .. 3 : d = 1 \/ d = 2 \/ d = 3
    OBVIOUS
  <2> QED
    BY <1>2, <1>3, <1>4, <2>1, <2>2, Zenon DEF Domains
<1>6. Entries3(sb2, t2, a, b, c)
  <2> SUFFICES ASSUME NEW e \in 0 .. Boxes - 1
               PROVE  /\ sb2[a + e] = t2[1][e] /\ sb2[b + e] = t2[2][e] /\ sb2[c + e] = t2[3][e]
                      /\ Pair(t2[1][e]) /\ Pair(t2[2][e]) /\ Pair(t2[3][e])
    BY Zenon DEF Entries3
  <2>1. /\ a + e \in 0 .. 3 * Boxes - 1 /\ b + e \in 0 .. 3 * Boxes - 1
        /\ c + e \in 0 .. 3 * Boxes - 1 /\ (b + e = b + g => e = g)
        /\ a + e # b + g /\ c + e # b + g
    BY <1>1, PartsApartIs
  <2>2. /\ sb[a + e] = t[1][e] /\ sb[b + e] = t[2][e] /\ sb[c + e] = t[3][e]
        /\ Pair(t[1][e]) /\ Pair(t[2][e]) /\ Pair(t[3][e])
    BY <1>1, Zenon DEF Entries3
  <2>3. sb2[a + e] = t2[1][e] /\ sb2[c + e] = t2[3][e] /\ Pair(t2[1][e]) /\ Pair(t2[3][e])
    BY <1>2, <1>3, <2>1, <2>2, Zenon
  <2>4. sb2[b + e] = t2[2][e] /\ Pair(t2[2][e])
    BY <1>2, <1>4, <2>1, <2>2, Zenon
  <2> QED
    BY <2>3, <2>4, Zenon
<1> QED
  BY <1>1, <1>5, <1>6, Zenon DEF Tables, sb2, t2

(***************************************************************************)
(* PWXFORM: memory m of a build stands for p of the definition; the next   *)
(* write goes to entry f of the first two parts.                           *)
(***************************************************************************)
PwxRow(xs) == DOMAIN xs = 1 .. 4 /\ \A k \in 1 .. 4 : Pair(xs[k])

StandsAt(m, p, f, xs, sb, t, a, b, c, r) ==
  /\ IsMemory(m, xs, sb, a, b, c, 16 * f) /\ IsTabled(p, xs, t, Boxes * r + f)
  /\ PwxRow(xs) /\ Tables(sb, t, a, b, c)

StandsFor(m, p, f) ==
  \E xs, sb, t, a, b, c : \E r \in Nat : StandsAt(m, p, f, xs, sb, t, a, b, c, r)

LEMMA RowChange ==
  ASSUME NEW xs, PwxRow(xs), NEW k \in 1 .. 4, NEW v, Pair(v)
  PROVE  PwxRow([xs EXCEPT ![k] = v]) /\ [xs EXCEPT ![k] = v][k] = v
<1> DEFINE ys == [xs EXCEPT ![k] = v]
<1>1. DOMAIN xs = 1 .. 4 /\ \A d \in 1 .. 4 : Pair(xs[d])
  BY Zenon DEF PwxRow
<1>2. DOMAIN ys = 1 .. 4 /\ ys[k] = v /\ \A d \in 1 .. 4 : d # k => ys[d] = xs[d]
  BY <1>1
<1> HIDE DEF ys
<1>3. PwxRow(ys)
  BY <1>1, <1>2, Zenon DEF PwxRow
<1> QED
  BY <1>2, <1>3, Zenon DEF ys

\* What a step computes, from memory as from the tables.
LEMMA SimdStep ==
  ASSUME NEW build, NEW m, NEW xs, NEW sb, NEW t, NEW a, NEW b, NEW c, NEW p,
         IsMemory(m, xs, sb, a, b, c, p), PwxRow(xs), Tables(sb, t, a, b, c), NEW k \in 1 .. 4
  PROVE  /\ IsMemory(Pwx256!PWXFORM_SIMD(build, m, k), [xs EXCEPT ![k] = FreshFrom(xs, t, k)],
                     sb, a, b, c, p)
         /\ PwxRow([xs EXCEPT ![k] = FreshFrom(xs, t, k)]) /\ Pair(FreshFrom(xs, t, k))
         /\ [xs EXCEPT ![k] = FreshFrom(xs, t, k)][k] = FreshFrom(xs, t, k)
<1> DEFINE l == Entry(LowOf(xs[k][1]))
           h == Entry(HighOf(xs[k][1]))
           z == Fresh(xs[k], sb[a + l], sb[b + h])
<1>1. Pair(xs[k])
  BY Zenon DEF PwxRow
<1>2. l \in 0 .. Boxes - 1 /\ h \in 0 .. Boxes - 1
  <2>1. LowOf(xs[k][1]) \in Word24 /\ HighOf(xs[k][1]) \in Word24
    BY <1>1, HalvesAreWords, Zenon DEF Pair
  <2>2. l \in Nat /\ l < Boxes /\ h \in Nat /\ h < Boxes
    BY <2>1, EntryIs, Zenon
  <2> HIDE DEF l, h
  <2> QED
    BY <2>2, BoxesIs
<1>3. IsMemory(Pwx256!PWXFORM_SIMD(build, m, k), [xs EXCEPT ![k] = z], sb, a, b, c, p)
  BY <1>1, SimdIs, Zenon
<1> HIDE DEF l, h
<1>4. sb[a + l] = t[1][l] /\ sb[b + h] = t[2][h] /\ Pair(t[1][l]) /\ Pair(t[2][h])
  BY <1>2, Zenon DEF Tables, Entries3
<1>5. z = FreshFrom(xs, t, k)
  BY <1>4, Zenon DEF FreshFrom, l, h
<1>6. Pair(z)
  BY <1>1, <1>4, FreshPair, Zenon
<1> HIDE DEF z
<1>7. PwxRow([xs EXCEPT ![k] = z]) /\ [xs EXCEPT ![k] = z][k] = z
  BY <1>6, RowChange
<1> QED
  BY <1>3, <1>5, <1>6, <1>7, Zenon

LEMMA ReadStep ==
  ASSUME NEW build, NEW m, NEW p, NEW f, StandsFor(m, p, f), NEW k \in 1 .. 4,
         ~Pwx256!PlainWrites(k)
  PROVE  StandsFor(Pwx256!PWXFORM_SIMD(build, m, k), Pwx256!PlainStep(p, k), f)
<1>1. PICK xs, sb, t, a, b, c : \E r \in Nat : StandsAt(m, p, f, xs, sb, t, a, b, c, r)
  BY Zenon DEF StandsFor
<1>2. PICK r \in Nat : StandsAt(m, p, f, xs, sb, t, a, b, c, r)
  BY <1>1, Zenon
<1> DEFINE ys == [xs EXCEPT ![k] = FreshFrom(xs, t, k)]
<1>3. IsMemory(m, xs, sb, a, b, c, 16 * f) /\ IsTabled(p, xs, t, Boxes * r + f)
  BY <1>2, Zenon DEF StandsAt
<1>4. PwxRow(xs) /\ Tables(sb, t, a, b, c)
  BY <1>2, Zenon DEF StandsAt
<1>5. IsMemory(Pwx256!PWXFORM_SIMD(build, m, k), ys, sb, a, b, c, 16 * f) /\ PwxRow(ys)
  BY <1>3, <1>4, SimdStep, Zenon
<1>6. IsTabled(Pwx256!PlainStep(p, k), ys, t, Boxes * r + f)
  BY <1>3, ReadTabled, Zenon
<1> HIDE DEF ys
<1>7. StandsAt(Pwx256!PWXFORM_SIMD(build, m, k), Pwx256!PlainStep(p, k), f, ys, sb, t, a, b, c, r)
  BY <1>4, <1>5, <1>6, Zenon DEF StandsAt
<1> QED
  BY <1>7, Zenon DEF StandsFor

\* Where the part of that name begins.
PartAt(part, d, a, b) == (part = "S0" /\ d = a) \/ (part = "S1" /\ d = b)

\* What PWXFORM_SIMD_WRITE adds.
LEMMA WriteIs ==
  ASSUME NEW build, NEW m, NEW k, NEW part, NEW ys, NEW sb, NEW a, NEW b, NEW c, NEW f \in Nat,
         IsMemory(Pwx256!PWXFORM_SIMD(build, m, k), ys, sb, a, b, c, 16 * f),
         NEW d, PartAt(part, d, a, b)
  PROVE  IsMemory(Pwx256!PWXFORM_SIMD_WRITE(build, m, k, part), ys,
                  [sb EXCEPT ![d + f] = ys[k]], a, b, c, 16 * f)
<1> DEFINE r == Pwx256!PWXFORM_SIMD(build, m, k)
<1>1. r.X = ys /\ r.w = 16 * f /\ r[part] = d
  <2> HIDE DEF r
  <2>1. IsMemory(r, ys, sb, a, b, c, 16 * f)
    BY Zenon DEF r
  <2>2. r.X = ys /\ r.w = 16 * f /\ r["S0"] = a /\ r["S1"] = b
    BY <2>1, FieldsAre
  <2> QED
    BY <2>2, Zenon DEF PartAt
<1>2. (16 * f) \div 16 = f
  OBVIOUS
<1>3. Pwx256!PWXFORM_SIMD_WRITE(build, m, k, part)
        = [r EXCEPT !.S[r[part] + (r.w \div 16)] = r.X[k]]
  BY Zenon DEF Pwx256!PWXFORM_SIMD_WRITE
<1> HIDE DEF r
<1>4. IsMemory([r EXCEPT !.S[d + f] = ys[k]], ys, [sb EXCEPT ![d + f] = ys[k]], a, b, c, 16 * f)
  <2>1. IsMemory(r, ys, sb, a, b, c, 16 * f)
    BY Zenon DEF r
  <2> QED
    BY <2>1, ChangesAre, Zenon
<1> QED
  BY <1>1, <1>2, <1>3, <1>4, Zenon

LEMMA PwxCount ==
  ASSUME NEW r \in Nat, NEW f \in 0 .. Boxes - 1
  PROVE  (Boxes * r + f) % Boxes = f
<1>1. PICK o \in Nat : o = Boxes
  BY BoxesIs
<1>2. PICK y \in Nat : y = o * r + f
  BY <1>1
<1>3. f \in Nat /\ f < o
  BY <1>1
<1>4. y % o = f
  <2>1. \A q, k, w, v \in Nat : k < w /\ v = w * q + k => v % w = k /\ v \div w = q
    BY PwxQuotient
  <2> QED
    BY <1>2, <1>3, <2>1, Zenon
<1> QED
  BY <1>1, <1>2, <1>4, Zenon

LEMMA WriteOdd ==
  ASSUME NEW build, NEW m, NEW p, NEW f \in 0 .. Boxes - 1, StandsFor(m, p, f), NEW k \in OddSteps,
         Pwx256!PlainWrites(k)
  PROVE  StandsFor(Pwx256!PWXFORM_SIMD_WRITE(build, m, k, "S0"), Pwx256!PlainStep(p, k), f)
<1>1. PICK xs, sb, t, a, b, c : \E r \in Nat : StandsAt(m, p, f, xs, sb, t, a, b, c, r)
  BY Zenon DEF StandsFor
<1>2. PICK r \in Nat : StandsAt(m, p, f, xs, sb, t, a, b, c, r)
  BY <1>1, Zenon
<1> DEFINE v == FreshFrom(xs, t, k)
           ys == [xs EXCEPT ![k] = v]
<1>3. IsMemory(m, xs, sb, a, b, c, 16 * f) /\ IsTabled(p, xs, t, Boxes * r + f)
  BY <1>2, Zenon DEF StandsAt
<1>4. PwxRow(xs) /\ Tables(sb, t, a, b, c)
  BY <1>2, Zenon DEF StandsAt
<1>5. k \in 1 .. 4 /\ f \in Nat
  BY BoxesIs DEF OddSteps, EvenSteps
<1>6. IsMemory(Pwx256!PWXFORM_SIMD(build, m, k), ys, sb, a, b, c, 16 * f) /\ PwxRow(ys)
      /\ Pair(v) /\ ys[k] = v
  <2>1. IsMemory(Pwx256!PWXFORM_SIMD(build, m, k), ys, sb, a, b, c, 16 * f)
    BY <1>3, <1>4, <1>5, SimdStep, Zenon
  <2>2. PwxRow(ys)
    BY <1>3, <1>4, <1>5, SimdStep, Zenon
  <2>3. Pair(v)
    BY <1>3, <1>4, <1>5, SimdStep, Zenon
  <2>4. ys[k] = v
    <3> HIDE DEF v
    <3> QED
      BY <1>4, <1>5, <2>3, RowChange
  <2> QED
    BY <2>1, <2>2, <2>3, <2>4, Zenon
<1>7. IsTabled(Pwx256!PlainStep(p, k), ys, [t EXCEPT ![1][(Boxes * r + f) % Boxes] = v], Boxes * r + f)
  BY <1>3, OddTabled, Zenon
<1>8. (Boxes * r + f) % Boxes = f
  BY PwxCount
<1> HIDE DEF v, ys
<1>9. IsMemory(Pwx256!PWXFORM_SIMD_WRITE(build, m, k, "S0"), ys, [sb EXCEPT ![a + f] = ys[k]],
               a, b, c, 16 * f)
  <2>1. PartAt("S0", a, a, b)
    BY DEF PartAt
  <2> QED
    BY <1>5, <1>6, <2>1, WriteIs, Zenon
<1>10. Tables([sb EXCEPT ![a + f] = v], [t EXCEPT ![1][f] = v], a, b, c)
  BY <1>4, <1>6, WriteFirst, Zenon
<1> DEFINE sb2 == [sb EXCEPT ![a + f] = v]
           t2 == [t EXCEPT ![1][f] = v]
<1>11. IsMemory(Pwx256!PWXFORM_SIMD_WRITE(build, m, k, "S0"), ys, sb2, a, b, c, 16 * f)
  BY <1>6, <1>9, Zenon
<1>12. IsTabled(Pwx256!PlainStep(p, k), ys, t2, Boxes * r + f)
  BY <1>7, <1>8, Zenon
<1> HIDE DEF sb2, t2
<1>13. StandsAt(Pwx256!PWXFORM_SIMD_WRITE(build, m, k, "S0"), Pwx256!PlainStep(p, k), f,
                ys, sb2, t2, a, b, c, r)
  BY <1>6, <1>10, <1>11, <1>12, Zenon DEF StandsAt, sb2, t2
<1> QED
  BY <1>13, Zenon DEF StandsFor

LEMMA AdvanceIs ==
  ASSUME NEW xs, NEW sb, NEW a, NEW b, NEW c, NEW f \in Nat, NEW m,
         IsMemory(m, xs, sb, a, b, c, 16 * f)
  PROVE  IsMemory(Pwx256!Advance(m), xs, sb, a, b, c, 16 * (f + 1))
<1>1. m.w = 16 * f
  BY FieldsAre
<1>2. Pwx256!Advance(m) = [m EXCEPT !.w = m.w + 16]
  BY DEF Pwx256!Advance
<1>3. 16 * f + 16 = 16 * (f + 1)
  OBVIOUS
<1>4. IsMemory([m EXCEPT !.w = 16 * (f + 1)], xs, sb, a, b, c, 16 * (f + 1))
  BY ChangesAre, Zenon
<1> QED
  BY <1>1, <1>2, <1>3, <1>4, Zenon

LEMMA WriteEven ==
  ASSUME NEW build, NEW m, NEW p, NEW f \in 0 .. Boxes - 1, StandsFor(m, p, f), NEW k \in EvenSteps,
         Pwx256!PlainWrites(k)
  PROVE  StandsFor(Pwx256!Advance(Pwx256!PWXFORM_SIMD_WRITE(build, m, k, "S1")),
                   Pwx256!PlainStep(p, k), f + 1)
<1>1. PICK xs, sb, t, a, b, c : \E r \in Nat : StandsAt(m, p, f, xs, sb, t, a, b, c, r)
  BY Zenon DEF StandsFor
<1>2. PICK r \in Nat : StandsAt(m, p, f, xs, sb, t, a, b, c, r)
  BY <1>1, Zenon
<1> DEFINE v == FreshFrom(xs, t, k)
           ys == [xs EXCEPT ![k] = v]
           z == Pwx256!PWXFORM_SIMD_WRITE(build, m, k, "S1")
<1>3. IsMemory(m, xs, sb, a, b, c, 16 * f) /\ IsTabled(p, xs, t, Boxes * r + f)
  BY <1>2, Zenon DEF StandsAt
<1>4. PwxRow(xs) /\ Tables(sb, t, a, b, c)
  BY <1>2, Zenon DEF StandsAt
<1>5. k \in 1 .. 4 /\ f \in Nat
  BY BoxesIs DEF OddSteps, EvenSteps
<1>6. IsMemory(Pwx256!PWXFORM_SIMD(build, m, k), ys, sb, a, b, c, 16 * f) /\ PwxRow(ys)
      /\ Pair(v) /\ ys[k] = v
  <2>1. IsMemory(Pwx256!PWXFORM_SIMD(build, m, k), ys, sb, a, b, c, 16 * f)
    BY <1>3, <1>4, <1>5, SimdStep, Zenon
  <2>2. PwxRow(ys)
    BY <1>3, <1>4, <1>5, SimdStep, Zenon
  <2>3. Pair(v)
    BY <1>3, <1>4, <1>5, SimdStep, Zenon
  <2>4. ys[k] = v
    <3> HIDE DEF v
    <3> QED
      BY <1>4, <1>5, <2>3, RowChange
  <2> QED
    BY <2>1, <2>2, <2>3, <2>4, Zenon
<1>7. IsTabled(Pwx256!PlainStep(p, k), ys, [t EXCEPT ![2][(Boxes * r + f) % Boxes] = v],
               Boxes * r + f + 1)
  BY <1>3, EvenTabled, Zenon
<1>8. (Boxes * r + f) % Boxes = f
  BY PwxCount
<1>14. Boxes * r + f + 1 = Boxes * r + (f + 1)
  BY <1>5, BoxesIs
<1> HIDE DEF v, ys
<1>9. IsMemory(z, ys, [sb EXCEPT ![b + f] = ys[k]], a, b, c, 16 * f)
  <2>1. PartAt("S1", b, a, b)
    BY DEF PartAt
  <2> QED
    BY <1>5, <1>6, <2>1, WriteIs, Zenon DEF z
<1>10. Tables([sb EXCEPT ![b + f] = v], [t EXCEPT ![2][f] = v], a, b, c)
  BY <1>4, <1>6, WriteSecond, Zenon
<1> DEFINE sb2 == [sb EXCEPT ![b + f] = v]
           t2 == [t EXCEPT ![2][f] = v]
<1>11. IsMemory(Pwx256!Advance(z), ys, sb2, a, b, c, 16 * (f + 1))
  <2>1. IsMemory(z, ys, sb2, a, b, c, 16 * f)
    BY <1>6, <1>9, Zenon
  <2> HIDE DEF sb2, z
  <2> QED
    BY <1>5, <2>1, AdvanceIs, Zenon
<1>12. IsTabled(Pwx256!PlainStep(p, k), ys, t2, Boxes * r + (f + 1))
  BY <1>7, <1>8, <1>14, Zenon
<1> HIDE DEF sb2, t2, z
<1>13. StandsAt(Pwx256!Advance(z), Pwx256!PlainStep(p, k), f + 1, ys, sb2, t2, a, b, c, r)
  BY <1>6, <1>10, <1>11, <1>12, Zenon DEF StandsAt, sb2, t2
<1>15. StandsFor(Pwx256!Advance(z), Pwx256!PlainStep(p, k), f + 1)
  BY <1>13, Zenon DEF StandsFor
<1> QED
  BY <1>15, Zenon DEF z

\* w &= Smask2: back to the first entry after the last one.
Around(f) == IF f = Boxes THEN 0 ELSE f

LEMMA AroundIs ==
  ASSUME NEW f \in 0 .. Boxes
  PROVE  /\ Pwx256!And24(16 * f, Pwx256!Smask_to_Smask2(Pwx256!Smask)) = 16 * Around(f)
         /\ Around(f) \in Nat
<1> DEFINE v == 16 * f
           y == And24(v, Mask * OneWord + Mask)
<1>1. PICK o \in Nat : o = OneWord
  BY OneWordIs
<1>2. PICK e \in Nat : e = Boxes
  BY BoxesIs
<1>3. o > 0 /\ e > 0 /\ 16 * e < o /\ o <= 4096
  BY <1>1, <1>2, PwxSizes, SMT
<1>4. f \in Nat /\ f <= e
  BY <1>2
<1>5. v \in Nat /\ v < o /\ v < 4096
  BY <1>3, <1>4
<1>6. v \in Word24 /\ 0 \in Word24
  <2> HIDE DEF v
  <2> QED
    BY <1>5, SMT DEF Word24
<1>7. LowOf(v) = v /\ HighOf(v) = 0
  <2> HIDE DEF v
  <2>1. \A q, k, w, u \in Nat : k < w /\ u = w * q + k => u % w = k /\ u \div w = q
    BY PwxQuotient
  <2>2. v = o * 0 + v
    BY <1>5
  <2>3. v % o = v /\ v \div o = 0
    BY <1>5, <2>1, <2>2
  <2> QED
    BY <1>1, <2>3, Zenon DEF LowOf, HighOf
<1>8. Around(f) \in Nat /\ Entry(v) = Around(f) /\ Entry(0) = 0
  <2>1. v \div 16 = f
    BY <1>4
  <2>2. 0 \div 16 = 0 /\ 0 % e = 0
    BY <1>3
  <2>3. f # e => f % e = f
    BY <1>3, <1>4
  <2>4. f = e => f % e = 0
    BY <1>3, <1>4
  <2> HIDE DEF v
  <2>5. Entry(v) = f % e /\ Entry(0) = 0
    BY <1>2, <2>1, <2>2, Zenon DEF Entry
  <2> QED
    BY <1>2, <1>4, <2>3, <2>4, <2>5 DEF Around
<1> HIDE DEF v
<1>9. LowOf(y) = 16 * Around(f) /\ HighOf(y) = 16 * 0
  <2>1. LowOf(y) = 16 * Entry(LowOf(v)) /\ HighOf(y) = 16 * Entry(HighOf(v))
    BY <1>6, MaskedBoth, Zenon
  <2> HIDE DEF y
  <2> QED
    BY <1>7, <1>8, <2>1, Zenon
<1>10. y \in Nat
  BY <1>6, MaskIs, Word24Closed, Zenon
<1> HIDE DEF y
<1>11. y % o = 16 * Around(f) /\ y \div o = 0
  BY <1>1, <1>9 DEF LowOf, HighOf
<1>12. y = o * (y \div o) + (y % o)
  BY <1>3, <1>10, Division
<1>13. y = 16 * Around(f)
  BY <1>3, <1>8, <1>11, <1>12
<1> QED
  BY <1>8, <1>13, PwxNames, PwxWords, Zenon DEF v, y

LEMMA TablesPassedOn ==
  ASSUME NEW sb, NEW t, NEW a, NEW b, NEW c, Tables(sb, t, a, b, c)
  PROVE  Tables(sb, <<t[3], t[1], t[2]>>, c, a, b)
<1> DEFINE t2 == <<t[3], t[1], t[2]>>
<1>1. t2[1] = t[3] /\ t2[2] = t[1] /\ t2[3] = t[2] /\ DOMAIN t2 = 1 .. 3
  OBVIOUS
<1> HIDE DEF t2
<1>2. PartsApart(c, a, b)
  BY Zenon DEF Tables, PartsApart
<1>3. Domains(sb, t2)
  <2>1. /\ DOMAIN sb = 0 .. 3 * Boxes - 1 /\ DOMAIN t[1] = 0 .. Boxes - 1
        /\ DOMAIN t[2] = 0 .. Boxes - 1 /\ DOMAIN t[3] = 0 .. Boxes - 1
    BY DEF Tables, Domains
  <2>2. \A d \in 1 .. 3 : d = 1 \/ d = 2 \/ d = 3
    OBVIOUS
  <2> QED
    BY <1>1, <2>1, <2>2, Zenon DEF Domains
<1>4. Entries3(sb, t2, c, a, b)
  BY <1>1, Zenon DEF Tables, Entries3
<1> QED
  BY <1>2, <1>3, <1>4, Zenon DEF Tables, t2

LEMMA MovedOn ==
  ASSUME NEW xs, NEW sb, NEW a, NEW b, NEW c, NEW p, NEW q, NEW m,
         IsMemory(m, xs, sb, a, b, c, p)
  PROVE  IsMemory([m EXCEPT !.w = q, !.S0 = c, !.S1 = a, !.S2 = b], xs, sb, c, a, b, q)
<1> DEFINE z == [m EXCEPT !.w = q, !.S0 = c, !.S1 = a, !.S2 = b]
<1>1. DOMAIN m = {"X", "S", "S0", "S1", "S2", "w"} /\ m.X = xs /\ m.S = sb
  BY DEF IsMemory, Memory
<1>2. DOMAIN z = DOMAIN m /\ z = [d \in DOMAIN z |-> z[d]]
  OBVIOUS
<1>3. z.X = xs /\ z.S = sb /\ z.S0 = c /\ z.S1 = a /\ z.S2 = b /\ z.w = q
  BY <1>1
<1> HIDE DEF z
<1>4. z = [X |-> xs, S |-> sb, S0 |-> c, S1 |-> a, S2 |-> b, w |-> q]
  BY <1>1, <1>2, <1>3
<1> QED
  BY <1>4, Zenon DEF z, IsMemory, Memory

LEMMA EndStep ==
  ASSUME NEW m, NEW p, NEW f \in 0 .. Boxes, StandsFor(m, p, f)
  PROVE  StandsFor(Pwx256!PwxformEnd(m), [p EXCEPT !.T = <<p.T[3], p.T[1], p.T[2]>>], Around(f))
<1>1. PICK xs, sb, t, a, b, c : \E r \in Nat : StandsAt(m, p, f, xs, sb, t, a, b, c, r)
  BY Zenon DEF StandsFor
<1>2. PICK r \in Nat : StandsAt(m, p, f, xs, sb, t, a, b, c, r)
  BY <1>1, Zenon
<1> DEFINE t2 == <<t[3], t[1], t[2]>>
           g == Around(f)
           m2 == Pwx256!PwxformEnd(m)
           p2 == [p EXCEPT !.T = <<p.T[3], p.T[1], p.T[2]>>]
<1>3. IsMemory(m, xs, sb, a, b, c, 16 * f) /\ IsTabled(p, xs, t, Boxes * r + f)
  BY <1>2, Zenon DEF StandsAt
<1>4. PwxRow(xs) /\ Tables(sb, t2, c, a, b)
  BY <1>2, TablesPassedOn, Zenon DEF StandsAt
<1>5. IsMemory(m2, xs, sb, c, a, b, 16 * g)
  <2>1. m.w = 16 * f /\ m.S0 = a /\ m.S1 = b /\ m.S2 = c
    BY <1>3, FieldsAre
  <2>2. Pwx256!And24(m.w, Pwx256!Smask_to_Smask2(Pwx256!Smask)) = 16 * g
    BY <2>1, AroundIs, Zenon
  <2>3. m2 = [m EXCEPT !.w = Pwx256!And24(m.w, Pwx256!Smask_to_Smask2(Pwx256!Smask)),
                       !.S0 = m.S2, !.S1 = m.S0, !.S2 = m.S1]
    BY DEF Pwx256!PwxformEnd
  <2> HIDE DEF g, m2
  <2>4. m2 = [m EXCEPT !.w = 16 * g, !.S0 = c, !.S1 = a, !.S2 = b]
    BY <2>1, <2>2, <2>3, Zenon
  <2>5. IsMemory([m EXCEPT !.w = 16 * g, !.S0 = c, !.S1 = a, !.S2 = b], xs, sb, c, a, b, 16 * g)
    BY <1>3, MovedOn, Zenon
  <2> QED
    BY <2>4, <2>5, Zenon
<1>6. \E q \in Nat : Boxes * r + f = Boxes * q + g
  <2>1. CASE f = Boxes
    <3>1. g = 0
      BY <2>1, Zenon DEF Around
    <3>2. PICK e \in Nat : e = Boxes
      BY BoxesIs
    <3>3. e * r + e = e * (r + 1) + 0 /\ r + 1 \in Nat
      OBVIOUS
    <3> HIDE DEF g
    <3> QED
      BY <2>1, <3>1, <3>2, <3>3, Zenon
  <2>2. CASE f # Boxes
    <3>1. g = f
      BY <2>2, Zenon DEF Around
    <3> HIDE DEF g
    <3> QED
      BY <3>1, Zenon
  <2> QED
    BY <2>1, <2>2, Zenon
<1>7. PICK q \in Nat : Boxes * r + f = Boxes * q + g
  BY <1>6, Zenon
<1>8. IsTabled(p2, xs, t2, Boxes * q + g)
  <2>1. p.T = t
    BY <1>3, TabledFields, Zenon
  <2>2. \A k : [p EXCEPT !.T = k] = Tabled(xs, k, Boxes * r + f)
    BY <1>3 DEF IsTabled, Tabled
  <2> HIDE DEF g
  <2> QED
    BY <1>7, <2>1, <2>2, Zenon DEF IsTabled
<1> HIDE DEF t2, g, m2, p2
<1>9. StandsAt(m2, p2, g, xs, sb, t2, c, a, b, q)
  BY <1>4, <1>5, <1>8, Zenon DEF StandsAt
<1>10. StandsFor(m2, p2, g)
  BY <1>9, Zenon DEF StandsFor
<1> QED
  BY <1>10, Zenon DEF m2, p2, g

LEMMA HalfRead ==
  ASSUME NEW build, NEW m, NEW p, NEW f, StandsFor(m, p, f), NEW k \in 1 .. 4, NEW l \in 1 .. 4,
         l = k + 1, ~Pwx256!PlainWrites(k), ~Pwx256!PlainWrites(l)
  PROVE  StandsFor(Pwx256!PWXFORM_HALF(build, m, k),
                   Pwx256!PlainStep(Pwx256!PlainStep(p, k), l), f)
<1> DEFINE m1 == Pwx256!PWXFORM_SIMD(build, m, k)
           p1 == Pwx256!PlainStep(p, k)
<1>1. StandsFor(m1, p1, f)
  BY ReadStep, Zenon
<1>2. Pwx256!PWXFORM_HALF(build, m, k) = Pwx256!PWXFORM_SIMD(build, m1, l)
  BY Zenon DEF Pwx256!PWXFORM_HALF
<1> HIDE DEF m1, p1
<1>3. StandsFor(Pwx256!PWXFORM_SIMD(build, m1, l), Pwx256!PlainStep(p1, l), f)
  BY <1>1, ReadStep, Zenon
<1> QED
  BY <1>2, <1>3, Zenon DEF p1

LEMMA HalfWrite ==
  ASSUME NEW build, NEW m, NEW p, NEW f \in 0 .. Boxes - 1, StandsFor(m, p, f),
         NEW k \in OddSteps, NEW l \in EvenSteps, l = k + 1,
         Pwx256!PlainWrites(k), Pwx256!PlainWrites(l)
  PROVE  StandsFor(Pwx256!PWXFORM_WRITE2(build, m, k),
                   Pwx256!PlainStep(Pwx256!PlainStep(p, k), l), f + 1)
<1> DEFINE m1 == Pwx256!PWXFORM_SIMD_WRITE(build, m, k, "S0")
           p1 == Pwx256!PlainStep(p, k)
<1>1. StandsFor(m1, p1, f)
  BY WriteOdd, Zenon
<1>2. Pwx256!PWXFORM_WRITE2(build, m, k)
        = Pwx256!Advance(Pwx256!PWXFORM_SIMD_WRITE(build, m1, l, "S1"))
  BY Zenon DEF Pwx256!PWXFORM_WRITE2
<1> HIDE DEF m1, p1
<1>3. StandsFor(Pwx256!Advance(Pwx256!PWXFORM_SIMD_WRITE(build, m1, l, "S1")),
                Pwx256!PlainStep(p1, l), f + 1)
  BY <1>1, WriteEven, Zenon
<1> QED
  BY <1>2, <1>3, Zenon DEF p1

(***************************************************************************)
(* PWXFORM: a round.                                                       *)
(***************************************************************************)
\* What was written before round rd, in version 1.0: two entries of each
\* part in round 0, one in rounds 1 and 2.
DoneBefore(rd) == IF rd = 0 THEN 0 ELSE IF rd = 1 THEN 2 ELSE 3

PhaseAt(v, rd, f) ==
  \/ v = "0.5" /\ f = 0
  \/ v = "1.0" /\ \E g \in Nat : 4 * g + 4 <= Boxes /\ f = 4 * g + DoneBefore(rd)

FourSteps(p) ==
  Pwx256!PlainStep(Pwx256!PlainStep(Pwx256!PlainStep(Pwx256!PlainStep(p, 1), 2), 3), 4)

LEMMA StepNumbers ==
  /\ 1 \in 1 .. 4 /\ 2 \in 1 .. 4 /\ 3 \in 1 .. 4 /\ 4 \in 1 .. 4
  /\ 2 = 1 + 1 /\ 4 = 3 + 1
  /\ 1 \in OddSteps /\ 3 \in OddSteps /\ 2 \in EvenSteps /\ 4 \in EvenSteps
BY DEF OddSteps, EvenSteps

LEMMA WritesIs ==
  /\ version = "0.5" => \A k : ~Pwx256!PlainWrites(k)
  /\ version = "1.0" => Pwx256!PlainWrites(1) /\ Pwx256!PlainWrites(2)
  /\ version = "1.0" /\ round = 0 => Pwx256!PlainWrites(3) /\ Pwx256!PlainWrites(4)
  /\ version = "1.0" /\ round # 0 => ~Pwx256!PlainWrites(3) /\ ~Pwx256!PlainWrites(4)
BY DEF Pwx256!PlainWrites

LEMMA RoundRead ==
  ASSUME NEW build, NEW m, NEW p, NEW f, StandsFor(m, p, f), version = "0.5"
  PROVE  StandsFor(Pwx256!PWXFORM_ROUND(build, m), FourSteps(p), f)
<1> DEFINE m1 == Pwx256!PWXFORM_HALF(build, m, 1)
           p1 == Pwx256!PlainStep(Pwx256!PlainStep(p, 1), 2)
<1>1. \A k : ~Pwx256!PlainWrites(k)
  BY WritesIs, Zenon
<1>2. StandsFor(m1, p1, f)
  BY <1>1, HalfRead, StepNumbers
<1>3. Pwx256!PWXFORM_ROUND(build, m) = Pwx256!PWXFORM_HALF(build, m1, 3)
  BY Zenon DEF Pwx256!PWXFORM_ROUND
<1> HIDE DEF m1, p1
<1>4. StandsFor(Pwx256!PWXFORM_HALF(build, m1, 3), Pwx256!PlainStep(Pwx256!PlainStep(p1, 3), 4), f)
  BY <1>1, <1>2, HalfRead, StepNumbers
<1> QED
  BY <1>3, <1>4, Zenon DEF FourSteps, p1

LEMMA RoundWrite4 ==
  ASSUME NEW build, NEW m, NEW p, NEW f \in Nat, f + 2 <= Boxes, StandsFor(m, p, f),
         version = "1.0", round = 0
  PROVE  StandsFor(Pwx256!PWXFORM_ROUND_WRITE4(build, m), FourSteps(p), f + 2)
<1> DEFINE m1 == Pwx256!PWXFORM_WRITE2(build, m, 1)
           p1 == Pwx256!PlainStep(Pwx256!PlainStep(p, 1), 2)
<1>1. /\ Pwx256!PlainWrites(1) /\ Pwx256!PlainWrites(2)
      /\ Pwx256!PlainWrites(3) /\ Pwx256!PlainWrites(4)
  BY WritesIs, Zenon
<1>2. f \in 0 .. Boxes - 1 /\ f + 1 \in 0 .. Boxes - 1 /\ f + 1 + 1 = f + 2
  BY BoxesIs
<1>3. StandsFor(m1, p1, f + 1)
  BY <1>1, <1>2, HalfWrite, StepNumbers
<1>4. Pwx256!PWXFORM_ROUND_WRITE4(build, m) = Pwx256!PWXFORM_WRITE2(build, m1, 3)
  BY Zenon DEF Pwx256!PWXFORM_ROUND_WRITE4
<1> HIDE DEF m1, p1
<1>5. StandsFor(Pwx256!PWXFORM_WRITE2(build, m1, 3),
                Pwx256!PlainStep(Pwx256!PlainStep(p1, 3), 4), f + 1 + 1)
  BY <1>1, <1>2, <1>3, HalfWrite, StepNumbers
<1> QED
  BY <1>2, <1>4, <1>5, Zenon DEF FourSteps, p1

LEMMA RoundWrite2 ==
  ASSUME NEW build, NEW m, NEW p, NEW f \in Nat, f + 1 <= Boxes, StandsFor(m, p, f),
         version = "1.0", round # 0
  PROVE  StandsFor(Pwx256!PWXFORM_ROUND_WRITE2(build, m), FourSteps(p), f + 1)
<1> DEFINE m1 == Pwx256!PWXFORM_WRITE2(build, m, 1)
           p1 == Pwx256!PlainStep(Pwx256!PlainStep(p, 1), 2)
<1>1. /\ Pwx256!PlainWrites(1) /\ Pwx256!PlainWrites(2)
      /\ ~Pwx256!PlainWrites(3) /\ ~Pwx256!PlainWrites(4)
  BY WritesIs, Zenon
<1>2. f \in 0 .. Boxes - 1
  BY BoxesIs
<1>3. StandsFor(m1, p1, f + 1)
  BY <1>1, <1>2, HalfWrite, StepNumbers
<1>4. Pwx256!PWXFORM_ROUND_WRITE2(build, m) = Pwx256!PWXFORM_HALF(build, m1, 3)
  BY Zenon DEF Pwx256!PWXFORM_ROUND_WRITE2
<1> HIDE DEF m1, p1
<1>5. StandsFor(Pwx256!PWXFORM_HALF(build, m1, 3),
                Pwx256!PlainStep(Pwx256!PlainStep(p1, 3), 4), f + 1)
  BY <1>1, <1>3, HalfRead, StepNumbers
<1> QED
  BY <1>4, <1>5, Zenon DEF FourSteps, p1

LEMMA PlainRoundIs ==
  ASSUME NEW p
  PROVE  /\ ~(version = "1.0" /\ round = 2) => Pwx256!PlainRound(p) = FourSteps(p)
         /\ version = "1.0" /\ round = 2
              => Pwx256!PlainRound(p) = [FourSteps(p) EXCEPT !.T = <<FourSteps(p).T[3],
                                                                     FourSteps(p).T[1],
                                                                     FourSteps(p).T[2]>>]
BY Zenon DEF Pwx256!PlainRound, FourSteps

\* Some entry is next that fits the round.
Stands(m, p, rd) == \E f : StandsFor(m, p, f) /\ PhaseAt(version, rd, f)

\* 4 goes into the entries.
LEMMA NextFour ==
  ASSUME NEW g \in Nat, 4 * g + 4 <= Boxes, 4 * g + 4 # Boxes
  PROVE  4 * (g + 1) + 4 <= Boxes
<1>1. PICK e \in Nat : e = Boxes /\ e % 4 = 0
  BY BoxesIs
<1>2. PICK h \in Nat : e = 4 * h
  BY <1>1
<1>3. g + 1 <= h /\ g + 1 # h
  BY <1>1, <1>2
<1> QED
  BY <1>1, <1>2, <1>3

LEMMA RoundStep05 ==
  ASSUME NEW build, NEW m, NEW p, version = "0.5", NEW rd, NEW rd2, Stands(m, p, rd)
  PROVE  Stands(Pwx256!PWXFORM(build, m), Pwx256!PlainRound(p), rd2)
<1>0. "0.5" # "1.0"
  OBVIOUS
<1>1. PICK f : StandsFor(m, p, f) /\ PhaseAt(version, rd, f)
  BY Zenon DEF Stands
<1>2. f = 0
  BY <1>0, <1>1, Zenon DEF PhaseAt
<1>3. Pwx256!PWXFORM(build, m) = Pwx256!PWXFORM_ROUND(build, m)
  BY Zenon DEF Pwx256!PWXFORM
<1>4. Pwx256!PlainRound(p) = FourSteps(p)
  BY <1>0, PlainRoundIs, Zenon
<1>5. StandsFor(Pwx256!PWXFORM_ROUND(build, m), FourSteps(p), f)
  BY <1>1, RoundRead, Zenon
<1>6. PhaseAt(version, rd2, f)
  BY <1>2, Zenon DEF PhaseAt
<1> QED
  BY <1>3, <1>4, <1>5, <1>6, Zenon DEF Stands

LEMMA RoundStep10 ==
  ASSUME NEW build, NEW m, NEW p, version = "1.0", round \in 0 .. 2, Stands(m, p, round)
  PROVE  Stands(Pwx256!PWXFORM(build, m), Pwx256!PlainRound(p), (round + 1) % 3)
<1>0. "0.5" # "1.0"
  OBVIOUS
<1>1. PICK f : StandsFor(m, p, f) /\ PhaseAt(version, round, f)
  BY Zenon DEF Stands
<1>2. PICK g \in Nat : 4 * g + 4 <= Boxes /\ f = 4 * g + DoneBefore(round)
  BY <1>0, <1>1, Zenon DEF PhaseAt
<1>3. CASE round = 0
  <2>1. f \in Nat /\ f + 2 <= Boxes /\ (round + 1) % 3 = 1 /\ f + 2 = 4 * g + DoneBefore(1)
    BY <1>2, <1>3, BoxesIs DEF DoneBefore
  <2>2. Pwx256!PWXFORM(build, m) = Pwx256!PWXFORM_ROUND_WRITE4(build, m)
    BY <1>0, <1>3 DEF Pwx256!PWXFORM
  <2>3. Pwx256!PlainRound(p) = FourSteps(p)
    <3>1. round # 2
      BY <1>3
    <3> QED
      BY <3>1, PlainRoundIs, Zenon
  <2>4. StandsFor(Pwx256!PWXFORM_ROUND_WRITE4(build, m), FourSteps(p), f + 2)
    BY <1>1, <1>3, <2>1, RoundWrite4
  <2>5. PhaseAt(version, 1, f + 2)
    BY <1>2, <2>1, Zenon DEF PhaseAt
  <2> QED
    BY <2>1, <2>2, <2>3, <2>4, <2>5, Zenon DEF Stands
<1>4. CASE round = 1
  <2>1. f \in Nat /\ f + 1 <= Boxes /\ (round + 1) % 3 = 2 /\ f + 1 = 4 * g + DoneBefore(2)
    BY <1>2, <1>4, BoxesIs DEF DoneBefore
  <2>2. Pwx256!PWXFORM(build, m) = Pwx256!PWXFORM_ROUND_WRITE2(build, m)
    <3>1. round # 0
      BY <1>4
    <3> QED
      BY <1>0, <1>4, <3>1 DEF Pwx256!PWXFORM
  <2>3. Pwx256!PlainRound(p) = FourSteps(p)
    <3>1. round # 2
      BY <1>4
    <3> QED
      BY <3>1, PlainRoundIs, Zenon
  <2>4. StandsFor(Pwx256!PWXFORM_ROUND_WRITE2(build, m), FourSteps(p), f + 1)
    <3>1. round # 0
      BY <1>4
    <3> QED
      BY <1>1, <2>1, <3>1, RoundWrite2
  <2>5. PhaseAt(version, 2, f + 1)
    BY <1>2, <2>1, Zenon DEF PhaseAt
  <2> QED
    BY <2>1, <2>2, <2>3, <2>4, <2>5, Zenon DEF Stands
<1>5. CASE round = 2
  <2>1. f \in Nat /\ f + 1 <= Boxes /\ f + 1 \in 0 .. Boxes /\ (round + 1) % 3 = 0
        /\ f + 1 = 4 * g + 4
    BY <1>2, <1>5, BoxesIs DEF DoneBefore
  <2> DEFINE m1 == Pwx256!PWXFORM_ROUND_WRITE2(build, m)
             p1 == FourSteps(p)
  <2>2. Pwx256!PWXFORM(build, m) = Pwx256!PwxformEnd(m1)
    <3>1. round # 0 /\ round # 1
      BY <1>5
    <3> QED
      BY <1>0, <3>1 DEF Pwx256!PWXFORM
  <2>3. Pwx256!PlainRound(p) = [p1 EXCEPT !.T = <<p1.T[3], p1.T[1], p1.T[2]>>]
    BY <1>5, PlainRoundIs, Zenon
  <2>4. StandsFor(m1, p1, f + 1)
    <3>1. round # 0
      BY <1>5
    <3> QED
      BY <1>1, <2>1, <3>1, RoundWrite2
  <2> HIDE DEF m1, p1
  <2>5. StandsFor(Pwx256!PWXFORM(build, m), Pwx256!PlainRound(p), Around(f + 1))
    BY <2>1, <2>2, <2>3, <2>4, EndStep
  <2>6. PhaseAt(version, 0, Around(f + 1))
    <3>1. CASE f + 1 = Boxes
      <4>1. Around(f + 1) = 4 * 0 + DoneBefore(0) /\ 4 * 0 + 4 <= Boxes
        BY <1>2, <2>1, <3>1, BoxesIs DEF Around, DoneBefore
      <4> QED
        BY <4>1 DEF PhaseAt
    <3>2. CASE f + 1 # Boxes
      <4>1. 4 * (g + 1) + 4 <= Boxes
        BY <1>2, <2>1, <3>2, NextFour
      <4>2. Around(f + 1) = 4 * (g + 1) + DoneBefore(0) /\ g + 1 \in Nat
        BY <2>1, <3>2 DEF Around, DoneBefore
      <4> QED
        BY <4>1, <4>2, Zenon DEF PhaseAt
    <3> QED
      BY <3>1, <3>2, Zenon
  <2> QED
    BY <2>1, <2>5, <2>6, Zenon DEF Stands
<1> QED
  BY <1>3, <1>4, <1>5

(***************************************************************************)
(* PWXFORM: the invariant.  All builds stand for the definition, or        *)
(* nothing has been started.                                               *)
(***************************************************************************)
AllStand(bs, p, rd) == \A build \in Pwx256!Builds : Stands(bs[build], p, rd)

NotStarted ==
  /\ round = 0 /\ calls = 0
  /\ built = [build \in Pwx256!Builds |-> [X |-> Pwx256!Block0(0)]]
  /\ plain = [X |-> Pwx256!Block0(0)]

PwxInv ==
  /\ version \in {"0.5", "1.0"} /\ calls \in Nat /\ (calls = 0 => round = 0)
  /\ round \in 0 .. Pwx256!PwxformRounds - 1
  /\ NotStarted \/ AllStand(built, plain, round)

LEMMA RoundsAre ==
  ASSUME version \in {"0.5", "1.0"}
  PROVE  /\ version = "0.5" => Pwx256!PwxformRounds = 6
         /\ version = "1.0" => Pwx256!PwxformRounds = 3
BY DEF Pwx256!PwxformRounds

LEMMA PwxStarts == HasherInit => PwxInv
<1> SUFFICES ASSUME HasherInit PROVE PwxInv
  OBVIOUS
<1>1. Pwx256!PwxInit
  BY Zenon DEF HasherInit
<1>2. version = "1.0" /\ round = 0 /\ calls = 0 /\ NotStarted
  BY <1>1, Zenon DEF Pwx256!PwxInit, NotStarted
<1>3. 0 \in 0 .. Pwx256!PwxformRounds - 1
  BY <1>2, RoundsAre
<1> QED
  BY <1>2, <1>3, Zenon DEF PwxInv

LEMMA MadeWord ==
  ASSUME NEW u \in Nat, NEW k \in Nat
  PROVE  Pwx256!Made(u, k) \in Word24
<1>1. PICK y \in Nat : y = u * (k + 3) * (k + 11) + 7919 * k
  <2>1. \A e, f \in Nat : e * f \in Nat
    OBVIOUS
  <2>2. u * (k + 3) \in Nat
    BY <2>1, SMT
  <2>3. u * (k + 3) * (k + 11) \in Nat
    BY <2>1, <2>2, SMT
  <2>4. 7919 * k \in Nat
    BY SMT
  <2> QED
    BY <2>3, <2>4, SMT
<1>2. y % TwoWords \in Nat /\ y % TwoWords < TwoWords
  BY Division, TwoWordsIs
<1>3. y % TwoWords \in Word24
  BY <1>2, TwoWordsIs, Zenon
<1> QED
  BY <1>1, <1>3, SMT DEF Pwx256!Made, TwoWords

LEMMA BlockRow ==
  ASSUME NEW u \in Nat
  PROVE  PwxRow(Pwx256!Block0(u))
<1> DEFINE xs == Pwx256!Block0(u)
<1>1. DOMAIN xs = 1 .. 4
  BY DEF Pwx256!Block0
<1>2. ASSUME NEW k \in 1 .. 4 PROVE Pair(xs[k])
  <2> DEFINE y == Pwx256!Made(u, 2 * k)
             z == Pwx256!Made(u, 2 * k + 1)
  <2>1. xs[k] = <<y, z>>
    BY Zenon DEF Pwx256!Block0
  <2>2. 2 * k \in Nat /\ 2 * k + 1 \in Nat
    OBVIOUS
  <2>3. y \in Word24 /\ z \in Word24
    BY <2>2, MadeWord, Zenon
  <2> HIDE DEF y, z, xs
  <2>4. <<y, z>>[1] = y /\ <<y, z>>[2] = z
    OBVIOUS
  <2> QED
    BY <2>1, <2>3, <2>4, Zenon DEF Pair
<1> HIDE DEF xs
<1>3. PwxRow(xs)
  BY <1>1, <1>2, Zenon DEF PwxRow
<1> QED
  BY <1>3, Zenon DEF xs

LEMMA BoxPair ==
  ASSUME NEW u \in Nat, NEW e \in Nat
  PROVE  Pair(Pwx256!Box(u, e))
<1> DEFINE y == Pwx256!Made(u + 1, 5 * e)
           z == Pwx256!Made(u + 2, 3 * e + 1)
<1>1. Pwx256!Box(u, e) = <<y, z>>
  BY Zenon DEF Pwx256!Box
<1>2. u + 1 \in Nat /\ u + 2 \in Nat /\ 5 * e \in Nat /\ 3 * e + 1 \in Nat
  OBVIOUS
<1>3. y \in Word24 /\ z \in Word24
  BY <1>2, MadeWord, Zenon
<1> HIDE DEF y, z
<1>4. <<y, z>>[1] = y /\ <<y, z>>[2] = z
  OBVIOUS
<1> QED
  BY <1>1, <1>3, <1>4, Zenon DEF Pair

\* The S-boxes before the first PWXFORM, and the tables.
Boxes3(u) == [e \in 0 .. 3 * Boxes - 1 |-> Pwx256!Box(u, e)]
Tables3(u) ==
  [d \in 1 .. 3 |-> [e \in 0 .. Boxes - 1 |-> Pwx256!Box(u, (d - 1) * Boxes + e)]]

LEMMA TablesStart ==
  ASSUME NEW u \in Nat
  PROVE  Tables(Boxes3(u), Tables3(u), 0, Boxes, 2 * Boxes)
<1> DEFINE sb == Boxes3(u)
           t == Tables3(u)
<1>1. PartsApart(0, Boxes, 2 * Boxes)
  BY DEF PartsApart
<1>2. Domains(sb, t)
  BY DEF Domains, Boxes3, Tables3
<1>3. ASSUME NEW e \in 0 .. Boxes - 1
      PROVE  /\ sb[0 + e] = t[1][e] /\ sb[Boxes + e] = t[2][e] /\ sb[2 * Boxes + e] = t[3][e]
             /\ Pair(t[1][e]) /\ Pair(t[2][e]) /\ Pair(t[3][e])
  <2>1. /\ 0 + e \in 0 .. 3 * Boxes - 1 /\ Boxes + e \in 0 .. 3 * Boxes - 1
        /\ 2 * Boxes + e \in 0 .. 3 * Boxes - 1
        /\ (1 - 1) * Boxes + e = 0 + e /\ (2 - 1) * Boxes + e = Boxes + e
        /\ (3 - 1) * Boxes + e = 2 * Boxes + e
        /\ 0 + e \in Nat /\ Boxes + e \in Nat /\ 2 * Boxes + e \in Nat
    BY BoxesIs
  <2>2. sb[0 + e] = Pwx256!Box(u, 0 + e) /\ sb[Boxes + e] = Pwx256!Box(u, Boxes + e)
        /\ sb[2 * Boxes + e] = Pwx256!Box(u, 2 * Boxes + e)
    BY <2>1, Zenon DEF Boxes3
  <2>3. \A d \in 1 .. 3 : t[d][e] = Pwx256!Box(u, (d - 1) * Boxes + e)
    BY Zenon DEF Tables3
  <2>4. 1 \in 1 .. 3 /\ 2 \in 1 .. 3 /\ 3 \in 1 .. 3
    OBVIOUS
  <2>5. /\ t[1][e] = Pwx256!Box(u, 0 + e) /\ t[2][e] = Pwx256!Box(u, Boxes + e)
        /\ t[3][e] = Pwx256!Box(u, 2 * Boxes + e)
    BY <2>1, <2>3, <2>4, Zenon
  <2>6. /\ Pair(Pwx256!Box(u, 0 + e)) /\ Pair(Pwx256!Box(u, Boxes + e))
        /\ Pair(Pwx256!Box(u, 2 * Boxes + e))
    BY <2>1, BoxPair, Zenon
  <2> HIDE DEF sb, t
  <2> QED
    BY <2>2, <2>5, <2>6, Zenon
<1> HIDE DEF sb, t
<1>4. Entries3(sb, t, 0, Boxes, 2 * Boxes)
  BY <1>3, Zenon DEF Entries3
<1> QED
  BY <1>1, <1>2, <1>4, Zenon DEF Tables, sb, t

LEMMA MemoryStarts ==
  ASSUME NEW u \in Nat,
         NEW m, m = [X |-> Pwx256!Block0(u), S |-> Boxes3(u), S0 |-> 0, S1 |-> Boxes,
                     S2 |-> 2 * Boxes, w |-> 0],
         NEW p, p = [X |-> Pwx256!Block0(u), count |-> 0, T |-> Tables3(u)]
  PROVE  StandsFor(m, p, 0)
<1> DEFINE xs == Pwx256!Block0(u)
           sb == Boxes3(u)
           t == Tables3(u)
<1>1. 16 * 0 = 0 /\ Boxes * 0 + 0 = 0
  BY BoxesIs
<1>2. PwxRow(xs) /\ Tables(sb, t, 0, Boxes, 2 * Boxes)
  BY BlockRow, TablesStart, Zenon
<1> HIDE DEF xs, sb, t
<1>3. IsMemory(m, xs, sb, 0, Boxes, 2 * Boxes, 16 * 0)
  BY <1>1, Zenon DEF IsMemory, Memory, xs, sb
<1>4. IsTabled(p, xs, t, Boxes * 0 + 0)
  <2>1. p = [X |-> xs, T |-> t, count |-> 0]
    BY DEF xs, t
  <2> QED
    BY <1>1, <2>1, Zenon DEF IsTabled, Tabled
<1>5. 0 \in Nat
  OBVIOUS
<1>6. StandsAt(m, p, 0, xs, sb, t, 0, Boxes, 2 * Boxes, 0)
  BY <1>2, <1>3, <1>4, Zenon DEF StandsAt
<1> QED
  BY <1>5, <1>6, Zenon DEF StandsFor

LEMMA StartPhase ==
  ASSUME NEW v \in {"0.5", "1.0"}
  PROVE  PhaseAt(v, 0, 0)
<1>1. 4 * 0 + 4 <= Boxes
  <2>1. PICK e \in Nat : e = Boxes /\ e % 4 = 0 /\ e > 0
    BY BoxesIs
  <2> QED
    BY <2>1
<1>2. 0 = 4 * 0 + DoneBefore(0)
  BY DEF DoneBefore
<1> QED
  BY <1>1, <1>2 DEF PhaseAt

LEMMA StartPwxKeeps ==
  ASSUME PwxInv, NEW v \in {"0.5", "1.0"}, NEW u \in Seeds, Pwx256!StartPwxform(v, u)
  PROVE  PwxInv'
<1>1. u \in Nat /\ MaxCalls \in Nat
  BY HasherAssumption
<1>2. version' = v /\ calls' = MaxCalls /\ round' = round /\ calls = 0
  BY DEF Pwx256!StartPwxform
<1>3. round = 0
  BY <1>2 DEF PwxInv
<1> DEFINE m == [X |-> Pwx256!Block0(u), S |-> Boxes3(u), S0 |-> 0, S1 |-> Boxes,
                 S2 |-> 2 * Boxes, w |-> 0]
           p == [X |-> Pwx256!Block0(u), count |-> 0, T |-> Tables3(u)]
<1>4. built' = [build \in Pwx256!Builds |-> m] /\ plain' = p
  <2>1. built' = [build \in Pwx256!Builds |->
                   [X |-> Pwx256!Block0(u),
                    S |-> [e \in 0 .. 3 * Pwx256!Entries - 1 |-> Pwx256!Box(u, e)],
                    S0 |-> 0, S1 |-> Pwx256!Entries, S2 |-> 2 * Pwx256!Entries, w |-> 0]]
    BY Zenon DEF Pwx256!StartPwxform
  <2>2. plain' = [X |-> Pwx256!Block0(u), count |-> 0,
                  T |-> [d \in 1 .. 3 |->
                          [e \in 0 .. Pwx256!Entries - 1 |->
                             Pwx256!Box(u, (d - 1) * Pwx256!Entries + e)]]]
    BY Zenon DEF Pwx256!StartPwxform
  <2>3. Pwx256!Entries = Boxes
    BY PwxNames, Zenon
  <2> QED
    BY <2>1, <2>2, <2>3 DEF Boxes3, Tables3
<1>5. StandsFor(m, p, 0)
  BY <1>1, MemoryStarts, Zenon
<1> HIDE DEF m, p
<1>6. PhaseAt(version', 0, 0)
  BY <1>2, StartPhase, Zenon
<1>7. AllStand(built, plain, round)'
  <2> SUFFICES ASSUME NEW build \in Pwx256!Builds PROVE Stands(built[build], plain, round)'
    BY Zenon DEF AllStand
  <2>1. built'[build] = m
    BY <1>4, Zenon
  <2> QED
    BY <1>2, <1>3, <1>4, <1>5, <1>6, <2>1, Zenon DEF Stands
<1>8. (0 \in 0 .. Pwx256!PwxformRounds - 1)'
  BY <1>2 DEF Pwx256!PwxformRounds
<1> QED
  BY <1>1, <1>2, <1>3, <1>7, <1>8, Zenon DEF PwxInv

LEMMA PwxRoundKeeps ==
  ASSUME PwxInv, Pwx256!PwxformRound
  PROVE  PwxInv'
<1>1. /\ calls > 0 /\ version' = version /\ round' = (round + 1) % Pwx256!PwxformRounds
      /\ calls' = IF round' = 0 THEN calls - 1 ELSE calls
      /\ built' = [build \in Pwx256!Builds |-> Pwx256!PWXFORM(build, built[build])]
      /\ plain' = Pwx256!PlainRound(plain)
  BY DEF Pwx256!PwxformRound
<1>2. version \in {"0.5", "1.0"} /\ calls \in Nat /\ round \in 0 .. Pwx256!PwxformRounds - 1
  BY Zenon DEF PwxInv
<1>3. AllStand(built, plain, round)
  <2>1. ~NotStarted
    BY <1>1, <1>2 DEF NotStarted
  <2> QED
    BY <2>1, Zenon DEF PwxInv
<1>4. ASSUME NEW build \in Pwx256!Builds
      PROVE  Stands(Pwx256!PWXFORM(build, built[build]), Pwx256!PlainRound(plain),
                    (round + 1) % Pwx256!PwxformRounds)
  <2>1. Stands(built[build], plain, round)
    BY <1>3, Zenon DEF AllStand
  <2>2. CASE version = "0.5"
    BY <2>1, <2>2, RoundStep05, Zenon
  <2>3. CASE version = "1.0"
    <3>1. Pwx256!PwxformRounds = 3
      BY <1>2, <2>3, RoundsAre, Zenon
    <3>2. round \in 0 .. 2
      BY <1>2, <3>1
    <3>3. Stands(Pwx256!PWXFORM(build, built[build]), Pwx256!PlainRound(plain), (round + 1) % 3)
      BY <2>1, <2>3, <3>2, RoundStep10, Zenon
    <3> QED
      BY <3>1, <3>3, Zenon
  <2> QED
    BY <1>2, <2>2, <2>3, Zenon
<1>5. AllStand(built, plain, round)'
  <2> SUFFICES ASSUME NEW build \in Pwx256!Builds PROVE Stands(built[build], plain, round)'
    BY Zenon DEF AllStand
  <2>1. built'[build] = Pwx256!PWXFORM(build, built[build])
    BY <1>1, Zenon
  <2>2. Stands(built'[build], plain', round')
    BY <1>1, <1>4, <2>1, Zenon
  <2> QED
    BY <1>1, <2>2, Zenon DEF Stands
<1>6. (round \in 0 .. Pwx256!PwxformRounds - 1)' /\ calls' \in Nat /\ (calls' = 0 => round' = 0)
  <2>1. PICK e \in Nat : e = Pwx256!PwxformRounds /\ e > 0
    BY <1>2, RoundsAre
  <2>2. Pwx256!PwxformRounds' = Pwx256!PwxformRounds
    BY <1>1, Zenon DEF Pwx256!PwxformRounds
  <2>3. round \in Nat
    BY <1>2, <2>1
  <2>4. (round + 1) % e \in 0 .. e - 1
    BY <2>1, <2>3
  <2>5. round' \in 0 .. Pwx256!PwxformRounds' - 1
    BY <1>1, <2>1, <2>2, <2>4, Zenon
  <2>6. calls' \in Nat /\ (calls' = 0 => round' = 0)
    BY <1>1, <1>2
  <2> QED
    BY <2>5, <2>6
<1> QED
  BY <1>1, <1>2, <1>5, <1>6, Zenon DEF PwxInv

\* For a block and S-boxes made from any seed (of which only is used that they
\* hold words), in all five builds and both versions of PWXFORM: after every
\* round the block is that of the definition, and between two PWXFORMs
\* the S-boxes are, part by part, however often they have been passed on and w
\* has gone round (yespower-opt.c: PWXFORM_SIMD, PWXFORM_ROUND_WRITE4,
\* PWXFORM_ROUND_WRITE2, PWXFORM).
THEOREM BuildsCorrect == HasherSpec => []BuildsAgree
<1>1. PwxInv /\ [HasherNext]_hasherVars => PwxInv'
  <2> SUFFICES ASSUME PwxInv, [HasherNext]_hasherVars PROVE PwxInv'
    OBVIOUS
  <2>1. Pwx256!PwxformNext \/ UNCHANGED pwxVars
    BY DEF HasherNext, hasherVars, WorkTurn, YespowerTurn, StreamTurn, RoundsTurn, SalsaTurn,
           PwxformTurn, BlockMixTurn
  <2>2. CASE UNCHANGED pwxVars
    <3>1. /\ version' = version /\ built' = built /\ plain' = plain /\ round' = round
          /\ calls' = calls
      BY <2>2 DEF pwxVars
    <3>2. NotStarted' = NotStarted /\ AllStand(built, plain, round)' = AllStand(built, plain, round)
      BY <3>1 DEF NotStarted, AllStand, Stands
    <3>3. (round \in 0 .. Pwx256!PwxformRounds - 1)' = (round \in 0 .. Pwx256!PwxformRounds - 1)
      BY <3>1 DEF Pwx256!PwxformRounds
    <3> QED
      BY <3>1, <3>2, <3>3, Zenon DEF PwxInv
  <2> QED
    BY <2>1, <2>2, PwxRoundKeeps, StartPwxKeeps, Zenon DEF Pwx256!PwxformNext
<1>2. PwxInv => BuildsAgree
  <2> SUFFICES ASSUME PwxInv, NEW build \in Pwx256!Builds
               PROVE  /\ built[build].X = plain.X
                      /\ "S" \in DOMAIN built[build] /\ round = 0 =>
                           \A e \in 0 .. Pwx256!Entries - 1 :
                             /\ built[build].S[built[build].S0 + e] = plain.T[1][e]
                             /\ built[build].S[built[build].S1 + e] = plain.T[2][e]
                             /\ built[build].S[built[build].S2 + e] = plain.T[3][e]
    BY Zenon DEF BuildsAgree, Pwx256!BuildsAgree
  <2>1. CASE NotStarted
    <3>1. built[build] = [X |-> Pwx256!Block0(0)] /\ plain = [X |-> Pwx256!Block0(0)]
      BY <2>1, Zenon DEF NotStarted
    <3>2. built[build].X = plain.X /\ ~("S" \in DOMAIN built[build])
      BY <3>1
    <3> QED
      BY <3>2
  <2>2. CASE AllStand(built, plain, round)
    <3>1. PICK f : StandsFor(built[build], plain, f)
      BY <2>2, Zenon DEF AllStand, Stands
    <3>2. PICK xs, sb, t, a, b, c : \E r \in Nat :
            StandsAt(built[build], plain, f, xs, sb, t, a, b, c, r)
      BY <3>1, Zenon DEF StandsFor
    <3>3. PICK r \in Nat : StandsAt(built[build], plain, f, xs, sb, t, a, b, c, r)
      BY <3>2, Zenon
    <3>4. /\ built[build].X = xs /\ built[build].S = sb /\ built[build].S0 = a
          /\ built[build].S1 = b /\ built[build].S2 = c
      BY <3>3, FieldsAre DEF StandsAt
    <3>5. plain.X = xs /\ plain.T = t
      BY <3>3, TabledFields DEF StandsAt
    <3>6. Tables(sb, t, a, b, c) /\ Pwx256!Entries = Boxes
      BY <3>3, PwxNames, Zenon DEF StandsAt
    <3> QED
      BY <3>4, <3>5, <3>6, Zenon DEF Tables, Entries3
  <2> QED
    BY <2>1, <2>2, Zenon DEF PwxInv
<1> QED
  BY <1>1, <1>2, PwxStarts, PTL DEF HasherSpec
=============================================================================
