--------------------------- MODULE YespowerProofs ---------------------------
(***************************************************************************)
(* yespower() for all parameters, sizes of pages and S-boxes, and any      *)
(* sequence of calls and failures: the region and the result; the bounds   *)
(* of every access and that nothing is read before it is written; and the  *)
(* loop of smix1 against the plain one.                                    *)
(***************************************************************************)
EXTENDS Yespower, TLAPS

\* The region is mapped exactly, and whoever maps has nothing mapped.
RegionInv ==
  /\ RegionTypeOK /\ NothingLeaks /\ FitsMapping
  /\ prm \in Params
  /\ pc = "alloc" => region = EmptyRegion /\ maps = {}
  /\ pc \in Passes \cup {"derive", "final"} => region.aligned_size >= need

\* During a call nothing has been handed out yet; at its end the result was
\* written, as a hash exactly if the call succeeded.
ResultInv ==
  /\ ret \in {0, -1} /\ hash \in {"none", "ff", "hash"}
  /\ pc # "idle" => hash = "none"
  /\ hash = "hash" => ret = 0
  /\ pc = "return" => dst \in {"ff", "hash"} /\ (ret = 0 <=> dst = "hash")

-----------------------------------------------------------------------------
(***************************************************************************)
(* Sizes.                                                                  *)
(***************************************************************************)
LEMMA Division ==
  ASSUME NEW a \in Nat, NEW h \in Nat \ {0}
  PROVE  /\ a \div h \in Nat /\ a % h \in 0 .. h - 1
         /\ a = h * (a \div h) + (a % h)
  OBVIOUS

LEMMA MultipleHasNoRest ==
  ASSUME NEW q \in Nat, NEW h \in Nat \ {0}
  PROVE  (q * h) % h = 0
<1> DEFINE d == (q * h) \div h
           m == (q * h) % h
           k == q - d
<1>1. q * h \in Nat /\ q * h = h * q
  OBVIOUS
<1>2. d \in Nat /\ m \in 0 .. h - 1 /\ q * h = h * d + m
  BY <1>1, Division
<1> HIDE DEF d, m
<1>3. k \in Int /\ h * k = h * q - h * d
  BY <1>2
<1>4. h * k = m
  BY <1>1, <1>2, <1>3
<1> HIDE DEF k
<1>5. k >= 1 => h * k >= h
  BY <1>3
<1>6. k <= -1 => h * k <= -h
  BY <1>3
<1>7. h * k \in 0 .. h - 1
  BY <1>2, <1>4
<1>8. k = 0
  BY <1>3, <1>5, <1>6, <1>7
<1>9. m = 0
  BY <1>4, <1>8
<1> QED
  BY <1>9 DEF m

LEMMA HugeLengthFits ==
  ASSUME NEW size \in Nat
  PROVE  HugeLength(size) \in Nat /\ HugeLength(size) >= size
                                  /\ HugeLength(size) % HugePage = 0
<1> DEFINE a == size + HugePage - 1
           q == a \div HugePage
<1>1. a \in Nat /\ HugePage \in Nat \ {0}
  BY RegionAssumption
<1>2. q \in Nat /\ a % HugePage \in 0 .. HugePage - 1 /\ a = HugePage * q + (a % HugePage)
  BY <1>1, Division
<1>3. HugeLength(size) = q * HugePage
  BY DEF HugeLength
<1> HIDE DEF q
<1>4. q * HugePage \in Nat /\ q * HugePage = HugePage * q
  BY <1>1, <1>2
<1>5. q * HugePage >= size
  BY <1>1, <1>2, <1>4
<1>6. (q * HugePage) % HugePage = 0
  BY <1>1, <1>2, MultipleHasNoRest
<1> QED
  BY <1>3, <1>4, <1>5, <1>6

LEMMA NeedType == ASSUME prm \in Params PROVE need \in Nat
<1>1. prm.N \in Nat /\ prm.r \in Nat
  BY YespowerAssumption
<1>2. Third05 \in Nat /\ Third10 \in Nat
  BY SmixAssumption
<1>3. B_size \in Nat
  BY <1>1 DEF B_size
<1>4. V_size \in Nat
  BY <1>1, <1>3 DEF V_size
<1>5. XY_size \in Nat /\ Sbytes \in Nat
  BY <1>2, <1>3 DEF XY_size, Sbytes
<1> QED
  BY <1>3, <1>4, <1>5 DEF need

-----------------------------------------------------------------------------
(***************************************************************************)
(* The operations on the region.                                           *)
(***************************************************************************)
LEMMA Freed ==
  ASSUME RegionTypeOK, NothingLeaks, free_region
  PROVE  region' = EmptyRegion /\ maps' = {}
<1>1. CASE maps = {}
  BY <1>1 DEF free_region
<1>2. CASE maps # {}
  <2>1. PICK huge \in BOOLEAN :
          maps = {[base |-> region.base, len |-> region.base_size, huge |-> huge]}
    BY <1>2 DEF NothingLeaks
  <2> DEFINE m == [base |-> region.base, len |-> region.base_size, huge |-> huge]
  <2>2. m.base = region.base /\ ~ (m.len > region.base_size)
    BY DEF RegionTypeOK
  <2>3. maps' = UNION {Rest(m)}
    BY <2>1, <2>2 DEF free_region
  <2>4. Rest(m) = {}
    BY <2>2 DEF Rest
  <2> QED
    BY <2>3, <2>4 DEF free_region
<1> QED
  BY <1>1, <1>2

LEMMA Mapped ==
  ASSUME NEW size \in Nat, NEW length \in Nat, NEW huge \in BOOLEAN, maps = {},
         length >= size, huge => length % HugePage = 0, MapRegion(size, length, huge)
  PROVE  RegionTypeOK' /\ NothingLeaks' /\ FitsMapping' /\ region'.aligned_size = size
<1>1. FreshBase \in Bases
  BY DEF FreshBase, Bases
<1>2. /\ region' = [base |-> FreshBase, base_size |-> length, aligned_size |-> size]
      /\ maps' = {[base |-> FreshBase, len |-> length, huge |-> huge]}
  BY DEF MapRegion
<1>3. RegionTypeOK'
  BY <1>1, <1>2 DEF RegionTypeOK, Mapping
<1>4. FitsMapping'
  BY <1>2 DEF FitsMapping
<1>5. NothingLeaks'
  <2>1. /\ maps' = {[base |-> region'.base, len |-> region'.base_size, huge |-> huge]}
        /\ huge => region'.base_size % HugePage = 0
    BY <1>2
  <2> QED
    BY <2>1 DEF NothingLeaks
<1> QED
  BY <1>2, <1>3, <1>4, <1>5

LEMMA Emptied ==
  ASSUME region' = EmptyRegion, maps' = {}
  PROVE  RegionTypeOK' /\ NothingLeaks' /\ FitsMapping'
  BY DEF EmptyRegion, RegionTypeOK, NothingLeaks, FitsMapping, Null

-----------------------------------------------------------------------------
(***************************************************************************)
(* smix leaves the region, its mappings, the parameters and the result     *)
(* alone, and ends in "final".                                             *)
(***************************************************************************)
LEMMA MixFrame ==
  ASSUME Mix
  PROVE  /\ pc \in Passes /\ pc' \in Passes \cup {"final"}
         /\ UNCHANGED <<regionVars, prm, callVars>>
<1>1. UNCHANGED <<regionVars, prm, callVars>>
  BY DEF Mix
<1>2. ASSUME NEW pass \in Passes, NEW next \in Passes \cup {"final"}, smix1(pass, next)
      PROVE  pc \in Passes /\ pc' \in Passes \cup {"final"}
  BY <1>2 DEF smix1, smix1_start, smix1_first, smix1_second, smix1_double,
              smix1_last, smix1_out, MixInto
<1>3. ASSUME NEW pass \in Passes, NEW next \in Passes \cup {"final"}, NEW count,
             smix2(pass, count, next)
      PROVE  pc \in Passes /\ pc' \in Passes \cup {"final"}
  BY <1>3 DEF smix2, smix2_start, smix2_mix, smix2_read, smix2_store
<1>4. CASE smix1("smix1_S", "smix1")
  BY <1>1, <1>2, <1>4 DEF Passes
<1>5. CASE smix1("smix1", "smix2")
  BY <1>1, <1>2, <1>5 DEF Passes
<1>6. CASE smix2("smix2", Nloop_rw,
                 IF IsOld /\ Nloop_all > Nloop_rw THEN "smix2_ro" ELSE "final")
  BY <1>1, <1>3, <1>6 DEF Passes
<1>7. CASE smix2("smix2_ro", 2, "final")
  BY <1>1, <1>3, <1>7 DEF Passes
<1> QED
  BY <1>4, <1>5, <1>6, <1>7 DEF Mix, smix

\* free_region that is refused changes nothing.
LEMMA SameRegion ==
  ASSUME RegionTypeOK, NothingLeaks, FitsMapping, UNCHANGED regionVars
  PROVE  RegionTypeOK' /\ NothingLeaks' /\ FitsMapping'
  BY DEF regionVars, RegionTypeOK, NothingLeaks, FitsMapping

-----------------------------------------------------------------------------
LEMMA RegionInit == Init => RegionInv
<1> SUFFICES ASSUME Init PROVE RegionInv
  OBVIOUS
<1>1. region = EmptyRegion /\ maps = {} /\ prm \in Params /\ pc = "idle"
  BY DEF Init, init_region
<1>2. RegionTypeOK /\ NothingLeaks /\ FitsMapping
  BY <1>1 DEF EmptyRegion, RegionTypeOK, NothingLeaks, FitsMapping, Null
<1> QED
  BY <1>1, <1>2 DEF RegionInv, Passes

LEMMA RegionStep == RegionInv /\ [Next]_vars => RegionInv'
<1> SUFFICES ASSUME RegionInv, [Next]_vars PROVE RegionInv'
  OBVIOUS
<1>1. RegionTypeOK /\ NothingLeaks /\ FitsMapping /\ prm \in Params
  BY DEF RegionInv
<1>2. need \in Nat
  BY <1>1, NeedType
<1>3. ASSUME UNCHANGED prm PROVE need' = need
  BY <1>3 DEF need, B_size, V_size, XY_size, Sbytes, IsOld
<1>4. CASE Call
  <2>1. UNCHANGED regionVars /\ prm' \in Params /\ pc' = "check"
    BY <1>4 DEF Call
  <2> QED
    BY <1>1, <2>1, SameRegion DEF RegionInv, Passes
<1>5. CASE Check
  <2>1. UNCHANGED regionVars /\ UNCHANGED prm
        /\ (pc' = "return" \/ pc' = "free" \/ (pc' = "derive" /\ ~ (region.aligned_size < need)))
    BY <1>5 DEF Check, Fail
  <2>2. region.aligned_size \in Nat /\ region' = region
    BY <1>1, <2>1 DEF RegionTypeOK, regionVars
  <2>3. pc' = "derive" => region'.aligned_size >= need'
    BY <1>2, <1>3, <2>1, <2>2
  <2> QED
    BY <1>1, <2>1, <2>3, SameRegion DEF RegionInv, Passes
<1>6. CASE Free
  <2>1. CASE free_region /\ pc' = "alloc"
    <3>1. region' = EmptyRegion /\ maps' = {}
      BY <1>1, <2>1, Freed
    <3>2. UNCHANGED prm
      BY <1>6 DEF Free
    <3> QED
      BY <1>1, <2>1, <3>1, <3>2, Emptied DEF RegionInv, Passes
  <2>2. CASE free_fails /\ Fail
    <3>1. UNCHANGED regionVars /\ UNCHANGED prm /\ pc' = "return"
      BY <1>6, <2>2 DEF Free, free_fails, Fail
    <3> QED
      BY <1>1, <3>1, SameRegion DEF RegionInv, Passes
  <2> QED
    BY <1>6, <2>1, <2>2 DEF Free
<1>7. CASE Alloc
  <2>1. maps = {} /\ region = EmptyRegion /\ UNCHANGED prm
    BY <1>7 DEF Alloc, RegionInv
  <2>2. CASE alloc_huge(need) /\ pc' = "derive"
    <3>1. /\ RegionTypeOK' /\ NothingLeaks' /\ FitsMapping'
          /\ region'.aligned_size = need
      BY <1>2, <2>1, <2>2, HugeLengthFits, Mapped DEF alloc_huge
    <3> QED
      BY <1>1, <1>2, <1>3, <2>1, <2>2, <3>1 DEF RegionInv
  <2>3. CASE alloc_plain(need) /\ pc' = "derive"
    <3>1. /\ RegionTypeOK' /\ NothingLeaks' /\ FitsMapping'
          /\ region'.aligned_size = need
      <4>1. MapRegion(need, need, FALSE)
        BY <2>3 DEF alloc_plain
      <4>2. need >= need
        BY <1>2
      <4> QED
        BY <1>2, <2>1, <4>1, <4>2, Mapped
    <3> QED
      BY <1>1, <1>2, <1>3, <2>1, <2>3, <3>1 DEF RegionInv
  <2>4. CASE alloc_fails(need) /\ Fail
    <3>1. region' = EmptyRegion /\ maps' = {} /\ pc' = "return"
      BY <2>1, <2>4 DEF alloc_fails, Fail
    <3> QED
      BY <1>1, <2>1, <3>1, Emptied DEF RegionInv, Passes
  <2> QED
    BY <1>7, <2>2, <2>3, <2>4 DEF Alloc
<1>8. CASE Derive \/ Mix \/ Final
  <2>1. /\ UNCHANGED regionVars /\ UNCHANGED prm
        /\ pc \in Passes \cup {"derive", "final"}
        /\ pc' \in Passes \cup {"final", "return"}
    BY <1>8, MixFrame DEF Derive, Final, Passes
  <2>2. region'.aligned_size >= need'
    BY <1>3, <2>1 DEF RegionInv, regionVars
  <2>3. pc' # "alloc"
    BY <2>1 DEF Passes
  <2> QED
    BY <1>1, <2>1, <2>2, <2>3, SameRegion DEF RegionInv
<1>9. CASE GoReturn \/ HashReturn
  <2>1. UNCHANGED regionVars /\ UNCHANGED prm /\ pc' = "idle"
    BY <1>9 DEF GoReturn, HashReturn
  <2> QED
    BY <1>1, <2>1, SameRegion DEF RegionInv, Passes
<1>10. CASE FreeLocal
  <2>1. pc' = "idle" /\ UNCHANGED prm
    BY <1>10 DEF FreeLocal
  <2>2. CASE free_region
    BY <1>1, <2>1, <2>2, Freed, Emptied DEF RegionInv, Passes
  <2>3. CASE free_fails
    BY <1>1, <2>1, <2>3, SameRegion DEF RegionInv, Passes, free_fails
  <2> QED
    BY <1>10, <2>2, <2>3 DEF FreeLocal
<1>11. CASE UNCHANGED vars
  <2>1. UNCHANGED regionVars /\ UNCHANGED prm /\ UNCHANGED pc
    BY <1>11 DEF vars, regionVars
  <2>2. /\ pc' = "alloc" => region' = EmptyRegion /\ maps' = {}
        /\ pc' \in Passes \cup {"derive", "final"} => region'.aligned_size >= need'
    BY <1>3, <2>1 DEF RegionInv, regionVars
  <2> QED
    BY <1>1, <2>1, <2>2, SameRegion DEF RegionInv
<1> QED
  BY <1>4, <1>5, <1>6, <1>7, <1>8, <1>9, <1>10, <1>11 DEF Next, Compute

\* Whatever the page sizes, the S-boxes and the order of calls, of failures
\* to map and to unmap and of yespower_free_local: nothing that was mapped is
\* lost, what is given back is what was mapped, and a call computes only in a
\* region of the size it needs (alloc_region, free_region and yespower()).
THEOREM RegionCorrect == Spec => []RegionSound
<1>1. RegionInv => RegionSound
  BY DEF RegionInv, RegionSound
<1> QED
  BY <1>1, RegionInit, RegionStep, PTL DEF Spec

-----------------------------------------------------------------------------
LEMMA ResultInit == Init => ResultInv
  BY DEF Init, ResultInv

LEMMA ResultStep == ResultInv /\ [Next]_vars => ResultInv'
<1> SUFFICES ASSUME ResultInv, [Next]_vars PROVE ResultInv'
  OBVIOUS
<1> USE DEF ResultInv
<1>1. CASE Call
  BY <1>1 DEF Call
<1>2. CASE Check \/ Free \/ Alloc
  <2>1. UNCHANGED hash /\ pc # "idle" /\ pc' # "idle"
        /\ (Fail \/ (pc' # "return" /\ UNCHANGED <<dst, ret>>))
    BY <1>2 DEF Check, Free, Alloc, Fail
  <2> QED
    BY <2>1 DEF Fail
<1>3. CASE Derive
  BY <1>3 DEF Derive, callVars
<1>4. CASE Mix
  BY <1>4, MixFrame DEF callVars, Passes
<1>5. CASE Final
  BY <1>5 DEF Final
<1>6. CASE GoReturn \/ HashReturn
  BY <1>6 DEF GoReturn, HashReturn
<1>7. CASE FreeLocal
  BY <1>7 DEF FreeLocal, callVars
<1>8. CASE UNCHANGED vars
  BY <1>8 DEF vars
<1> QED
  BY <1>1, <1>2, <1>3, <1>4, <1>5, <1>6, <1>7, <1>8 DEF Next, Compute

\* For all parameters, valid or not: a caller of either wrapper is handed a
\* hash only of a call that computed it to the end, and 0xff throughout of
\* any other, never the buffer as it was.
THEOREM ResultCorrect == Spec => []ResultSound
<1>1. ResultInv => ResultSound
  BY DEF ResultInv, ResultSound
<1> QED
  BY <1>1, ResultInit, ResultStep, PTL DEF Spec

-----------------------------------------------------------------------------
(***************************************************************************)
(* The memory of a call.  Rows as the layout places them, whichever pass   *)
(* is at work; what is in use behind B, and what B holds before smix1.     *)
(***************************************************************************)
SRow(k) == Blocks(SBase + 2 * k, 2)
VRow(k) == Blocks(VBase + k * B_size, B_size)
SArea == Blocks(SBase, Sbytes)
Loaded == IF IsOld THEN B_size ELSE 2
Filler == {"smix1_S", "smix1"}
Mixer == {"smix2", "smix2_ro"}

\* Beyond its check a call has parameters that passed it.
ParamInv == pc \in Passes \cup {"free", "alloc", "derive", "final"} => ParamsOK

\* How far the loops are.  The outer loop of smix1 doubles n, the inner one
\* makes two rows a turn: row x = n + i - 1 is the last one, and the turn that
\* reaches the bound leaves either the 2n rows the next doubling starts from
\* or, in the last, all rows but one.
LoopInv ==
  /\ pc \notin Passes => at = "start"
  /\ pc \in Filler => at \in {"start", "loop", "second", "out"}
  /\ pc \in Filler /\ at \in {"loop", "second"} =>
       /\ n >= 2 /\ n % 2 = 0 /\ i % 2 = 1
       /\ n < Rows =>
            /\ x = n + i - (IF at = "loop" THEN 1 ELSE 0)
            /\ IF n < Rows \div 2 THEN i <= n + 1 ELSE i <= Rows - 1 - n
            /\ at = "second" => i < Bound
       /\ n >= Rows => /\ at = "loop" /\ x = Rows - 2
                       /\ n \div 2 >= 2 /\ n \div 2 <= Rows - 2
  /\ pc \in Filler /\ at = "out" => x = Rows - 1 /\ n >= 2 /\ n <= Rows - 2
  /\ pc \in Mixer =>
       /\ at \in {"start", "first", "second", "read_first", "read_second", "store"}
       /\ at # "start" => j < prm.N
       /\ at \in {"read_first", "read_second"} => IsOld

\* S0, S1 and S2 stay thirds of S however often PWXFORM passes them on, and w
\* stays inside a third.
Thirds == {0, Third10, 2 * Third10}
CtxInv ==
  /\ pc = "smix1_S" => ctx.S0 = 0
  /\ pc \in Passes =>
       IF IsOld THEN ctx.S0 = 0 /\ ctx.S1 = Third05
       ELSE ctx \in [S0 : Thirds, S1 : Thirds, S2 : Thirds, w : 0 .. Third10 - 1]

\* What a call has written where it stands: what every part reads.
WrittenInv ==
  /\ pc \in Filler => Blocks(0, Loaded) \subseteq written
  /\ pc = "smix1_S" /\ at # "start" => \A k \in 0 .. x : SRow(k) \subseteq written
  /\ pc \in Passes \ {"smix1_S"} => SArea \subseteq written
  /\ pc = "smix1" /\ at # "start" => \A k \in 0 .. x : VRow(k) \subseteq written
  /\ pc \in Mixer =>
       /\ \A k \in 0 .. prm.N - 1 : VRow(k) \subseteq written
       /\ at # "start" => Blocks(XYBase, B_size) \subseteq written
       /\ at = "read_second" => Blocks(XYBase + B_size, B_size) \subseteq written
  /\ (pc \in Mixer /\ at = "start") \/ pc = "final" => Blocks(0, B_size) \subseteq written

CallInv == TypeOK /\ ParamInv /\ LoopInv /\ CtxInv
MemInv == faults = {} /\ WrittenInv
-----------------------------------------------------------------------------
(***************************************************************************)
(* The layout: four areas one behind the other, rows inside their area.    *)
(***************************************************************************)
LEMMA PowerIsEven == ASSUME NEW k \in Nat, k >= 4, PowerOf2(k) PROVE k % 2 = 0
<1>1. {2 ^ e : e \in 0 .. 19} =
        {1, 2, 4, 8, 16, 32, 64, 128, 256, 512, 1024, 2048, 4096, 8192, 16384, 32768,
         65536, 131072, 262144, 524288}
  OBVIOUS
<1>2. k \in {2 ^ e : e \in 0 .. 19}
  BY DEF PowerOf2
<1> QED
  BY <1>1, <1>2

LEMMA RowsInOrder ==
  ASSUME NEW k \in Nat, NEW m \in Nat, NEW w \in Nat, k < m
  PROVE  k * w \in Nat /\ m * w \in Nat /\ k * w + w <= m * w
  OBVIOUS

LEMMA Layout ==
  ASSUME prm \in Params, ParamsOK
  PROVE  /\ prm.N \in Nat /\ prm.N >= 4 /\ prm.N % 2 = 0 /\ prm.N <= MaxN
         /\ prm.r \in Nat /\ prm.r >= 1
         /\ B_size \in Nat /\ B_size = 2 * prm.r /\ B_size >= 2 /\ VBase = B_size
         /\ V_size \in Nat /\ V_size = prm.N * B_size
         /\ XYBase = B_size + V_size
         /\ XY_size \in Nat /\ XY_size >= B_size + 1 /\ (IsOld => XY_size = 2 * B_size)
         /\ SBase = XYBase + XY_size
         /\ Third \in Nat /\ Third >= 4
         /\ Sbytes \in Nat /\ Sbytes >= 8 /\ Sbytes % 4 = 0
         /\ Sbytes = IF IsOld THEN 2 * Third05 ELSE 3 * Third10
         /\ need = SBase + Sbytes
<1>1. /\ prm.N \in Nat /\ prm.N >= 4 /\ prm.N <= MaxN
      /\ prm.r \in Nat /\ prm.r >= 1 /\ PowerOf2(prm.N)
  BY YespowerAssumption DEF ParamsOK
<1>2. prm.N % 2 = 0
  BY <1>1, PowerIsEven
<1>3. B_size \in Nat /\ B_size = 2 * prm.r /\ B_size >= 2 /\ VBase = B_size
  BY <1>1 DEF B_size, VBase
<1>4. V_size \in Nat /\ V_size = prm.N * B_size
  BY <1>1, <1>3 DEF V_size
<1>5. XYBase = B_size + V_size
  BY <1>3 DEF XYBase
<1>6. XY_size \in Nat /\ XY_size >= B_size + 1 /\ (IsOld => XY_size = 2 * B_size)
  BY <1>3 DEF XY_size
<1>7. SBase = XYBase + XY_size
  BY DEF SBase
<1>8. Third \in Nat /\ Third >= 4
  BY SmixAssumption DEF Third
<1>9. /\ Sbytes \in Nat /\ Sbytes >= 8 /\ Sbytes % 4 = 0
      /\ Sbytes = IF IsOld THEN 2 * Third05 ELSE 3 * Third10
  BY SmixAssumption DEF Sbytes
<1>10. need = SBase + Sbytes
  BY <1>3, <1>4, <1>5, <1>6, <1>7, <1>9 DEF need
<1> QED
  BY <1>1, <1>2, <1>3, <1>4, <1>5, <1>6, <1>7, <1>8, <1>9, <1>10

\* Everything a call uses lies in a region of the size it needs.
LEMMA Areas ==
  ASSUME prm \in Params, ParamsOK, NEW size \in Nat, size >= need
  PROVE  /\ Blocks(0, 2) \subseteq Blocks(0, B_size)
         /\ Blocks(0, B_size) \subseteq Blocks(0, size)
         /\ \A k \in 0 .. prm.N - 1 : VRow(k) \subseteq B_size .. XYBase - 1
         /\ B_size .. XYBase - 1 \subseteq Blocks(0, size)
         /\ Blocks(XYBase, B_size) \subseteq XYBase .. SBase - 1
         /\ XYBase + B_size \in XYBase .. SBase - 1
         /\ IsOld => Blocks(XYBase + B_size, B_size) \subseteq XYBase .. SBase - 1
         /\ XYBase .. SBase - 1 \subseteq Blocks(0, size)
         /\ \A k \in 0 .. Sbytes \div 2 - 1 : SRow(k) \subseteq SArea
         /\ SArea \subseteq Blocks(0, size)
         /\ SArea = SBase .. SBase + Sbytes - 1
<1> USE Layout
<1>1. Blocks(0, 2) \subseteq Blocks(0, B_size)
  BY DEF Blocks
<1>2. Blocks(0, B_size) \subseteq Blocks(0, size)
  BY DEF Blocks
<1>3. \A k \in 0 .. prm.N - 1 : VRow(k) \subseteq B_size .. XYBase - 1
  <2>1. ASSUME NEW k \in 0 .. prm.N - 1
        PROVE  k * B_size \in Nat /\ k * B_size + B_size <= V_size
    <3>1. k \in Nat /\ k < prm.N /\ prm.N \in Nat /\ B_size \in Nat
      OBVIOUS
    <3>2. k * B_size \in Nat /\ k * B_size + B_size <= prm.N * B_size
      BY <3>1, RowsInOrder
    <3> QED
      BY <3>2
  <2> QED
    BY <2>1 DEF VRow, Blocks
<1>4. B_size .. XYBase - 1 \subseteq Blocks(0, size)
  BY DEF Blocks
<1>5. /\ Blocks(XYBase, B_size) \subseteq XYBase .. SBase - 1
      /\ XYBase + B_size \in XYBase .. SBase - 1
      /\ IsOld => Blocks(XYBase + B_size, B_size) \subseteq XYBase .. SBase - 1
  BY DEF Blocks
<1>6. XYBase .. SBase - 1 \subseteq Blocks(0, size)
  BY DEF Blocks
<1>7. SArea = SBase .. SBase + Sbytes - 1
  BY DEF SArea, Blocks
<1>8. \A k \in 0 .. Sbytes \div 2 - 1 : SRow(k) \subseteq SArea
  BY DEF SRow, SArea, Blocks
<1>9. SArea \subseteq Blocks(0, size)
  BY DEF SArea, Blocks
<1> QED
  BY <1>1, <1>2, <1>3, <1>4, <1>5, <1>6, <1>7, <1>8, <1>9

\* Two rows of V have no block in common, nor have two of S.
LEMMA RowsApart ==
  ASSUME prm \in Params, ParamsOK, NEW k \in Nat, NEW m \in Nat, k < m
  PROVE  VRow(k) \cap VRow(m) = {} /\ SRow(k) \cap SRow(m) = {}
<1>1. /\ k * B_size \in Nat /\ m * B_size \in Nat /\ B_size \in Nat
      /\ k * B_size + B_size <= m * B_size /\ VBase \in Nat
  BY RowsInOrder, Layout
<1>2. VRow(k) \cap VRow(m) = {}
  BY <1>1 DEF VRow, Blocks
<1>3. SBase \in Nat
  BY Layout
<1>4. SRow(k) \cap SRow(m) = {}
  BY <1>3 DEF SRow, Blocks
<1> QED
  BY <1>2, <1>4

\* The rows of smix1 and smix2 in terms of the layout.
LEMMA RowsOfS ==
  ASSUME prm \in Params, ParamsOK, pc = "smix1_S", ctx.S0 = 0
  PROVE  /\ s = 2 /\ R = 1 /\ Rows = Sbytes \div 2 /\ Rows \in Nat /\ Rows >= 4 /\ Rows % 2 = 0
         /\ X2 = Blocks(XYBase, 2) /\ Tmp = {XYBase + 2}
         /\ \A k \in Nat : Row(k) = SRow(k)
<1>1. OnS /\ s = 2 /\ R = 1
  BY DEF OnS, s, R
<1>2. Rows = Sbytes \div 2 /\ Rows \in Nat /\ Rows >= 4 /\ Rows % 2 = 0
  BY <1>1, Layout DEF Rows
<1>3. X2 = Blocks(XYBase, 2) /\ Tmp = {XYBase + 2}
  BY <1>1 DEF X2, Tmp
<1>4. \A k \in Nat : Row(k) = SRow(k)
  BY <1>1, Layout DEF Row, SRow
<1> QED
  BY <1>1, <1>2, <1>3, <1>4

LEMMA RowsOfV ==
  ASSUME prm \in Params, ParamsOK, pc # "smix1_S"
  PROVE  /\ s = B_size /\ R = prm.r /\ Rows = prm.N
         /\ Rows \in Nat /\ Rows >= 4 /\ Rows % 2 = 0
         /\ X2 = Blocks(XYBase, B_size) /\ Tmp = {XYBase + B_size}
         /\ Y2 = Blocks(XYBase + B_size, B_size)
         /\ \A k \in Nat : Row(k) = VRow(k)
<1>1. ~ OnS /\ R = prm.r /\ s = B_size /\ Rows = prm.N
  BY DEF OnS, s, R, B_size, Rows
<1>2. X2 = Blocks(XYBase, B_size) /\ Tmp = {XYBase + B_size}
      /\ Y2 = Blocks(XYBase + B_size, B_size)
  BY <1>1 DEF X2, Tmp, Y2
<1>3. \A k \in Nat : Row(k) = VRow(k)
  BY <1>1 DEF Row, VRow
<1> QED
  BY <1>1, <1>2, <1>3, Layout

-----------------------------------------------------------------------------
(***************************************************************************)
(* The S-boxes.                                                            *)
(***************************************************************************)
LEMMA PassedOn ==
  ASSUME ctx \in [S0 : Thirds, S1 : Thirds, S2 : Thirds, w : 0 .. Third10 - 1],
         NEW k \in Nat
  PROVE  PWXFORM(k) \in [S0 : Thirds, S1 : Thirds, S2 : Thirds, w : 0 .. Third10 - 1]
<1> DEFINE old(p) == CASE p % 3 = 0 -> ctx.S0 [] p % 3 = 1 -> ctx.S1 [] OTHER -> ctx.S2
<1>1. \A p \in Nat : old(p) \in Thirds
  OBVIOUS
<1>2. 2 * k \in Nat /\ 2 * k + 1 \in Nat /\ 2 * k + 2 \in Nat
  OBVIOUS
<1>3. (ctx.w + k) % Third10 \in 0 .. Third10 - 1
  BY SmixAssumption
<1>4. PWXFORM(k) = [S0 |-> old(2 * k), S1 |-> old(2 * k + 1), S2 |-> old(2 * k + 2),
                    w |-> (ctx.w + k) % Third10]
  BY DEF PWXFORM
<1> HIDE DEF old
<1> QED
  BY <1>1, <1>2, <1>3, <1>4

\* What PWXFORM reads and writes lies in S, and nothing at all while S is filled.
LEMMA LookUps ==
  ASSUME prm \in Params, ParamsOK, CtxInv, pc \in Passes, NEW count \in Nat
  PROVE  /\ SReads \subseteq SArea /\ SWrites(count) \subseteq SArea
         /\ OnS => SReads = {} /\ SWrites(count) = {}
<1> USE Layout, SmixAssumption
<1>1. OnS => SReads = {} /\ SWrites(count) = {}
  <2>1. OnS => SReads = {}
    BY Zenon DEF SReads
  <2>2. OnS => SWrites(count) = {}
    BY Zenon DEF SWrites, UsesS
  <2> QED
    BY <2>1, <2>2
<1>2. CASE ~ OnS /\ IsOld
  <2>1. ctx.S0 = 0 /\ ctx.S1 = Third05 /\ Third = Third05
    BY <1>2 DEF CtxInv, Third
  <2>2. SReads = Blocks(SBase + ctx.S0, Third) \cup Blocks(SBase + ctx.S1, Third)
    BY <1>2 DEF SReads
  <2>3. SReads \subseteq SArea
    BY <1>2, <2>1, <2>2 DEF SArea, Blocks
  <2>4. SWrites(count) = {}
    BY <1>2 DEF SWrites, UsesS
  <2> QED
    BY <1>2, <2>3, <2>4
<1>3. CASE ~ OnS /\ ~ IsOld
  <2>1. ctx \in [S0 : Thirds, S1 : Thirds, S2 : Thirds, w : 0 .. Third10 - 1]
        /\ Third = Third10
    BY <1>3 DEF CtxInv, Third
  <2>2. \A t \in Thirds : Blocks(SBase + t, Third) \subseteq SArea
    BY <1>3, <2>1 DEF SArea, Blocks, Thirds
  <2>3. SReads = UNION {Blocks(SBase + ctx[p], Third) : p \in {"S0", "S1", "S2"}}
    BY <1>3 DEF SReads
  <2>4. ASSUME NEW p \in {"S0", "S1", "S2"} PROVE ctx[p] \in Thirds
    BY <2>1
  <2>5. SReads \subseteq SArea
    BY <2>2, <2>3, <2>4
  <2>6. ASSUME NEW k \in 0 .. count - 1
        PROVE  {SBase + PWXFORM(k).S0 + PWXFORM(k).w,
                SBase + PWXFORM(k).S1 + PWXFORM(k).w} \subseteq SArea
    <3>1. PWXFORM(k) \in [S0 : Thirds, S1 : Thirds, S2 : Thirds, w : 0 .. Third10 - 1]
      BY <2>1, PassedOn
    <3>2. \A t \in Thirds : \A v \in 0 .. Third10 - 1 : SBase + t + v \in SArea
      BY <1>3 DEF SArea, Blocks, Thirds
    <3> QED
      BY <3>1, <3>2
  <2>7. SWrites(count) \subseteq SArea
    BY <2>6 DEF SWrites
  <2> QED
    BY <1>3, <2>5, <2>7
<1> QED
  BY <1>1, <1>2, <1>3
-----------------------------------------------------------------------------
(***************************************************************************)
(* Types, and how far the loops are.                                       *)
(***************************************************************************)
Framed == UNCHANGED <<regionVars, prm, callVars>>

LEMMA PassFacts ==
  ASSUME CallInv, pc \in Passes
  PROVE  /\ prm \in Params /\ ParamsOK /\ CtxInv
         /\ Rows \in Nat /\ Rows >= 4 /\ Rows % 2 = 0 /\ s \in Nat /\ s >= 2
         /\ R \in Nat /\ R >= 1
<1>1. prm \in Params /\ ParamsOK /\ CtxInv
  BY DEF CallInv, TypeOK, ParamInv
<1>2. CASE pc = "smix1_S"
  <2>1. ctx.S0 = 0
    BY <1>1, <1>2 DEF CtxInv
  <2> QED
    BY <1>1, <1>2, <2>1, RowsOfS
<1>3. CASE pc # "smix1_S"
  BY <1>1, <1>3, RowsOfV, Layout
<1> QED
  BY <1>1, <1>2, <1>3

LEMMA RowsKept ==
  ASSUME UNCHANGED prm, UNCHANGED pc
  PROVE  Rows' = Rows /\ IsOld' = IsOld /\ OnS' = OnS
  BY DEF Rows, OnS, Sbytes, IsOld

LEMMA FrameKept ==
  ASSUME TypeOK, Framed
  PROVE  /\ RegionTypeOK' /\ prm' \in Params
         /\ dst' \in {"undefined", "ff", "hash"} /\ ret' \in {0, -1}
         /\ hash' \in {"none", "undefined", "ff", "hash"}
  BY DEF TypeOK, Framed, regionVars, callVars, RegionTypeOK

LEMMA AccessType ==
  ASSUME TypeOK, NEW reads, NEW writes \in SUBSET Nat, NEW scratch, NEW apart,
         Access(reads, writes, scratch, apart)
  PROVE  written' \subseteq Nat /\ faults' \subseteq {"bounds", "stale", "alias"}
<1>1. written' \subseteq Nat
  BY DEF Access, TypeOK
<1>2. faults' \subseteq {"bounds", "stale", "alias"}
  BY DEF Access, TypeOK
<1> QED
  BY <1>1, <1>2

\* All that is written is a set of blocks.
LEMMA BlockSets ==
  ASSUME CallInv, pc \in Passes
  PROVE  /\ \A k \in Nat : Row(k) \in SUBSET Nat
         /\ \A count \in Nat : SWrites(count) \in SUBSET Nat
         /\ X2 \in SUBSET Nat /\ Y2 \in SUBSET Nat
         /\ Blocks(0, s) \in SUBSET Nat /\ Blocks(0, B_size) \in SUBSET Nat
<1>1. /\ XYBase \in Nat /\ SBase \in Nat /\ VBase \in Nat /\ B_size \in Nat
      /\ s \in Nat /\ Sbytes \in Nat
  BY PassFacts, Layout
<1>2. ctx.S0 \in Nat
  BY DEF CallInv, TypeOK
<1>3. \A from, size \in Nat : Blocks(from, size) \in SUBSET Nat
  BY DEF Blocks
<1>4. ASSUME NEW k \in Nat PROVE Row(k) \in SUBSET Nat
  <2>1. k * s \in Nat
    BY <1>1
  <2>2. (IF OnS THEN SBase + ctx.S0 ELSE VBase) + k * s \in Nat
    BY <1>1, <1>2, <2>1
  <2> QED
    BY <1>1, <1>3, <2>2 DEF Row
<1>5. ASSUME NEW count \in Nat PROVE SWrites(count) \in SUBSET Nat
  BY <1>1, <1>3, PassFacts, LookUps DEF SArea
<1>6. X2 \in SUBSET Nat /\ Y2 \in SUBSET Nat
  BY <1>1, <1>3 DEF X2, Y2
<1> QED
  BY <1>1, <1>3, <1>4, <1>5, <1>6

LEMMA PwxKept ==
  ASSUME CallInv, pc \in Passes, NEW count \in Nat, Pwx(count)
  PROVE  /\ ctx' \in [S0 : Nat, S1 : Nat, S2 : Nat, w : Nat]
         /\ OnS => ctx'.S0 = 0
         /\ IF IsOld THEN ctx'.S0 = 0 /\ ctx'.S1 = Third05
            ELSE ctx' \in [S0 : Thirds, S1 : Thirds, S2 : Thirds, w : 0 .. Third10 - 1]
<1>1. /\ ctx \in [S0 : Nat, S1 : Nat, S2 : Nat, w : Nat]
      /\ OnS => ctx.S0 = 0
      /\ IF IsOld THEN ctx.S0 = 0 /\ ctx.S1 = Third05
         ELSE ctx \in [S0 : Thirds, S1 : Thirds, S2 : Thirds, w : 0 .. Third10 - 1]
  BY DEF CallInv, TypeOK, CtxInv, OnS
<1>2. CASE ~ UsesS(count)
  BY <1>1, <1>2 DEF Pwx
<1>3. CASE UsesS(count)
  <2>1. ~ OnS /\ ~ IsOld
    BY <1>3 DEF UsesS
  <2>2. ctx' \in [S0 : Thirds, S1 : Thirds, S2 : Thirds, w : 0 .. Third10 - 1]
    BY <1>1, <1>3, <2>1, PassedOn DEF Pwx
  <2>3. Thirds \subseteq Nat /\ 0 .. Third10 - 1 \subseteq Nat
    BY SmixAssumption DEF Thirds
  <2> QED
    BY <2>1, <2>2, <2>3
<1> QED
  BY <1>2, <1>3

LEMMA CtxKept ==
  ASSUME CallInv, pc \in Passes, pc' \in Passes \ {"smix1_S"} \/ pc' = pc, UNCHANGED prm,
         (\E count \in Nat : Pwx(count)) \/ UNCHANGED ctx
  PROVE  CtxInv' /\ ctx' \in [S0 : Nat, S1 : Nat, S2 : Nat, w : Nat]
<1>1. IsOld' = IsOld
  BY DEF IsOld
<1>2. CASE UNCHANGED ctx
  BY <1>1, <1>2 DEF CtxInv, CallInv, TypeOK
<1>3. CASE \E count \in Nat : Pwx(count)
  BY <1>1, <1>3, PwxKept DEF CtxInv, OnS
<1> QED
  BY <1>2, <1>3
LEMMA ParamsKept == ASSUME UNCHANGED prm PROVE ParamsOK' <=> ParamsOK
  BY DEF ParamsOK, PowerOf2

\* A step inside smix keeps the types once it keeps those of its own variables.
LEMMA MixTypes ==
  ASSUME CallInv, Framed, pc \in Passes, pc' \in Passes \cup {"final"},
         at' \in {"start", "loop", "second", "out", "first", "read_first", "read_second",
                  "store"},
         x' \in Nat, n' \in Nat, i' \in Nat, j' \in Nat, vj' \in Nat,
         nloop' \in 0 .. UintLimit - 1,
         ctx' \in [S0 : Nat, S1 : Nat, S2 : Nat, w : Nat],
         written' \subseteq Nat, faults' \subseteq {"bounds", "stale", "alias"}
  PROVE  TypeOK' /\ ParamInv'
<1>1. ParamsOK'
  BY PassFacts, ParamsKept DEF Framed
<1>2. TypeOK'
  BY FrameKept DEF TypeOK, CallInv
<1> QED
  BY <1>1, <1>2 DEF ParamInv

LEMMA StartStep ==
  ASSUME CallInv, Framed, NEW pass \in Filler, smix1_start(pass)
  PROVE  CallInv'
<1> DEFINE loaded == IF IsOld THEN s ELSE 2
           calls == (IF IsOld THEN 0 ELSE 2 * (R - 1)) + 2 * s
<1>1. /\ pc \in Filler /\ pc' = pc /\ at' = "loop" /\ x' = 2 /\ n' = 2 /\ i' = 1
      /\ j' \in Vals /\ UNCHANGED <<vj, nloop>> /\ pc \in Passes
      /\ Access(Blocks(0, loaded) \cup SReads,
                Row(0) \cup Row(1) \cup Row(2) \cup SWrites(calls), {}, TRUE)
      /\ Pwx(calls)
  BY DEF smix1_start, integerify, Filler, Passes
<1>2. UNCHANGED prm
  BY DEF Framed
<1>3. calls \in Nat
  BY <1>1, PassFacts
<1> HIDE DEF loaded, calls
<1>4. Row(0) \cup Row(1) \cup Row(2) \cup SWrites(calls) \in SUBSET Nat
  BY <1>1, <1>3, BlockSets
<1>5. written' \subseteq Nat /\ faults' \subseteq {"bounds", "stale", "alias"}
  BY <1>1, <1>4, AccessType DEF CallInv
<1>6. CtxInv' /\ ctx' \in [S0 : Nat, S1 : Nat, S2 : Nat, w : Nat]
  BY <1>1, <1>2, <1>3, CtxKept
<1>7. TypeOK' /\ ParamInv'
  BY <1>1, <1>5, <1>6, MixTypes, SmixAssumption DEF CallInv, TypeOK, Passes
<1>8. LoopInv'
  <2>1. Rows' = Rows /\ Rows \in Nat /\ Rows >= 4 /\ Rows % 2 = 0
    BY <1>1, <1>2, PassFacts, RowsKept
  <2> QED
    BY <1>1, <2>1 DEF LoopInv, Filler, Mixer, Passes
<1> QED
  BY <1>6, <1>7, <1>8 DEF CallInv

\* One blockmix_xor of the inner loop, as far as the types go.
LEMMA MixIntoStep ==
  ASSUME CallInv, Framed, pc \in Filler, NEW row \in Nat, NEW next,
         next \in {"loop", "second", "out"}, MixInto(row, next), n' \in Nat, i' \in Nat
  PROVE  /\ TypeOK' /\ ParamInv' /\ CtxInv'
         /\ pc' = pc /\ at' = next /\ x' = x + 1 /\ Rows' = Rows
<1>1. /\ pc' = pc /\ pc \in Passes /\ at' = next /\ x' = x + 1 /\ j' \in Vals
      /\ vj' = row /\ UNCHANGED nloop
      /\ Access(Row(x) \cup Row(row) \cup SReads, Row(x + 1) \cup SWrites(s), {},
                (Row(x) \cup Row(row)) \cap Row(x + 1) = {})
      /\ Pwx(s)
  BY DEF MixInto, blockmix_xor, integerify, Filler, Passes
<1>2. UNCHANGED prm
  BY DEF Framed
<1>3. s \in Nat /\ x \in Nat /\ nloop \in 0 .. UintLimit - 1
  BY <1>1, PassFacts DEF CallInv, TypeOK
<1>4. Row(x + 1) \cup SWrites(s) \in SUBSET Nat
  BY <1>1, <1>3, BlockSets
<1>5. written' \subseteq Nat /\ faults' \subseteq {"bounds", "stale", "alias"}
  BY <1>1, <1>4, AccessType DEF CallInv
<1>6. CtxInv' /\ ctx' \in [S0 : Nat, S1 : Nat, S2 : Nat, w : Nat]
  BY <1>1, <1>2, <1>3, CtxKept
<1>7. x' \in Nat /\ j' \in Nat /\ vj' \in Nat
  BY <1>1, <1>3, SmixAssumption
<1>8. TypeOK' /\ ParamInv'
  BY <1>1, <1>3, <1>5, <1>6, <1>7, MixTypes
<1> QED
  BY <1>1, <1>2, <1>6, <1>8, RowsKept

\* Where the loop of smix1 is, spelled out for one step of it.
LEMMA InLoop ==
  ASSUME CallInv, pc \in Filler, at \in {"loop", "second"}
  PROVE  /\ x \in Nat /\ n \in Nat /\ i \in Nat /\ j \in Nat /\ Rows \in Nat
         /\ Rows >= 4 /\ Rows % 2 = 0
         /\ n >= 2 /\ n % 2 = 0 /\ i >= 1 /\ i % 2 = 1
         /\ j % n \in 0 .. n - 1
<1>1. x \in Nat /\ n \in Nat /\ i \in Nat /\ j \in Nat /\ pc \in Passes
  BY DEF CallInv, TypeOK, Filler, Passes
<1>2. n >= 2 /\ n % 2 = 0 /\ i % 2 = 1
  BY DEF CallInv, LoopInv
<1> QED
  BY <1>1, <1>2, PassFacts

LEMMA FirstStep ==
  ASSUME CallInv, Framed, NEW pass \in Filler, smix1_first(pass)
  PROVE  CallInv'
<1>1. /\ pc \in Filler /\ at = "loop" /\ n < Rows /\ i < Bound /\ n' = n /\ i' = i
      /\ MixInto((j % n) + i - 1, "second")
  BY DEF smix1_first
<1>2. (j % n) + i - 1 \in Nat /\ n' \in Nat /\ i' \in Nat
  BY <1>1, InLoop
<1>3. /\ TypeOK' /\ ParamInv' /\ CtxInv'
      /\ pc' = pc /\ at' = "second" /\ x' = x + 1 /\ Rows' = Rows
  BY <1>1, <1>2, MixIntoStep
<1>4. x = n + i - 1 /\ (IF n < Rows \div 2 THEN i <= n + 1 ELSE i <= Rows - 1 - n)
  BY <1>1 DEF CallInv, LoopInv
<1>5. Bound' = Bound
  BY <1>1, <1>3 DEF Bound
<1>6. LoopInv'
  BY <1>1, <1>3, <1>4, <1>5, InLoop DEF LoopInv, Filler, Mixer, Passes
<1> QED
  BY <1>3, <1>6 DEF CallInv

LEMMA SecondStep ==
  ASSUME CallInv, Framed, NEW pass \in Filler, smix1_second(pass)
  PROVE  CallInv'
<1>1. /\ pc \in Filler /\ at = "second" /\ n' = n /\ i' = i + 2
      /\ MixInto((j % n) + i, "loop")
  BY DEF smix1_second
<1>2. (j % n) + i \in Nat /\ n' \in Nat /\ i' \in Nat
  BY <1>1, InLoop
<1>3. /\ TypeOK' /\ ParamInv' /\ CtxInv'
      /\ pc' = pc /\ at' = "loop" /\ x' = x + 1 /\ Rows' = Rows
  BY <1>1, <1>2, MixIntoStep
<1>4. n < Rows /\ x = n + i /\ i < Bound
  BY <1>1, InLoop DEF CallInv, LoopInv
<1>5. CASE n < Rows \div 2
  <2>1. i < n
    BY <1>4, <1>5 DEF Bound
  <2> QED
    BY <1>1, <1>3, <1>4, <1>5, <2>1, InLoop DEF CallInv, LoopInv, Filler, Mixer, Passes
<1>6. CASE ~ (n < Rows \div 2)
  <2>1. i < Rows - 1 - n
    BY <1>4, <1>6 DEF Bound
  <2>2. i + 2 <= Rows - 1 - n
    BY <1>1, <1>4, <2>1, InLoop
  <2> QED
    BY <1>1, <1>3, <1>4, <1>6, <2>2, InLoop DEF CallInv, LoopInv, Filler, Mixer, Passes
<1> QED
  BY <1>5, <1>6

LEMMA DoubleStep ==
  ASSUME CallInv, Framed, NEW pass \in Filler, smix1_double(pass)
  PROVE  CallInv'
<1>1. /\ pc \in Filler /\ at = "loop" /\ n < Rows /\ i >= Bound /\ n' = 2 * n /\ i' = 1
      /\ UNCHANGED <<pc, at, x, j, vj, nloop, ctx, written, faults>> /\ pc \in Passes
      /\ UNCHANGED prm
  BY DEF smix1_double, Filler, Passes, Framed
<1>2. Rows' = Rows
  BY <1>1, RowsKept
<1>3. TypeOK' /\ ParamInv'
  BY <1>1, InLoop, MixTypes DEF CallInv, TypeOK
<1>4. CtxInv'
  BY <1>1, CtxKept
<1>5. x = n + i - 1 /\ (IF n < Rows \div 2 THEN i <= n + 1 ELSE i <= Rows - 1 - n)
  BY <1>1 DEF CallInv, LoopInv
<1>6. CASE n < Rows \div 2
  <2>1. i = n + 1 /\ x = 2 * n /\ 2 * n < Rows
    BY <1>1, <1>5, <1>6, InLoop DEF Bound
  <2>2. LoopInv'
    BY <1>1, <1>2, <2>1, InLoop DEF LoopInv, Filler, Mixer, Passes
  <2> QED
    BY <1>3, <1>4, <2>2 DEF CallInv
<1>7. CASE ~ (n < Rows \div 2)
  <2>0. i = Rows - 1 - n
    BY <1>1, <1>5, <1>7, InLoop DEF Bound
  <2>1. x = Rows - 2 /\ 2 * n >= Rows /\ (2 * n) \div 2 = n /\ n <= Rows - 2
    BY <1>1, <1>5, <1>7, <2>0, InLoop
  <2>2. LoopInv'
    BY <1>1, <1>2, <2>1, InLoop DEF LoopInv, Filler, Mixer, Passes
  <2> QED
    BY <1>3, <1>4, <2>2 DEF CallInv
<1> QED
  BY <1>6, <1>7

LEMMA LastStep ==
  ASSUME CallInv, Framed, NEW pass \in Filler, smix1_last(pass)
  PROVE  CallInv'
<1>1. /\ pc \in Filler /\ at = "loop" /\ n >= Rows /\ n' = n \div 2 /\ i' = i
      /\ MixInto((j % n') + Rows - 2 - n', "out")
  BY DEF smix1_last
<1>2. x = Rows - 2 /\ n' >= 2 /\ n' <= Rows - 2 /\ n' \in Nat
  BY <1>1, InLoop DEF CallInv, LoopInv
<1>3. (j % n') + Rows - 2 - n' \in Nat
  BY <1>1, <1>2, InLoop
<1>4. /\ TypeOK' /\ ParamInv' /\ CtxInv'
      /\ pc' = pc /\ at' = "out" /\ x' = x + 1 /\ Rows' = Rows
  BY <1>1, <1>2, <1>3, InLoop, MixIntoStep
<1>5. LoopInv'
  BY <1>1, <1>2, <1>4, InLoop DEF LoopInv, Filler, Mixer, Passes
<1> QED
  BY <1>4, <1>5 DEF CallInv

LEMMA OutStep ==
  ASSUME CallInv, Framed, NEW pass \in Filler, NEW next,
         <<pass, next>> \in {<<"smix1_S", "smix1">>, <<"smix1", "smix2">>},
         smix1_out(pass, next)
  PROVE  CallInv'
<1> DEFINE row == (j % n) + Rows - 1 - n
<1>1. /\ pc \in Passes /\ pc \in Filler /\ at = "out" /\ vj' = row
      /\ pc' \in {"smix1", "smix2"} /\ at' = "start"
      /\ UNCHANGED <<x, n, i, j, nloop>> /\ UNCHANGED prm
      /\ Access(Row(x) \cup Row(row) \cup SReads, X2 \cup Blocks(0, s) \cup SWrites(s),
                Tmp, (Row(x) \cup Row(row)) \cap X2 = {})
      /\ Pwx(s)
  BY DEF smix1_out, Filler, Passes, Framed
<1>2. /\ s \in Nat /\ x \in Nat /\ n \in Nat /\ i \in Nat /\ j \in Nat
      /\ nloop \in 0 .. UintLimit - 1 /\ Rows \in Nat
  BY <1>1, PassFacts DEF CallInv, TypeOK
<1>3. n >= 2 /\ n <= Rows - 2
  BY <1>1 DEF CallInv, LoopInv
<1>4. vj' \in Nat
  BY <1>1, <1>2, <1>3
<1> HIDE DEF row
<1>5. X2 \cup Blocks(0, s) \cup SWrites(s) \in SUBSET Nat
  BY <1>1, <1>2, BlockSets
<1>6. written' \subseteq Nat /\ faults' \subseteq {"bounds", "stale", "alias"}
  BY <1>1, <1>5, AccessType DEF CallInv
<1>7. CtxInv' /\ ctx' \in [S0 : Nat, S1 : Nat, S2 : Nat, w : Nat]
  BY <1>1, <1>2, CtxKept DEF Passes
<1>8. TypeOK' /\ ParamInv'
  BY <1>1, <1>2, <1>4, <1>6, <1>7, MixTypes DEF Passes
<1>9. LoopInv'
  BY <1>1 DEF LoopInv, Filler, Mixer, Passes
<1> QED
  BY <1>7, <1>8, <1>9 DEF CallInv
\* The number of turns of smix2 fits into its uint32_t.
LEMMA TurnsFit ==
  ASSUME CallInv, pc \in Passes
  PROVE  Nloop_rw \in 0 .. UintLimit - 1 /\ 2 \in 0 .. UintLimit - 1
<1>1. prm.N \in Nat /\ prm.N >= 4 /\ prm.N <= MaxN /\ MaxN \in Nat /\ MaxN < UintLimit
  BY PassFacts, Layout, YespowerAssumption
<1>2. UintLimit \in Nat
  BY SmixAssumption
<1>3. Loops \in Nat /\ Loops <= prm.N - 2
  BY <1>1 DEF Loops
<1>4. Nloop_rw \in Nat /\ Nloop_rw <= Loops + 1
  BY <1>3 DEF Nloop_rw, EvenUp, EvenDown
<1> QED
  BY <1>1, <1>2, <1>3, <1>4

\* j is taken modulo N, by a mask.
LEMMA Masked ==
  ASSUME prm \in Params, ParamsOK, NEW v \in Vals
  PROVE  v % prm.N \in Nat /\ v % prm.N < prm.N
<1>1. prm.N \in Nat \ {0} /\ v \in Nat
  BY Layout, SmixAssumption
<1>2. v % prm.N \in 0 .. prm.N - 1
  BY <1>1, Division
<1> QED
  BY <1>1, <1>2

LEMMA SecondStartStep ==
  ASSUME CallInv, Framed, NEW pass \in Mixer, NEW count \in 0 .. UintLimit - 1,
         smix2_start(pass, count)
  PROVE  CallInv'
<1>1. /\ pc \in Mixer /\ pc \in Passes /\ pc' = pc /\ nloop' = count /\ UNCHANGED ctx
      /\ at' \in {"read_first", "first"} /\ (at' = "read_first" => IsOld)
      /\ x' = 0 /\ n' = 0 /\ i' = 0 /\ vj' = 0
      /\ Access(Blocks(0, B_size), X2, Tmp, TRUE) /\ UNCHANGED prm
  BY DEF smix2_start, Mixer, Passes, Framed
<1>2. j' \in Nat /\ j' < prm.N
  BY <1>1, PassFacts, Masked DEF smix2_start
<1>3. written' \subseteq Nat /\ faults' \subseteq {"bounds", "stale", "alias"}
  BY <1>1, BlockSets, AccessType DEF CallInv
<1>4. CtxInv' /\ ctx' \in [S0 : Nat, S1 : Nat, S2 : Nat, w : Nat]
  BY <1>1, CtxKept
<1>5. TypeOK' /\ ParamInv'
  BY <1>1, <1>2, <1>3, <1>4, MixTypes
<1>6. LoopInv'
  BY <1>1, <1>2, RowsKept DEF LoopInv, Filler, Mixer, Passes
<1> QED
  BY <1>4, <1>5, <1>6 DEF CallInv

\* One blockmix function of smix2, whichever.
LEMMA Smix2Step ==
  ASSUME CallInv, Framed, pc \in Mixer, UNCHANGED <<pc, x, n, i, vj>>,
         \E v \in Vals : j' = v % prm.N, nloop' \in 0 .. UintLimit - 1,
         at' \in {"first", "second", "read_first", "read_second", "store"},
         at' \in {"read_first", "read_second"} => IsOld,
         NEW reads, NEW writes \in SUBSET Nat, NEW apart,
         Access(reads, writes \cup SWrites(s), {}, apart), Pwx(s)
  PROVE  CallInv'
<1>1. UNCHANGED prm /\ pc \in Passes
  BY DEF Framed, Mixer, Passes
<1>2. j' \in Nat /\ j' < prm.N
  BY <1>1, PassFacts, Masked
<1>3. written' \subseteq Nat /\ faults' \subseteq {"bounds", "stale", "alias"}
  <2>1. writes \cup SWrites(s) \in SUBSET Nat
    BY <1>1, PassFacts, BlockSets
  <2> QED
    BY <2>1, AccessType DEF CallInv
<1>4. CtxInv' /\ ctx' \in [S0 : Nat, S1 : Nat, S2 : Nat, w : Nat]
  BY <1>1, PassFacts, CtxKept
<1>5. TypeOK' /\ ParamInv'
  <2>1. x' \in Nat /\ n' \in Nat /\ i' \in Nat /\ vj' \in Nat
    BY DEF CallInv, TypeOK
  <2> QED
    BY <1>1, <1>2, <1>3, <1>4, <2>1, MixTypes
<1>6. LoopInv'
  BY <1>1, <1>2, RowsKept DEF LoopInv, Filler, Mixer, Passes
<1> QED
  BY <1>4, <1>5, <1>6 DEF CallInv

LEMMA MixStep ==
  ASSUME CallInv, Framed, NEW pass \in Mixer, smix2_mix(pass)
  PROVE  CallInv'
<1>1. /\ pc \in Mixer /\ pc \in Passes /\ UNCHANGED <<pc, x, n, i, vj>>
      /\ \E v \in Vals : j' = v % prm.N
      /\ at' \in {"first", "second", "store"}
      /\ Access(X2 \cup Row(j) \cup SReads, X2 \cup Row(j) \cup SWrites(s), {},
                X2 \cap Row(j) = {})
      /\ Pwx(s)
  BY DEF smix2_mix, blockmix_xor_save, Mixer, Passes
<1>2. nloop' \in 0 .. UintLimit - 1
  <2>1. nloop \in 0 .. UintLimit - 1 /\ UintLimit \in Nat /\ 2 \in 0 .. UintLimit - 1
    BY <1>1, TurnsFit, SmixAssumption DEF CallInv, TypeOK
  <2>2. (nloop + UintLimit - 2) % UintLimit \in 0 .. UintLimit - 1
    BY <2>1, Division
  <2> QED
    BY <2>1, <2>2 DEF smix2_mix
<1>3. X2 \cup Row(j) \in SUBSET Nat
  BY <1>1, BlockSets DEF CallInv, TypeOK
<1> QED
  BY <1>1, <1>2, <1>3, Smix2Step

LEMMA ReadStep ==
  ASSUME CallInv, Framed, NEW pass \in Mixer, smix2_read(pass)
  PROVE  CallInv'
<1>1. /\ pc \in Mixer /\ pc \in Passes /\ UNCHANGED <<pc, x, n, i, vj>>
      /\ \E v \in Vals : j' = v % prm.N
      /\ nloop' \in 0 .. UintLimit - 1
  BY DEF smix2_read, Mixer, Passes, CallInv, TypeOK
<1>2. IsOld
  BY <1>1 DEF smix2_read, CallInv, LoopInv
<1>3. X2 \in SUBSET Nat /\ Y2 \in SUBSET Nat
  BY <1>1, BlockSets
<1>4. CASE at = "read_first" /\ at' = "read_second" /\ blockmix_xor(X2, Row(j), Y2)
  BY <1>1, <1>2, <1>3, <1>4, Smix2Step DEF blockmix_xor
<1>5. CASE at = "read_second" /\ at' = "store" /\ blockmix_xor(Y2, Row(j), X2)
  BY <1>1, <1>2, <1>3, <1>5, Smix2Step DEF blockmix_xor
<1> QED
  BY <1>4, <1>5 DEF smix2_read

LEMMA StoreStep ==
  ASSUME CallInv, Framed, NEW pass \in Mixer, NEW next \in {"smix2_ro", "final"},
         smix2_store(pass, next)
  PROVE  CallInv'
<1>1. /\ pc \in Mixer /\ pc \in Passes /\ pc' = next /\ at' = "start" /\ j' = 0 /\ nloop' = 0
      /\ UNCHANGED <<x, n, i, vj, ctx>> /\ UNCHANGED prm
      /\ Access(X2, Blocks(0, B_size), Tmp, TRUE)
  BY DEF smix2_store, Mixer, Passes, Framed
<1>2. written' \subseteq Nat /\ faults' \subseteq {"bounds", "stale", "alias"}
  BY <1>1, BlockSets, AccessType DEF CallInv
<1>3. ctx' \in [S0 : Nat, S1 : Nat, S2 : Nat, w : Nat]
  BY <1>1 DEF CallInv, TypeOK
<1>4. CtxInv'
  <2>1. CASE next = "final"
    BY <1>1, <2>1 DEF CtxInv, Passes
  <2>2. CASE next = "smix2_ro"
    BY <1>1, <2>2, CtxKept DEF Passes
  <2> QED
    BY <2>1, <2>2
<1>5. nloop' \in 0 .. UintLimit - 1
  BY <1>1, TurnsFit, SmixAssumption
<1>6. TypeOK' /\ ParamInv'
  BY <1>1, <1>2, <1>3, <1>5, MixTypes DEF CallInv, TypeOK, Passes
<1>7. LoopInv'
  BY <1>1 DEF LoopInv, Filler, Mixer, Passes
<1> QED
  BY <1>4, <1>6, <1>7 DEF CallInv

\* A step of smix, by the one that it is.
LEMMA MixSteps ==
  ASSUME Mix
  PROVE  /\ Framed
         /\ \/ \E pass \in Filler : \/ smix1_start(pass) \/ smix1_first(pass)
                                    \/ smix1_second(pass) \/ smix1_double(pass)
                                    \/ smix1_last(pass)
            \/ smix1_out("smix1_S", "smix1") \/ smix1_out("smix1", "smix2")
            \/ smix2_start("smix2", Nloop_rw) \/ smix2_start("smix2_ro", 2)
            \/ \E pass \in Mixer : \/ smix2_mix(pass) \/ smix2_read(pass)
                                   \/ smix2_store(pass, "final")
                                   \/ smix2_store(pass, "smix2_ro")
<1>1. Framed
  BY DEF Mix, Framed
<1>2. CASE smix1("smix1_S", "smix1")
  BY <1>1, <1>2, Zenon DEF smix1, Filler
<1>3. CASE smix1("smix1", "smix2")
  BY <1>1, <1>3, Zenon DEF smix1, Filler
<1>4. ASSUME NEW next \in {"smix2_ro", "final"}, smix2("smix2", Nloop_rw, next)
      PROVE  \/ smix2_start("smix2", Nloop_rw)
             \/ \E pass \in Mixer : \/ smix2_mix(pass) \/ smix2_read(pass)
                                    \/ smix2_store(pass, "final")
                                    \/ smix2_store(pass, "smix2_ro")
  BY <1>4 DEF smix2, Mixer
<1>5. CASE smix2("smix2_ro", 2, "final")
  BY <1>1, <1>5, Zenon DEF smix2, Mixer
<1> QED
  BY <1>1, <1>2, <1>3, <1>4, <1>5 DEF Mix, smix

-----------------------------------------------------------------------------
LEMMA CallInit == Init => CallInv
<1> SUFFICES ASSUME Init PROVE CallInv
  OBVIOUS
<1>1. TypeOK
  <2>1. RegionTypeOK
    BY DEF Init, init_region, EmptyRegion, RegionTypeOK, Null
  <2>2. 0 \in 0 .. UintLimit - 1
    BY SmixAssumption
  <2> QED
    BY <2>1, <2>2 DEF Init, TypeOK, NoContext
<1>2. ParamInv /\ LoopInv /\ CtxInv
  BY DEF Init, ParamInv, LoopInv, CtxInv, Passes, Filler, Mixer
<1> QED
  BY <1>1, <1>2 DEF CallInv

LEMMA CallStep == CallInv /\ RegionInv' /\ [Next]_vars => CallInv'
<1> SUFFICES ASSUME CallInv, RegionInv', [Next]_vars PROVE CallInv'
  OBVIOUS
<1>1. TypeOK /\ RegionTypeOK' /\ prm' \in Params
  BY DEF CallInv, RegionInv
<1>2. CASE Call
  BY <1>1, <1>2 DEF Call, CallInv, TypeOK, ParamInv, LoopInv, CtxInv, Passes, Filler, Mixer
<1>3. CASE Check \/ Free \/ Alloc
  <2>1. /\ UNCHANGED <<prm, smixVars, hash>> /\ pc \in {"check", "free", "alloc"}
        /\ pc' \in {"return", "free", "alloc", "derive"}
        /\ dst' \in {dst, "ff"} /\ ret' \in {ret, -1}
        /\ pc' # "return" => ParamsOK
    BY <1>3 DEF Check, Free, Alloc, Fail, CallInv, ParamInv
  <2>2. TypeOK'
    BY <1>1, <2>1 DEF TypeOK, smixVars
  <2>3. ParamInv'
    BY <2>1, ParamsKept DEF ParamInv, Passes
  <2>4. LoopInv' /\ CtxInv'
    BY <2>1 DEF smixVars, CallInv, LoopInv, CtxInv, Passes, Filler, Mixer
  <2> QED
    BY <2>2, <2>3, <2>4 DEF CallInv
<1>4. CASE Derive
  <2>1. /\ pc = "derive" /\ pc' = "smix1_S" /\ UNCHANGED prm
        /\ UNCHANGED <<at, x, n, i, j, vj, nloop, callVars>>
        /\ ctx' = [S0 |-> 0, S1 |-> Third, S2 |-> 2 * Third, w |-> 0]
        /\ Access({}, Blocks(0, IF IsOld THEN B_size ELSE 2), {}, TRUE)
    BY <1>4 DEF Derive
  <2>2. ParamsOK
    BY <2>1 DEF CallInv, ParamInv
  <2>3. Blocks(0, IF IsOld THEN B_size ELSE 2) \in SUBSET Nat /\ Third \in Nat
    BY <1>1, <2>2, Layout DEF TypeOK, Blocks
  <2>4. written' \subseteq Nat /\ faults' \subseteq {"bounds", "stale", "alias"}
    BY <1>1, <2>1, <2>3, AccessType
  <2>5. TypeOK'
    BY <1>1, <2>1, <2>3, <2>4 DEF TypeOK, callVars, Passes
  <2>6. ParamInv'
    BY <2>1, <2>2, ParamsKept DEF ParamInv
  <2>7. LoopInv'
    BY <2>1 DEF CallInv, LoopInv, Passes, Filler, Mixer
  <2>8. CtxInv'
    BY <2>1, SmixAssumption DEF CtxInv, Passes, Thirds, Third, IsOld
  <2> QED
    BY <2>5, <2>6, <2>7, <2>8 DEF CallInv
<1>5. CASE Final
  <2>1. /\ pc = "final" /\ pc' = "return" /\ dst' = "hash" /\ ret' = 0
        /\ ctx' = NoContext /\ UNCHANGED <<at, x, n, i, j, vj, nloop, hash>>
        /\ Access(IF IsOld THEN Blocks(0, B_size) ELSE {B_size - 1}, {}, {}, TRUE)
    BY <1>5 DEF Final
  <2>2. written' \subseteq Nat /\ faults' \subseteq {"bounds", "stale", "alias"}
    BY <1>1, <2>1, AccessType
  <2>3. TypeOK'
    BY <1>1, <2>1, <2>2 DEF TypeOK, NoContext
  <2>4. ParamInv' /\ LoopInv' /\ CtxInv'
    BY <2>1 DEF ParamInv, CallInv, LoopInv, CtxInv, Passes, Filler, Mixer
  <2> QED
    BY <2>3, <2>4 DEF CallInv
<1>6. CASE Mix
  <2>1. /\ Framed
        /\ \/ \E pass \in Filler : \/ smix1_start(pass) \/ smix1_first(pass)
                                   \/ smix1_second(pass) \/ smix1_double(pass)
                                   \/ smix1_last(pass)
           \/ smix1_out("smix1_S", "smix1") \/ smix1_out("smix1", "smix2")
           \/ smix2_start("smix2", Nloop_rw) \/ smix2_start("smix2_ro", 2)
           \/ \E pass \in Mixer : \/ smix2_mix(pass) \/ smix2_read(pass)
                                  \/ smix2_store(pass, "final")
                                  \/ smix2_store(pass, "smix2_ro")
    BY <1>6, MixSteps
  <2>2. pc \in Passes
    BY <1>6, MixFrame
  <2>3. ASSUME NEW pass \in Filler,
               \/ smix1_start(pass) \/ smix1_first(pass) \/ smix1_second(pass)
               \/ smix1_double(pass) \/ smix1_last(pass)
        PROVE  CallInv'
    BY <2>1, <2>3, StartStep, FirstStep, SecondStep, DoubleStep, LastStep
  <2>4. CASE smix1_out("smix1_S", "smix1") \/ smix1_out("smix1", "smix2")
    BY <2>1, <2>4, OutStep DEF Filler
  <2>5. CASE smix2_start("smix2", Nloop_rw) \/ smix2_start("smix2_ro", 2)
    BY <2>1, <2>2, <2>5, TurnsFit, SecondStartStep DEF Mixer
  <2>6. ASSUME NEW pass \in Mixer,
               \/ smix2_mix(pass) \/ smix2_read(pass)
               \/ smix2_store(pass, "final") \/ smix2_store(pass, "smix2_ro")
        PROVE  CallInv'
    BY <2>1, <2>6, MixStep, ReadStep, StoreStep
  <2> QED
    BY <2>1, <2>3, <2>4, <2>5, <2>6
<1>7. CASE GoReturn \/ HashReturn
  <2>1. /\ pc' = "idle" /\ UNCHANGED <<prm, smixVars, dst, ret>> /\ hash' \in {dst, "ff"}
        /\ pc = "return"
    BY <1>7 DEF GoReturn, HashReturn
  <2>2. TypeOK'
    BY <1>1, <2>1 DEF TypeOK, smixVars
  <2>3. ParamInv' /\ LoopInv' /\ CtxInv'
    BY <2>1 DEF smixVars, ParamInv, CallInv, LoopInv, CtxInv, Passes, Filler, Mixer
  <2> QED
    BY <2>2, <2>3 DEF CallInv
<1>8. CASE FreeLocal
  <2>1. pc = "idle" /\ pc' = "idle" /\ UNCHANGED <<prm, smixVars, callVars>>
    BY <1>8 DEF FreeLocal
  <2>2. TypeOK'
    BY <1>1, <2>1 DEF TypeOK, smixVars, callVars
  <2>3. ParamInv' /\ LoopInv' /\ CtxInv'
    BY <2>1 DEF smixVars, ParamInv, CallInv, LoopInv, CtxInv, Passes, Filler, Mixer
  <2> QED
    BY <2>2, <2>3 DEF CallInv
<1>9. CASE UNCHANGED vars
  <2>1. /\ UNCHANGED <<prm, pc, at, x, n, i, j, vj, nloop, ctx, written, faults>>
        /\ UNCHANGED <<dst, ret, hash>>
    BY <1>9 DEF vars
  <2>2. TypeOK'
    BY <1>1, <2>1 DEF TypeOK
  <2>3. Rows' = Rows /\ IsOld' = IsOld /\ Bound' = Bound
    BY <2>1, RowsKept DEF Bound
  <2>4. ParamInv' /\ CtxInv'
    BY <2>1, <2>3, ParamsKept DEF ParamInv, CallInv, CtxInv
  <2>5. LoopInv'
    BY <2>1, <2>3 DEF CallInv, LoopInv
  <2> QED
    BY <2>2, <2>4, <2>5 DEF CallInv
<1> QED
  BY <1>2, <1>3, <1>4, <1>5, <1>6, <1>7, <1>8, <1>9 DEF Next, Compute
-----------------------------------------------------------------------------
(***************************************************************************)
(* What a call reads, writes and leaves written.                           *)
(***************************************************************************)
All == Blocks(0, region.aligned_size)

LEMMA LayoutKept ==
  ASSUME UNCHANGED prm
  PROVE  /\ IsOld' = IsOld /\ B_size' = B_size /\ XYBase' = XYBase /\ SArea' = SArea
         /\ Loaded' = Loaded /\ prm.N' = prm.N
         /\ \A k \in Nat : SRow(k)' = SRow(k) /\ VRow(k)' = VRow(k)
<1>1. IsOld' = IsOld /\ B_size' = B_size /\ prm.N' = prm.N
  BY DEF IsOld, B_size
<1>2. VBase' = VBase /\ XYBase' = XYBase /\ Loaded' = Loaded
  BY <1>1 DEF VBase, XYBase, V_size, Loaded
<1>3. SBase' = SBase /\ Sbytes' = Sbytes
  BY <1>1, <1>2 DEF SBase, XY_size, Sbytes
<1>4. SArea' = SArea
  BY <1>3 DEF SArea, Blocks
<1>5. \A k \in Nat : SRow(k)' = SRow(k) /\ VRow(k)' = VRow(k)
  BY <1>1, <1>2, <1>3 DEF SRow, VRow, Blocks
<1> QED
  BY <1>1, <1>2, <1>4, <1>5

\* The region has room for everything, and the four areas are apart.
LEMMA Room ==
  ASSUME CallInv, RegionInv, pc \in Passes \cup {"derive", "final"}
  PROVE  /\ prm \in Params /\ ParamsOK
         /\ Blocks(0, 2) \subseteq Blocks(0, B_size) /\ Blocks(0, B_size) \subseteq All
         /\ \A k \in 0 .. prm.N - 1 : VRow(k) \subseteq All
         /\ \A k \in 0 .. Sbytes \div 2 - 1 : SRow(k) \subseteq SArea
         /\ SArea \subseteq All
         /\ Blocks(XYBase, B_size) \subseteq All /\ XYBase + B_size \in All
         /\ IsOld => Blocks(XYBase + B_size, B_size) \subseteq All
         /\ Blocks(0, B_size) \cap Blocks(XYBase, B_size) = {}
         /\ Blocks(0, B_size) \cap SArea = {}
         /\ XYBase + B_size \notin Blocks(0, B_size) \cup SArea \cup Blocks(XYBase, B_size)
         /\ \A k \in 0 .. prm.N - 1 :
              /\ XYBase + B_size \notin VRow(k)
              /\ VRow(k) \cap Blocks(XYBase, B_size) = {}
              /\ IsOld => VRow(k) \cap Blocks(XYBase + B_size, B_size) = {}
<1>1. prm \in Params /\ ParamsOK
  BY DEF CallInv, TypeOK, ParamInv
<1>2. region.aligned_size \in Nat /\ region.aligned_size >= need
  BY DEF RegionInv, RegionTypeOK
<1>3. /\ Blocks(0, 2) \subseteq Blocks(0, B_size)
      /\ Blocks(0, B_size) \subseteq All
      /\ \A k \in 0 .. prm.N - 1 : VRow(k) \subseteq B_size .. XYBase - 1
      /\ B_size .. XYBase - 1 \subseteq All
      /\ Blocks(XYBase, B_size) \subseteq XYBase .. SBase - 1
      /\ XYBase + B_size \in XYBase .. SBase - 1
      /\ IsOld => Blocks(XYBase + B_size, B_size) \subseteq XYBase .. SBase - 1
      /\ XYBase .. SBase - 1 \subseteq All
      /\ \A k \in 0 .. Sbytes \div 2 - 1 : SRow(k) \subseteq SArea
      /\ SArea \subseteq All
      /\ SArea = SBase .. SBase + Sbytes - 1
  BY <1>1, <1>2, Areas DEF All
<1>4. /\ \A k \in 0 .. prm.N - 1 : VRow(k) \subseteq All
      /\ Blocks(XYBase, B_size) \subseteq All /\ XYBase + B_size \in All
      /\ IsOld => Blocks(XYBase + B_size, B_size) \subseteq All
  BY <1>3
<1>5. /\ B_size \in Nat /\ XYBase \in Nat /\ SBase \in Nat
      /\ Blocks(0, B_size) = 0 .. B_size - 1
      /\ Blocks(XYBase, B_size) = XYBase .. XYBase + B_size - 1
      /\ XYBase >= B_size /\ SBase >= XYBase
  <2>1. B_size \in Nat /\ XYBase \in Nat /\ SBase \in Nat /\ XYBase >= B_size /\ SBase >= XYBase
    BY <1>1, Layout
  <2>2. 0 + B_size - 1 = B_size - 1
    BY <2>1
  <2> QED
    BY <2>1, <2>2 DEF Blocks
<1>6. /\ Blocks(0, B_size) \cap Blocks(XYBase, B_size) = {}
      /\ Blocks(0, B_size) \cap SArea = {}
      /\ XYBase + B_size \notin Blocks(0, B_size) \cup SArea \cup Blocks(XYBase, B_size)
  BY <1>3, <1>5
<1>7. ASSUME NEW k \in 0 .. prm.N - 1
      PROVE  /\ XYBase + B_size \notin VRow(k)
             /\ VRow(k) \cap Blocks(XYBase, B_size) = {}
             /\ IsOld => VRow(k) \cap Blocks(XYBase + B_size, B_size) = {}
  <2>1. \A b \in VRow(k) : b <= XYBase - 1 /\ b \in Int
    BY <1>3, <1>5
  <2>2. \A b \in XYBase .. SBase - 1 : b >= XYBase
    BY <1>5
  <2> QED
    BY <1>3, <1>5, <2>1, <2>2
<1> QED
  BY <1>1, <1>3, <1>4, <1>6, <1>7

\* The rows of the pass at work: in the region, and apart from one another.
LEMMA RowsSound ==
  ASSUME CallInv, RegionInv, pc \in Passes
  PROVE  /\ \A k \in 0 .. Rows - 1 : Row(k) \subseteq All
         /\ \A k, m \in 0 .. Rows - 1 : k < m => Row(k) \cap Row(m) = {}
         /\ pc = "smix1_S" =>
              /\ \A k \in Nat : Row(k) = SRow(k)
              /\ Rows = Sbytes \div 2
         /\ pc # "smix1_S" => (\A k \in Nat : Row(k) = VRow(k)) /\ Rows = prm.N
<1>1. prm \in Params /\ ParamsOK /\ CtxInv /\ Rows \in Nat
  BY PassFacts
<1>2. /\ pc = "smix1_S" => (\A k \in Nat : Row(k) = SRow(k)) /\ Rows = Sbytes \div 2
      /\ pc # "smix1_S" => (\A k \in Nat : Row(k) = VRow(k)) /\ Rows = prm.N
  BY <1>1, RowsOfS, RowsOfV DEF CtxInv
<1>3. ASSUME NEW k \in 0 .. Rows - 1 PROVE Row(k) \subseteq All
  <2>1. k \in Nat
    OBVIOUS
  <2>2. CASE pc = "smix1_S"
    <3>1. Row(k) = SRow(k) /\ SRow(k) \subseteq SArea
      BY <1>2, <2>1, <2>2, Room
    <3> QED
      BY <3>1, Room
  <2>3. CASE pc # "smix1_S"
    BY <1>2, <2>1, <2>3, Room
  <2> QED
    BY <2>2, <2>3
<1>4. ASSUME NEW k \in 0 .. Rows - 1, NEW m \in 0 .. Rows - 1, k < m
      PROVE  Row(k) \cap Row(m) = {}
  BY <1>1, <1>2, <1>4, RowsApart
<1> QED
  BY <1>2, <1>3, <1>4

\* What PWXFORM looks up has been written, what it writes is in the region.
LEMMA LookUpsSound ==
  ASSUME CallInv, RegionInv, MemInv, pc \in Passes, NEW count \in Nat
  PROVE  /\ SReads \subseteq written /\ SReads \subseteq All /\ SReads \subseteq SArea
         /\ SWrites(count) \subseteq All /\ SWrites(count) \subseteq SArea
<1>1. /\ SReads \subseteq SArea /\ SWrites(count) \subseteq SArea
      /\ OnS => SReads = {} /\ SWrites(count) = {}
  BY PassFacts, LookUps
<1>2. SArea \subseteq All
  BY Room
<1>3. ~ OnS => SArea \subseteq written
  BY DEF MemInv, WrittenInv, OnS
<1> QED
  BY <1>1, <1>2, <1>3
\* While rows are filled, all up to row x have been written.
LEMMA RowsWritten ==
  ASSUME CallInv, RegionInv, MemInv, pc \in Filler, at # "start"
  PROVE  \A k \in 0 .. x : Row(k) \subseteq written
<1>1. pc \in Passes /\ x \in Nat
  BY DEF CallInv, TypeOK, Filler, Passes
<1>2. CASE pc = "smix1_S"
  BY <1>1, <1>2, RowsSound DEF MemInv, WrittenInv
<1>3. CASE pc = "smix1"
  BY <1>1, <1>3, RowsSound DEF MemInv, WrittenInv
<1> QED
  BY <1>2, <1>3 DEF Filler

LEMMA RowsStayWritten ==
  ASSUME CallInv, RegionInv, MemInv, pc \in Filler, UNCHANGED <<pc, prm>>, x' \in Nat,
         written \subseteq written', \A k \in 0 .. x' : Row(k) \subseteq written', at' # "start"
  PROVE  WrittenInv'
<1>1. pc \in Passes
  BY DEF Filler, Passes
<1>2. pc' \notin Mixer /\ pc' # "final"
  BY DEF Filler, Mixer
<1>3. /\ pc = "smix1_S" => \A k \in 0 .. x' : SRow(k)' \subseteq written'
      /\ pc = "smix1" => \A k \in 0 .. x' : VRow(k)' \subseteq written'
  BY <1>1, RowsSound, LayoutKept
<1>4. Blocks(0, Loaded) \subseteq written /\ Loaded' = Loaded
  BY LayoutKept DEF MemInv, WrittenInv
<1>5. Blocks(0, Loaded)' \subseteq written'
  BY <1>4 DEF Blocks
<1>6. pc = "smix1" => SArea \subseteq written
  BY DEF MemInv, WrittenInv, Passes
<1>7. pc = "smix1" => SArea' \subseteq written'
  BY <1>6, LayoutKept
<1> QED
  BY <1>2, <1>3, <1>5, <1>7 DEF WrittenInv, Filler, Passes

LEMMA StartSound ==
  ASSUME CallInv, RegionInv, MemInv, Framed, NEW pass \in Filler, smix1_start(pass)
  PROVE  MemInv'
<1> DEFINE loaded == IF IsOld THEN s ELSE 2
           calls == (IF IsOld THEN 0 ELSE 2 * (R - 1)) + 2 * s
           reads == Blocks(0, loaded) \cup SReads
           writes == Row(0) \cup Row(1) \cup Row(2) \cup SWrites(calls)
<1>1. /\ pc \in Filler /\ pc \in Passes /\ UNCHANGED <<pc, prm>> /\ at' = "loop" /\ x' = 2
      /\ Access(reads, writes, {}, TRUE)
  BY DEF smix1_start, Filler, Passes, Framed
<1>2. calls \in Nat /\ Rows \in Nat /\ Rows >= 4
  BY <1>1, PassFacts
<1>3. Blocks(0, loaded) \subseteq Blocks(0, Loaded) /\ Blocks(0, loaded) \subseteq All
  <2>1. CASE pc = "smix1_S"
    <3>1. loaded = 2
      BY <1>1, <2>1, PassFacts, RowsOfS DEF CtxInv
    <3> QED
      BY <1>1, <3>1, Room DEF Loaded
  <2>2. CASE pc # "smix1_S"
    <3>1. loaded = Loaded
      BY <1>1, <2>2, PassFacts, RowsOfV DEF Loaded
    <3> QED
      BY <1>1, <3>1, Room DEF Loaded
  <2> QED
    BY <2>1, <2>2
<1>4. reads \subseteq written /\ reads \subseteq All
  <2>1. Blocks(0, Loaded) \subseteq written
    BY <1>1 DEF MemInv, WrittenInv
  <2> QED
    BY <1>1, <1>2, <1>3, <2>1, LookUpsSound
<1>5. writes \subseteq All
  <2>1. Row(0) \subseteq All /\ Row(1) \subseteq All /\ Row(2) \subseteq All
    BY <1>1, <1>2, RowsSound
  <2> QED
    BY <1>1, <1>2, <2>1, LookUpsSound
<1> HIDE DEF reads, calls
<1>6. faults' = {} /\ written' = written \cup writes
  <2>1. faults = {}
    BY DEF MemInv
  <2> HIDE DEF writes
  <2> QED
    BY <1>1, <1>4, <1>5, <2>1 DEF Access, All
<1>7. \A k \in 0 .. x' : Row(k) \subseteq written'
  BY <1>1, <1>6
<1>8. WrittenInv'
  <2> HIDE DEF writes
  <2> QED
    BY <1>1, <1>6, <1>7, RowsStayWritten
<1> QED
  BY <1>6, <1>8 DEF MemInv

LEMMA MixIntoSound ==
  ASSUME CallInv, RegionInv, MemInv, Framed, pc \in Filler, at # "start",
         x \in Nat, x + 1 < Rows, NEW row \in 0 .. x - 1,
         NEW next, next \in {"loop", "second", "out"}, MixInto(row, next)
  PROVE  MemInv'
<1> DEFINE reads == Row(x) \cup Row(row) \cup SReads
           writes == Row(x + 1) \cup SWrites(s)
<1>1. /\ pc \in Passes /\ UNCHANGED <<pc, prm>> /\ at' # "start" /\ x' = x + 1
      /\ Access(reads, writes, {}, (Row(x) \cup Row(row)) \cap Row(x + 1) = {})
  BY DEF MixInto, blockmix_xor, Filler, Passes, Framed
<1>2. s \in Nat /\ Rows \in Nat
  BY <1>1, PassFacts
<1>3. \A k \in 0 .. x : Row(k) \subseteq written
  BY RowsWritten
<1>4. Row(x) \subseteq All /\ Row(row) \subseteq All /\ Row(x + 1) \subseteq All
  BY <1>1, <1>2, RowsSound
<1>5. reads \subseteq written /\ reads \subseteq All
  BY <1>1, <1>2, <1>3, <1>4, LookUpsSound
<1>6. writes \subseteq All
  BY <1>1, <1>2, <1>4, LookUpsSound
<1>7. (Row(x) \cup Row(row)) \cap Row(x + 1) = {}
  BY <1>1, <1>2, RowsSound
<1>8. faults' = {} /\ written' = written \cup writes
  <2>1. faults = {}
    BY DEF MemInv
  <2> HIDE DEF reads, writes
  <2> QED
    BY <1>1, <1>5, <1>6, <1>7, <2>1 DEF Access, All
<1>9. \A k \in 0 .. x' : Row(k) \subseteq written'
  BY <1>1, <1>3, <1>8
<1>10. WrittenInv'
  <2> HIDE DEF writes
  <2> QED
    BY <1>1, <1>8, <1>9, RowsStayWritten
<1> QED
  BY <1>8, <1>10 DEF MemInv

\* Both calls of a turn mix in a row before the one they mix it into.
LEMMA TurnSound ==
  ASSUME CallInv, RegionInv, MemInv, Framed, NEW pass \in Filler,
         smix1_first(pass) \/ smix1_second(pass) \/ smix1_last(pass)
  PROVE  MemInv'
<1>1. CASE smix1_first(pass)
  <2>1. /\ pc \in Filler /\ at = "loop" /\ n < Rows /\ i < Bound
        /\ MixInto((j % n) + i - 1, "second")
    BY <1>1 DEF smix1_first
  <2>2. x = n + i - 1
    BY <2>1 DEF CallInv, LoopInv
  <2>3. x + 1 < Rows /\ (j % n) + i - 1 \in 0 .. x - 1 /\ x \in Nat
    BY <2>1, <2>2, InLoop DEF Bound
  <2> QED
    BY <2>1, <2>3, MixIntoSound
<1>2. CASE smix1_second(pass)
  <2>1. pc \in Filler /\ at = "second" /\ MixInto((j % n) + i, "loop")
    BY <1>2 DEF smix1_second
  <2>2. n < Rows /\ x = n + i /\ i < Bound
    BY <2>1, InLoop DEF CallInv, LoopInv
  <2>3. x + 1 < Rows /\ (j % n) + i \in 0 .. x - 1 /\ x \in Nat
    BY <2>1, <2>2, InLoop DEF Bound
  <2> QED
    BY <2>1, <2>3, MixIntoSound
<1>3. CASE smix1_last(pass)
  <2>1. /\ pc \in Filler /\ at = "loop" /\ n >= Rows /\ n' = n \div 2
        /\ MixInto((j % n') + Rows - 2 - n', "out")
    BY <1>3 DEF smix1_last
  <2>2. x = Rows - 2 /\ n' >= 2 /\ n' <= Rows - 2 /\ n' \in Nat /\ j \in Nat /\ Rows \in Nat
    BY <2>1, InLoop DEF CallInv, LoopInv
  <2>3. x + 1 < Rows /\ (j % n') + Rows - 2 - n' \in 0 .. x - 1 /\ x \in Nat
    BY <2>1, <2>2
  <2> QED
    BY <2>1, <2>3, MixIntoSound
<1> QED
  BY <1>1, <1>2, <1>3

LEMMA DoubleSound ==
  ASSUME CallInv, RegionInv, MemInv, Framed, NEW pass \in Filler, smix1_double(pass)
  PROVE  MemInv'
<1>1. /\ pc \in Filler /\ at = "loop" /\ UNCHANGED <<pc, prm>> /\ at' = at /\ x' = x
      /\ written' = written /\ faults' = faults
  BY DEF smix1_double, Framed
<1>2. x' \in Nat
  BY <1>1 DEF CallInv, TypeOK
<1>3. \A k \in 0 .. x' : Row(k) \subseteq written'
  BY <1>1, RowsWritten
<1>4. WrittenInv'
  BY <1>1, <1>2, <1>3, RowsStayWritten
<1> QED
  BY <1>1, <1>4 DEF MemInv
\* The result of smix1 goes to XY and to B; all rows have been written by now.
LEMMA OutOfS ==
  ASSUME CallInv, RegionInv, MemInv, Framed, smix1_out("smix1_S", "smix1")
  PROVE  MemInv'
<1> DEFINE row == (j % n) + Rows - 1 - n
           reads == Row(x) \cup Row(row) \cup SReads
           writes == X2 \cup Blocks(0, s) \cup SWrites(s)
<1>1. /\ pc = "smix1_S" /\ pc \in Filler /\ pc \in Passes /\ at = "out" /\ UNCHANGED prm
      /\ pc' = "smix1" /\ at' = "start"
      /\ Access(reads, writes, Tmp, (Row(x) \cup Row(row)) \cap X2 = {})
  BY DEF smix1_out, Filler, Passes, Framed
<1>2. /\ prm \in Params /\ ParamsOK
      /\ x = Rows - 1 /\ n \in 2 .. Rows - 2 /\ Rows \in Nat /\ j \in Nat
      /\ s = 2 /\ Rows = Sbytes \div 2 /\ X2 = Blocks(XYBase, 2) /\ Tmp = {XYBase + 2}
      /\ \A k \in Nat : Row(k) = SRow(k)
  BY <1>1, PassFacts, RowsOfS DEF CallInv, CtxInv, LoopInv, TypeOK
<1>3. row \in 0 .. Rows - 1 /\ x \in 0 .. Rows - 1
  BY <1>2
<1> HIDE DEF row
<1>4. /\ B_size \in Nat /\ B_size >= 2 /\ XYBase \in Nat /\ XYBase >= B_size
      /\ SBase \in Nat /\ SBase >= XYBase + B_size + 1 /\ Sbytes \in Nat /\ Sbytes % 4 = 0
  BY <1>2, Layout
<1>5. /\ \A k \in 0 .. Rows - 1 : Row(k) \subseteq SArea
      /\ SArea = SBase .. SBase + Sbytes - 1
  BY <1>1, <1>2, Room DEF SArea, Blocks
<1>6. reads \subseteq written /\ reads \subseteq All
  BY <1>1, <1>2, <1>3, RowsWritten, RowsSound, LookUpsSound
<1>7. /\ X2 \subseteq Blocks(XYBase, B_size) /\ X2 \cap SArea = {}
      /\ Tmp \subseteq Blocks(XYBase, B_size) \cup {XYBase + B_size}
      /\ Tmp \cap SArea = {} /\ Tmp \cap Blocks(0, B_size) = {}
  BY <1>2, <1>4, <1>5 DEF Blocks
<1>8. writes \subseteq All /\ Tmp \subseteq All
  <2>1. SWrites(s) \subseteq All
    BY <1>1, <1>2, LookUpsSound
  <2>2. Blocks(0, s) \subseteq All
    BY <1>1, <1>2, Room
  <2> QED
    BY <1>1, <1>7, <2>1, <2>2, Room
<1>9. (Row(x) \cup Row(row)) \cap X2 = {}
  BY <1>3, <1>5, <1>7
<1>10. faults' = {} /\ written' = (written \cup writes) \ Tmp
  <2>1. faults = {}
    BY DEF MemInv
  <2> HIDE DEF reads, writes
  <2> QED
    BY <1>1, <1>6, <1>8, <1>9, <2>1 DEF Access, All
<1>11. Blocks(0, Loaded)' \subseteq written'
  <2>1. Blocks(0, Loaded) \subseteq written
    BY <1>1 DEF MemInv, WrittenInv
  <2>2. Blocks(0, Loaded) \subseteq Blocks(0, B_size)
    BY <1>1, Room DEF Loaded
  <2>3. Blocks(0, Loaded)' = Blocks(0, Loaded)
    BY <1>1, LayoutKept DEF Blocks
  <2> QED
    BY <1>7, <1>10, <2>1, <2>2, <2>3
<1>12. SArea \subseteq written
  <2>1. \A k \in 0 .. Rows - 1 : SRow(k) \subseteq written
    BY <1>1, <1>2, RowsWritten
  <2>2. ASSUME NEW b \in SArea PROVE b \in written
    <3>1. PICK d \in 0 .. Sbytes - 1 : b = SBase + d
      <4>1. b \in SBase .. SBase + Sbytes - 1
        BY <1>5
      <4>2. b - SBase \in 0 .. Sbytes - 1 /\ b = SBase + (b - SBase)
        BY <1>4, <4>1
      <4> QED
        BY <4>2
    <3>2. d \div 2 \in 0 .. Rows - 1 /\ (d = 2 * (d \div 2) \/ d = 2 * (d \div 2) + 1)
      BY <1>2, <1>4
    <3>3. b \in SRow(d \div 2)
      BY <1>4, <3>1, <3>2 DEF SRow, Blocks
    <3> QED
      BY <2>1, <3>2, <3>3
  <2> QED
    BY <2>2
<1>13. SArea' \subseteq written'
  BY <1>1, <1>7, <1>10, <1>12, LayoutKept
<1> QED
  BY <1>1, <1>10, <1>11, <1>13 DEF MemInv, WrittenInv, Filler, Mixer, Passes

LEMMA OutOfV ==
  ASSUME CallInv, RegionInv, MemInv, Framed, smix1_out("smix1", "smix2")
  PROVE  MemInv'
<1> DEFINE row == (j % n) + Rows - 1 - n
           reads == Row(x) \cup Row(row) \cup SReads
           writes == X2 \cup Blocks(0, s) \cup SWrites(s)
<1>1. /\ pc = "smix1" /\ pc \in Filler /\ pc \in Passes /\ at = "out" /\ UNCHANGED prm
      /\ pc' = "smix2" /\ at' = "start"
      /\ Access(reads, writes, Tmp, (Row(x) \cup Row(row)) \cap X2 = {})
  BY DEF smix1_out, Filler, Passes, Framed
<1>2. /\ prm \in Params /\ ParamsOK
      /\ x = Rows - 1 /\ n \in 2 .. Rows - 2 /\ Rows \in Nat /\ j \in Nat /\ s \in Nat
      /\ s = B_size /\ Rows = prm.N /\ X2 = Blocks(XYBase, B_size)
      /\ Tmp = {XYBase + B_size}
      /\ \A k \in Nat : Row(k) = VRow(k)
  BY <1>1, PassFacts, RowsOfV DEF CallInv, LoopInv, TypeOK
<1>3. row \in 0 .. Rows - 1 /\ x \in 0 .. Rows - 1
  BY <1>2
<1> HIDE DEF row
<1>4. reads \subseteq written /\ reads \subseteq All
  BY <1>1, <1>2, <1>3, RowsWritten, RowsSound, LookUpsSound
<1>5. writes \subseteq All /\ Tmp \subseteq All
  BY <1>1, <1>2, LookUpsSound, Room
<1>6. (Row(x) \cup Row(row)) \cap X2 = {}
  <2>1. Row(x) = VRow(x) /\ Row(row) = VRow(row)
    BY <1>2, <1>3
  <2>2. VRow(x) \cap X2 = {} /\ VRow(row) \cap X2 = {}
    BY <1>1, <1>2, <1>3, Room
  <2> QED
    BY <2>1, <2>2
<1>7. faults' = {} /\ written' = (written \cup writes) \ Tmp
  <2>1. faults = {}
    BY DEF MemInv
  <2> HIDE DEF reads, writes
  <2> QED
    BY <1>1, <1>4, <1>5, <1>6, <2>1 DEF Access, All
<1>8. ASSUME NEW k \in 0 .. prm.N - 1 PROVE VRow(k) \subseteq written'
  <2>1. VRow(k) \subseteq written
    BY <1>1, <1>2, RowsWritten
  <2>2. XYBase + B_size \notin VRow(k)
    BY <1>1, Room
  <2> HIDE DEF writes
  <2> QED
    BY <1>2, <1>7, <2>1, <2>2
<1>9. Blocks(0, B_size) \subseteq written' /\ SArea \subseteq written'
  <2>1. SArea \subseteq written
    BY <1>1 DEF MemInv, WrittenInv, Passes
  <2>2. Tmp \cap Blocks(0, B_size) = {} /\ Tmp \cap SArea = {}
    BY <1>1, <1>2, Room
  <2> QED
    BY <1>2, <1>7, <2>1, <2>2
<1>10. /\ \A k \in 0 .. prm'.N - 1 : VRow(k)' \subseteq written'
       /\ Blocks(0, B_size)' \subseteq written' /\ SArea' \subseteq written'
  <2>1. Blocks(0, B_size)' = Blocks(0, B_size)
    BY <1>1, LayoutKept DEF Blocks
  <2> QED
    BY <1>1, <1>2, <1>8, <1>9, <2>1, LayoutKept
<1> QED
  BY <1>1, <1>7, <1>10 DEF MemInv, WrittenInv, Filler, Mixer, Passes

\* A step inside smix2: what was written stays so, except for the one block
\* used to convert.
LEMMA MixerStays ==
  ASSUME CallInv, RegionInv, MemInv, pc \in Mixer, pc' \in Mixer \cup {"final"},
         UNCHANGED prm, NEW writes, NEW scratch, scratch \subseteq {XYBase + B_size},
         written' = (written \cup writes) \ scratch,
         pc' = "final" => Blocks(0, B_size) \subseteq written',
         pc' \in Mixer /\ at' = "start" => Blocks(0, B_size) \subseteq written',
         pc' \in Mixer /\ at' # "start" => Blocks(XYBase, B_size) \subseteq written',
         pc' \in Mixer /\ at' = "read_second" =>
           Blocks(XYBase + B_size, B_size) \subseteq written'
  PROVE  WrittenInv'
<1>1. pc \in Passes \ {"smix1_S"} /\ pc \in Passes /\ pc' \notin Filler
  BY DEF Mixer, Filler, Passes
<1>2. SArea \subseteq written'
  BY <1>1, Room DEF MemInv, WrittenInv
<1>3. ASSUME NEW k \in 0 .. prm.N - 1 PROVE VRow(k) \subseteq written'
  <2>1. VRow(k) \subseteq written
    BY DEF MemInv, WrittenInv
  <2>2. XYBase + B_size \notin VRow(k)
    BY <1>1, Room
  <2> QED
    BY <2>1, <2>2
<1>4. /\ SArea' = SArea /\ (\A k \in 0 .. prm.N - 1 : VRow(k)' = VRow(k)) /\ prm'.N = prm.N
  BY LayoutKept
<1>5. /\ Blocks(0, B_size)' = Blocks(0, B_size)
      /\ Blocks(XYBase, B_size)' = Blocks(XYBase, B_size)
      /\ Blocks(XYBase + B_size, B_size)' = Blocks(XYBase + B_size, B_size)
  BY LayoutKept DEF Blocks
<1>6. /\ SArea' \subseteq written'
      /\ \A k \in 0 .. prm'.N - 1 : VRow(k)' \subseteq written'
  BY <1>2, <1>3, <1>4
<1> QED
  BY <1>1, <1>5, <1>6 DEF WrittenInv, Filler, Mixer
\* Where smix2 works: X behind V, Y behind X, and a row of V.
LEMMA MixerRows ==
  ASSUME CallInv, RegionInv, MemInv, pc \in Mixer
  PROVE  /\ pc \in Passes /\ s \in Nat
         /\ X2 = Blocks(XYBase, B_size) /\ Y2 = Blocks(XYBase + B_size, B_size)
         /\ Tmp = {XYBase + B_size} /\ X2 \subseteq All /\ Tmp \subseteq All
         /\ Blocks(0, B_size) \subseteq All /\ Tmp \cap X2 = {}
         /\ Tmp \cap Blocks(0, B_size) = {}
         /\ IsOld => Y2 \subseteq All /\ X2 \cap Y2 = {}
         /\ at # "start" =>
              /\ Row(j) \subseteq All /\ Row(j) \subseteq written
              /\ X2 \cap Row(j) = {} /\ X2 \subseteq written
              /\ IsOld => Y2 \cap Row(j) = {}
<1>1. pc \in Passes /\ pc # "smix1_S" /\ prm \in Params /\ ParamsOK
  BY PassFacts DEF Mixer, Passes
<1>2. /\ s = B_size /\ s \in Nat /\ Rows = prm.N /\ X2 = Blocks(XYBase, B_size)
      /\ Y2 = Blocks(XYBase + B_size, B_size) /\ Tmp = {XYBase + B_size}
      /\ \A k \in Nat : Row(k) = VRow(k)
  BY <1>1, PassFacts, RowsOfV
<1>3. /\ X2 \subseteq All /\ Tmp \subseteq All /\ Blocks(0, B_size) \subseteq All
      /\ Tmp \cap X2 = {} /\ Tmp \cap Blocks(0, B_size) = {} /\ (IsOld => Y2 \subseteq All)
  BY <1>1, <1>2, Room
<1>4. X2 \cap Y2 = {}
  <2>1. XYBase \in Nat /\ B_size \in Nat
    BY <1>1, Layout
  <2> QED
    BY <1>2, <2>1 DEF Blocks
<1>5. ASSUME at # "start"
      PROVE  /\ Row(j) \subseteq All /\ Row(j) \subseteq written
             /\ X2 \cap Row(j) = {} /\ X2 \subseteq written
             /\ IsOld => Y2 \cap Row(j) = {}
  <2>1. j \in Nat /\ j \in 0 .. prm.N - 1
    BY <1>1, <1>5, Layout DEF CallInv, TypeOK, LoopInv
  <2>2. Row(j) = VRow(j)
    BY <1>2, <2>1
  <2>3. VRow(j) \subseteq All /\ X2 \cap VRow(j) = {} /\ (IsOld => Y2 \cap VRow(j) = {})
    BY <1>1, <1>2, <2>1, Room
  <2>4. VRow(j) \subseteq written /\ X2 \subseteq written
    BY <1>2, <1>5, <2>1 DEF MemInv, WrittenInv
  <2> QED
    BY <2>2, <2>3, <2>4
<1> QED
  BY <1>1, <1>2, <1>3, <1>4, <1>5

LEMMA SecondStartSound ==
  ASSUME CallInv, RegionInv, MemInv, Framed, NEW pass \in Mixer, NEW count,
         smix2_start(pass, count)
  PROVE  MemInv'
<1>1. /\ pc \in Mixer /\ at = "start" /\ UNCHANGED <<pc, prm>>
      /\ at' \in {"read_first", "first"}
      /\ Access(Blocks(0, B_size), X2, Tmp, TRUE)
  BY DEF smix2_start, Framed
<1>2. Blocks(0, B_size) \subseteq written /\ faults = {}
  BY <1>1 DEF MemInv, WrittenInv
<1>3. faults' = {} /\ written' = (written \cup X2) \ Tmp
  BY <1>1, <1>2, MixerRows DEF Access, All
<1>4. WrittenInv'
  BY <1>1, <1>3, MixerRows, MixerStays DEF Mixer
<1> QED
  BY <1>3, <1>4 DEF MemInv

LEMMA MixSound ==
  ASSUME CallInv, RegionInv, MemInv, Framed, NEW pass \in Mixer, smix2_mix(pass)
  PROVE  MemInv'
<1> DEFINE writes == X2 \cup Row(j) \cup SWrites(s)
           reads == X2 \cup Row(j) \cup SReads
<1>1. /\ pc \in Mixer /\ at # "start" /\ UNCHANGED <<pc, prm>>
      /\ at' \in {"first", "second", "store"}
      /\ Access(reads, writes, {}, X2 \cap Row(j) = {})
  BY DEF smix2_mix, blockmix_xor_save, Framed
<1>2. /\ reads \subseteq written /\ reads \subseteq All /\ writes \subseteq All
      /\ X2 \cap Row(j) = {} /\ faults = {}
  BY <1>1, MixerRows, LookUpsSound DEF MemInv
<1>3. faults' = {} /\ written' = (written \cup writes) \ {}
  <2> HIDE DEF reads, writes
  <2> QED
    BY <1>1, <1>2 DEF Access, All
<1>4. X2 \subseteq written'
  BY <1>3
<1>5. WrittenInv'
  <2> HIDE DEF writes
  <2> QED
    BY <1>1, <1>3, <1>4, MixerRows, MixerStays DEF Mixer
<1> QED
  BY <1>3, <1>5 DEF MemInv

LEMMA ReadSound ==
  ASSUME CallInv, RegionInv, MemInv, Framed, NEW pass \in Mixer, smix2_read(pass)
  PROVE  MemInv'
<1>1. /\ pc \in Mixer /\ pc \in Passes /\ UNCHANGED <<pc, prm>> /\ faults = {}
      /\ at \in {"read_first", "read_second"}
  BY DEF smix2_read, Framed, MemInv, Mixer, Passes
<1>2. IsOld
  BY <1>1 DEF CallInv, LoopInv
<1>3. SReads \subseteq written /\ SReads \subseteq All /\ SWrites(s) \subseteq All
  BY <1>1, MixerRows, LookUpsSound
<1>4. CASE at = "read_first" /\ at' = "read_second" /\ blockmix_xor(X2, Row(j), Y2)
  <2> DEFINE reads == X2 \cup Row(j) \cup SReads
             writes == Y2 \cup SWrites(s)
  <2>1. Access(reads, writes, {}, (X2 \cup Row(j)) \cap Y2 = {})
    BY <1>4 DEF blockmix_xor
  <2>2. /\ reads \subseteq written /\ reads \subseteq All /\ writes \subseteq All
        /\ (X2 \cup Row(j)) \cap Y2 = {}
    BY <1>1, <1>2, <1>3, <1>4, MixerRows
  <2>3. faults' = {} /\ written' = (written \cup writes) \ {}
    <3> HIDE DEF reads, writes
    <3> QED
      BY <1>1, <2>1, <2>2 DEF Access, All
  <2>4. X2 \subseteq written' /\ Y2 \subseteq written'
    BY <1>1, <1>4, <2>3, MixerRows
  <2>5. WrittenInv'
    <3> HIDE DEF writes
    <3> QED
      BY <1>1, <1>4, <2>3, <2>4, MixerRows, MixerStays DEF Mixer
  <2> QED
    BY <2>3, <2>5 DEF MemInv
<1>5. CASE at = "read_second" /\ at' = "store" /\ blockmix_xor(Y2, Row(j), X2)
  <2> DEFINE reads == Y2 \cup Row(j) \cup SReads
             writes == X2 \cup SWrites(s)
  <2>1. Access(reads, writes, {}, (Y2 \cup Row(j)) \cap X2 = {})
    BY <1>5 DEF blockmix_xor
  <2>2. Y2 \subseteq written
    BY <1>1, <1>5, MixerRows DEF MemInv, WrittenInv
  <2>3. /\ reads \subseteq written /\ reads \subseteq All /\ writes \subseteq All
        /\ (Y2 \cup Row(j)) \cap X2 = {}
    BY <1>1, <1>2, <1>3, <1>5, <2>2, MixerRows
  <2>4. faults' = {} /\ written' = (written \cup writes) \ {}
    <3> HIDE DEF reads, writes
    <3> QED
      BY <1>1, <2>1, <2>3 DEF Access, All
  <2>5. X2 \subseteq written'
    BY <2>4
  <2>6. WrittenInv'
    <3> HIDE DEF writes
    <3> QED
      BY <1>1, <1>5, <2>4, <2>5, MixerRows, MixerStays DEF Mixer
  <2> QED
    BY <2>4, <2>6 DEF MemInv
<1> QED
  BY <1>4, <1>5 DEF smix2_read

LEMMA StoreSound ==
  ASSUME CallInv, RegionInv, MemInv, Framed, NEW pass \in Mixer,
         NEW next \in {"smix2_ro", "final"}, smix2_store(pass, next)
  PROVE  MemInv'
<1>1. /\ pc \in Mixer /\ at = "store" /\ pc' = next /\ at' = "start" /\ UNCHANGED prm
      /\ Access(X2, Blocks(0, B_size), Tmp, TRUE) /\ faults = {}
  BY DEF smix2_store, Framed, MemInv
<1>2. faults' = {} /\ written' = (written \cup Blocks(0, B_size)) \ Tmp
  BY <1>1, MixerRows DEF Access, All
<1>3. Blocks(0, B_size) \subseteq written'
  BY <1>1, <1>2, MixerRows
<1>4. WrittenInv'
  BY <1>1, <1>2, <1>3, MixerRows, MixerStays DEF Mixer
<1> QED
  BY <1>2, <1>4 DEF MemInv

-----------------------------------------------------------------------------
LEMMA MemInit == Init => MemInv
  BY DEF Init, MemInv, WrittenInv, Passes, Filler, Mixer

LEMMA MemStep == CallInv /\ RegionInv /\ MemInv /\ [Next]_vars => MemInv'
<1> SUFFICES ASSUME CallInv, RegionInv, MemInv, [Next]_vars PROVE MemInv'
  OBVIOUS
<1>1. CASE Call \/ Check \/ Free \/ Alloc \/ GoReturn \/ HashReturn \/ FreeLocal
  <2>1. /\ pc' \in {"check", "free", "alloc", "derive", "return", "idle"}
        /\ UNCHANGED faults
    BY <1>1 DEF Call, Check, Free, Alloc, Fail, GoReturn, HashReturn, FreeLocal, smixVars
  <2> QED
    BY <2>1 DEF MemInv, WrittenInv, Passes, Filler, Mixer
<1>2. CASE Derive
  <2>1. /\ pc = "derive" /\ pc' = "smix1_S" /\ UNCHANGED <<prm, at>> /\ faults = {}
        /\ Access({}, Blocks(0, Loaded), {}, TRUE)
    BY <1>2 DEF Derive, Loaded, MemInv
  <2>2. at = "start"
    BY <2>1 DEF CallInv, LoopInv, Passes
  <2>3. Blocks(0, Loaded) \subseteq All
    BY <2>1, Room DEF Loaded
  <2>4. faults' = {} /\ written' = written \cup Blocks(0, Loaded)
    BY <2>1, <2>3 DEF Access, All
  <2>5. Blocks(0, Loaded)' = Blocks(0, Loaded)
    BY <2>1, LayoutKept DEF Blocks
  <2> QED
    BY <2>1, <2>2, <2>4, <2>5 DEF MemInv, WrittenInv, Passes, Filler, Mixer
<1>3. CASE Final
  <2> DEFINE reads == IF IsOld THEN Blocks(0, B_size) ELSE {B_size - 1}
  <2>1. /\ pc = "final" /\ pc' = "return" /\ faults = {}
        /\ Access(reads, {}, {}, TRUE)
    BY <1>3 DEF Final, MemInv
  <2>2. Blocks(0, B_size) \subseteq written /\ Blocks(0, B_size) \subseteq All
    BY <2>1, Room DEF MemInv, WrittenInv
  <2>3. B_size - 1 \in Blocks(0, B_size)
    <3>1. B_size \in Nat /\ B_size >= 2
      BY <2>1, Room, Layout
    <3>2. B_size - 1 \in 0 .. 0 + B_size - 1
      BY <3>1
    <3> QED
      BY <3>2 DEF Blocks
  <2>4. faults' = {}
    <3>1. reads \subseteq Blocks(0, B_size)
      BY <2>3
    <3> HIDE DEF reads
    <3> QED
      BY <2>1, <2>2, <3>1 DEF Access, All
  <2> QED
    BY <2>1, <2>4 DEF MemInv, WrittenInv, Passes, Filler, Mixer
<1>4. CASE Mix
  <2>1. ASSUME NEW pass \in Filler,
               \/ smix1_start(pass) \/ smix1_first(pass) \/ smix1_second(pass)
               \/ smix1_double(pass) \/ smix1_last(pass)
        PROVE  MemInv'
    BY <1>4, <2>1, MixSteps, StartSound, TurnSound, DoubleSound
  <2>2. CASE smix1_out("smix1_S", "smix1") \/ smix1_out("smix1", "smix2")
    BY <1>4, <2>2, MixSteps, OutOfS, OutOfV
  <2>3. CASE smix2_start("smix2", Nloop_rw) \/ smix2_start("smix2_ro", 2)
    BY <1>4, <2>3, MixSteps, SecondStartSound DEF Mixer
  <2>4. ASSUME NEW pass \in Mixer,
               \/ smix2_mix(pass) \/ smix2_read(pass)
               \/ smix2_store(pass, "final") \/ smix2_store(pass, "smix2_ro")
        PROVE  MemInv'
    BY <1>4, <2>4, MixSteps, MixSound, ReadSound, StoreSound
  <2> QED
    BY <1>4, <2>1, <2>2, <2>3, <2>4, MixSteps
<1>5. CASE UNCHANGED vars
  <2>1. UNCHANGED <<prm, pc, at, x, written, faults>>
    BY <1>5 DEF vars
  <2>2. /\ IsOld' = IsOld /\ B_size' = B_size /\ XYBase' = XYBase /\ SArea' = SArea
        /\ Loaded' = Loaded /\ prm'.N = prm.N /\ x \in Nat
    BY <2>1, LayoutKept DEF CallInv, TypeOK
  <2>3. /\ \A k \in 0 .. x : SRow(k)' = SRow(k) /\ VRow(k)' = VRow(k)
        /\ \A k \in 0 .. prm.N - 1 : VRow(k)' = VRow(k)
    BY <2>1, LayoutKept
  <2>4. /\ Blocks(0, Loaded)' = Blocks(0, Loaded) /\ Blocks(0, B_size)' = Blocks(0, B_size)
        /\ Blocks(XYBase, B_size)' = Blocks(XYBase, B_size)
        /\ Blocks(XYBase + B_size, B_size)' = Blocks(XYBase + B_size, B_size)
    BY <2>2 DEF Blocks
  <2> QED
    BY <2>1, <2>2, <2>3, <2>4 DEF MemInv, WrittenInv
<1> QED
  BY <1>1, <1>2, <1>3, <1>4, <1>5 DEF Next, Compute

\* The types of the call's variables, the counters of the loops included,
\* for all parameters (yespower(), smix1 and smix2).
THEOREM TypeCorrect == Spec => []TypeOK
<1>1. CallInv => TypeOK
  BY DEF CallInv
<1> QED
  BY <1>1, CallInit, CallStep, RegionInit, RegionStep, PTL DEF Spec

LEMMA MemCorrect == Spec => []MemInv
  BY CallInit, CallStep, RegionInit, RegionStep, MemInit, MemStep, PTL DEF Spec

\* For every N, r, version and size of the S-boxes that pass the checks: no
\* access of smix1, smix2, the blockmix functions, PWXFORM and PBKDF2 leaves
\* the region, and what restrict keeps apart is apart.
THEOREM AccessInBounds == Spec => []InBounds
<1>1. MemInv => InBounds
  BY DEF MemInv, InBounds
<1> QED
  BY <1>1, MemCorrect, PTL

\* And every block is written before it is read, in the same call: a hash
\* does not depend on the calls before it.
THEOREM NoReadOfOldData == Spec => []NoStaleReads
<1>1. MemInv => NoStaleReads
  BY DEF MemInv, NoStaleReads
<1> QED
  BY <1>1, MemCorrect, PTL
-----------------------------------------------------------------------------
(***************************************************************************)
(* smix1 is yescrypt's loop.  Besides CallInv this needs that n is the     *)
(* power of two below the rows that are being made.                        *)
(***************************************************************************)
Powers == {2 ^ e : e \in 0 .. 19}

PowerInv ==
  /\ pc \in Filler /\ at \in {"loop", "second"} =>
       n \in Powers /\ (n >= Rows => n \div 2 \in Powers)
  /\ pc \in Filler /\ at = "out" => n \in Powers /\ Rows <= 2 * n

LEMMA PowersAre ==
  Powers = {1, 2, 4, 8, 16, 32, 64, 128, 256, 512, 1024, 2048, 4096, 8192, 16384, 32768,
            65536, 131072, 262144, 524288}
  BY DEF Powers

LEMMA PowersDouble ==
  /\ 2 \in Powers
  /\ \A p \in Powers : p \in Nat \ {0} /\ (p < 2 ^ 19 => 2 * p \in Powers)
  /\ \A p, q \in Powers : p < q => 2 * p <= q
<1>1. 2 ^ 19 = 524288
  OBVIOUS
<1>2. 2 \in Powers /\ \A p \in Powers : p \in Nat \ {0} /\ (p < 2 ^ 19 => 2 * p \in Powers)
  BY <1>1, PowersAre
<1>3. \A p, q \in Powers : p < q => 2 * p <= q
  BY PowersAre
<1> QED
  BY <1>2, <1>3

LEMMA PowerBelow ==
  ASSUME NEW p \in Powers, NEW k \in Nat, p <= k, k < 2 * p
  PROVE  Plain!P2(k) = p
<1> DEFINE Below(q) == q <= k /\ k < 2 * q
<1>1. Plain!P2(k) = CHOOSE q \in Powers : Below(q)
  BY DEF Plain!P2, Powers
<1>2. ASSUME NEW q \in Powers, Below(q) PROVE q = p
  <2>1. p \in Nat /\ q \in Nat /\ (p < q => 2 * p <= q) /\ (q < p => 2 * q <= p)
    BY PowersDouble
  <2> QED
    BY <1>2, <2>1
<1>3. p \in Powers /\ Below(p)
  OBVIOUS
<1> HIDE DEF Below
<1>4. (CHOOSE q \in Powers : Below(q)) = p
  BY <1>2, <1>3
<1> QED
  BY <1>1, <1>4

\* S and V have no more than MaxN rows.
LEMMA RowsBounded ==
  ASSUME CallInv, pc \in Passes
  PROVE  Rows \in 1 .. MaxN /\ MaxN \in Nat /\ MaxN <= 2 ^ 19
<1>1. prm \in Params /\ ParamsOK /\ CtxInv /\ Rows \in Nat /\ Rows >= 4
  BY PassFacts
<1>2. MaxN \in Nat /\ MaxN <= 2 ^ 19 /\ Third05 <= MaxN /\ 3 * (Third10 \div 2) <= MaxN
  BY YespowerAssumption
<1>3. CASE pc = "smix1_S"
  <2>1. Rows = Sbytes \div 2
    BY <1>1, <1>3, RowsOfS DEF CtxInv
  <2>2. Sbytes = IF IsOld THEN 2 * Third05 ELSE 3 * Third10
    BY <1>1, Layout
  <2> QED
    BY <1>1, <1>2, <2>1, <2>2, SmixAssumption
<1>4. CASE pc # "smix1_S"
  BY <1>1, <1>2, <1>4, RowsOfV, Layout
<1> QED
  BY <1>3, <1>4

LEMMA PowerInit == Init => PowerInv
  BY DEF Init, PowerInv, Filler

LEMMA PowerStep == CallInv /\ PowerInv /\ [Next]_vars => PowerInv'
<1> SUFFICES ASSUME CallInv, PowerInv, [Next]_vars PROVE PowerInv'
  OBVIOUS
<1>1. CASE ~ Mix /\ Next
  <2>1. pc' \notin Filler \/ at' = "start"
    <3>1. CASE Derive
      BY <3>1 DEF Derive, CallInv, LoopInv, Passes
    <3>2. CASE ~ Derive
      BY <1>1, <3>2 DEF Next, Compute, Call, Check, Free, Alloc, Fail, Final, GoReturn,
                        HashReturn, FreeLocal, Filler
    <3> QED
      BY <3>1, <3>2
  <2> QED
    BY <2>1 DEF PowerInv
<1>2. ASSUME NEW pass \in Filler, Framed,
             \/ smix1_start(pass) \/ smix1_first(pass) \/ smix1_second(pass)
             \/ smix1_double(pass) \/ smix1_last(pass)
      PROVE  PowerInv'
  <2>1. pc \in Filler /\ pc \in Passes /\ UNCHANGED <<pc, prm>>
    BY <1>2 DEF smix1_start, smix1_first, smix1_second, smix1_double, smix1_last, MixInto,
                Filler, Passes, Framed
  <2>2. Rows' = Rows /\ Rows \in Nat /\ Rows >= 4 /\ Rows <= 2 ^ 19 /\ Rows % 2 = 0
    BY <2>1, PassFacts, RowsKept, RowsBounded
  <2>3. CASE smix1_start(pass)
    <3>1. at' = "loop" /\ n' = 2
      BY <2>3 DEF smix1_start
    <3> QED
      BY <2>1, <2>2, <3>1, PowersDouble DEF PowerInv
  <2>4. CASE smix1_first(pass) \/ smix1_second(pass)
    <3>1. at \in {"loop", "second"} /\ at' \in {"loop", "second"} /\ n' = n
      BY <2>4 DEF smix1_first, smix1_second, MixInto
    <3> QED
      BY <2>1, <2>2, <3>1 DEF PowerInv
  <2>5. CASE smix1_double(pass)
    <3>1. at = "loop" /\ at' = at /\ n' = 2 * n /\ n < Rows /\ n \in Nat
      BY <2>5 DEF smix1_double, CallInv, TypeOK
    <3>2. n \in Powers /\ n < 2 ^ 19
      <4>1. 2 ^ 19 \in Nat
        OBVIOUS
      <4> QED
        BY <2>1, <2>2, <3>1, <4>1 DEF PowerInv
    <3>3. n' \in Powers /\ n' \div 2 = n
      BY <3>1, <3>2, PowersDouble
    <3> QED
      BY <2>1, <2>2, <3>1, <3>2, <3>3 DEF PowerInv
  <2>6. CASE smix1_last(pass)
    <3>1. at = "loop" /\ n >= Rows /\ n' = n \div 2 /\ at' = "out"
      BY <2>6 DEF smix1_last, MixInto
    <3>2. n' \in Powers
      BY <2>1, <3>1 DEF PowerInv
    <3>3. n \in Nat /\ n % 2 = 0
      BY <2>1, <3>1, InLoop
    <3> QED
      BY <2>1, <2>2, <3>1, <3>2, <3>3 DEF PowerInv
  <2> QED
    BY <1>2, <2>3, <2>4, <2>5, <2>6
<1>3. CASE Mix
  <2>1. CASE \E pass \in Filler : \/ smix1_start(pass) \/ smix1_first(pass)
                                  \/ smix1_second(pass) \/ smix1_double(pass)
                                  \/ smix1_last(pass)
    BY <1>2, <1>3, <2>1, MixSteps
  <2>2. CASE \/ smix1_out("smix1_S", "smix1") \/ smix1_out("smix1", "smix2")
             \/ smix2_start("smix2", Nloop_rw) \/ smix2_start("smix2_ro", 2)
             \/ \E pass \in Mixer : \/ smix2_mix(pass) \/ smix2_read(pass)
                                    \/ smix2_store(pass, "final")
                                    \/ smix2_store(pass, "smix2_ro")
    BY <2>2 DEF smix1_out, smix2_start, smix2_mix, smix2_read, smix2_store, PowerInv, Filler,
                Mixer
  <2> QED
    BY <1>3, <2>1, <2>2, MixSteps
<1>4. CASE UNCHANGED vars
  <2>1. UNCHANGED <<prm, pc, at, n>>
    BY <1>4 DEF vars
  <2> QED
    BY <2>1, RowsKept DEF PowerInv
<1> QED
  BY <1>1, <1>3, <1>4
\* Wrap of the row that was made last, as smix1 writes it out.
LEMMA WrapIs ==
  ASSUME NEW p \in Powers, NEW k \in Nat, NEW v \in Nat, p <= k, k < 2 * p
  PROVE  Plain!Wrap(v, k) = (v % p) + k - p
  BY PowerBelow DEF Plain!Wrap

LEMMA NotFillingStep ==
  ASSUME ~ Filling, ~ Filling', vj' = vj \/ vj' = 0
  PROVE  [Plain!Next]_Plain!vars
  BY DEF Plain!Next, Plain!vars, Plain!Forget

LEMMA FillRefines ==
  ASSUME CallInv, PowerInv, Framed, NEW pass \in Filler,
         \/ smix1_start(pass) \/ smix1_first(pass) \/ smix1_second(pass)
         \/ smix1_double(pass) \/ smix1_last(pass)
  PROVE  [Plain!Next]_Plain!vars
<1>1. /\ pc \in Filler /\ pc \in Passes /\ UNCHANGED <<pc, prm>> /\ at' # "start"
  BY DEF smix1_start, smix1_first, smix1_second, smix1_double, smix1_last, MixInto,
         Filler, Passes, Framed
<1>2. Rows' = Rows /\ Rows \in 1 .. MaxN /\ Rows >= 4 /\ MaxN \in Nat
  BY <1>1, PassFacts, RowsKept, RowsBounded
<1>3. Filling' /\ (Filling <=> at # "start")
  BY <1>1 DEF Filling, Filler
<1>4. CASE smix1_start(pass)
  <2>1. at = "start" /\ x' = 2 /\ j' \in Vals /\ vj' = vj
    BY <1>4 DEF smix1_start, integerify
  <2>2. Plain!Begin(Rows)
    BY <1>2, <1>3, <2>1 DEF Plain!Begin
  <2> QED
    BY <1>2, <2>2 DEF Plain!Next
<1>5. ASSUME Filling, NEW p \in Powers, NEW row \in Nat, NEW next, x \in Nat, j \in Nat,
             p <= x, x < 2 * p, x < Rows - 1, row = (j % p) + x - p, MixInto(row, next)
      PROVE  [Plain!Next]_Plain!vars
  <2>1. vj' = row /\ x' = x + 1 /\ j' \in Vals
    BY <1>5 DEF MixInto, integerify
  <2>2. Plain!Wrap(j, x) = row
    BY <1>5, WrapIs
  <2>3. Plain!Fill
    BY <1>2, <1>3, <1>5, <2>1, <2>2 DEF Plain!Fill
  <2> QED
    BY <2>3 DEF Plain!Next
<1>6. CASE smix1_first(pass)
  <2>1. /\ at = "loop" /\ n < Rows /\ i < Bound
        /\ MixInto((j % n) + i - 1, "second")
    BY <1>6 DEF smix1_first
  <2>2. n \in Powers
    BY <1>1, <2>1 DEF PowerInv
  <2>3. x = n + i - 1
    BY <1>1, <2>1 DEF CallInv, LoopInv
  <2>4. /\ x \in Nat /\ j \in Nat /\ n <= x /\ x < 2 * n /\ x < Rows - 1
        /\ (j % n) + i - 1 \in Nat /\ (j % n) + i - 1 = (j % n) + x - n
    BY <1>1, <2>1, <2>3, InLoop DEF Bound
  <2> QED
    BY <1>3, <1>5, <2>1, <2>2, <2>4
<1>7. CASE smix1_second(pass)
  <2>1. at = "second" /\ MixInto((j % n) + i, "loop")
    BY <1>7 DEF smix1_second
  <2>2. n \in Powers
    BY <1>1, <2>1 DEF PowerInv
  <2>3. n < Rows /\ x = n + i /\ i < Bound
    BY <1>1, <2>1, InLoop DEF CallInv, LoopInv
  <2>4. /\ x \in Nat /\ j \in Nat /\ n <= x /\ x < 2 * n /\ x < Rows - 1
        /\ (j % n) + i \in Nat /\ (j % n) + i = (j % n) + x - n
    BY <1>1, <2>1, <2>3, InLoop DEF Bound
  <2> QED
    BY <1>3, <1>5, <2>1, <2>2, <2>4
<1>8. CASE smix1_double(pass)
  <2>1. at = "loop" /\ UNCHANGED <<x, j, vj>>
    BY <1>8 DEF smix1_double
  <2> QED
    BY <1>2, <1>3, <2>1 DEF Plain!vars
<1>9. CASE smix1_last(pass)
  <2>1. /\ at = "loop" /\ n >= Rows /\ n' = n \div 2
        /\ MixInto((j % n') + Rows - 2 - n', "out")
    BY <1>9 DEF smix1_last
  <2>2. n' \in Powers
    BY <1>1, <2>1 DEF PowerInv
  <2>3. /\ x = Rows - 2 /\ n' >= 2 /\ n' <= Rows - 2 /\ n' \in Nat /\ 2 * n' = n
        /\ x \in Nat /\ j \in Nat
    BY <1>1, <2>1, InLoop DEF CallInv, LoopInv
  <2>4. /\ n' <= x /\ x < 2 * n' /\ x < Rows - 1
        /\ (j % n') + Rows - 2 - n' \in Nat
        /\ (j % n') + Rows - 2 - n' = (j % n') + x - n'
    BY <1>2, <2>1, <2>3
  <2> QED
    BY <1>3, <1>5, <2>1, <2>2, <2>3, <2>4
<1> QED
  BY <1>4, <1>6, <1>7, <1>8, <1>9

LEMMA OutRefines ==
  ASSUME CallInv, PowerInv, Framed, NEW pass \in Filler, NEW next, smix1_out(pass, next)
  PROVE  [Plain!Next]_Plain!vars
<1>1. /\ pc \in Filler /\ pc \in Passes /\ at = "out" /\ at' = "start"
      /\ vj' = (j % n) + Rows - 1 - n
  BY DEF smix1_out, Filler, Passes
<1>2. Filling /\ ~ Filling'
  BY <1>1 DEF Filling, Filler
<1>3. Rows \in Nat /\ Rows >= 4 /\ x = Rows - 1 /\ n \in Nat /\ n <= Rows - 2 /\ j \in Nat
  BY <1>1, PassFacts DEF CallInv, LoopInv, TypeOK
<1>4. n \in Powers /\ Rows <= 2 * n
  BY <1>1 DEF PowerInv
<1>5. Plain!Wrap(j, x) = (j % n) + x - n
  BY <1>3, <1>4, WrapIs
<1>6. (j % n) + x - n = (j % n) + Rows - 1 - n
  BY <1>3
<1>7. Plain!Finish
  BY <1>1, <1>2, <1>3, <1>5, <1>6 DEF Plain!Finish
<1> QED
  BY <1>7 DEF Plain!Next

LEMMA RoMixStep ==
  CallInv /\ PowerInv /\ [Next]_vars => [Plain!Next]_Plain!vars
<1> SUFFICES ASSUME CallInv, PowerInv, [Next]_vars PROVE [Plain!Next]_Plain!vars
  OBVIOUS
<1>1. CASE ~ Mix /\ Next
  <2>1. UNCHANGED vj /\ pc \notin Filler /\ (pc' \notin Filler \/ at' = "start")
    <3>1. CASE Derive
      BY <3>1 DEF Derive, CallInv, LoopInv, Passes, Filler
    <3>2. CASE ~ Derive
      BY <1>1, <3>2 DEF Next, Compute, Call, Check, Free, Alloc, Fail, Final, GoReturn,
                        HashReturn, FreeLocal, Filler, smixVars
    <3> QED
      BY <3>1, <3>2
  <2> QED
    BY <2>1, NotFillingStep DEF Filling, Filler
<1>2. CASE Mix
  <2>1. CASE \E pass \in Filler : \/ smix1_start(pass) \/ smix1_first(pass)
                                  \/ smix1_second(pass) \/ smix1_double(pass)
                                  \/ smix1_last(pass)
    BY <1>2, <2>1, MixSteps, FillRefines
  <2>2. CASE smix1_out("smix1_S", "smix1") \/ smix1_out("smix1", "smix2")
    BY <1>2, <2>2, MixSteps, OutRefines DEF Filler
  <2>3. CASE \/ smix2_start("smix2", Nloop_rw) \/ smix2_start("smix2_ro", 2)
             \/ \E pass \in Mixer : \/ smix2_mix(pass) \/ smix2_read(pass)
                                    \/ smix2_store(pass, "final")
                                    \/ smix2_store(pass, "smix2_ro")
    <3>1. (vj' = vj \/ vj' = 0) /\ pc \notin Filler /\ pc' \notin Filler
      BY <2>3 DEF smix2_start, smix2_mix, smix2_read, smix2_store, Filler, Mixer
    <3> QED
      BY <3>1, NotFillingStep DEF Filling, Filler
  <2> QED
    BY <1>2, <2>1, <2>2, <2>3, MixSteps
<1>3. CASE UNCHANGED vars
  <2>1. UNCHANGED <<prm, pc, at, x, j, vj>>
    BY <1>3 DEF vars
  <2>2. Rows' = Rows /\ (Filling' <=> Filling)
    BY <2>1, RowsKept DEF Filling
  <2> QED
    BY <2>1, <2>2 DEF Plain!vars
<1> QED
  BY <1>1, <1>2, <1>3

\* For every number of rows, power of two or not, and whatever integerify
\* returns: smix1, unrolled by powers of two and two rows at a time, makes
\* the rows of S and of V in the order and from the rows that RoMix does.
THEOREM FillsAsRoMix == Spec => RoMixSpec
<1>1. Init => Plain!Init
  BY DEF Init, Plain!Init, Filling
<1> QED
  BY <1>1, CallInit, CallStep, PowerInit, PowerStep, RegionInit, RegionStep, RoMixStep,
     PTL DEF Spec, RoMixSpec, Plain!Spec
=============================================================================
