------------------------------ MODULE Yespower ------------------------------
(***************************************************************************)
(* yespower() and its callers: one thread computes one hash after another, *)
(* with any parameters, in the region it keeps (yespower_tls).  A call     *)
(* checks its parameters, enlarges the region if it must, fills B, runs    *)
(* smix and hashes the end of B.  SHA256 and PBKDF2 are modelled in        *)
(* HashStream; here they read and write their blocks.                      *)
(***************************************************************************)
EXTENDS Smix

CONSTANTS
  Params,      \* parameters a caller passes
  MinN, MaxN,  \* 1024 and 512 * 1024
  MinR, MaxR   \* 8 and 32

\* V and S have four rows at least and MaxN at most, and the number of turns
\* that is made of N fits into its uint32_t.
ASSUME YespowerAssumption ==
  /\ MinN \in Nat /\ MaxN \in Nat /\ MinR \in Nat /\ MaxR \in Nat
  /\ MinN >= 4 /\ MinR >= 1 /\ MaxN <= 2 ^ 19 /\ MaxN < UintLimit
  /\ Third05 <= MaxN /\ 3 * (Third10 \div 2) <= MaxN
  /\ Params \subseteq [version : STRING, N : Nat, r : Nat, pers_ok : BOOLEAN]

VARIABLES
  dst,   \* the caller's result buffer
  ret,   \* what yespower() returns
  hash   \* what the last wrapper handed to its caller

callVars == <<dst, ret, hash>>
vars == <<region, maps, prm, pc, at, x, n, i, j, vj, nloop, ctx, written, faults,
          dst, ret, hash>>

Passes == {"smix1_S", "smix1", "smix2", "smix2_ro"}

TypeOK ==
  /\ RegionTypeOK
  /\ prm \in Params
  /\ pc \in {"idle", "check", "free", "alloc", "derive", "final", "return"} \cup Passes
  /\ at \in {"start", "loop", "second", "out", "first", "read_first", "read_second", "store"}
  /\ x \in Nat /\ n \in Nat /\ i \in Nat /\ j \in Nat /\ vj \in Nat
  /\ nloop \in 0 .. UintLimit - 1
  /\ ctx \in [S0 : Nat, S1 : Nat, S2 : Nat, w : Nat]
  /\ written \subseteq Nat
  /\ faults \subseteq {"bounds", "stale", "alias"}
  /\ dst \in {"undefined", "ff", "hash"} /\ ret \in {0, -1}
  /\ hash \in {"none", "undefined", "ff", "hash"}

NoContext == [S0 |-> 0, S1 |-> 0, S2 |-> 0, w |-> 0]

Init ==
  /\ init_region
  /\ prm \in Params
  /\ pc = "idle" /\ at = "start"
  /\ x = 0 /\ n = 0 /\ i = 0 /\ j = 0 /\ vj = 0 /\ nloop = 0
  /\ ctx = NoContext
  /\ written = {} /\ faults = {}
  /\ dst = "undefined" /\ ret = 0 /\ hash = "none"

(***************************************************************************)
(* A call.  The parameters are checked before anything else; a call that   *)
(* fails fills the result with 0xff.                                       *)
(***************************************************************************)
Call ==
  /\ pc = "idle" /\ pc' = "check"
  /\ prm' \in Params
  /\ dst' = "undefined" /\ written' = {} /\ hash' = "none"
  /\ UNCHANGED <<regionVars, at, x, n, i, j, vj, nloop, ctx, faults, ret>>

\* N is at most 2^19.
PowerOf2(k) == \E e \in 0 .. 19 : k = 2 ^ e

ParamsOK ==
  /\ prm.version \in {"0.5", "1.0"}
  /\ prm.N >= MinN /\ prm.N <= MaxN
  /\ prm.r >= MinR /\ prm.r <= MaxR
  /\ PowerOf2(prm.N)
  /\ prm.pers_ok

\* Variant: the result is left as it is when a call fails.
Fail_silent == pc' = "return" /\ ret' = -1 /\ UNCHANGED dst

Fail == pc' = "return" /\ dst' = "ff" /\ ret' = -1

Check ==
  /\ pc = "check"
  /\ \/ ~ ParamsOK /\ Fail
     \/ /\ ParamsOK /\ UNCHANGED <<dst, ret>>
        /\ pc' = IF region.aligned_size < need THEN "free" ELSE "derive"
  /\ UNCHANGED <<regionVars, prm, smixVars, hash>>

Free ==
  /\ pc = "free"
  /\ \/ free_region /\ pc' = "alloc" /\ UNCHANGED <<dst, ret>>
     \/ free_fails /\ Fail
  /\ UNCHANGED <<prm, smixVars, hash>>

Alloc ==
  /\ pc = "alloc"
  /\ \/ alloc_huge(need) /\ pc' = "derive" /\ UNCHANGED <<dst, ret>>
     \/ alloc_plain(need) /\ pc' = "derive" /\ UNCHANGED <<dst, ret>>
     \/ alloc_fails(need) /\ Fail
  /\ UNCHANGED <<prm, smixVars, hash>>

(***************************************************************************)
(* S0, S1 and S2 start as the thirds of S (version 0.5 has no S2 and no w, *)
(* and does not look at them).  PBKDF2 fills B, in version 1.0 no more     *)
(* than its first two blocks; at the end of version 0.5 all of B is        *)
(* hashed, of version 1.0 its last block.                                  *)
(***************************************************************************)
Derive ==
  /\ pc = "derive" /\ pc' = "smix1_S"
  /\ ctx' = [S0 |-> 0, S1 |-> Third, S2 |-> 2 * Third, w |-> 0]
  /\ Access({}, Blocks(0, IF IsOld THEN B_size ELSE 2), {}, TRUE)
  /\ UNCHANGED <<regionVars, prm, at, x, n, i, j, vj, nloop, callVars>>

Final ==
  /\ pc = "final" /\ pc' = "return"
  /\ Access(IF IsOld THEN Blocks(0, B_size) ELSE {B_size - 1}, {}, {}, TRUE)
  /\ dst' = "hash" /\ ret' = 0
  /\ ctx' = NoContext
  /\ UNCHANGED <<regionVars, prm, at, x, n, i, j, vj, nloop, hash>>

Mix == smix /\ UNCHANGED <<regionVars, prm, callVars>>

(***************************************************************************)
(* The wrappers: YespowerHash of the Go package ignores what yespower      *)
(* returns and copies the result buffer; yespower_hash looks at it.        *)
(***************************************************************************)
GoReturn ==
  /\ pc = "return" /\ pc' = "idle"
  /\ hash' = dst
  /\ UNCHANGED <<regionVars, prm, smixVars, dst, ret>>

HashReturn ==
  /\ pc = "return" /\ pc' = "idle"
  /\ hash' = IF ret = 0 THEN dst ELSE "ff"
  /\ UNCHANGED <<regionVars, prm, smixVars, dst, ret>>

\* yespower_free_local, between two calls.
FreeLocal ==
  /\ pc = "idle"
  /\ free_region \/ free_fails
  /\ UNCHANGED <<prm, pc, smixVars, callVars>>

Compute == Check \/ Free \/ Alloc \/ Derive \/ Mix \/ Final \/ GoReturn \/ HashReturn

Next == Call \/ Compute \/ FreeLocal

Spec == Init /\ [][Next]_vars

\* A thread that has started a call goes on with it.
FairSpec == Spec /\ WF_vars(Compute)

(***************************************************************************)
(* What the module promises.                                               *)
(***************************************************************************)

\* No access of a call leaves the region, and no blockmix function writes
\* what restrict says it does not share: whatever N, r and version pass the
\* checks, and whichever earlier call the region was made for.
InBounds == faults \cap {"bounds", "alias"} = {}

\* A hash never depends on what an earlier call left in the region: every
\* block is written before it is read, in every part of the call.
NoStaleReads == "stale" \notin faults

\* Nothing that was mapped is lost, and the kernel would take the region
\* back, after every sequence of calls and of failures to map and to unmap;
\* and while a call computes the region is as large as it needs, although
\* an earlier call may have left a smaller one.
RegionSound ==
  /\ NothingLeaks /\ FitsMapping
  /\ pc \in Passes \cup {"derive", "final"} => region.aligned_size >= need

\* What a caller is handed is a hash that was computed to the end, or 0xff
\* throughout, which is above every target: also the Go wrapper, which does
\* not look at what yespower returned, never hands out anything else.
ResultSound ==
  /\ hash # "undefined"
  /\ hash = "hash" => ret = 0
  /\ pc = "return" => (ret = 0 <=> dst = "hash")

\* smix1 with its unrolled loop does what yescrypt's plain loop does, for S
\* (whose number of rows is no power of two) and for V.
Filling == pc \in {"smix1_S", "smix1"} /\ at # "start"

Plain == INSTANCE RoMix WITH
  Sizes <- 1 .. MaxN,
  size <- IF Filling THEN Rows ELSE 0,
  top <- IF Filling THEN x ELSE 0,
  val <- IF Filling THEN j ELSE 0,
  mixed <- vj

RoMixSpec == Plain!Spec

\* Every call returns: the loops of smix end, with Nloop counted down to 0
\* exactly.
CallReturns == pc = "check" ~> pc = "idle"
=============================================================================
