------------------------------- MODULE Region -------------------------------
(***************************************************************************)
(* The memory of one thread of the hasher (yespower-platform.c): a region  *)
(* that is mapped once, kept between calls, and mapped anew when a call    *)
(* needs more.  Sizes are counted in blocks of 64 bytes.  The kernel is    *)
(* part of the module: the mappings it holds for this thread, which may be *)
(* refused, and its rule that pages of a huge mapping are given back only  *)
(* in multiples of the huge page.                                          *)
(***************************************************************************)
EXTENDS Naturals, FiniteSets

CONSTANTS
  SizeLimit,      \* size_t counts modulo SizeLimit
  HugeThreshold,  \* HUGEPAGE_THRESHOLD
  HugePage        \* HUGEPAGE_SIZE

ASSUME RegionAssumption ==
  /\ SizeLimit \in Nat \ {0}
  /\ HugeThreshold \in Nat \ {0}
  /\ HugePage \in Nat \ {0}

VARIABLES
  region,  \* the thread's yespower_region_t (aligned = base in this build)
  maps     \* the mappings the kernel holds for it

regionVars == <<region, maps>>

Null == 0
Bases == {1, 2}     \* addresses: a fresh one is never the one in use

Mapping == [base : Bases, len : Nat, huge : BOOLEAN]
EmptyRegion == [base |-> Null, base_size |-> 0, aligned_size |-> 0]

RegionTypeOK ==
  /\ region \in [base : Bases \cup {Null}, base_size : Nat, aligned_size : Nat]
  /\ maps \in SUBSET Mapping

init_region ==
  /\ region = EmptyRegion
  /\ maps = {}

(***************************************************************************)
(* alloc_region: a large region is tried in huge pages first, with its     *)
(* length rounded up to them, then in pages of the usual size.  On failure *)
(* the region is empty.                                                    *)
(***************************************************************************)
FreshBase == CHOOSE b \in Bases : \A m \in maps : m.base # b

HugeLength(size) == ((size + HugePage - 1) \div HugePage) * HugePage

TriesHuge(size) ==
  /\ size >= HugeThreshold
  /\ (size + HugePage - 1) % SizeLimit >= size

\* Variant: the length asked for is remembered, not the length mapped.
MapRegion_asked(size, length, huge) ==
  /\ maps' = maps \cup {[base |-> FreshBase, len |-> length, huge |-> huge]}
  /\ region' = [base |-> FreshBase, base_size |-> size, aligned_size |-> size]

MapRegion(size, length, huge) ==
  /\ maps' = maps \cup {[base |-> FreshBase, len |-> length, huge |-> huge]}
  /\ region' = [base |-> FreshBase, base_size |-> length, aligned_size |-> size]

alloc_huge(size) == TriesHuge(size) /\ MapRegion(size, HugeLength(size), TRUE)
alloc_plain(size) == MapRegion(size, size, FALSE)
alloc_fails(size) == region' = EmptyRegion /\ UNCHANGED maps

(***************************************************************************)
(* free_region: munmap may be refused, because the length does not suit    *)
(* the mapping or because the kernel is short of memory; the region is     *)
(* then kept.                                                              *)
(***************************************************************************)
Refused(m) == m.huge /\ region.base_size % HugePage # 0

Rest(m) == IF m.len > region.base_size
             THEN {[m EXCEPT !.len = m.len - region.base_size]}
             ELSE {}

free_region ==
  /\ \A m \in maps : m.base = region.base => ~ Refused(m)
  /\ maps' = UNION {IF m.base = region.base THEN Rest(m) ELSE {m} : m \in maps}
  /\ region' = EmptyRegion

free_fails == region.base # Null /\ UNCHANGED regionVars

(***************************************************************************)
(* Whatever is mapped belongs to the region, exactly, so that nothing      *)
(* leaks however often the region is replaced; and the kernel never        *)
(* refuses the length that would be given back.                            *)
(***************************************************************************)
NothingLeaks ==
  \/ maps = {} /\ region = EmptyRegion
  \/ \E huge \in BOOLEAN :
       /\ maps = {[base |-> region.base, len |-> region.base_size, huge |-> huge]}
       /\ huge => region.base_size % HugePage = 0

FitsMapping == region.aligned_size <= region.base_size
=============================================================================
