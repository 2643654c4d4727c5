----------------------------- MODULE PMM_proofs -----------------------------
(***************************************************************************)
(* Proofs about PMM for every memory size, every reserved prefix and every *)
(* set of request sizes.                                                   *)
(***************************************************************************)
EXTENDS PMM, FiniteSetTheorems, TLAPS

-----------------------------------------------------------------------------
(* Lemmas about the operators of the model *)

(* Block 0 is part of the memory below 1 MiB that pmm_init marks used.     *)
LEMMA ZeroReserved == 0 \in Reserved /\ Reserved \subseteq Blocks
BY PMMAssumption DEF Reserved, Region, Run, Blocks

(* Sets of blocks are finite.                                              *)
LEMMA BlocksFinite ==
  ASSUME NEW S \in SUBSET Blocks
  PROVE  /\ IsFiniteSet(S)
         /\ Cardinality(S) \in 0 .. pmm_max_blocks
<1>1. IsFiniteSet(Blocks) /\ Cardinality(Blocks) = pmm_max_blocks
  BY FS_Interval, PMMAssumption DEF Blocks
<1>2. IsFiniteSet(S) /\ Cardinality(S) <= Cardinality(Blocks)
  BY <1>1, FS_Subset
<1> QED
  BY <1>1, <1>2, FS_CardinalityType

(* A run of n blocks has n members.                                        *)
LEMMA RunCardinality ==
  ASSUME NEW s \in Nat, NEW n \in Nat
  PROVE  IsFiniteSet(Run(s, n)) /\ Cardinality(Run(s, n)) = n
BY FS_Interval DEF Run

(* Setting the bits of a run of free blocks adds n to the used blocks.     *)
LEMMA AddRun ==
  ASSUME NEW M \in SUBSET Blocks, NEW s \in Nat, NEW n \in Nat,
         Run(s, n) \subseteq Blocks \ M
  PROVE  /\ Cardinality(M \cup Run(s, n)) = Cardinality(M) + n
         /\ Cardinality(M) + n <= pmm_max_blocks
<1>1. IsFiniteSet(M) /\ Cardinality(M) \in Nat
  BY BlocksFinite
<1>2. IsFiniteSet(Run(s, n)) /\ Cardinality(Run(s, n)) = n
  BY RunCardinality
<1>3. M \cap Run(s, n) = {}
  OBVIOUS
<1>4. Cardinality(M \cap Run(s, n)) = 0
  BY <1>3, FS_EmptySet
<1>5. Cardinality(M \cup Run(s, n)) = Cardinality(M) + n
  <2>1. Cardinality(M \cup Run(s, n))
          = Cardinality(M) + Cardinality(Run(s, n)) - Cardinality(M \cap Run(s, n))
    BY <1>1, <1>2, FS_Union, Zenon
  <2> QED
    BY <2>1, <1>1, <1>2, <1>4
<1>6. M \cup Run(s, n) \in SUBSET Blocks
  OBVIOUS
<1> QED
  BY <1>5, <1>6, BlocksFinite, PMMAssumption

(* Clearing set bits removes as many used blocks as there were set bits.   *)
LEMMA RemoveSet ==
  ASSUME NEW M \in SUBSET Blocks, NEW S \in SUBSET M
  PROVE  /\ Cardinality(M \ S) = Cardinality(M) - Cardinality(S)
         /\ Cardinality(M) - Cardinality(S) \in 0 .. pmm_max_blocks
<1>1. IsFiniteSet(M) /\ M \cap S = S /\ M \ S \in SUBSET Blocks
  BY BlocksFinite
<1>2. Cardinality(M \ S) = Cardinality(M) - Cardinality(M \cap S)
  BY <1>1, FS_Difference
<1> QED
  BY <1>1, <1>2, BlocksFinite

(* The heart of pmm_alloc_blocks: its counter of consecutive free blocks   *)
(* runs on from the end of memory into the second pass, but since block 0  *)
(* is in use, a counted window never spans that seam, and the blocks it    *)
(* stands for are n adjacent free blocks of memory.                        *)
LEMMA ScanWindow ==
  ASSUME NEW M \in SUBSET Blocks, 0 \in M,
         NEW last \in Blocks, NEW n \in Nat \ {0},
         NEW k \in ScanStops(M, last, n)
  PROVE  /\ Scanned(last, k - n + 1) \in Blocks
         /\ Run(Scanned(last, k - n + 1), n) \subseteq Blocks \ M
<1> DEFINE seam == pmm_max_blocks - last
<1>1. /\ k \in (n - 1) .. (ScanLength(last) - 1)
      /\ \A j \in (k - n + 1) .. k : Scanned(last, j) \notin M
  BY DEF ScanStops
<1>2. seam \in Nat \ {0} /\ k \in Nat /\ k < seam + pmm_max_blocks
  BY <1>1, PMMAssumption DEF ScanLength, Blocks
<1>3. Scanned(last, seam) = 0
  BY <1>2, PMMAssumption DEF Scanned, Blocks
<1>4. ~(k - n + 1 <= seam /\ seam <= k)
  BY <1>1, <1>2, <1>3
<1>5. CASE k < seam
  <2>1. Scanned(last, k - n + 1) = last + (k - n + 1)
    BY <1>1, <1>2, <1>5, PMMAssumption DEF Scanned, Blocks
  <2>2. ASSUME NEW b \in Run(Scanned(last, k - n + 1), n)
        PROVE  b \in Blocks \ M
    <3>1. /\ b - last \in (k - n + 1) .. k
          /\ b \in last .. (last + k)
      BY <2>1, <1>1, <1>2, PMMAssumption DEF Run, Blocks
    <3>2. Scanned(last, b - last) = b
      BY <3>1, <1>2, <1>5, PMMAssumption DEF Scanned, Blocks
    <3>3. b \notin M
      BY <3>1, <3>2, <1>1
    <3> QED
      BY <3>1, <3>3, <1>2, <1>5, PMMAssumption DEF Blocks
  <2>3. Scanned(last, k - n + 1) \in Run(Scanned(last, k - n + 1), n)
    BY <2>1, <1>2, PMMAssumption DEF Run, Blocks
  <2> QED
    BY <2>2, <2>3
<1>6. CASE seam < k - n + 1
  <2>1. Scanned(last, k - n + 1) = (k - n + 1) - seam
    BY <1>1, <1>2, <1>6, PMMAssumption DEF Scanned, Blocks
  <2>2. ASSUME NEW b \in Run(Scanned(last, k - n + 1), n)
        PROVE  b \in Blocks \ M
    <3>1. b + seam \in (k - n + 1) .. k /\ b \in 0 .. (k - seam)
      BY <2>1, <1>1, <1>2, <1>6, PMMAssumption DEF Run, Blocks
    <3>2. Scanned(last, b + seam) = b
      BY <3>1, <1>2, <1>6, PMMAssumption DEF Scanned, Blocks
    <3>3. b \notin M
      BY <3>1, <3>2, <1>1
    <3> QED
      BY <3>1, <3>3, <1>2, PMMAssumption DEF Blocks
  <2>3. Scanned(last, k - n + 1) \in Run(Scanned(last, k - n + 1), n)
    BY <2>1, <1>1, <1>2, <1>6, PMMAssumption DEF Run, Blocks
  <2> QED
    BY <2>2, <2>3
<1> QED
  BY <1>2, <1>4, <1>5, <1>6

-----------------------------------------------------------------------------
(* What one step may do *)

(* A step keeps the invariant, gives out only free blocks, gives out every *)
(* block it marks, and is a step of the abstract allocator.                *)
StepOK == /\ Inv'
          /\ held' \cap pmm_memory_map \subseteq held
          /\ pmm_memory_map' \ pmm_memory_map \subseteq held'
          /\ [FA!FANext]_(FA!faVars)

(* Handing out a run of free blocks is such a step: it is a grant.         *)
LEMMA GiveOutStep ==
  ASSUME Inv, NEW s \in Blocks, NEW n \in Nat \ {0},
         Run(s, n) \subseteq Blocks \ pmm_memory_map,
         GiveOut(s, n), pmm_last_alloc' \in Blocks
  PROVE  StepOK
<1> DEFINE M == pmm_memory_map
           R == Run(s, n)
<1>1. M \in SUBSET Blocks /\ s \in Nat /\ s # 0
  <2>1. s \in Run(s, n)
    BY PMMAssumption DEF Run, Blocks
  <2> QED
    BY <2>1, ZeroReserved, PMMAssumption DEF Inv, TypeOK, ReservedNeverGiven, Blocks
<1>2. /\ M' = M \cup R
      /\ pmm_used_blocks' = pmm_used_blocks + n
      /\ held' = held \cup R
  BY <1>1 DEF GiveOut, NULL
<1>3. Cardinality(M \cup R) = Cardinality(M) + n /\ Cardinality(M) + n <= pmm_max_blocks
  BY <1>1, AddRun
<1>4. TypeOK' /\ CounterAgrees'
  <2>1. Cardinality(M) \in Nat
    BY <1>1, BlocksFinite
  <2>2. CounterAgrees'
    BY <1>2, <1>3 DEF Inv, CounterAgrees
  <2>3. pmm_used_blocks' \in 0 .. pmm_max_blocks
    BY <1>2, <1>3, <2>1, PMMAssumption DEF Inv, CounterAgrees
  <2>4. M' \subseteq Blocks /\ held' \subseteq Blocks
    BY <1>1, <1>2 DEF Inv, TypeOK
  <2> QED
    BY <2>2, <2>3, <2>4 DEF TypeOK
<1>5. ReservedNeverGiven'
  BY <1>2 DEF Inv, ReservedNeverGiven
<1>6. held' \cap M \subseteq held /\ M' \ M \subseteq held'
  BY <1>2
<1>7. FA!Grant
  <2>1. R = s .. (s + n - 1) /\ s <= s + n - 1 /\ s \in R /\ s + n - 1 \in R
    BY <1>1 DEF Run
  <2>2. (Blocks \ M)' = (Blocks \ M) \ R
    BY <1>2
  <2> QED
    BY <1>2, <2>1, <2>2 DEF FA!Grant
<1> QED
  BY <1>4, <1>5, <1>6, <1>7 DEF StepOK, Inv, FA!FANext

(* Clearing the bits of blocks that the caller holds gives them back.      *)
LEMMA GiveBackStep ==
  ASSUME Inv, NEW S \in SUBSET held,
         pmm_memory_map' = pmm_memory_map \ S,
         pmm_used_blocks' = pmm_used_blocks - Cardinality(S),
         held' = held \ S, pmm_last_alloc' = pmm_last_alloc
  PROVE  StepOK
<1>1. pmm_memory_map \in SUBSET Blocks /\ S \in SUBSET pmm_memory_map
  BY DEF Inv, TypeOK, ReservedNeverGiven
<1>2. TypeOK' /\ CounterAgrees'
  BY <1>1, RemoveSet DEF Inv, TypeOK, CounterAgrees
<1>3. ReservedNeverGiven'
  BY DEF Inv, ReservedNeverGiven
<1>4. FA!Return
  <2>1. (Blocks \ pmm_memory_map)' = (Blocks \ pmm_memory_map) \cup S
    BY <1>1
  <2> QED
    BY <2>1 DEF FA!Return
<1> QED
  BY <1>2, <1>3, <1>4 DEF StepOK, Inv, FA!FANext

(* A free that changes nothing in the allocator abandons the blocks.       *)
LEMMA AbandonStep ==
  ASSUME Inv, NEW S \in SUBSET held, held' = held \ S, UNCHANGED pmmState
  PROVE  StepOK
<1>1. Inv'
  BY DEF Inv, TypeOK, CounterAgrees, ReservedNeverGiven, pmmState
<1>2. FA!Abandon
  BY DEF FA!Abandon, pmmState
<1> QED
  BY <1>1, <1>2 DEF StepOK, FA!FANext, pmmState

(* A refused call changes nothing.                                         *)
LEMMA StutterStep == ASSUME Inv, UNCHANGED vars PROVE StepOK
<1>1. Inv' /\ held' = held /\ pmm_memory_map' = pmm_memory_map
  BY DEF vars, Inv, TypeOK, CounterAgrees, ReservedNeverGiven
<1> QED
  BY <1>1 DEF StepOK, FA!faVars

(* Every call of the PMM is such a step.                                   *)
LEMMA NextStep == ASSUME Inv, [Next]_vars PROVE StepOK
<1> USE DEF Refuse
<1>0. /\ pmm_memory_map \in SUBSET Blocks
      /\ 0 \in pmm_memory_map
      /\ pmm_last_alloc \in Blocks
  BY ZeroReserved DEF Inv, TypeOK, ReservedNeverGiven
<1>1. CASE pmm_alloc_block
  <2>1. ASSUME NEW b \in Blocks, IsLeast(b, FreeInWholeBytes(pmm_memory_map)),
               GiveOut(b, 1), UNCHANGED pmm_last_alloc
        PROVE  StepOK
    <3>1. Run(b, 1) = {b}
      BY PMMAssumption DEF Run, Blocks
    <3>2. Run(b, 1) \subseteq Blocks \ pmm_memory_map
      BY <2>1, <3>1 DEF IsLeast, FreeInWholeBytes
    <3> QED
      BY <2>1, <3>2, <1>0, GiveOutStep
  <2> QED
    BY <1>1, <2>1, StutterStep DEF pmm_alloc_block
<1>2. ASSUME NEW n \in Requests, pmm_alloc_blocks(n)
      PROVE  StepOK
  <2> DEFINE stops == ScanStops(pmm_memory_map, pmm_last_alloc, n)
  <2>1. ASSUME validate_allocation_request(n), NEW k \in stops,
               GiveOut(Scanned(pmm_last_alloc, k - n + 1), n),
               pmm_last_alloc' = (Scanned(pmm_last_alloc, k - n + 1) + n) % pmm_max_blocks
        PROVE  StepOK
    <3> DEFINE s == Scanned(pmm_last_alloc, k - n + 1)
    <3>1. n \in Nat \ {0}
      BY <2>1, PMMAssumption DEF validate_allocation_request
    <3>2. s \in Blocks /\ Run(s, n) \subseteq Blocks \ pmm_memory_map
      BY <1>0, <3>1, ScanWindow
    <3>3. pmm_last_alloc' \in Blocks
      BY <2>1, <3>1, <3>2, PMMAssumption DEF Blocks
    <3> QED
      BY <2>1, <3>1, <3>2, <3>3, GiveOutStep
  <2> QED
    BY <1>2, <2>1, StutterStep DEF pmm_alloc_blocks
<1>3. ASSUME NEW n \in Requests, pmm_alloc_contiguous(n)
      PROVE  StepOK
  <2>1. ASSUME n # 0, NEW s \in find_contiguous_free_blocks(pmm_memory_map, n),
               GiveOut(s, n), UNCHANGED pmm_last_alloc
        PROVE  StepOK
    <3>1. s \in Blocks /\ n \in Nat \ {0}
      BY <2>1, PMMAssumption DEF find_contiguous_free_blocks
    <3>2. Run(s, n) \subseteq Blocks \ pmm_memory_map
      BY <2>1, <3>1, PMMAssumption
      DEF find_contiguous_free_blocks, RunIsFree, pmm_is_block_free, Run, Blocks
    <3> QED
      BY <2>1, <3>1, <3>2, <1>0, GiveOutStep
  <2> QED
    BY <1>3, <2>1, StutterStep DEF pmm_alloc_contiguous, IsLeast
<1>4. ASSUME NEW n \in Requests, pmm_alloc_blocks_in_range(n, DmaStart, DmaEnd)
      PROVE  StepOK
  <2>1. ASSUME n # 0, NEW s \in RangeStarts(pmm_memory_map, n, DmaStart, DmaEnd),
               GiveOut(s, n), UNCHANGED pmm_last_alloc
        PROVE  StepOK
    <3>1. s \in Nat /\ n \in Nat \ {0} /\ RunIsFree(pmm_memory_map, s, n)
      BY <2>1, PMMAssumption DEF RangeStarts
    <3>2. Run(s, n) \subseteq Blocks \ pmm_memory_map /\ s \in Run(s, n)
      BY <3>1, PMMAssumption DEF RunIsFree, pmm_is_block_free, Run, Blocks
    <3> QED
      BY <2>1, <3>1, <3>2, <1>0, GiveOutStep
  <2> QED
    BY <1>4, <2>1, StutterStep DEF pmm_alloc_blocks_in_range, IsLeast
<1>5. ASSUME NEW b \in Blocks, pmm_free_block(b)
      PROVE  StepOK
  BY <1>5, AbandonStep DEF pmm_free_block
<1>6. ASSUME NEW b \in Blocks, NEW n \in Requests, pmm_free_blocks(b, n)
      PROVE  StepOK
  <2>1. CASE held' = held \ Run(b, n)
    BY <1>6, <2>1, AbandonStep DEF pmm_free_blocks
  <2>2. CASE held' = held
    BY <1>6, <2>2, StutterStep DEF pmm_free_blocks, vars, pmmState
  <2> QED
    BY <1>6, <2>1, <2>2 DEF pmm_free_blocks
<1>7. ASSUME NEW b \in Blocks, NEW n \in Requests, pmm_free_contiguous(b, n)
      PROVE  StepOK
  <2>1. CASE \/ b = NULL \/ n = 0 \/ b + n > pmm_max_blocks
             \/ \E c \in Run(b, n) : pmm_is_block_free(pmm_memory_map, c)
    BY <1>7, <2>1, StutterStep DEF pmm_free_contiguous, vars
  <2>2. CASE ~(\/ b = NULL \/ n = 0 \/ b + n > pmm_max_blocks
               \/ \E c \in Run(b, n) : pmm_is_block_free(pmm_memory_map, c))
    <3>1. b \in Nat /\ n \in Nat
      BY PMMAssumption DEF Blocks
    <3>2. Cardinality(Run(b, n)) = n
      BY <3>1, RunCardinality
    <3> QED
      BY <1>7, <2>2, <3>2, GiveBackStep DEF pmm_free_contiguous
  <2> QED
    BY <2>1, <2>2
<1>8. ASSUME NEW b \in Blocks, NEW n \in Requests, pmm_mark_unused_region(b, n)
      PROVE  StepOK
  <2>1. Run(b, n) \subseteq held /\ held \subseteq Blocks /\ held \subseteq pmm_memory_map
    BY <1>8 DEF pmm_mark_unused_region, Inv, TypeOK, ReservedNeverGiven
  <2>2. Region(b, n) = Run(b, n) /\ Region(b, n) \cap pmm_memory_map = Run(b, n)
    BY <2>1 DEF Region
  <2> QED
    BY <1>8, <2>1, <2>2, GiveBackStep DEF pmm_mark_unused_region
<1> QED
  BY <1>1, <1>2, <1>3, <1>4, <1>5, <1>6, <1>7, <1>8, StutterStep DEF Next

-----------------------------------------------------------------------------
(* Theorems *)

(* The state that pmm_init leaves behind satisfies the invariant.          *)
LEMMA InitInv == Init => Inv
BY ZeroReserved, BlocksFinite, PMMAssumption
DEF Init, pmm_init, Inv, TypeOK, CounterAgrees, ReservedNeverGiven, Blocks

(* The invariant holds in every reachable state, so that bitmap, counter   *)
(* and reserved memory stay consistent under any sequence of PMM calls.    *)
THEOREM PMMInvariant == Spec => []Inv
<1>1. Inv /\ [Next]_vars => Inv'
  BY NextStep DEF StepOK
<1> QED
  BY <1>1, InitInv, PTL DEF Spec

(* Every bit the PMM sets belongs to existing memory.                      *)
THEOREM TypeCorrect == Spec => []TypeOK
<1>1. Inv => TypeOK
  BY DEF Inv
<1> QED
  BY <1>1, PMMInvariant, PTL

(* The counter and the bitmap agree, through every allocator and free.     *)
THEOREM CounterCorrect == Spec => []CounterAgrees
<1>1. Inv => CounterAgrees
  BY DEF Inv
<1> QED
  BY <1>1, PMMInvariant, PTL

(* Reserved memory is never handed out.                                    *)
THEOREM ReservedCorrect == Spec => []ReservedNeverGiven
<1>1. Inv => ReservedNeverGiven
  BY DEF Inv
<1> QED
  BY <1>1, PMMInvariant, PTL

(* No block is handed out while it is in use.                              *)
THEOREM GrantsAreExclusive == Spec => NoDoubleGrant
<1>1. Inv /\ [Next]_vars => [held' \cap pmm_memory_map \subseteq held]_vars
  BY NextStep DEF StepOK
<1> QED
  BY <1>1, PMMInvariant, PTL DEF Spec, NoDoubleGrant

(* A call that returns NULL has taken nothing.                             *)
THEOREM NullIsFailure == Spec => NullTakesNothing
<1>1. Inv /\ [Next]_vars => [pmm_memory_map' \ pmm_memory_map \subseteq held']_vars
  BY NextStep DEF StepOK
<1> QED
  BY <1>1, PMMInvariant, PTL DEF Spec, NullTakesNothing

(* pmm_alloc_blocks finds a run whenever there is one: the second pass     *)
(* scans the whole of memory, and the counter leaves room for the run.     *)
THEOREM SearchIsComplete == Spec => []GivesUpOnlyWhenFragmented
<1>1. ASSUME Inv, NEW n \in Requests \ {0}, NEW s \in Blocks,
             RunIsFree(pmm_memory_map, s, n)
      PROVE  /\ validate_allocation_request(n)
             /\ ScanStops(pmm_memory_map, pmm_last_alloc, n) # {}
  <2> DEFINE seam == pmm_max_blocks - pmm_last_alloc
             k    == seam + s + n - 1
  <2>1. /\ n \in Nat \ {0} /\ s \in Nat /\ pmm_memory_map \in SUBSET Blocks
        /\ seam \in Nat \ {0} /\ pmm_last_alloc \in Nat
    BY <1>1, PMMAssumption DEF Inv, TypeOK, Blocks
  <2>2. Run(s, n) \subseteq Blocks \ pmm_memory_map
    BY <1>1, <2>1, PMMAssumption DEF RunIsFree, pmm_is_block_free, Run, Blocks
  <2>3. Cardinality(pmm_memory_map) + n <= pmm_max_blocks
    BY <2>1, <2>2, AddRun
  <2>4. validate_allocation_request(n)
    <3>1. Cardinality(pmm_memory_map) \in Nat
      BY <2>1, BlocksFinite
    <3> QED
      BY <1>1, <2>1, <2>3, <3>1, PMMAssumption
      DEF validate_allocation_request, Inv, CounterAgrees
  <2>5. s + n - 1 \in Run(s, n) /\ s + n - 1 < pmm_max_blocks
    BY <2>1, <2>2, PMMAssumption DEF Run, Blocks
  <2>6. k \in (n - 1) .. (ScanLength(pmm_last_alloc) - 1)
    BY <2>1, <2>5, PMMAssumption DEF ScanLength
  <2>7. ASSUME NEW j \in (k - n + 1) .. k
        PROVE  Scanned(pmm_last_alloc, j) \notin pmm_memory_map
    <3>1. Scanned(pmm_last_alloc, j) = j - seam
      BY <2>1, PMMAssumption DEF Scanned
    <3>2. j - seam \in Run(s, n)
      BY <2>1 DEF Run
    <3> QED
      BY <3>1, <3>2, <2>2
  <2>8. k \in ScanStops(pmm_memory_map, pmm_last_alloc, n)
    BY <2>6, <2>7 DEF ScanStops
  <2> QED
    BY <2>4, <2>8
<1>2. Inv => GivesUpOnlyWhenFragmented
  BY <1>1 DEF GivesUpOnlyWhenFragmented
<1> QED
  BY <1>2, PMMInvariant, PTL

(* The PMM implements the abstract frame allocator.                        *)
THEOREM Refinement == Spec => IsFrameAllocator
<1>1. Init => FA!FAInit
  BY ZeroReserved DEF Init, pmm_init, FA!FAInit
<1>2. Inv /\ [Next]_vars => [FA!FANext]_(FA!faVars)
  BY NextStep DEF StepOK
<1> QED
  BY <1>1, <1>2, PMMInvariant, PTL DEF Spec, IsFrameAllocator, FA!FASpec

=============================================================================
