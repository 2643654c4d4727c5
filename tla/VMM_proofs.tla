----------------------------- MODULE VMM_proofs -----------------------------
(***************************************************************************)
(* Proofs about VMM.  Each operation of the model is a function from one   *)
(* state of memory to another; a lemma says what each one does to the      *)
(* frames, the bitmap of pages and the page tables of everyone else:       *)
(*   Grants, Taken    a call of the PMM                                    *)
(*   Maps, Mapped     what the page tables gain                            *)
(*   Released         what a free gives back, and of whom                  *)
(*   Kept, Fresh...   what an allocation leaves alone, and what it returns *)
(* Two inductive invariants rest on them, both until the heap takes pages  *)
(* in the middle of a call that has no lock (overtaken).  MemInv is about  *)
(* the PMM; OwnInv is about the callers and needs the code's own           *)
(* assumptions as well (GrantedSpec).                                      *)
(***************************************************************************)
EXTENDS VMM, InductionLemmas, FiniteSetTheorems, TLAPS

Blocks == P!Blocks
Reserved == P!Reserved
Run(s, n) == s .. (s + n - 1)
Frames == {Unmapped} \cup (0 .. (Device + vmm_max_pages))

(* Memory that the program can have, bit by bit.                           *)
Mem == [map : SUBSET Blocks, used : Nat, last : Blocks, held : SUBSET Blocks,
        bitmap : SUBSET Pages, pd : [Tables -> BOOLEAN], pt : [Pages -> Frames]]

(* The PMM's part of it is consistent.                                     *)
Sound(st) == /\ st \in Mem
             /\ st.used = Cardinality(st.map)
             /\ Reserved \subseteq st.map
             /\ st.held \subseteq st.map
             /\ st.held \cap Reserved = {}

-----------------------------------------------------------------------------
(* Frames *)

(* What the assumption on the constants says, part by part.                *)
LEMMA Sizes ==
  /\ pmm_max_blocks \in Nat \ {0} /\ PMM_BLOCKS_PER_BYTE \in Nat \ {0}
  /\ LowBlocks \in Nat \ {0} /\ KernelBlocks \in Nat
  /\ LowBlocks + KernelBlocks <= pmm_max_blocks
  /\ BitmapBase \in LowBlocks .. (LowBlocks + KernelBlocks)
  /\ DmaStart \in Nat /\ DmaEnd \in Nat
  /\ vmm_max_pages \in Nat \ {0} /\ TablePages \in 1 .. vmm_max_pages
  /\ HeapSizes \subseteq Nat /\ DmaSizes \subseteq 0 .. TablePages /\ ChunkSizes \subseteq Nat
  /\ FbFirst \in Nat /\ FbPages \in Nat /\ FbFirst + FbPages <= vmm_max_pages
  /\ BitmapPage \in Pages
  /\ BootBitmaps \subseteq SUBSET Pages
BY VMMAssumption DEF Pages

(* Frames and pages are numbers; a frame of memory is no device's.         *)
LEMMA Numbers ==
  /\ Blocks \subseteq Nat /\ \A b \in Blocks : b < Device /\ b \in Frames
  /\ Pages \subseteq Nat /\ \A v \in Pages : v < vmm_max_pages
  /\ Device \in Nat /\ Frames \subseteq Int /\ Unmapped \in Frames
  /\ 0 \in Pages
BY Sizes DEF Blocks, P!Blocks, Pages, Device, Frames, Unmapped

(* The reserved frames are the first ones: the kernel image follows the    *)
(* low megabyte and the PMM's bitmap lies in it.                           *)
LEMMA ReservedIsPrefix ==
  /\ 0 \in Reserved /\ Reserved \subseteq Blocks
  /\ \A b \in Blocks, c \in Reserved : b <= c => b \in Reserved
<1>1. P!BitmapBlocks \in Nat
  <2>1. pmm_max_blocks \div PMM_BLOCKS_PER_BYTE \in Nat
    BY Sizes
  <2> QED BY <2>1 DEF P!BitmapBlocks, P!PMM_BLOCK_SIZE
<1> QED
  BY <1>1, Sizes DEF Reserved, Blocks, P!Reserved, P!Region, P!Run, P!Blocks

(* Sets of frames are finite.                                              *)
LEMMA FramesFinite ==
  ASSUME NEW S \in SUBSET Blocks
  PROVE  IsFiniteSet(S) /\ Cardinality(S) \in 0 .. pmm_max_blocks
<1>1. IsFiniteSet(Blocks) /\ Cardinality(Blocks) = pmm_max_blocks
  BY FS_Interval, Sizes DEF Blocks, P!Blocks
<1>2. IsFiniteSet(S) /\ Cardinality(S) <= Cardinality(Blocks)
  BY <1>1, FS_Subset
<1> QED
  BY <1>1, <1>2, FS_CardinalityType, Sizes

(* The least of some numbers is one of them.                               *)
LEMMA LeastIs ==
  ASSUME NEW S \in SUBSET Nat, S # {}
  PROVE  Least(S) \in S /\ \A y \in S : Least(S) <= y
<1>1. \E x \in S : \A y \in S : x <= y
  BY LeastNatural
<1> QED
  BY <1>1 DEF Least

(* A run of n frames has n frames.                                         *)
LEMMA RunCardinality ==
  ASSUME NEW s \in Nat, NEW n \in Nat
  PROVE  IsFiniteSet(Run(s, n)) /\ Cardinality(Run(s, n)) = n
BY FS_Interval DEF Run

(* Frames s, s + 1, ... are taken.                                         *)
Taken(st, t, s, n) ==
  /\ Sound(t)
  /\ t.map = st.map \cup Run(s, n) /\ t.held = st.held \cup Run(s, n)
  /\ t.bitmap = st.bitmap /\ t.pd = st.pd /\ t.pt = st.pt

(* Taking free frames keeps the PMM consistent.                            *)
LEMMA TakeIs ==
  ASSUME NEW st, Sound(st), NEW s \in Blocks, NEW n \in Nat,
         Run(s, n) \subseteq Blocks \ st.map
  PROVE  Taken(st, Take(st, s, n), s, n)
<1> DEFINE R == Run(s, n)
<1>1. s \in Nat
  BY Numbers
<1>2. IsFiniteSet(R) /\ Cardinality(R) = n
  BY <1>1, RunCardinality
<1>3. st.map \in SUBSET Blocks /\ IsFiniteSet(st.map)
  BY FramesFinite DEF Sound, Mem
<1>4. Cardinality(st.map \cup R) = Cardinality(st.map) + Cardinality(R) - Cardinality(st.map \cap R)
  BY <1>2, <1>3, FS_Union
<1>5. st.map \cap R = {}
  OBVIOUS
<1>6. Cardinality(st.map \cup R) = st.used + n
  <2>1. Cardinality(st.map \cap R) = 0 /\ Cardinality(st.map) \in Nat
    BY <1>3, <1>5, FS_EmptySet, FS_CardinalityType
  <2> HIDE DEF R
  <2> QED BY <1>2, <1>4, <2>1 DEF Sound
<1>7. Take(st, s, n) = [st EXCEPT !.map = @ \cup R, !.used = @ + n, !.held = @ \cup R]
  BY DEF Take, P!Run, Run
<1> HIDE DEF R
<1>8. R \subseteq Blocks
  BY DEF R
<1>9. R \cap st.map = {}
  BY DEF R
<1>10. Reserved \cap R = {}
  BY <1>9 DEF Sound
<1>11. R = Run(s, n)
  BY DEF R
<1> DEFINE t == Take(st, s, n)
<1>12. st \in Mem
  BY DEF Sound
<1>13. /\ t.map = st.map \cup R /\ t.used = st.used + n /\ t.held = st.held \cup R
       /\ t.bitmap = st.bitmap /\ t.pd = st.pd /\ t.pt = st.pt
  BY <1>7, <1>12 DEF Mem
<1>14. t \in Mem
  <2>1. st.map \cup R \in SUBSET Blocks /\ st.held \cup R \in SUBSET Blocks /\ st.used + n \in Nat
    BY <1>8, <1>12 DEF Mem
  <2>2. t = [st EXCEPT !.map = st.map \cup R, !.used = st.used + n, !.held = st.held \cup R]
    BY <1>7
  <2> HIDE DEF t
  <2> QED BY <1>12, <2>1, <2>2 DEF Mem
<1> HIDE DEF t
<1>15. Sound(t)
  BY <1>6, <1>10, <1>13, <1>14 DEF Sound
<1> QED
  BY <1>11, <1>13, <1>15 DEF Taken, t

(* A call of the PMM returns NULL and changes nothing, or takes free       *)
(* frames, none of which is the null frame.                                *)
Grants(st, r, n) ==
  \/ r.ret = NULL /\ r.st = st
  \/ /\ r.ret \in Blocks \ Reserved /\ r.ret # NULL
     /\ Run(r.ret, n) \subseteq Blocks \ st.map
     /\ Taken(st, r.st, r.ret, n)

(* So does taking them from where a search stopped.                        *)
LEMMA GrantIs ==
  ASSUME NEW st, Sound(st), NEW n \in Nat \ {0}, NEW S \in SUBSET Blocks, S # {},
         \A s \in S : Run(s, n) \subseteq Blocks \ st.map,
         NEW r, r = [st |-> Take(st, Least(S), n), ret |-> Least(S)]
  PROVE  Grants(st, r, n)
<1> DEFINE s == Least(S)
<1>1. s \in S
  BY Numbers, LeastIs
<1>2. Run(s, n) \subseteq Blocks \ st.map
  BY <1>1
<1>3. s \in Run(s, n) /\ s \in Blocks
  <2> HIDE DEF s
  <2> QED BY <1>1, Numbers DEF Run
<1>4. s \notin Reserved /\ s # 0
  BY <1>2, <1>3, ReservedIsPrefix DEF Sound
<1>5. Taken(st, Take(st, s, n), s, n)
  BY <1>2, <1>3, TakeIs
<1> HIDE DEF s
<1>6. r.st = Take(st, s, n) /\ r.ret = s
  BY DEF s
<1> QED
  BY <1>2, <1>3, <1>4, <1>5, <1>6 DEF Grants, NULL

(* pmm_alloc_block finds a single frame.                                   *)
LEMMA AllocBlock == ASSUME NEW st, Sound(st) PROVE Grants(st, pmm_alloc_block(st), 1)
<1> DEFINE free == P!FreeInWholeBytes(st.map)
<1>1. CASE st.used >= pmm_max_blocks \/ free = {}
  BY <1>1 DEF pmm_alloc_block, Grants
<1>2. CASE ~(st.used >= pmm_max_blocks \/ free = {})
  <2>1. free \in SUBSET Blocks /\ \A s \in free : s \notin st.map
    BY DEF P!FreeInWholeBytes, Blocks
  <2>2. \A s \in free : Run(s, 1) \subseteq Blocks \ st.map
    BY <2>1, Numbers DEF Run
  <2>3. pmm_alloc_block(st) = [st |-> Take(st, Least(free), 1), ret |-> Least(free)]
    BY <1>2 DEF pmm_alloc_block
  <2> HIDE DEF free
  <2> QED BY <1>2, <2>1, <2>2, <2>3, GrantIs
<1> QED
  BY <1>1, <1>2

(* pmm_alloc_contiguous finds a run.                                       *)
LEMMA AllocContiguousBlocks ==
  ASSUME NEW st, Sound(st), NEW n \in Nat
  PROVE  Grants(st, pmm_alloc_contiguous(st, n), n)
<1> DEFINE starts == P!find_contiguous_free_blocks(st.map, n)
<1>1. CASE n = 0 \/ n > pmm_max_blocks \/ starts = {}
  BY <1>1 DEF pmm_alloc_contiguous, Grants
<1>2. CASE ~(n = 0 \/ n > pmm_max_blocks \/ starts = {})
  <2>1. starts \in SUBSET Blocks
    BY DEF P!find_contiguous_free_blocks, Blocks
  <2>2. ASSUME NEW s \in starts PROVE Run(s, n) \subseteq Blocks \ st.map
    BY <2>1, Numbers, Sizes DEF P!find_contiguous_free_blocks, P!RunIsFree, P!Run, Run,
       P!pmm_is_block_free, Blocks, P!Blocks
  <2>3. pmm_alloc_contiguous(st, n) = [st |-> Take(st, Least(starts), n), ret |-> Least(starts)]
    BY <1>2 DEF pmm_alloc_contiguous
  <2> HIDE DEF starts
  <2> QED BY <1>2, <2>1, <2>2, <2>3, GrantIs
<1> QED
  BY <1>1, <1>2

(* pmm_alloc_blocks_in_range finds one in the DMA zone.                    *)
LEMMA AllocRangeBlocks ==
  ASSUME NEW st, Sound(st), NEW n \in Nat
  PROVE  Grants(st, pmm_alloc_blocks_in_range(st, n), n)
<1> DEFINE starts == P!RangeStarts(st.map, n, DmaStart, DmaEnd)
<1>1. CASE n = 0 \/ DmaStart >= DmaEnd \/ starts = {}
  BY <1>1 DEF pmm_alloc_blocks_in_range, Grants
<1>2. CASE ~(n = 0 \/ DmaStart >= DmaEnd \/ starts = {})
  <2>1. ASSUME NEW s \in starts PROVE Run(s, n) \subseteq Blocks \ st.map /\ s \in Blocks
    <3>1. s \in Nat /\ s \in Run(s, n)
      BY <1>2, Sizes DEF P!RangeStarts, Run
    <3> QED BY <3>1, Sizes DEF P!RangeStarts, P!RunIsFree, P!Run, Run,
       P!pmm_is_block_free, Blocks, P!Blocks
  <2>2. pmm_alloc_blocks_in_range(st, n) = [st |-> Take(st, Least(starts), n), ret |-> Least(starts)]
    BY <1>2 DEF pmm_alloc_blocks_in_range
  <2> HIDE DEF starts
  <2> QED BY <1>2, <2>1, <2>2, GrantIs
<1> QED
  BY <1>1, <1>2

(* The scan of pmm_alloc_blocks does not count on from the last frames to  *)
(* the first ones, since the null frame is reserved: it stops at a run.    *)
LEMMA AllocBlocks ==
  ASSUME NEW st, Sound(st), NEW n \in Nat
  PROVE  Grants(st, pmm_alloc_blocks(st, n), n)
<1> DEFINE stops == P!ScanStops(st.map, st.last, n)
           k == Least(stops)
           e == k - n + 1
           s == P!Scanned(st.last, e)
           l == (s + n) % pmm_max_blocks
           t == Take(st, s, n)
           r == pmm_alloc_blocks(st, n)
<1>1. CASE n = 0 \/ n > pmm_max_blocks \/ st.used + n > pmm_max_blocks \/ stops = {}
  BY <1>1 DEF pmm_alloc_blocks, Grants
<1>2. CASE ~(n = 0 \/ n > pmm_max_blocks \/ st.used + n > pmm_max_blocks \/ stops = {})
  <2>1. st.last \in Nat /\ st.last < pmm_max_blocks /\ 0 \in st.map
    BY ReservedIsPrefix, Sizes DEF Sound, Mem, Blocks, P!Blocks
  <2>2. stops \in SUBSET Nat
    BY <1>2, <2>1, Sizes DEF P!ScanStops, P!ScanLength
  <2>3. k \in stops
    <3> HIDE DEF stops
    <3> QED BY <1>2, <2>2, LeastIs
  <2>4. r = [st |-> [t EXCEPT !.last = l], ret |-> s]
    BY <1>2 DEF pmm_alloc_blocks
  <2> HIDE DEF k, r
  <2>5. /\ k \in Nat /\ e \in Nat /\ k < P!ScanLength(st.last)
        /\ \A j \in e .. k : P!Scanned(st.last, j) \notin st.map
    BY <1>2, <2>1, <2>3, Sizes DEF P!ScanStops, P!ScanLength
  <2> DEFINE c == pmm_max_blocks - st.last
  <2>6. ~(e <= c /\ c <= k)
    <3>1. P!Scanned(st.last, c) = 0 /\ c \in Nat
      BY <2>1, Sizes DEF P!Scanned
    <3>2. e <= c /\ c <= k => c \in e .. k
      BY <2>5, <3>1
    <3> QED BY <2>1, <2>5, <3>1, <3>2
  <2>7. s \in Nat /\ s + n <= pmm_max_blocks
        /\ \A i \in 0 .. (n - 1) : e + i \in e .. k /\ P!Scanned(st.last, e + i) = s + i
    <3>1. CASE k < c
      BY <1>2, <2>1, <2>5, <3>1, Sizes DEF P!Scanned, P!ScanLength
    <3>2. CASE c < e
      BY <1>2, <2>1, <2>5, <3>2, Sizes DEF P!Scanned, P!ScanLength
    <3> QED BY <2>1, <2>5, <2>6, <3>1, <3>2, Sizes
  <2>8. Run(s, n) \subseteq Blocks \ st.map /\ s \in Run(s, n)
    <3> HIDE DEF s, e, stops
    <3>1. ASSUME NEW b \in Run(s, n) PROVE b \in Blocks \ st.map
      <4>1. b - s \in 0 .. (n - 1) /\ s + (b - s) = b
        BY <2>7, <3>1 DEF Run
      <4>2. b \notin st.map
        BY <2>5, <2>7, <4>1
      <4>3. b \in Blocks
        BY <2>7, <3>1, Sizes DEF Run, Blocks, P!Blocks
      <4> QED BY <4>2, <4>3
    <3> QED BY <1>2, <2>7, <3>1 DEF Run
  <2>9. l \in Blocks
    <3> HIDE DEF s
    <3> QED BY <2>7, Sizes DEF Blocks, P!Blocks
  <2> HIDE DEF s, l
  <2>10. s \in Blocks /\ s \notin Reserved /\ s # 0
    BY <2>8, ReservedIsPrefix DEF Sound
  <2>11. Taken(st, t, s, n)
    BY <2>8, <2>10, TakeIs
  <2> HIDE DEF t
  <2>12. Taken(st, [t EXCEPT !.last = l], s, n)
    BY <2>9, <2>11 DEF Taken, Sound, Mem
  <2>13. Grants(st, r, n)
    BY <2>4, <2>8, <2>10, <2>12 DEF Grants, NULL
  <2> QED BY <2>13 DEF r
<1> QED
  BY <1>1, <1>2

(* pmm_free_block gives up a frame and frees none.                         *)
LEMMA FreeBlock ==
  ASSUME NEW st, Sound(st), NEW f
  PROVE  LET t == pmm_free_block(st, f)
         IN /\ Sound(t) /\ t.map = st.map /\ t.held = st.held \ {f}
            /\ t.bitmap = st.bitmap /\ t.pd = st.pd /\ t.pt = st.pt
BY DEF pmm_free_block, Sound, Mem

(* Clearing a bit that is not reserved keeps the PMM consistent.           *)
LEMMA UnmarkBlock ==
  ASSUME NEW st, Sound(st), NEW f \in Nat, f \notin Reserved
  PROVE  LET t == pmm_mark_unused_region(st, f, 1)
         IN /\ Sound(t) /\ t.held = st.held \ {f} 
            /\ t.bitmap = st.bitmap /\ t.pd = st.pd /\ t.pt = st.pt
<1> DEFINE gone == P!Region(f, 1)
<1>1. gone = {f} \cap Blocks
  BY DEF P!Region, P!Run, Blocks
<1>2. st.map \in SUBSET Blocks /\ IsFiniteSet(st.map) /\ st.map \ gone \in SUBSET Blocks
  BY FramesFinite DEF Sound, Mem
<1>3. Cardinality(st.map \ gone) = Cardinality(st.map) - Cardinality(st.map \cap gone)
  BY <1>2, FS_Difference
<1>4. Cardinality(st.map \ gone) = st.used - Cardinality(gone \cap st.map)
  <2>1. gone \cap st.map = st.map \cap gone
    OBVIOUS
  <2> HIDE DEF gone
  <2> QED BY <1>3, <2>1 DEF Sound
<1>5. Cardinality(st.map \ gone) \in Nat
  BY <1>2, FramesFinite
<1>6. pmm_mark_unused_region(st, f, 1) =
        [st EXCEPT !.map = @ \ gone, !.used = @ - Cardinality(gone \cap st.map), !.held = @ \ gone]
  BY DEF pmm_mark_unused_region
<1>7. gone \cap Reserved = {} /\ st.held \ gone = st.held \ {f}
  BY <1>1, <1>2 DEF Sound
<1> HIDE DEF gone
<1>8. st.used - Cardinality(gone \cap st.map) = Cardinality(st.map \ gone)
  BY <1>4
<1> QED
  BY <1>2, <1>5, <1>6, <1>7, <1>8 DEF Sound, Mem

-----------------------------------------------------------------------------
(* Page tables *)

(* From st to t nothing was freed and the bitmap of pages is as it was.    *)
Grown(st, t) == /\ Sound(t)
                /\ st.map \subseteq t.map /\ st.held \subseteq t.held
                /\ t.bitmap = st.bitmap
                /\ \A x \in Tables : st.pd[x] => t.pd[x]

(* A page has one table.                                                   *)
LEMMA TableOf == ASSUME NEW v \in Pages PROVE Table(v) \in Tables
BY DEF Tables

(* paging_map_page fails only without a table, and then changes nothing.   *)
Maps(st, r, f, v) ==
  \/ r.ok = FALSE /\ r.st = st /\ st.pd[Table(v)] = FALSE
  \/ /\ r.ok = TRUE /\ Grown(st, r.st) /\ r.st.pd[Table(v)] = TRUE
     /\ r.st.pt = [st.pt EXCEPT ![v] = f]

(* It takes a frame for a table at most, and changes one entry.            *)
LEMMA MapPage ==
  ASSUME NEW st, Sound(st), NEW f \in Frames, NEW v \in Pages
  PROVE  Maps(st, paging_map_page(st, f, v), f, v)
<1> DEFINE table == IF st.pd[Table(v)] THEN [st |-> st, ret |-> Table(v) + 1] ELSE pmm_alloc_block(st)
           r == paging_map_page(st, f, v)
           x == Table(v)
           t == [table.st EXCEPT !.pd[Table(v)] = TRUE, !.pt[v] = f]
<1>1. x \in Tables /\ x \in Nat
  <2>1. v \div TablePages \in Nat
    BY Numbers, Sizes
  <2> QED BY <2>1, TableOf DEF Table
<1>2. st.pd[x] \in BOOLEAN
  BY <1>1 DEF Sound, Mem
<1>3. CASE st.pd[x] = FALSE /\ table.ret = NULL
  BY <1>3 DEF paging_map_page, Maps
<1>4. ASSUME table.ret # NULL, Sound(table.st), st.map \subseteq table.st.map,
             st.held \subseteq table.st.held, table.st.bitmap = st.bitmap,
             table.st.pd = st.pd, table.st.pt = st.pt
      PROVE  Maps(st, r, f, v)
  <2>1. r = [st |-> t, ok |-> TRUE]
    BY <1>4 DEF paging_map_page
  <2> DEFINE u == table.st
  <2>2. u \in Mem
    BY <1>4 DEF Sound
  <2> HIDE DEF u, table
  <2>3. /\ t = [u EXCEPT !.pd = [u.pd EXCEPT ![x] = TRUE], !.pt = [u.pt EXCEPT ![v] = f]]
    BY <2>2 DEF u, Mem
  <2>4. [u.pd EXCEPT ![x] = TRUE] \in [Tables -> BOOLEAN] /\ [u.pt EXCEPT ![v] = f] \in [Pages -> Frames]
    BY <2>2, <1>1 DEF Mem
  <2> DEFINE pd == [u.pd EXCEPT ![x] = TRUE]
             pt == [u.pt EXCEPT ![v] = f]
  <2> HIDE DEF t, x
  <2>5. pd[x] = TRUE /\ \A y \in Tables : u.pd[y] => pd[y]
    BY <1>1, <2>2 DEF Mem
  <2>6. /\ t \in Mem /\ t.map = u.map /\ t.used = u.used /\ t.held = u.held /\ t.bitmap = u.bitmap
        /\ t.pd = pd /\ t.pt = pt
    <3> HIDE DEF pd, pt
    <3> QED BY <2>2, <2>3, <2>4 DEF Mem, pd, pt
  <2>7. u.pd = st.pd /\ u.pt = st.pt /\ Sound(u) /\ st.map \subseteq u.map
        /\ st.held \subseteq u.held /\ u.bitmap = st.bitmap
    BY <1>4 DEF u
  <2>8. Sound(t)
    BY <2>6, <2>7 DEF Sound
  <2>9. Grown(st, t)
    <3> HIDE DEF pd, pt
    <3> QED BY <2>5, <2>6, <2>7, <2>8 DEF Grown
  <2>10. r.ok = TRUE /\ r.st = t
    BY <2>1
  <2>11. t.pd[Table(v)] = TRUE
    BY <2>5, <2>6 DEF x
  <2>12. t.pt = [st.pt EXCEPT ![v] = f]
    BY <2>6, <2>7
  <2> HIDE DEF r
  <2> QED BY <2>9, <2>10, <2>11, <2>12 DEF Maps
<1>5. CASE st.pd[x] = TRUE
  <2>1. table = [st |-> st, ret |-> x + 1]
    BY <1>5
  <2>2. table.st = st /\ table.ret # NULL
    <3> HIDE DEF table, x
    <3> QED BY <1>1, <2>1 DEF NULL
  <2> HIDE DEF table
  <2> QED BY <1>4, <2>2
<1>6. CASE st.pd[x] = FALSE /\ table.ret # NULL
  <2>1. table = pmm_alloc_block(st)
    BY <1>6
  <2>2. Taken(st, table.st, table.ret, 1)
    <3> HIDE DEF table
    <3> QED BY <1>6, <2>1, AllocBlock DEF Grants
  <2> HIDE DEF table
  <2> QED BY <1>4, <1>6, <2>2 DEF Taken
<1> QED
  BY <1>2, <1>3, <1>5, <1>6

(* The first k of the pages from v on are mapped to the frames from f on.  *)
Mapped(st, t, f, v, k) ==
  /\ Grown(st, t)
  /\ t.pt = [w \in Pages |-> IF w \in Run(v, k) THEN f + (w - v) ELSE st.pt[w]]
  /\ \A w \in Run(v, k) : t.pd[Table(w)]

(* One more page. *)
LEMMA MappedMore ==
  ASSUME NEW st, Sound(st), NEW t, NEW u, NEW f \in Nat, NEW v \in Nat, NEW k \in Nat,
         Mapped(st, t, f, v, k), v + k \in Pages,
         Grown(t, u), u.pd[Table(v + k)] = TRUE, u.pt = [t.pt EXCEPT ![v + k] = f + k]
  PROVE  Mapped(st, u, f, v, k + 1)
<1>1. Grown(st, u)
  BY DEF Grown, Mapped
<1>2. \A w \in Pages : w \in Run(v, k + 1) <=> w \in Run(v, k) \/ w = v + k
  BY Numbers DEF Run
<1>3. \A w \in Run(v, k + 1) : w \in Run(v, k) \/ w = v + k
  BY DEF Run
<1>4. ASSUME NEW w \in Run(v, k) PROVE u.pd[Table(w)]
  <2>1. w \in 0 .. (v + k)
    BY DEF Run
  <2>2. w \in Pages
    BY <2>1, Numbers, Sizes DEF Pages
  <2> QED BY <2>2, TableOf DEF Grown, Mapped
<1>5. \A w \in Run(v, k + 1) : u.pd[Table(w)]
  BY <1>3, <1>4
<1>6. u.pt = [w \in Pages |-> IF w \in Run(v, k + 1) THEN f + (w - v) ELSE st.pt[w]]
  <2>1. t.pt = [w \in Pages |-> IF w \in Run(v, k) THEN f + (w - v) ELSE st.pt[w]]
    BY DEF Mapped
  <2>2. f + ((v + k) - v) = f + k
    OBVIOUS
  <2> QED BY <1>2, <2>1, <2>2
<1> QED
  BY <1>1, <1>5, <1>6 DEF Mapped

(* MapRun maps all of the pages, or those before one without a table.      *)
LEMMA MapRunIs ==
  ASSUME NEW st, Sound(st), NEW f \in Nat, NEW v \in Nat, NEW n \in Nat,
         Run(v, n) \subseteq Pages, f + n <= Device + vmm_max_pages + 1
  PROVE  LET r == MapRun(st, f, v, n)
         IN /\ r.done \in 0 .. n /\ Mapped(st, r.st, f, v, r.done)
            /\ \/ r.ok = TRUE /\ r.done = n
               \/ r.ok = FALSE /\ r.done < n /\ st.pd[Table(v + r.done)] = FALSE
<1> DEFINE Good(x, i) ==
             /\ x.done \in 0 .. i /\ Mapped(st, x.st, f, v, x.done)
             /\ \/ x.ok = TRUE /\ x.done = i
                \/ x.ok = FALSE /\ x.done < i /\ st.pd[Table(v + x.done)] = FALSE
           Big == [st : Mem, done : 0 .. n, ok : BOOLEAN]
           TT == [i \in 0 .. n |-> { x \in Big : Good(x, i) }]
           a == [st |-> st, done |-> 0, ok |-> TRUE]
           Map(x, i) == paging_map_page(x.st, f + i - 1, v + i - 1)
           Turn(x, i) == IF ~x.ok THEN x
                         ELSE IF Map(x, i).ok THEN [st |-> Map(x, i).st, done |-> i, ok |-> TRUE]
                         ELSE [x EXCEPT !.ok = FALSE]
           Def(k) == [i \in 0 .. n |-> IF i = 0 THEN a ELSE Turn(k[i - 1], i)]
           K == CHOOSE k : k = Def(k)
           G == [p \in Big \X (1 .. n) |-> Turn(p[1], p[2])]
<1>1. MapRun(st, f, v, n) = K[n]
  BY DEF MapRun
<1>2. a \in TT[0]
  <2>1. Grown(st, st)
    BY DEF Grown
  <2>2. Run(v, 0) = {}
    BY DEF Run
  <2>3. st.pt = [w \in Pages |-> st.pt[w]]
    BY DEF Sound, Mem
  <2>4. Mapped(st, st, f, v, 0)
    BY <2>1, <2>2, <2>3 DEF Mapped
  <2>5. a \in Big
    BY DEF Sound
  <2>6. 0 \in 0 .. n
    OBVIOUS
  <2>7. Good(a, 0)
    BY <2>4
  <2> QED BY <2>5, <2>6, <2>7
<1>3. ASSUME NEW i \in 1 .. n, NEW x \in Big, Good(x, i - 1)
      PROVE  Turn(x, i) \in Big /\ Good(Turn(x, i), i)
  <2>0. x.ok \in BOOLEAN /\ x.st \in Mem /\ x.done \in 0 .. n
    OBVIOUS
  <2>1. CASE ~x.ok
    BY <1>3, <2>1
  <2>2. CASE x.ok = TRUE
    <3>1. x.done = i - 1 /\ Mapped(st, x.st, f, v, i - 1)
      BY <1>3, <2>2
    <3>2. v + i - 1 \in Run(v, n) /\ f + i - 1 \in Frames /\ i - 1 \in Nat
      BY Numbers, Sizes DEF Run, Frames
    <3>3. v + i - 1 \in Pages /\ v + i - 1 = v + (i - 1) /\ f + i - 1 = f + (i - 1)
      BY <3>2
    <3>4. Sound(x.st)
      BY <3>1 DEF Mapped, Grown
    <3>5. Maps(x.st, Map(x, i), f + i - 1, v + i - 1)
      BY <3>2, <3>3, <3>4, MapPage
    <3> HIDE DEF Map
    <3>6. CASE Map(x, i).ok = TRUE
      <4> DEFINE u == Map(x, i).st
      <4>1. /\ Grown(x.st, u) /\ u.pd[Table(v + (i - 1))] = TRUE
            /\ u.pt = [x.st.pt EXCEPT ![v + (i - 1)] = f + (i - 1)]
        BY <3>3, <3>5, <3>6 DEF Maps
      <4> HIDE DEF u
      <4>2. Mapped(st, u, f, v, (i - 1) + 1)
        BY <3>1, <3>2, <3>3, <4>1, MappedMore
      <4>3. (i - 1) + 1 = i /\ i \in 0 .. n /\ i \in 0 .. i
        OBVIOUS
      <4>4. Mapped(st, u, f, v, i) /\ u \in Mem
        BY <4>1, <4>2, <4>3 DEF Grown, Sound
      <4>5. Turn(x, i) = [st |-> u, done |-> i, ok |-> TRUE]
        BY <2>2, <3>6 DEF u
      <4> QED BY <4>3, <4>4, <4>5
    <3>7. CASE Map(x, i).ok = FALSE
      <4>1. Turn(x, i) = [x EXCEPT !.ok = FALSE]
        BY <2>2, <3>7
      <4>2. x.st.pd[Table(v + (i - 1))] = FALSE
        BY <3>3, <3>5, <3>7 DEF Maps
      <4>3. st.pd[Table(v + (i - 1))] = FALSE
        <5>1. Table(v + (i - 1)) \in Tables
          BY <3>3, TableOf
        <5>2. st.pd[Table(v + (i - 1))] \in BOOLEAN
          BY <5>1 DEF Sound, Mem
        <5> QED BY <3>1, <4>2, <5>1, <5>2 DEF Mapped, Grown
      <4>4. Turn(x, i) \in Big /\ Turn(x, i).ok = FALSE /\ Turn(x, i).st = x.st /\ Turn(x, i).done = i - 1
        <5> HIDE DEF Turn
        <5> QED BY <3>1, <4>1
      <4> HIDE DEF Turn, Big
      <4>5. i - 1 \in 0 .. i /\ i - 1 < i
        OBVIOUS
      <4> QED BY <3>1, <4>3, <4>4, <4>5
    <3>8. Map(x, i).ok = TRUE \/ Map(x, i).ok = FALSE
      BY <3>5 DEF Maps
    <3> QED BY <3>6, <3>7, <3>8
  <2> QED BY <2>0, <2>1, <2>2
<1>4. \A i \in 1 .. n : i \in 0 .. n /\ i - 1 \in 0 .. n /\ i # 0
  OBVIOUS
<1>5. \A i \in 0 .. n : TT[i] = { x \in Big : Good(x, i) }
  <2> HIDE DEF Big, Good
  <2> QED OBVIOUS
<1>6. \A x \in Big, i \in 1 .. n : G[<<x, i>>] = Turn(x, i)
  <2> HIDE DEF Big, Turn
  <2> QED OBVIOUS
<1> HIDE DEF Big, Good, TT, Turn, G, a
<1>7. ASSUME NEW i \in 1 .. n, NEW x \in TT[i - 1]
      PROVE  G[<<x, i>>] = Turn(x, i) /\ Turn(x, i) \in TT[i]
  <2>1. x \in Big /\ Good(x, i - 1)
    BY <1>4, <1>5
  <2> QED BY <1>3, <1>4, <1>5, <1>6, <2>1
<1>8. \E k : Through(k, n, TT, a, G)
  BY <1>2, <1>7, RecursionThrough
<1>9. PICK k : Through(k, n, TT, a, G)
  BY <1>8
<1>10. k = Def(k)
  <2>1. k[0] = a
    BY <1>9 DEF Through, Recursion
  <2>2. \A i \in 1 .. n : k[i] = Turn(k[i - 1], i)
    BY <1>4, <1>7, <1>9 DEF Through, Recursion
  <2>3. \A i \in 0 .. n : k[i] = IF i = 0 THEN a ELSE Turn(k[i - 1], i)
    BY <2>1, <2>2
  <2> QED BY <1>9, <2>3 DEF Through
<1>11. K = Def(K)
  BY <1>10
<1> HIDE DEF K
<1>12. K[0] = a /\ \A i \in 1 .. n : K[i] = Turn(K[i - 1], i)
  BY <1>4, <1>11
<1> DEFINE S == { i \in 0 .. n : K[i] \in TT[i] }
<1>13. \A i \in 0 .. n : i \in S
  <2>1. 0 \in S
    BY <1>2, <1>12
  <2>2. ASSUME NEW i \in 0 .. (n - 1), i \in S PROVE i + 1 \in S
    <3>1. i + 1 \in 1 .. n /\ (i + 1) - 1 = i /\ i + 1 \in 0 .. n
      OBVIOUS
    <3>2. K[i] \in TT[(i + 1) - 1] /\ K[i + 1] = Turn(K[i], i + 1)
      BY <1>12, <2>2, <3>1
    <3> QED BY <1>7, <3>1, <3>2
  <2> HIDE DEF S
  <2> QED BY <2>1, <2>2, InductionUpTo
<1>14. K[n] \in TT[n] /\ n \in 0 .. n
  BY <1>13
<1>15. Good(K[n], n)
  BY <1>5, <1>14
<1> QED
  BY <1>1, <1>15 DEF Good

-----------------------------------------------------------------------------
(* What gives pages back *)

(* Pages in V may have been unmapped and unmarked, and frames in F given   *)
(* back; all other pages and frames are as they were.                      *)
Released(st, t, V, F) ==
  /\ Sound(t) /\ t.bitmap \subseteq st.bitmap
  /\ \A w \in Pages : t.pt[w] = st.pt[w] \/ t.pt[w] = Unmapped
  /\ \A w \in Pages \ V : t.pt[w] = st.pt[w] /\ (w \in st.bitmap => w \in t.bitmap)
  /\ st.held \ F \subseteq t.held

(* Only the bitmap of pages is another.                                    *)
WithBitmap(st, t, b) ==
  /\ Sound(t) /\ t.map = st.map /\ t.held = st.held /\ t.pd = st.pd /\ t.pt = st.pt
  /\ t.bitmap = b

(* The PMM does not look at the bitmap of pages.                           *)
LEMMA NewBitmap ==
  ASSUME NEW st, Sound(st), NEW b \in SUBSET Pages, NEW t, t = [st EXCEPT !.bitmap = b]
  PROVE  WithBitmap(st, t, b)
BY DEF Sound, Mem, WithBitmap

(* mark_pages sets bits.                                                   *)
LEMMA MarkUsed ==
  ASSUME NEW st, Sound(st), NEW v, NEW n, Run(v, n) \subseteq Pages
  PROVE  WithBitmap(st, mark_pages(st, v, n, TRUE), st.bitmap \cup Run(v, n))
<1>1. mark_pages(st, v, n, TRUE) = [st EXCEPT !.bitmap = st.bitmap \cup Run(v, n)]
  BY DEF mark_pages, Run
<1>2. st.bitmap \cup Run(v, n) \in SUBSET Pages
  BY DEF Sound, Mem
<1> QED
  BY <1>1, <1>2, NewBitmap, Zenon

(* mark_pages clears bits.                                                 *)
LEMMA MarkFree ==
  ASSUME NEW st, Sound(st), NEW v, NEW n
  PROVE  WithBitmap(st, mark_pages(st, v, n, FALSE), st.bitmap \ Run(v, n))
<1>1. mark_pages(st, v, n, FALSE) = [st EXCEPT !.bitmap = st.bitmap \ Run(v, n)]
  BY DEF mark_pages, Run
<1>2. st.bitmap \ Run(v, n) \in SUBSET Pages
  BY DEF Sound, Mem
<1> QED
  BY <1>1, <1>2, NewBitmap, Zenon

(* paging_unmap_page clears an entry, if there is a table.                 *)
LEMMA UnmapPage ==
  ASSUME NEW st, Sound(st), NEW v \in Pages
  PROVE  LET t == paging_unmap_page(st, v)
         IN /\ Sound(t) /\ t.map = st.map /\ t.held = st.held /\ t.bitmap = st.bitmap
            /\ t.pt = st.pt \/ t.pt = [st.pt EXCEPT ![v] = Unmapped]
<1>1. CASE st.pd[Table(v)]
  <2>1. paging_unmap_page(st, v) = [st EXCEPT !.pt = [st.pt EXCEPT ![v] = Unmapped]]
    BY <1>1 DEF paging_unmap_page, Sound, Mem
  <2> DEFINE pt == [st.pt EXCEPT ![v] = Unmapped]
  <2>2. pt \in [Pages -> Frames]
    BY Numbers DEF Sound, Mem
  <2> HIDE DEF pt
  <2>3. paging_unmap_page(st, v) = [st EXCEPT !.pt = pt]
    BY <2>1 DEF pt
  <2>4. paging_unmap_page(st, v).pt = pt
    BY <2>3 DEF Sound, Mem
  <2> QED BY <2>2, <2>3, <2>4 DEF Sound, Mem, pt
<1>2. CASE ~st.pd[Table(v)]
  BY <1>2 DEF paging_unmap_page
<1> QED
  BY <1>1, <1>2

(* One page of V, and its frame.                                           *)
LEMMA ReleaseOne ==
  ASSUME NEW st, NEW V, NEW F, NEW x, Released(st, x, V, F), NEW v \in Pages, v \in V,
         NEW y, Sound(y), x.held \ F \subseteq y.held, y.bitmap = x.bitmap,
         y.pt = x.pt \/ y.pt = [x.pt EXCEPT ![v] = Unmapped]
  PROVE  Released(st, mark_pages(y, v, 1, FALSE), V, F)
<1> DEFINE t == mark_pages(y, v, 1, FALSE)
<1>1. Run(v, 1) = {v}
  BY Numbers DEF Run
<1>2. Sound(t) /\ t.held = y.held /\ t.pt = y.pt /\ t.bitmap = y.bitmap \ {v}
  <2>1. WithBitmap(y, t, y.bitmap \ {v})
    BY <1>1, MarkFree
  <2> HIDE DEF t
  <2> QED BY <2>1 DEF WithBitmap
<1> HIDE DEF t
<1>3. \A w \in Pages : y.pt[w] = x.pt[w] \/ (w = v /\ y.pt[w] = Unmapped)
  BY DEF Released, Sound, Mem
<1>4. \A w \in Pages : t.pt[w] = st.pt[w] \/ t.pt[w] = Unmapped
  BY <1>2, <1>3 DEF Released
<1>5. \A w \in Pages \ V : t.pt[w] = st.pt[w] /\ (w \in st.bitmap => w \in t.bitmap)
  BY <1>2, <1>3 DEF Released
<1>6. st.held \ F \subseteq t.held /\ t.bitmap \subseteq st.bitmap
  BY <1>2 DEF Released
<1>7. Released(st, t, V, F)
  BY <1>2, <1>4, <1>5, <1>6 DEF Released
<1> QED
  BY <1>7 DEF t

(* vmm_free_page gives back the frame that the page is mapped to.          *)
LEMMA FreePage ==
  ASSUME NEW st, NEW V, NEW F, NEW x, Released(st, x, V, F), NEW v, v \in V,
         v \in Pages => st.pt[v] \in F
  PROVE  Released(st, vmm_free_page(x, v), V, F)
<1> DEFINE f == virt_to_phys(x, v)
<1>1. CASE v \notin Pages \/ f = Unmapped
  BY <1>1 DEF vmm_free_page
<1>2. CASE v \in Pages /\ f # Unmapped
  <2> DEFINE b == pmm_free_block(x, f)
             y == paging_unmap_page(b, v)
  <2>1. vmm_free_page(x, v) = mark_pages(y, v, 1, FALSE)
    BY <1>2 DEF vmm_free_page
  <2>2. f = x.pt[v]
    BY <1>2 DEF virt_to_phys
  <2>3. f \in F
    BY <1>2, <2>2 DEF Released
  <2>4. Sound(x)
    BY DEF Released
  <2> HIDE DEF f
  <2>5. Sound(b) /\ b.held = x.held \ {f} /\ b.bitmap = x.bitmap /\ b.pt = x.pt
    BY <2>4, FreeBlock
  <2> HIDE DEF b
  <2>6. /\ Sound(y) /\ y.held = b.held /\ y.bitmap = b.bitmap
        /\ y.pt = b.pt \/ y.pt = [b.pt EXCEPT ![v] = Unmapped]
    BY <1>2, <2>5, UnmapPage
  <2> HIDE DEF y
  <2>7. x.held \ F \subseteq y.held
    BY <2>3, <2>5, <2>6
  <2>8. /\ v \in Pages /\ y.bitmap = x.bitmap
        /\ y.pt = x.pt \/ y.pt = [x.pt EXCEPT ![v] = Unmapped]
    BY <1>2, <2>5, <2>6
  <2>9. Released(st, mark_pages(y, v, 1, FALSE), V, F)
    BY <2>6, <2>7, <2>8, ReleaseOne
  <2> QED BY <2>1, <2>9
<1> QED
  BY <1>1, <1>2

(* One turn of the loop of vmm_free_contiguous.                            *)
LEMMA FreeTurn ==
  ASSUME NEW st, NEW V, NEW F, NEW x, Released(st, x, V, F), NEW v \in Pages, v \in V,
         NEW f \in Nat, f \in F, f \notin Reserved
  PROVE  Released(st, mark_pages(pmm_mark_unused_region(paging_unmap_page(x, v), f, 1),
                                 v, 1, FALSE), V, F)
<1> DEFINE u == paging_unmap_page(x, v)
           y == pmm_mark_unused_region(u, f, 1)
<1>1. Sound(x)
  BY DEF Released
<1>2. /\ Sound(u) /\ u.held = x.held /\ u.bitmap = x.bitmap
      /\ u.pt = x.pt \/ u.pt = [x.pt EXCEPT ![v] = Unmapped]
  BY <1>1, UnmapPage
<1> HIDE DEF u
<1>3. Sound(y) /\ y.held = u.held \ {f} /\ y.bitmap = u.bitmap /\ y.pt = u.pt
  BY <1>2, UnmarkBlock
<1> HIDE DEF y
<1>4. Released(st, mark_pages(y, v, 1, FALSE), V, F)
  BY <1>2, <1>3, ReleaseOne
<1> QED
  BY <1>4 DEF y, u

(* FreePages gives back what is mapped at its pages, and touches no others.*)
LEMMA FreePagesIs ==
  ASSUME NEW st, Sound(st), NEW v \in Int, NEW n \in Nat
  PROVE  Released(st, FreePages(st, v, n), Run(v, n), { st.pt[w] : w \in Run(v, n) \cap Pages })
<1> DEFINE V == Run(v, n)
           F == { st.pt[w] : w \in V \cap Pages }
           Good(x, i) == Released(st, x, V, F)
           Big == Mem
           TT == [i \in 0 .. n |-> { x \in Big : Good(x, i) }]
           a == st
           Turn(x, i) == vmm_free_page(x, v + i - 1)
           Def(k) == [i \in 0 .. n |-> IF i = 0 THEN a ELSE Turn(k[i - 1], i)]
           K == CHOOSE k : k = Def(k)
           G == [p \in Big \X (1 .. n) |-> Turn(p[1], p[2])]
<1>1. FreePages(st, v, n) = K[n]
  BY DEF FreePages
<1>2. a \in TT[0]
  <2>1. 0 \in 0 .. n
    OBVIOUS
  <2>2. Good(a, 0) /\ a \in Big
    BY DEF Released, Sound
  <2> QED BY <2>1, <2>2
<1>3. ASSUME NEW i \in 1 .. n, NEW x \in Big, Good(x, i - 1)
      PROVE  Turn(x, i) \in Big /\ Good(Turn(x, i), i)
  <2>1. v + i - 1 \in V
    BY DEF Run
  <2>2. v + i - 1 \in Pages => st.pt[v + i - 1] \in F
    BY <2>1
  <2>3. Released(st, vmm_free_page(x, v + i - 1), V, F)
    <3> HIDE DEF V, F
    <3> QED BY <1>3, <2>1, <2>2, FreePage
  <2> QED BY <2>3 DEF Released, Sound
<1>4. \A i \in 1 .. n : i \in 0 .. n /\ i - 1 \in 0 .. n /\ i # 0
  OBVIOUS
<1>5. \A i \in 0 .. n : TT[i] = { x \in Big : Good(x, i) }
  <2> HIDE DEF Big, Good
  <2> QED OBVIOUS
<1>6. \A x \in Big, i \in 1 .. n : G[<<x, i>>] = Turn(x, i)
  <2> HIDE DEF Big, Turn
  <2> QED OBVIOUS
<1> HIDE DEF Big, Good, TT, Turn, G, a
<1>7. ASSUME NEW i \in 1 .. n, NEW x \in TT[i - 1]
      PROVE  G[<<x, i>>] = Turn(x, i) /\ Turn(x, i) \in TT[i]
  <2>1. x \in Big /\ Good(x, i - 1)
    BY <1>4, <1>5
  <2> QED BY <1>3, <1>4, <1>5, <1>6, <2>1
<1>8. \E k : Through(k, n, TT, a, G)
  BY <1>2, <1>7, RecursionThrough
<1>9. PICK k : Through(k, n, TT, a, G)
  BY <1>8
<1>10. k = Def(k)
  <2>1. k[0] = a
    BY <1>9 DEF Through, Recursion
  <2>2. \A i \in 1 .. n : k[i] = Turn(k[i - 1], i)
    BY <1>4, <1>7, <1>9 DEF Through, Recursion
  <2>3. \A i \in 0 .. n : k[i] = IF i = 0 THEN a ELSE Turn(k[i - 1], i)
    BY <2>1, <2>2
  <2> QED BY <1>9, <2>3 DEF Through
<1>11. K = Def(K)
  BY <1>10
<1> HIDE DEF K
<1>12. K[0] = a /\ \A i \in 1 .. n : K[i] = Turn(K[i - 1], i)
  BY <1>4, <1>11
<1> DEFINE S == { i \in 0 .. n : K[i] \in TT[i] }
<1>13. \A i \in 0 .. n : i \in S
  <2>1. 0 \in S
    BY <1>2, <1>12
  <2>2. ASSUME NEW i \in 0 .. (n - 1), i \in S PROVE i + 1 \in S
    <3>1. i + 1 \in 1 .. n /\ (i + 1) - 1 = i /\ i + 1 \in 0 .. n
      OBVIOUS
    <3>2. K[i] \in TT[(i + 1) - 1] /\ K[i + 1] = Turn(K[i], i + 1)
      BY <1>12, <2>2, <3>1
    <3> QED BY <1>7, <3>1, <3>2
  <2> HIDE DEF S
  <2> QED BY <2>1, <2>2, InductionUpTo
<1>14. K[n] \in TT[n] /\ n \in 0 .. n
  BY <1>13
<1>15. Good(K[n], n)
  BY <1>5, <1>14
<1> QED
  BY <1>1, <1>15 DEF Good

(* vmm_free_contiguous gives back a run of frames, none of them reserved   *)
(* if the first one is not.                                                *)
LEMMA FreeContiguousIs ==
  ASSUME NEW st, Sound(st), NEW v \in Nat, NEW n \in Nat, Run(v, n) \subseteq Pages,
         n > 0 => st.pt[v] \notin Reserved
  PROVE  Released(st, vmm_free_contiguous(st, v, n), Run(v, n), Run(st.pt[v], n))
<1> DEFINE V == Run(v, n)
           f == virt_to_phys(st, v)
           F == Run(st.pt[v], n)
           Good(x, i) == Released(st, x, V, F)
           Big == Mem
           TT == [i \in 0 .. n |-> { x \in Big : Good(x, i) }]
           a == st
           Turn(x, i) == mark_pages(pmm_mark_unused_region(paging_unmap_page(x, v + i - 1),
                                                           f + i - 1, 1),
                                    v + i - 1, 1, FALSE)
           Def(k) == [i \in 0 .. n |-> IF i = 0 THEN a ELSE Turn(k[i - 1], i)]
           K == CHOOSE k : k = Def(k)
           G == [p \in Big \X (1 .. n) |-> Turn(p[1], p[2])]
<1>0. Good(a, 0) /\ a \in Big
  BY DEF Released, Sound
<1> SUFFICES ASSUME n # 0, f # Unmapped
             PROVE  Released(st, vmm_free_contiguous(st, v, n), V, F)
  BY <1>0 DEF vmm_free_contiguous
<1>1. vmm_free_contiguous(st, v, n) = K[n]
  BY DEF vmm_free_contiguous
<1>2. a \in TT[0]
  <2>1. 0 \in 0 .. n
    OBVIOUS
  <2> QED BY <1>0, <2>1
<1>3. ASSUME NEW i \in 1 .. n, NEW x \in Big, Good(x, i - 1)
      PROVE  Turn(x, i) \in Big /\ Good(Turn(x, i), i)
  <2>1. v + i - 1 \in V /\ v \in V
    BY DEF Run
  <2>2. f = st.pt[v] /\ f \in Frames
    BY <2>1 DEF virt_to_phys, Sound, Mem
  <2>3. F = Run(f, n)
    BY <2>2
  <2>4. f \in Nat /\ f \notin Reserved
    BY <2>2, Sizes DEF Frames, Unmapped, Device
  <2> HIDE DEF f, F
  <2>5. f + i - 1 \in Nat /\ f <= f + i - 1 /\ f + i - 1 \in F
    BY <2>3, <2>4 DEF Run
  <2>6. f + i - 1 \notin Reserved
    <3>1. f + i - 1 \in Blocks => f \in Blocks
      BY <2>4, <2>5, Sizes DEF Blocks, P!Blocks
    <3> QED BY <2>4, <2>5, <3>1, ReservedIsPrefix
  <2>7. Released(st, Turn(x, i), V, F)
    <3> HIDE DEF V
    <3> QED BY <1>3, <2>1, <2>5, <2>6, FreeTurn DEF V
  <2> HIDE DEF Turn
  <2> QED BY <2>7 DEF Released, Sound
<1>4. \A i \in 1 .. n : i \in 0 .. n /\ i - 1 \in 0 .. n /\ i # 0
  OBVIOUS
<1>5. \A i \in 0 .. n : TT[i] = { x \in Big : Good(x, i) }
  <2> HIDE DEF Big, Good
  <2> QED OBVIOUS
<1>6. \A x \in Big, i \in 1 .. n : G[<<x, i>>] = Turn(x, i)
  <2> HIDE DEF Big, Turn
  <2> QED OBVIOUS
<1> HIDE DEF Big, Good, TT, Turn, G, a
<1>7. ASSUME NEW i \in 1 .. n, NEW x \in TT[i - 1]
      PROVE  G[<<x, i>>] = Turn(x, i) /\ Turn(x, i) \in TT[i]
  <2>1. x \in Big /\ Good(x, i - 1)
    BY <1>4, <1>5
  <2> QED BY <1>3, <1>4, <1>5, <1>6, <2>1
<1>8. \E k : Through(k, n, TT, a, G)
  BY <1>2, <1>7, RecursionThrough
<1>9. PICK k : Through(k, n, TT, a, G)
  BY <1>8
<1>10. k = Def(k)
  <2>1. k[0] = a
    BY <1>9 DEF Through, Recursion
  <2>2. \A i \in 1 .. n : k[i] = Turn(k[i - 1], i)
    BY <1>4, <1>7, <1>9 DEF Through, Recursion
  <2>3. \A i \in 0 .. n : k[i] = IF i = 0 THEN a ELSE Turn(k[i - 1], i)
    BY <2>1, <2>2
  <2> QED BY <1>9, <2>3 DEF Through
<1>11. K = Def(K)
  BY <1>10
<1> HIDE DEF K
<1>12. K[0] = a /\ \A i \in 1 .. n : K[i] = Turn(K[i - 1], i)
  BY <1>4, <1>11
<1> DEFINE S == { i \in 0 .. n : K[i] \in TT[i] }
<1>13. \A i \in 0 .. n : i \in S
  <2>1. 0 \in S
    BY <1>2, <1>12
  <2>2. ASSUME NEW i \in 0 .. (n - 1), i \in S PROVE i + 1 \in S
    <3>1. i + 1 \in 1 .. n /\ (i + 1) - 1 = i /\ i + 1 \in 0 .. n
      OBVIOUS
    <3>2. K[i] \in TT[(i + 1) - 1] /\ K[i + 1] = Turn(K[i], i + 1)
      BY <1>12, <2>2, <3>1
    <3> QED BY <1>7, <3>1, <3>2
  <2> HIDE DEF S
  <2> QED BY <2>1, <2>2, InductionUpTo
<1>14. K[n] \in TT[n] /\ n \in 0 .. n
  BY <1>13
<1>15. Good(K[n], n)
  BY <1>5, <1>14
<1> QED
  BY <1>1, <1>15 DEF Good

-----------------------------------------------------------------------------
(* What allocates pages *)

(* The search for one page stops at an unmarked one, that for n pages at   *)
(* the first of n.                                                         *)
LEMMA FreePageRunsAre ==
  ASSUME NEW st, Sound(st), NEW n \in Nat
  PROVE  /\ FreePageRuns(st, 1) = Pages \ st.bitmap
         /\ FreePageRuns(st, n) \subseteq Pages \ st.bitmap
         /\ \A s \in FreePageRuns(st, n) : Run(s, n) \subseteq Pages \ st.bitmap
<1>1. ASSUME NEW s \in FreePageRuns(st, n), NEW v \in Run(s, n)
      PROVE  v \in Pages \ st.bitmap
  <2>1. s \in Nat /\ v \in s .. (s + n - 1)
    BY Numbers DEF FreePageRuns, Run
  <2>2. v < vmm_max_pages /\ v \notin st.bitmap
    BY <2>1 DEF FreePageRuns, is_page_free
  <2> QED BY <2>1, <2>2, Sizes DEF Pages
<1>2. \A s \in Pages : s .. (s + 1 - 1) = {s} /\ s < vmm_max_pages
  BY Numbers
<1>3. FreePageRuns(st, 1) = Pages \ st.bitmap
  BY <1>2 DEF FreePageRuns, is_page_free
<1> QED
  BY <1>1, <1>3 DEF FreePageRuns, is_page_free

(* vmm_alloc_page returns NULL and the pages are as before, or it marks    *)
(* the first free page and maps it to a frame that was free.               *)
Gets(st, r) ==
  /\ Sound(r.st) /\ st.map \subseteq r.st.map /\ st.held \subseteq r.st.held
  /\ \/ r.ret = NoPage /\ r.st.bitmap = st.bitmap /\ r.st.pt = st.pt
     \/ /\ r.ret \in Pages \ st.bitmap /\ \A w \in Pages \ st.bitmap : r.ret <= w
        /\ r.st.bitmap = st.bitmap \cup {r.ret}
        /\ \E b \in Blocks \ st.map :
             b \in r.st.held /\ r.st.pt = [st.pt EXCEPT ![r.ret] = b]

(* From where the search stopped, the first page is marked and mapped to a *)
(* frame that was free, or frame and page are given back.                  *)
GetsAt(st, r, v) ==
  /\ Sound(r.st) /\ st.map \subseteq r.st.map /\ st.held \subseteq r.st.held
  /\ \/ r.ret = NoPage /\ r.st.bitmap = st.bitmap /\ r.st.pt = st.pt
     \/ /\ r.ret = v /\ v \in Pages \ st.bitmap
        /\ r.st.bitmap = st.bitmap \cup {v}
        /\ \E b \in Blocks \ st.map : b \in r.st.held /\ r.st.pt = [st.pt EXCEPT ![v] = b]

(* It takes a page that is free, whether it is the first one or no longer. *)
LEMMA FoundPageGets ==
  ASSUME NEW st, Sound(st), NEW v, v = NoPage \/ v \in Pages \ st.bitmap
  PROVE  GetsAt(st, map_found_page(st, v), v)
<1> DEFINE u == mark_pages(st, v, 1, TRUE)
           blk == pmm_alloc_block(u)
           map == paging_map_page(blk.st, blk.ret, v)
           r == map_found_page(st, v)
<1>1. CASE v = NoPage
  <2>1. r = [st |-> st, ret |-> NoPage]
    BY <1>1 DEF map_found_page
  <2> QED BY <2>1 DEF GetsAt
<1>2. CASE v # NoPage
  <2>2. v \in Pages /\ v \notin st.bitmap /\ Run(v, 1) = {v} /\ {v} \subseteq Pages
    <3>1. v \in Pages /\ v \notin st.bitmap
      BY <1>2
    <3> QED BY <3>1, Numbers DEF Run
  <2>3. WithBitmap(st, u, st.bitmap \cup {v})
    BY <2>2, MarkUsed
  <2> HIDE DEF u
  <2>4. Grants(u, blk, 1)
    BY <2>3, AllocBlock DEF WithBitmap
  <2>5. CASE blk.ret = NULL
    <3> DEFINE t == mark_pages(blk.st, v, 1, FALSE)
    <3>1. r = [st |-> t, ret |-> NoPage]
      BY <1>2, <2>5 DEF map_found_page, u
    <3>2. blk.st = u
      BY <2>4, <2>5 DEF Grants
    <3>3. Sound(u)
      BY <2>3 DEF WithBitmap
    <3>4. WithBitmap(u, t, u.bitmap \ {v})
      BY <2>2, <3>2, <3>3, MarkFree
    <3> HIDE DEF t
    <3>5. t.bitmap = st.bitmap /\ t.pt = st.pt /\ Sound(t) /\ t.map = st.map /\ t.held = st.held
      BY <2>2, <2>3, <3>4 DEF WithBitmap
    <3> HIDE DEF r
    <3>6. GetsAt(st, r, v)
      BY <3>1, <3>5 DEF GetsAt
    <3> QED BY <3>6 DEF r
  <2>6. CASE blk.ret # NULL
    <3> DEFINE b == blk.ret
    <3>1. /\ b \in Blocks /\ Run(b, 1) = {b} /\ Run(b, 1) \subseteq Blocks \ u.map
          /\ Taken(u, blk.st, b, 1)
      <4>1. b \in Blocks /\ Run(b, 1) \subseteq Blocks \ u.map /\ Taken(u, blk.st, b, 1)
        BY <2>4, <2>6 DEF Grants
      <4> HIDE DEF b
      <4> QED BY <4>1, Numbers DEF Run
    <3>2. Maps(blk.st, map, b, v)
      BY <2>2, <3>1, Numbers, MapPage DEF Taken
    <3> DEFINE y == blk.st
    <3>3. /\ Sound(y) /\ b \in Blocks \ st.map /\ y.map = st.map \cup {b} /\ y.held = st.held \cup {b}
          /\ y.bitmap = st.bitmap \cup {v} /\ y.pt = st.pt
      <4> HIDE DEF b, blk
      <4> QED BY <2>3, <3>1 DEF Taken, WithBitmap
    <3>4. r = IF ~map.ok THEN [st |-> mark_pages(pmm_free_block(y, b), v, 1, FALSE), ret |-> NoPage]
              ELSE [st |-> map.st, ret |-> v]
      BY <1>2, <2>6 DEF map_found_page, u
    <3> HIDE DEF b, y, map, r
    <3>5. CASE map.ok = FALSE
      <4> DEFINE z == pmm_free_block(y, b)
                 t == mark_pages(z, v, 1, FALSE)
      <4>1. r = [st |-> t, ret |-> NoPage]
        BY <3>4, <3>5
      <4>2. Sound(z) /\ z.map = y.map /\ z.held = y.held \ {b} /\ z.bitmap = y.bitmap /\ z.pt = y.pt
        BY <3>3, FreeBlock
      <4> HIDE DEF z
      <4>3. WithBitmap(z, t, z.bitmap \ {v})
        BY <2>2, <4>2, MarkFree
      <4> HIDE DEF t
      <4>4. /\ t.bitmap = st.bitmap /\ t.pt = st.pt /\ Sound(t)
            /\ st.map \subseteq t.map /\ st.held \subseteq t.held
        BY <2>2, <3>3, <4>2, <4>3 DEF WithBitmap, Sound
      <4>5. GetsAt(st, r, v)
        BY <4>1, <4>4 DEF GetsAt
      <4> QED BY <4>5 DEF r
    <3>6. CASE map.ok = TRUE
      <4> DEFINE t == map.st
      <4>1. r = [st |-> t, ret |-> v]
        BY <3>4, <3>6
      <4>2. Grown(y, t) /\ t.pt = [y.pt EXCEPT ![v] = b]
        BY <3>2, <3>6 DEF Maps, y
      <4> HIDE DEF t
      <4>3. /\ Sound(t) /\ st.map \subseteq t.map /\ st.held \subseteq t.held /\ b \in t.held
            /\ t.bitmap = st.bitmap \cup {v} /\ t.pt = [st.pt EXCEPT ![v] = b]
        BY <3>3, <4>2 DEF Grown
      <4>4. \E c \in Blocks \ st.map : c \in t.held /\ t.pt = [st.pt EXCEPT ![v] = c]
        BY <3>3, <4>3
      <4>5. r.st = t /\ r.ret = v
        BY <4>1
      <4>6. GetsAt(st, r, v)
        BY <2>2, <4>3, <4>4, <4>5 DEF GetsAt
      <4> QED BY <4>6 DEF r
    <3> QED BY <3>2, <3>5, <3>6 DEF Maps
  <2> QED BY <2>5, <2>6
<1> QED
  BY <1>1, <1>2

(* What a search of the bitmap finds.                                      *)
LEMMA SearchIs ==
  ASSUME NEW st, Sound(st), NEW n \in Nat
  PROVE  LET v == find_contiguous_free_pages(st, n)
         IN v = NoPage \/ (v \in Pages /\ v \notin st.bitmap /\ Run(v, n) \subseteq Pages \ st.bitmap)
<1> DEFINE starts == FreePageRuns(st, n)
           v == find_contiguous_free_pages(st, n)
<1>1. CASE starts = {}
  BY <1>1 DEF find_contiguous_free_pages
<1>2. CASE starts # {}
  <2>1. v = Least(starts)
    BY <1>2 DEF find_contiguous_free_pages
  <2>2. starts \in SUBSET Nat
    BY FreePageRunsAre, Numbers
  <2>3. v \in starts
    <3> HIDE DEF starts, v
    <3> QED BY <1>2, <2>1, <2>2, LeastIs
  <2> HIDE DEF v
  <2>4. v \in Pages /\ v \notin st.bitmap /\ Run(v, n) \subseteq Pages \ st.bitmap
    BY <2>3, FreePageRunsAre
  <2> QED BY <2>4 DEF v
<1> QED
  BY <1>1, <1>2

(* The heap's calls are not broken into: the page is the first free one.   *)
LEMMA AllocPageGets == ASSUME NEW st, Sound(st) PROVE Gets(st, vmm_alloc_page(st))
<1> DEFINE free == FreePageRuns(st, 1)
           v == find_free_page(st)
           r == vmm_alloc_page(st)
<1>1. v = NoPage \/ v \in Pages \ st.bitmap
  BY SearchIs DEF find_free_page
<1>2. GetsAt(st, r, v)
  BY <1>1, FoundPageGets DEF vmm_alloc_page
<1>3. v \in Pages => \A w \in Pages \ st.bitmap : v <= w
  <2>1. free = Pages \ st.bitmap /\ free \in SUBSET Nat
    BY FreePageRunsAre, Numbers
  <2>2. free # {} => v = Least(free)
    BY DEF find_free_page, find_contiguous_free_pages
  <2>3. free = {} => v = NoPage
    BY DEF find_free_page, find_contiguous_free_pages
  <2> HIDE DEF free, v
  <2> QED BY <2>1, <2>2, <2>3, LeastIs
<1> HIDE DEF v, r
<1>4. Gets(st, r)
  BY <1>2, <1>3 DEF GetsAt, Gets
<1> QED
  BY <1>4 DEF r

(* What a call leaves to the holders of other pages: their pages, but for  *)
(* those in V, and their frames.  No page comes to be mapped to a reserved *)
(* frame.                                                                  *)
Kept(st, t, V) ==
  /\ Sound(t) /\ st.held \subseteq t.held /\ st.bitmap \subseteq t.bitmap
  /\ \A w \in st.bitmap \ V : t.pt[w] = st.pt[w]
  /\ \A w \in Pages : t.pt[w] = st.pt[w] \/ t.pt[w] \notin Reserved

(* The n pages from v on were unmarked, and are now marked.                *)
FreshPages(st, t, v, n) ==
  /\ v \in Pages /\ Run(v, n) \subseteq Pages \ st.bitmap /\ Run(v, n) \subseteq t.bitmap

(* They are mapped to frames that follow each other and were free.         *)
FreshRun(st, t, v, n) ==
  /\ FreshPages(st, t, v, n)
  /\ \E g \in Blocks \ Reserved :
       /\ Run(g, n) \subseteq Blocks \ st.map /\ Run(g, n) \subseteq t.held
       /\ \A w \in Run(v, n) : t.pt[w] = g + (w - v)

(* What follows a frame that is not reserved is not reserved.              *)
LEMMA NotReserved ==
  /\ Unmapped \notin Reserved
  /\ \A f \in Nat \ Reserved, k \in Nat : f + k \notin Reserved
<1>1. Unmapped \notin Blocks
  BY Numbers DEF Unmapped
<1>2. ASSUME NEW f \in Nat \ Reserved, NEW k \in Nat, f + k \in Reserved PROVE FALSE
  <2>1. f + k \in Blocks /\ f <= f + k
    BY <1>2, ReservedIsPrefix
  <2>2. f \in Blocks
    BY <2>1, Sizes DEF Blocks, P!Blocks
  <2> QED BY <1>2, <2>1, <2>2, ReservedIsPrefix
<1> QED
  BY <1>1, <1>2, ReservedIsPrefix

(* The frames that a run of pages was mapped to.                           *)
LEMMA MappedFrames ==
  ASSUME NEW st, NEW t, NEW f \in Nat \ Reserved, NEW v \in Nat, NEW k \in Nat,
         Mapped(st, t, f, v, k), Run(v, k) \subseteq Pages
  PROVE  /\ \A w \in Run(v, k) : t.pt[w] = f + (w - v)
         /\ \A w \in Pages : t.pt[w] = st.pt[w] \/ (w \in Run(v, k) /\ t.pt[w] \notin Reserved)
<1>1. \A w \in Run(v, k) : w - v \in Nat
  BY DEF Run
<1>2. \A w \in Pages : t.pt[w] = IF w \in Run(v, k) THEN f + (w - v) ELSE st.pt[w]
  BY DEF Mapped
<1>3. \A w \in Run(v, k) : t.pt[w] = f + (w - v)
  BY <1>2
<1>4. ASSUME NEW w \in Pages PROVE t.pt[w] = st.pt[w] \/ (w \in Run(v, k) /\ t.pt[w] \notin Reserved)
  <2>1. CASE w \in Run(v, k)
    BY <1>1, <1>3, <2>1, NotReserved
  <2>2. CASE w \notin Run(v, k)
    BY <1>2, <2>2
  <2> QED BY <2>1, <2>2
<1> QED
  BY <1>3, <1>4

(* The rest of vmm_alloc_contiguous: when a page table is missing half     *)
(* way, what was taken so far goes back, and nothing of anyone else's.     *)
LEMMA FoundPagesIs ==
  ASSUME NEW st, Sound(st), NEW n \in Nat \ {0}, NEW v,
         v = NoPage \/ (v \in Pages /\ Run(v, n) \subseteq Pages \ st.bitmap)
  PROVE  LET r == map_found_pages(st, v, n)
         IN /\ Kept(st, r.st, {})
            /\ \/ r.ret = NoPage
               \/ FreshRun(st, r.st, r.ret, n) /\ \A w \in Run(r.ret, n) : r.st.pd[Table(w)]
<1> DEFINE u == mark_pages(st, v, n, TRUE)
           blk == pmm_alloc_contiguous(u, n)
           y == blk.st
           g == blk.ret
           mapped == MapRun(y, g, v, n)
           x == mapped.st
           k == mapped.done
           r == map_found_pages(st, v, n)
           V == Run(v, n)
<1>1. CASE v = NoPage
  <2>1. r = [st |-> st, ret |-> NoPage]
    BY <1>1 DEF map_found_pages
  <2> QED BY <2>1 DEF Kept
<1>2. CASE v # NoPage
  <2>2. v \in Pages /\ v \in Nat /\ V \subseteq Pages \ st.bitmap
    BY <1>2, Numbers
  <2>3. r = IF g = NULL THEN [st |-> mark_pages(y, v, n, FALSE), ret |-> NoPage]
            ELSE IF ~mapped.ok THEN [st |-> vmm_free_contiguous(x, v, k), ret |-> NoPage]
            ELSE [st |-> x, ret |-> v]
    BY <1>2 DEF map_found_pages
  <2>4. WithBitmap(st, u, st.bitmap \cup V)
    BY <2>2, MarkUsed
  <2> HIDE DEF u
  <2>5. Grants(u, blk, n)
    BY <2>4, AllocContiguousBlocks DEF WithBitmap
  <2> HIDE DEF blk, r
  <2>6. CASE g = NULL
    <3> DEFINE t == mark_pages(y, v, n, FALSE)
    <3>1. r = [st |-> t, ret |-> NoPage]
      BY <2>3, <2>6
    <3>2. y = u
      BY <2>5, <2>6 DEF Grants
    <3>3. WithBitmap(u, t, u.bitmap \ V)
      <4>1. Sound(u)
        BY <2>4 DEF WithBitmap
      <4> QED BY <3>2, <4>1, MarkFree
    <3> HIDE DEF t
    <3>4. Kept(st, t, {})
      BY <2>2, <2>4, <3>3 DEF WithBitmap, Kept
    <3> QED BY <3>1, <3>4 DEF r
  <2>7. CASE g # NULL
    <3>1. g \in Blocks \ Reserved /\ Run(g, n) \subseteq Blocks \ u.map /\ Taken(u, y, g, n)
      BY <2>5, <2>7 DEF Grants
    <3>2. /\ Sound(y) /\ y.map = st.map \cup Run(g, n) /\ y.held = st.held \cup Run(g, n)
          /\ y.bitmap = st.bitmap \cup V /\ y.pt = st.pt /\ Run(g, n) \subseteq Blocks \ st.map
      BY <2>4, <3>1 DEF WithBitmap, Taken
    <3>3. g \in Nat \ Reserved /\ g + n <= Device + vmm_max_pages + 1
      <4>1. g \in Nat /\ g + n - 1 \in Run(g, n)
        <5> HIDE DEF g
        <5> QED BY <1>2, <3>1, Numbers DEF Run
      <4>2. g + n - 1 < Device
        BY <3>2, <4>1, Numbers
      <4> QED BY <3>1, <4>1, <4>2, Numbers, Sizes
    <3> HIDE DEF g, y
    <3>4. /\ k \in 0 .. n /\ Mapped(y, x, g, v, k)
          /\ \/ mapped.ok = TRUE /\ k = n
             \/ mapped.ok = FALSE /\ k < n
      <4>1. Run(v, n) \subseteq Pages /\ Sound(y) /\ g \in Nat
        BY <2>2, <3>2, <3>3
      <4> QED BY <2>2, <3>3, <4>1, MapRunIs
    <3> HIDE DEF mapped
    <3>5. Run(v, k) \subseteq V /\ Run(g, k) \subseteq Run(g, n)
      BY <2>2, <3>3, <3>4 DEF Run
    <3>6. /\ \A w \in Run(v, k) : x.pt[w] = g + (w - v)
          /\ \A w \in Pages : x.pt[w] = y.pt[w] \/ (w \in Run(v, k) /\ x.pt[w] \notin Reserved)
      <4>1. Run(v, k) \subseteq Pages /\ k \in Nat
        BY <2>2, <3>4, <3>5
      <4> HIDE DEF V, k, x
      <4> QED BY <2>2, <3>3, <3>4, <4>1, MappedFrames
    <3>7. /\ Sound(x) /\ y.held \subseteq x.held /\ x.bitmap = y.bitmap
          /\ \A w \in Run(v, k) : x.pd[Table(w)]
      BY <3>4 DEF Mapped, Grown
    <3> HIDE DEF x, k
    <3>8. CASE mapped.ok = TRUE
      <4>1. r.st = x /\ r.ret = v /\ k = n
        BY <2>3, <2>7, <3>4, <3>8
      <4>2. Kept(st, x, {})
        BY <2>2, <3>2, <3>5, <3>6, <3>7 DEF Kept, Sound, Mem
      <4>3. FreshRun(st, x, v, n)
        BY <2>2, <3>1, <3>2, <3>6, <3>7, <4>1 DEF FreshRun, FreshPages
      <4>4. /\ Kept(st, r.st, {})
            /\ FreshRun(st, r.st, r.ret, n) /\ \A w \in Run(r.ret, n) : r.st.pd[Table(w)]
        BY <3>7, <4>1, <4>2, <4>3
      <4> QED BY <4>4 DEF r
    <3>9. CASE mapped.ok = FALSE
      <4> DEFINE t == vmm_free_contiguous(x, v, k)
      <4>1. r.st = t /\ r.ret = NoPage
        BY <2>3, <2>7, <3>9
      <4>2. k \in Nat /\ Run(v, k) \subseteq Pages
        BY <2>2, <3>4, <3>5
      <4>3. k > 0 => x.pt[v] = g
        <5>1. k > 0 => v \in Run(v, k) /\ g + (v - v) = g
          BY <2>2, <3>3, <4>2 DEF Run
        <5> QED BY <3>6, <5>1
      <4>4. Released(x, t, Run(v, k), Run(x.pt[v], k))
        BY <2>2, <3>1, <3>7, <4>2, <4>3, FreeContiguousIs
      <4>5. Run(x.pt[v], k) \subseteq Run(g, n)
        <5>1. CASE k > 0
          BY <3>5, <4>3, <5>1
        <5>2. CASE k = 0
          <6>1. x.pt[v] \in Int
            BY <2>2, <3>7, Numbers DEF Sound, Mem
          <6> QED BY <5>2, <6>1 DEF Run
        <5> QED BY <4>2, <5>1, <5>2
      <4> HIDE DEF t
      <4>6. Sound(t) /\ st.held \subseteq t.held
        BY <3>2, <3>7, <4>4, <4>5 DEF Released, Sound
      <4>7. ASSUME NEW w \in st.bitmap PROVE w \in t.bitmap /\ t.pt[w] = st.pt[w]
        <5>1. w \in Pages \ Run(v, k)
          BY <2>2, <3>5 DEF Sound, Mem
        <5> QED BY <3>2, <3>6, <3>7, <4>4, <5>1 DEF Released
      <4>8. ASSUME NEW w \in Pages PROVE t.pt[w] = st.pt[w] \/ t.pt[w] \notin Reserved
        BY <3>2, <3>6, <4>4, NotReserved DEF Released
      <4>9. Kept(st, t, {})
        BY <4>6, <4>7, <4>8 DEF Kept
      <4> QED BY <4>1, <4>9 DEF r
    <3> QED BY <3>4, <3>8, <3>9
  <2> QED BY <2>6, <2>7
<1> QED
  BY <1>1, <1>2

(* The n pages from v on were unmarked; they are marked and mapped to the  *)
(* frames from f on.                                                       *)
MappedTo(st, t, v, n, f) ==
  FreshPages(st, t, v, n) /\ \A w \in Run(v, n) : t.pt[w] = f + (w - v)

(* The rest of dma_alloc: with virtual pages, they end up mapped to the    *)
(* frames of the zone; without, the first pages are mapped over.           *)
LEMMA ZoneIs ==
  ASSUME NEW st, Sound(st), NEW n \in Nat \ {0}, n <= vmm_max_pages, NEW g \in Blocks \ Reserved,
         NEW v, v = NoPage \/ (v \in Pages /\ Run(v, n) \subseteq Pages \ st.bitmap)
  PROVE  LET r == map_zone(st, g, v, n)
         IN \/ r.ret = NoPage /\ Kept(st, r.st, Run(0, n))
            \/ MappedTo(st, r.st, r.ret, n, g) /\ Kept(st, r.st, {})
<1> DEFINE virt == map_found_pages(st, v, n)
           u == virt.st
           at == IF virt.ret = NoPage THEN 0 ELSE virt.ret
           mapped == MapRun(u, g, at, n)
           t == mapped.st
           k == mapped.done
           r == map_zone(st, g, v, n)
<1>1. r = [st |-> t, ret |-> virt.ret]
  BY DEF map_zone
<1>4. /\ Kept(st, u, {})
      /\ \/ virt.ret = NoPage
         \/ FreshRun(st, u, virt.ret, n) /\ \A w \in Run(virt.ret, n) : u.pd[Table(w)]
  BY FoundPagesIs
<1> HIDE DEF virt, u, r
<1>5. at \in Pages /\ Run(at, n) \subseteq Pages
  <2>1. CASE virt.ret = NoPage
    <3>1. Run(0, n) \subseteq Pages
      BY Sizes DEF Run, Pages
    <3> QED BY <2>1, <3>1, Numbers
  <2>2. CASE virt.ret # NoPage
    BY <1>4, <2>2 DEF FreshRun, FreshPages
  <2> QED BY <2>1, <2>2
<1> HIDE DEF at
<1>6. at \in Nat /\ Sound(u) /\ g \in Nat /\ g \in Nat \ Reserved
  BY <1>4, <1>5, Numbers DEF Kept
<1>7. g + n <= Device + vmm_max_pages + 1
  <2>1. g < Device
    BY Numbers
  <2> QED BY <1>6, <2>1, Numbers, Sizes
<1>8. /\ k \in 0 .. n /\ Mapped(u, t, g, at, k)
      /\ \/ mapped.ok = TRUE /\ k = n
         \/ mapped.ok = FALSE /\ k < n /\ u.pd[Table(at + k)] = FALSE
  BY <1>5, <1>6, <1>7, MapRunIs
<1> HIDE DEF mapped, t, k
<1>9. Run(at, k) \subseteq Run(at, n) /\ k \in Nat
  BY <1>6, <1>8 DEF Run
<1>10. /\ \A w \in Run(at, k) : t.pt[w] = g + (w - at)
       /\ \A w \in Pages : t.pt[w] = u.pt[w] \/ (w \in Run(at, k) /\ t.pt[w] \notin Reserved)
  BY <1>5, <1>6, <1>8, <1>9, MappedFrames
<1>11. Sound(t) /\ u.held \subseteq t.held /\ t.bitmap = u.bitmap
  BY <1>8 DEF Mapped, Grown
<1>12. /\ st.held \subseteq t.held /\ st.bitmap \subseteq t.bitmap
       /\ \A w \in Pages : t.pt[w] = st.pt[w] \/ t.pt[w] \notin Reserved
       /\ \A w \in st.bitmap : u.pt[w] = st.pt[w]
  BY <1>4, <1>10, <1>11 DEF Kept
<1>13. st.bitmap \subseteq Pages
  BY DEF Sound, Mem
<1>14. CASE virt.ret = NoPage
  <2>1. at = 0
    BY <1>14 DEF at
  <2>2. Kept(st, t, Run(0, n))
    BY <1>9, <1>10, <1>11, <1>12, <1>13, <2>1 DEF Kept
  <2>3. r.st = t /\ r.ret = NoPage
    BY <1>1, <1>14
  <2> QED BY <2>2, <2>3 DEF r
<1>15. CASE virt.ret # NoPage
  <2>1. at = virt.ret
    BY <1>15 DEF at
  <2>2. FreshRun(st, u, at, n) /\ \A w \in Run(at, n) : u.pd[Table(w)]
    BY <1>4, <1>15, <2>1
  <2>3. FreshPages(st, t, at, n)
    BY <1>11, <2>2 DEF FreshRun, FreshPages
  <2>4. k = n
    <3>1. k < n => at + k \in Run(at, n)
      BY <1>6, <1>9 DEF Run
    <3> QED BY <1>8, <2>2, <3>1
  <2>5. MappedTo(st, t, at, n, g)
    BY <1>10, <2>3, <2>4 DEF MappedTo
  <2>6. Kept(st, t, {})
    BY <1>9, <1>10, <1>11, <1>12, <1>13, <2>3 DEF Kept, FreshPages
  <2>7. r.st = t /\ r.ret = at
    BY <1>1, <2>1
  <2>8. MappedTo(st, r.st, r.ret, n, g) /\ Kept(st, r.st, {})
    BY <2>5, <2>6, <2>7
  <2> QED BY <2>8 DEF r
<1> QED
  BY <1>14, <1>15

(* vmm_map_mmio maps the frames it is given on pages that were free.       *)
LEMMA MapMmioIs ==
  ASSUME NEW st, Sound(st), NEW n \in Nat, NEW f \in Blocks \ Reserved
  PROVE  LET r == vmm_map_mmio(st, f, n)
         IN /\ Kept(st, r.st, {})
            /\ r.ret = NoPage \/ MappedTo(st, r.st, r.ret, n, f)
<1> DEFINE v == find_contiguous_free_pages(st, n)
           u == mark_pages(st, v, n, TRUE)
           mapped == MapRun(u, f, v, n)
           t == mapped.st
           k == mapped.done
           r == vmm_map_mmio(st, f, n)
           V == Run(v, n)
<1>1. CASE v = NoPage
  <2>1. r = [st |-> st, ret |-> NoPage]
    BY <1>1 DEF vmm_map_mmio
  <2> QED BY <2>1 DEF Kept
<1>2. CASE v # NoPage
  <2>2. v \in Pages /\ v \in Nat /\ V \subseteq Pages \ st.bitmap /\ V \subseteq Pages
    <3>1. v \in Pages /\ V \subseteq Pages \ st.bitmap
      BY <1>2, SearchIs
    <3> HIDE DEF v, V
    <3> QED BY <3>1, Numbers
  <2>3. r = [st |-> t, ret |-> IF mapped.ok THEN v ELSE NoPage]
    BY <1>2 DEF vmm_map_mmio
  <2> HIDE DEF v, r
  <2>4. WithBitmap(st, u, st.bitmap \cup V)
    BY <2>2, MarkUsed
  <2> HIDE DEF u
  <2>5. Sound(u) /\ u.bitmap = st.bitmap \cup V /\ u.pt = st.pt /\ u.held = st.held
    BY <2>4 DEF WithBitmap
  <2>6. f \in Nat \ Reserved /\ f \in Nat /\ f + n <= Device + vmm_max_pages + 1
    <3>1. n > 0 => v + n - 1 \in Run(v, n)
      BY <2>2 DEF Run
    <3>2. n <= vmm_max_pages
      BY <2>2, <3>1, Numbers, Sizes
    <3>3. f \in Nat /\ f < Device
      BY Numbers
    <3> QED BY <3>2, <3>3, Numbers, Sizes
  <2>7. /\ k \in 0 .. n /\ Mapped(u, t, f, v, k)
        /\ \/ mapped.ok = TRUE /\ k = n
           \/ mapped.ok = FALSE /\ k < n
    <3>1. Run(v, n) \subseteq Pages /\ Sound(u)
      BY <2>2, <2>5
    <3> HIDE DEF V
    <3> QED BY <2>2, <2>6, <3>1, MapRunIs
  <2> HIDE DEF mapped, t, k
  <2>8. Run(v, k) \subseteq V /\ k \in Nat /\ Run(v, k) \subseteq Pages
    BY <2>2, <2>7 DEF Run
  <2>9. /\ \A w \in Run(v, k) : t.pt[w] = f + (w - v)
        /\ \A w \in Pages : t.pt[w] = u.pt[w] \/ (w \in Run(v, k) /\ t.pt[w] \notin Reserved)
    <3> HIDE DEF V
    <3> QED BY <2>2, <2>6, <2>7, <2>8, MappedFrames
  <2>10. Sound(t) /\ u.held \subseteq t.held /\ t.bitmap = u.bitmap
    BY <2>7 DEF Mapped, Grown
  <2>11. Kept(st, t, {})
    BY <2>2, <2>5, <2>8, <2>9, <2>10 DEF Kept, Sound, Mem
  <2>12. CASE mapped.ok = TRUE
    <3>1. MappedTo(st, t, v, n, f)
      BY <2>2, <2>5, <2>7, <2>9, <2>10, <2>12 DEF MappedTo, FreshPages
    <3>2. r.st = t /\ r.ret = v
      BY <2>3, <2>12
    <3>3. Kept(st, r.st, {}) /\ MappedTo(st, r.st, r.ret, n, f)
      BY <2>11, <3>1, <3>2
    <3> QED BY <3>3 DEF r
  <2>13. CASE mapped.ok = FALSE
    <3>1. r.st = t /\ r.ret = NoPage
      BY <2>3, <2>13
    <3> QED BY <2>11, <3>1 DEF r
  <2> QED BY <2>7, <2>12, <2>13
<1> QED
  BY <1>1, <1>2

-----------------------------------------------------------------------------
(* The heap's pages *)

(* No page of st comes to be mapped to a reserved frame, and nothing that  *)
(* is marked or held is given up.                                          *)
Grows(st, t) ==
  /\ Sound(t) /\ st.map \subseteq t.map /\ st.held \subseteq t.held /\ st.bitmap \subseteq t.bitmap
  /\ \A w \in Pages : t.pt[w] = st.pt[w] \/ t.pt[w] \notin Reserved

(* From the first free page on, pages that have a free page at or above    *)
(* them are free, n pages far.                                             *)
Adjacent(st, n) ==
  \A v, w \in Pages \ st.bitmap, k \in 0 .. (n - 1) :
    (\A y \in Pages \ st.bitmap : v <= y) /\ w >= v + k => v + k \in Pages \ st.bitmap

(* The n pages from v on are mapped, each to a frame of its own that was   *)
(* free.                                                                   *)
FreshHeap(st, t, v, n) ==
  /\ FreshPages(st, t, v, n)
  /\ \A w \in Run(v, n) : t.pt[w] \in t.held \ st.map
  /\ \A w, y \in Run(v, n) : t.pt[w] = t.pt[y] => w = y

(* They are the first free ones, and the only ones that changed.           *)
FirstPages(st, t, v, n) ==
  /\ FreshHeap(st, t, v, n) /\ \A y \in Pages \ st.bitmap : v <= y
  /\ t.bitmap = st.bitmap \cup Run(v, n)
  /\ \A w \in Pages \ Run(v, n) : t.pt[w] = st.pt[w]

(* The loop of liballoc_alloc, after x.done pages.                         *)
Climbs(st, x, n) ==
  /\ Grows(st, x.st)
  /\ x.done = 0 => x.first = NoPage /\ x.st.bitmap = st.bitmap /\ x.st.pt = st.pt
  /\ x.done > 0 => x.first \in Pages
  /\ x.done > 0 /\ Adjacent(st, n) => FirstPages(st, x.st, x.first, x.done)

(* A turn that finds no page leaves the pages as they are.                 *)
LEMMA HeapStops ==
  ASSUME NEW st, NEW n, NEW x, Climbs(st, x, n), x.done \in Nat,
         NEW r, Gets(x.st, r), r.ret = NoPage,
         NEW y, y.st = r.st, y.done = x.done, y.first = x.first
  PROVE  Climbs(st, y, n)
<1>1. /\ Sound(r.st) /\ x.st.map \subseteq r.st.map /\ x.st.held \subseteq r.st.held
      /\ r.st.bitmap = x.st.bitmap /\ r.st.pt = x.st.pt
  BY DEF Gets, NoPage, Pages
<1>2. Grows(st, y.st)
  BY <1>1 DEF Climbs, Grows
<1>3. FirstPages(st, x.st, x.first, x.done) => FirstPages(st, y.st, y.first, y.done)
  BY <1>1 DEF FirstPages, FreshHeap, FreshPages
<1> QED
  BY <1>1, <1>2, <1>3 DEF Climbs

(* The page that a turn finds follows those found before, if no page in    *)
(* between is used.                                                        *)
LEMMA HeapNext ==
  ASSUME NEW st, NEW n \in Nat, NEW x, Climbs(st, x, n), Adjacent(st, n),
         x.done \in Nat, x.done < n,
         NEW r, Gets(x.st, r), r.ret # NoPage
  PROVE  LET v == IF x.done = 0 THEN r.ret ELSE x.first
         IN FirstPages(st, r.st, v, x.done + 1)
<1> DEFINE v == IF x.done = 0 THEN r.ret ELSE x.first
           d == x.done
           q == r.ret
<1>1. /\ Sound(r.st) /\ x.st.map \subseteq r.st.map /\ x.st.held \subseteq r.st.held
      /\ q \in Pages \ x.st.bitmap /\ \A w \in Pages \ x.st.bitmap : q <= w
      /\ r.st.bitmap = x.st.bitmap \cup {q}
  BY DEF Gets
<1>2. PICK b \in Blocks \ x.st.map : b \in r.st.held /\ r.st.pt = [x.st.pt EXCEPT ![q] = b]
  BY DEF Gets
<1>3. st.map \subseteq x.st.map /\ Sound(x.st) /\ x.st.held \subseteq x.st.map
  BY DEF Climbs, Grows, Sound
<1>4. \A w \in Pages : r.st.pt[w] = IF w = q THEN b ELSE x.st.pt[w]
  BY <1>2, <1>3 DEF Sound, Mem
<1>5. CASE d = 0
  <2>1. v = q /\ x.st.bitmap = st.bitmap /\ x.st.pt = st.pt
    BY <1>5 DEF Climbs
  <2>2. Run(q, d + 1) = {q}
    <3>1. q \in Nat
      BY <1>1, Numbers
    <3> HIDE DEF q, d
    <3> QED BY <1>5, <3>1 DEF Run
  <2> HIDE DEF v, q, d
  <2>3. FreshHeap(st, r.st, q, d + 1)
    BY <1>1, <1>2, <1>3, <1>4, <2>1, <2>2 DEF FreshHeap, FreshPages
  <2>4. FirstPages(st, r.st, q, d + 1)
    BY <1>1, <1>4, <2>1, <2>2, <2>3 DEF FirstPages
  <2> QED BY <2>1, <2>4 DEF v, d
<1>6. CASE d > 0
  <2>1. v = x.first /\ FirstPages(st, x.st, v, d)
    BY <1>6 DEF Climbs
  <2> HIDE DEF v, q, d
  <2>2. /\ v \in Pages /\ v \in Nat /\ \A y \in Pages \ st.bitmap : v <= y
        /\ Run(v, d) \subseteq Pages \ st.bitmap /\ x.st.bitmap = st.bitmap \cup Run(v, d)
    BY <2>1, Numbers DEF FirstPages, FreshHeap, FreshPages
  <2>3. d \in Nat /\ d < n /\ q \in Nat
    BY <1>1, Numbers DEF d
  <2>4. v \in Run(v, d) /\ q \in Pages \ st.bitmap /\ q \notin Run(v, d) /\ v <= q
    BY <1>1, <1>6, <2>2, <2>3 DEF Run
  <2>5. q >= v + d /\ d \in 0 .. (n - 1) /\ v + d \notin Run(v, d)
    BY <2>2, <2>3, <2>4 DEF Run
  <2>6. v + d \in Pages \ st.bitmap
    BY <2>2, <2>4, <2>5 DEF Adjacent
  <2>7. q = v + d
    BY <1>1, <2>2, <2>3, <2>5, <2>6
  <2>8. Run(v, d + 1) = Run(v, d) \cup {q}
    BY <2>2, <2>3, <2>7 DEF Run
  <2>9. \A w \in Run(v, d) : x.st.pt[w] \in x.st.held \ st.map /\ r.st.pt[w] = x.st.pt[w]
    BY <1>4, <2>1, <2>2, <2>4 DEF FirstPages, FreshHeap
  <2>10. r.st.pt[q] = b
    BY <1>1, <1>4
  <2>11. \A w \in Run(v, d + 1) : r.st.pt[w] \in r.st.held \ st.map
    BY <1>1, <1>2, <1>3, <2>8, <2>9, <2>10
  <2>12. \A w, y \in Run(v, d + 1) : r.st.pt[w] = r.st.pt[y] => w = y
    <3>1. \A w, y \in Run(v, d) : r.st.pt[w] = r.st.pt[y] => w = y
      BY <2>1, <2>9 DEF FirstPages, FreshHeap
    <3>2. \A w \in Run(v, d) : r.st.pt[w] # b
      BY <1>2, <1>3, <2>9
    <3> QED BY <2>8, <2>10, <3>1, <3>2
  <2>13. FreshHeap(st, r.st, v, d + 1)
    BY <1>1, <2>2, <2>4, <2>8, <2>11, <2>12 DEF FreshHeap, FreshPages
  <2>14. \A w \in Pages \ Run(v, d + 1) : r.st.pt[w] = st.pt[w]
    BY <1>4, <2>1, <2>8 DEF FirstPages
  <2>15. FirstPages(st, r.st, v, d + 1)
    BY <1>1, <2>2, <2>8, <2>13, <2>14 DEF FirstPages
  <2> QED BY <1>6, <2>15 DEF v, d
<1> QED
  BY <1>5, <1>6

(* A turn that finds a page.                                               *)
LEMMA HeapClimbs ==
  ASSUME NEW st, NEW n \in Nat, NEW x, Climbs(st, x, n), x.done \in Nat, x.done < n,
         NEW r, Gets(x.st, r), r.ret # NoPage,
         NEW y, y.st = r.st, y.done = x.done + 1,
         y.first = IF x.done = 0 THEN r.ret ELSE x.first
  PROVE  Climbs(st, y, n)
<1>1. Grows(st, y.st)
  <2>1. /\ Sound(r.st) /\ x.st.map \subseteq r.st.map /\ x.st.held \subseteq r.st.held
        /\ r.st.bitmap = x.st.bitmap \cup {r.ret}
    BY DEF Gets
  <2>2. PICK b \in Blocks \ x.st.map : r.st.pt = [x.st.pt EXCEPT ![r.ret] = b]
    BY DEF Gets
  <2>3. b \notin Reserved /\ Sound(x.st)
    BY <2>2 DEF Climbs, Grows, Sound
  <2>4. \A w \in Pages : r.st.pt[w] = x.st.pt[w] \/ r.st.pt[w] = b
    BY <2>2, <2>3 DEF Sound, Mem
  <2> QED BY <2>1, <2>3, <2>4 DEF Climbs, Grows
<1>2. y.first \in Pages
  BY DEF Climbs, Gets
<1>3. Adjacent(st, n) => FirstPages(st, y.st, y.first, y.done)
  BY HeapNext
<1>4. y.done > 0 /\ y.done # 0
  OBVIOUS
<1> QED
  BY <1>1, <1>2, <1>3, <1>4 DEF Climbs

(* liballoc_alloc takes pages one by one.  Whatever it took, no page comes *)
(* to be mapped to a reserved frame; where free pages are adjacent it      *)
(* returns n of them, or gives back what it took and touches nothing else. *)
HeapResult(st, r, n) ==
  /\ Sound(r.st) /\ r.ret \in Pages \cup {NoPage}
  /\ \A w \in Pages : r.st.pt[w] = st.pt[w] \/ r.st.pt[w] \notin Reserved
  /\ Adjacent(st, n) => /\ Kept(st, r.st, {})
                        /\ r.ret = NoPage \/ FreshHeap(st, r.st, r.ret, n)

(* The frames of a half-way failure go back with their pages.              *)
LEMMA HeapAllocIs ==
  ASSUME NEW st, Sound(st), NEW n \in Nat
  PROVE  HeapResult(st, liballoc_alloc(st, n), n)
<1> DEFINE Good(x, i) == /\ Climbs(st, x, n) /\ x.done \in 0 .. i
                         /\ x.ok = TRUE => x.done = i /\ n > 0
           Big == [st : Mem, first : Pages \cup {NoPage}, done : 0 .. n, ok : BOOLEAN]
           TT == [i \in 0 .. n |-> { x \in Big : Good(x, i) }]
           a == [st |-> st, first |-> NoPage, done |-> 0, ok |-> n > 0]
           Get(x) == vmm_alloc_page(x.st)
           Turn(x, i) == IF ~x.ok THEN x
                         ELSE IF Get(x).ret = NoPage THEN [x EXCEPT !.ok = FALSE, !.st = Get(x).st]
                         ELSE [st |-> Get(x).st, first |-> IF i = 1 THEN Get(x).ret ELSE x.first,
                               done |-> i, ok |-> TRUE]
           Def(k) == [i \in 0 .. n |-> IF i = 0 THEN a ELSE Turn(k[i - 1], i)]
           K == CHOOSE k : k = Def(k)
           G == [p \in Big \X (1 .. n) |-> Turn(p[1], p[2])]
<1>1. liballoc_alloc(st, n) =
        IF K[n].ok THEN [st |-> K[n].st, ret |-> K[n].first]
        ELSE [st |-> FreePages(K[n].st, K[n].first, K[n].done), ret |-> NoPage]
  BY DEF liballoc_alloc
<1>2. a \in TT[0]
  <2>1. Grows(st, st)
    BY DEF Grows
  <2>2. Climbs(st, a, n)
    BY <2>1 DEF Climbs
  <2>3. a \in Big
    BY DEF Sound
  <2>4. 0 \in 0 .. n /\ Good(a, 0)
    <3>1. (n > 0) = TRUE => n > 0
      OBVIOUS
    <3>2. a.done = 0 /\ (a.ok = TRUE => n > 0)
      BY <3>1
    <3> HIDE DEF a
    <3> QED BY <2>2, <3>2
  <2> HIDE DEF Big, Good, a
  <2> QED BY <2>3, <2>4
<1>3. ASSUME NEW i \in 1 .. n, NEW x \in Big, Good(x, i - 1)
      PROVE  Turn(x, i) \in Big /\ Good(Turn(x, i), i)
  <2>0. /\ x.ok \in BOOLEAN /\ x.st \in Mem /\ x.done \in 0 .. n /\ x.first \in Pages \cup {NoPage}
        /\ Climbs(st, x, n) /\ x.done \in Nat
    BY <1>3
  <2>1. CASE ~x.ok
    BY <1>3, <2>1
  <2>2. CASE x.ok = TRUE
    <3> DEFINE r == Get(x)
    <3>1. x.done = i - 1 /\ x.done < n /\ n > 0 /\ x.done + 1 = i
      BY <1>3, <2>2
    <3>2. Gets(x.st, r)
      <4>1. Sound(x.st)
        BY <2>0 DEF Climbs, Grows
      <4> QED BY <4>1, AllocPageGets
    <3>3. r.st \in Mem /\ r.ret \in Pages \cup {NoPage}
      <4> HIDE DEF r
      <4> QED BY <3>2 DEF Gets, Sound
    <3> DEFINE y == Turn(x, i)
    <3>4. CASE r.ret = NoPage
      <4>1. y = [x EXCEPT !.ok = FALSE, !.st = r.st]
        BY <2>2, <3>4
      <4> HIDE DEF r, y
      <4>2. y \in Big /\ y.st = r.st /\ y.ok = FALSE /\ y.done = x.done /\ y.first = x.first
        BY <3>3, <4>1
      <4> HIDE DEF Big
      <4>3. Climbs(st, y, n)
        BY <2>0, <3>2, <3>4, <4>2, HeapStops
      <4>4. Good(y, i)
        BY <3>1, <4>2, <4>3
      <4> QED BY <4>2, <4>4 DEF y
    <3>5. CASE r.ret # NoPage
      <4>1. y = [st |-> r.st, first |-> IF i = 1 THEN r.ret ELSE x.first, done |-> i, ok |-> TRUE]
        BY <2>2, <3>5
      <4> HIDE DEF r, y
      <4>2. /\ y.st = r.st /\ y.ok = TRUE /\ y.done = i
            /\ y.first = IF i = 1 THEN r.ret ELSE x.first
        BY <4>1
      <4>3. y \in Big
        <5>1. i \in 0 .. n /\ y.first \in Pages \cup {NoPage}
          BY <2>0, <3>3, <4>2
        <5> QED BY <3>3, <4>1, <4>2, <5>1
      <4> HIDE DEF Big
      <4>4. y.first = IF x.done = 0 THEN r.ret ELSE x.first
        BY <3>1, <4>2
      <4>5. Climbs(st, y, n)
        BY <2>0, <3>1, <3>2, <3>5, <4>2, <4>4, HeapClimbs
      <4>6. Good(y, i)
        BY <3>1, <4>2, <4>5
      <4> QED BY <4>3, <4>6 DEF y
    <3> QED BY <3>4, <3>5
  <2> QED BY <2>0, <2>1, <2>2
<1>4. \A i \in 1 .. n : i \in 0 .. n /\ i - 1 \in 0 .. n /\ i # 0
  OBVIOUS
<1>5. \A i \in 0 .. n : TT[i] = { x \in Big : Good(x, i) }
  <2> HIDE DEF Big, Good
  <2> QED OBVIOUS
<1>6. \A x \in Big, i \in 1 .. n : G[<<x, i>>] = Turn(x, i)
  <2> HIDE DEF Big, Turn
  <2> QED OBVIOUS
<1> HIDE DEF Big, Good, TT, Turn, G, a
<1>7. ASSUME NEW i \in 1 .. n, NEW x \in TT[i - 1]
      PROVE  G[<<x, i>>] = Turn(x, i) /\ Turn(x, i) \in TT[i]
  <2>1. x \in Big /\ Good(x, i - 1)
    BY <1>4, <1>5
  <2> QED BY <1>3, <1>4, <1>5, <1>6, <2>1
<1>8. \E k : Through(k, n, TT, a, G)
  BY <1>2, <1>7, RecursionThrough
<1>9. PICK k : Through(k, n, TT, a, G)
  BY <1>8
<1>10. k = Def(k)
  <2>1. k[0] = a
    BY <1>9 DEF Through, Recursion
  <2>2. \A i \in 1 .. n : k[i] = Turn(k[i - 1], i)
    BY <1>4, <1>7, <1>9 DEF Through, Recursion
  <2>3. \A i \in 0 .. n : k[i] = IF i = 0 THEN a ELSE Turn(k[i - 1], i)
    BY <2>1, <2>2
  <2> QED BY <1>9, <2>3 DEF Through
<1>11. K = Def(K)
  BY <1>10
<1> HIDE DEF K
<1>12. K[0] = a /\ \A i \in 1 .. n : K[i] = Turn(K[i - 1], i)
  BY <1>4, <1>11
<1> DEFINE S == { i \in 0 .. n : K[i] \in TT[i] }
<1>13. \A i \in 0 .. n : i \in S
  <2>1. 0 \in S
    BY <1>2, <1>12
  <2>2. ASSUME NEW i \in 0 .. (n - 1), i \in S PROVE i + 1 \in S
    <3>1. i + 1 \in 1 .. n /\ (i + 1) - 1 = i /\ i + 1 \in 0 .. n
      OBVIOUS
    <3>2. K[i] \in TT[(i + 1) - 1] /\ K[i + 1] = Turn(K[i], i + 1)
      BY <1>12, <2>2, <3>1
    <3> QED BY <1>7, <3>1, <3>2
  <2> HIDE DEF S
  <2> QED BY <2>1, <2>2, InductionUpTo
<1>14. K[n] \in TT[n] /\ n \in 0 .. n
  BY <1>13
<1>15. Good(K[n], n)
  BY <1>5, <1>14
<1> DEFINE x == K[n]
           r == liballoc_alloc(st, n)
<1>16. /\ Climbs(st, x, n) /\ x.done \in 0 .. n /\ x.done \in Nat
       /\ x.ok = TRUE => x.done = n /\ n > 0
       /\ x.ok \in BOOLEAN
  BY <1>5, <1>14, <1>15 DEF Good, Big
<1>17. r = IF x.ok THEN [st |-> x.st, ret |-> x.first]
           ELSE [st |-> FreePages(x.st, x.first, x.done), ret |-> NoPage]
  BY <1>1
<1> HIDE DEF x, r
<1>18. Sound(x.st) /\ st.bitmap \subseteq Pages /\ st.held \subseteq st.map
  BY <1>16 DEF Climbs, Grows, Sound, Mem
<1>19. CASE x.ok = TRUE
  <2>1. r.st = x.st /\ r.ret = x.first /\ x.done = n /\ x.done > 0
    BY <1>16, <1>17, <1>19
  <2>2. Adjacent(st, n) => FirstPages(st, x.st, x.first, n)
    BY <1>16, <2>1 DEF Climbs
  <2>3. FirstPages(st, x.st, x.first, n) => Kept(st, x.st, {}) /\ FreshHeap(st, x.st, x.first, n)
    BY <1>16, <1>18 DEF FirstPages, FreshHeap, FreshPages, Kept, Climbs, Grows
  <2>4. HeapResult(st, r, n)
    BY <1>16, <2>1, <2>2, <2>3 DEF HeapResult, Climbs, Grows
  <2> QED BY <2>4 DEF r
<1>20. CASE x.ok = FALSE
  <2> DEFINE t == FreePages(x.st, x.first, x.done)
             V == Run(x.first, x.done)
             F == { x.st.pt[w] : w \in V \cap Pages }
  <2>1. r.st = t /\ r.ret = NoPage
    BY <1>17, <1>20
  <2>2. x.first \in Int
    <3>1. x.first = NoPage \/ x.first \in Pages
      BY <1>16 DEF Climbs
    <3>2. NoPage \in Int /\ Pages \subseteq Int
      BY Numbers DEF NoPage
    <3> QED BY <3>1, <3>2
  <2>3. Released(x.st, t, V, F)
    BY <1>16, <1>18, <2>2, FreePagesIs
  <2> HIDE DEF t
  <2>4. Sound(t) /\ \A w \in Pages : t.pt[w] = st.pt[w] \/ t.pt[w] \notin Reserved
    BY <1>16, <2>3, NotReserved DEF Released, Climbs, Grows
  <2>5. ASSUME Adjacent(st, n) PROVE Kept(st, t, {})
    <3>1. st.bitmap \cap V = {} /\ F \cap st.map = {} /\ \A w \in st.bitmap : x.st.pt[w] = st.pt[w]
      <4>1. CASE x.done = 0
        <5>1. V = {}
          BY <2>2, <4>1 DEF Run
        <5> QED BY <1>16, <4>1, <5>1 DEF Climbs
      <4>2. CASE x.done > 0
        BY <1>16, <1>18, <2>5, <4>2 DEF Climbs, FirstPages, FreshHeap, FreshPages
      <4> QED BY <1>16, <4>1, <4>2
    <3> HIDE DEF V, F
    <3>2. st.held \subseteq t.held
      BY <1>16, <1>18, <2>3, <3>1 DEF Released, Climbs, Grows
    <3>3. ASSUME NEW w \in st.bitmap PROVE w \in t.bitmap /\ t.pt[w] = st.pt[w]
      <4>1. w \in Pages \ V /\ w \in x.st.bitmap
        BY <1>16, <1>18, <3>1 DEF Climbs, Grows
      <4> QED BY <2>3, <3>1, <4>1 DEF Released
    <3> QED BY <2>4, <3>2, <3>3 DEF Kept
  <2>6. HeapResult(st, r, n)
    BY <2>1, <2>4, <2>5 DEF HeapResult
  <2> QED BY <2>6 DEF r
<1> QED
  BY <1>16, <1>19, <1>20

-----------------------------------------------------------------------------
(* The PMM under all of it *)

(* Where a call without a lock has got to.  What it has found is still     *)
(* free: the heap has only freed pages meanwhile.                          *)
CallInv ==
  /\ call.op \in {"page", "dma"} =>
       /\ call.virt = NoPage \/ (call.virt \in Pages /\ Run(call.virt, call.pages) \subseteq Pages \ m.bitmap)
       /\ call.pages \in Nat \ {0} /\ call.pages <= vmm_max_pages
  /\ call.op = "page" => call.pages = 1
  /\ call.op = "dma" => call.zone \in Blocks \ Reserved
  /\ call.op = "free" => Region("run", call.virt, call.pages) \in regions

(* The PMM is consistent.  A run that vmm_free_contiguous will be called   *)
(* with lies in the bitmap's pages and starts at no reserved frame:        *)
(* otherwise that call would clear reserved bits.                          *)
MemInv ==
  /\ Sound(m)
  /\ \A r \in regions :
       /\ r = Region(r.kind, r.first, r.pages) /\ r.first \in Pages /\ r.pages \in Nat
       /\ r.kind = "run" => /\ Run(r.first, r.pages) \subseteq Pages
                            /\ r.pages > 0 => m.pt[r.first] \notin Reserved
  /\ CallInv

(* A frame that the PMM hands out while the kernel boots.                  *)
LEMMA GrantKeeps ==
  ASSUME NEW st, Sound(st), NEW r, Grants(st, r, 1)
  PROVE  /\ Sound(r.st) /\ r.st.pt = st.pt /\ r.st.pd = st.pd /\ r.ret \in Blocks
BY ReservedIsPrefix DEF Grants, Taken, NULL

(* What vmm_init leaves is consistent, and mapping the framebuffer keeps   *)
(* it so.                                                                  *)
LEMMA BootedIsSound == Sound(Booted)
<1> DEFINE pt == [v \in Pages |-> IF Table(v) # 0 THEN Unmapped
                                  ELSE IF v < KernelBlocks THEN LowBlocks + v ELSE v]
           pd == [t \in Tables |-> t = 0]
           pmm == [map |-> P!Reserved, used |-> Cardinality(P!Reserved),
                   last |-> 0, held |-> {}, bitmap |-> {}, pd |-> pd, pt |-> pt]
           a == pmm_alloc_block(pmm)
           b == pmm_alloc_block(a.st)
           c == pmm_alloc_contiguous(b.st, 1)
<1>1. pt \in [Pages -> Frames]
  <2>1. ASSUME NEW v \in Pages
        PROVE  (IF Table(v) # 0 THEN Unmapped
                ELSE IF v < KernelBlocks THEN LowBlocks + v ELSE v) \in Frames
    <3>1. v \in Nat /\ v < vmm_max_pages
      BY Numbers
    <3>2. v \in Frames /\ Unmapped \in Frames
      BY <3>1, Numbers, Sizes DEF Frames
    <3>3. LowBlocks + v \in Frames
      BY <3>1, Numbers, Sizes DEF Frames, Device
    <3> QED BY <3>2, <3>3
  <2> QED BY <2>1
<1>2. pd \in [Tables -> BOOLEAN]
  OBVIOUS
<1>3. Sound(pmm)
  <2>1. Reserved \in SUBSET Blocks /\ Cardinality(Reserved) \in Nat /\ 0 \in Blocks
    BY ReservedIsPrefix, FramesFinite
  <2>2. Reserved = P!Reserved
    BY DEF Reserved
  <2> HIDE DEF pt, pd
  <2>3. pmm \in Mem
    BY <1>1, <1>2, <2>1, <2>2 DEF Mem
  <2> QED BY <2>2, <2>3 DEF Sound
<1>4. Booted = MapRun([c.st EXCEPT !.last = (c.ret + 1) % pmm_max_blocks], Device, FbFirst, FbPages).st
  BY DEF Booted
<1> HIDE DEF pmm
<1>5. Sound(a.st)
  <2>1. Grants(pmm, a, 1)
    BY <1>3, AllocBlock
  <2> HIDE DEF a
  <2> QED BY <1>3, <2>1, GrantKeeps
<1> HIDE DEF a
<1>6. Sound(b.st)
  <2>1. Grants(a.st, b, 1)
    BY <1>5, AllocBlock
  <2> HIDE DEF b
  <2> QED BY <1>5, <2>1, GrantKeeps
<1> HIDE DEF b
<1>7. Sound(c.st) /\ c.ret \in Blocks
  <2>1. Grants(b.st, c, 1)
    BY <1>6, AllocContiguousBlocks
  <2> HIDE DEF c
  <2> QED BY <1>6, <2>1, GrantKeeps
<1> HIDE DEF c
<1>8. (c.ret + 1) % pmm_max_blocks \in Blocks
  <2>1. c.ret \in Nat
    BY <1>7, Numbers
  <2> QED BY <2>1, Sizes DEF Blocks, P!Blocks
<1> DEFINE l == (c.ret + 1) % pmm_max_blocks
           z == [c.st EXCEPT !.last = l]
<1>9. Sound(z)
  <2>1. l \in Blocks
    BY <1>8
  <2> HIDE DEF l
  <2> QED BY <1>7, <2>1 DEF Sound, Mem
<1>10. Booted = MapRun(z, Device, FbFirst, FbPages).st
  BY <1>4
<1> HIDE DEF z
<1>11. Run(FbFirst, FbPages) \subseteq Pages /\ Device \in Nat
       /\ Device + FbPages <= Device + vmm_max_pages + 1 /\ FbFirst \in Nat /\ FbPages \in Nat
  BY Sizes, Numbers DEF Run, Pages
<1> DEFINE fb == MapRun(z, Device, FbFirst, FbPages)
<1>12. Mapped(z, fb.st, Device, FbFirst, fb.done)
  BY <1>9, <1>11, MapRunIs
<1> HIDE DEF fb
<1>13. Sound(fb.st)
  BY <1>12 DEF Mapped, Grown
<1> QED
  BY <1>10, <1>13 DEF fb

(* Sound is the PMM's own invariant, and more.                             *)
LEMMA SoundIsInv == ASSUME Sound(m) PROVE P!Inv
<1>1. m \in Mem
  BY DEF Sound
<1>2. m.used \in 0 .. pmm_max_blocks
  BY <1>1, FramesFinite DEF Sound, Mem
<1>3. m.map \subseteq Blocks /\ m.last \in Blocks /\ m.held \subseteq Blocks
  BY <1>1 DEF Mem
<1>4. P!TypeOK
  BY <1>2, <1>3 DEF P!TypeOK, Blocks
<1>5. P!CounterAgrees
  <2>1. P!Cardinality(m.map) = Cardinality(m.map)
    BY DEF P!Cardinality, Cardinality
  <2> QED BY <2>1 DEF Sound, P!CounterAgrees
<1>6. P!ReservedNeverGiven
  BY DEF Sound, P!ReservedNeverGiven, Reserved
<1> QED
  BY <1>4, <1>5, <1>6 DEF P!Inv

(* What the caller of an allocation sees of memory.                        *)
LEMMA ReturnKeepsMem ==
  ASSUME MemInv, NEW kind, NEW result, NEW n \in Nat, Return(kind, result, n),
         Sound(result.st), call' = Idle,
         \A w \in Pages : result.st.pt[w] = m.pt[w] \/ result.st.pt[w] \notin Reserved,
         result.ret # NoPage =>
           /\ result.ret \in Pages
           /\ kind = "run" => /\ Run(result.ret, n) \subseteq Pages
                              /\ n > 0 => result.st.pt[result.ret] \notin Reserved
  PROVE  MemInv'
<1>1. m' = result.st
  BY DEF Return
<1>2. ASSUME NEW r \in regions', r \in regions
      PROVE  /\ r = Region(r.kind, r.first, r.pages) /\ r.first \in Pages /\ r.pages \in Nat
             /\ r.kind = "run" => /\ Run(r.first, r.pages) \subseteq Pages
                                  /\ r.pages > 0 => m'.pt[r.first] \notin Reserved
  BY <1>1, <1>2 DEF MemInv
<1>3. ASSUME NEW r \in regions', r \notin regions
      PROVE  /\ r = Region(r.kind, r.first, r.pages) /\ r.first \in Pages /\ r.pages \in Nat
             /\ r.kind = "run" => /\ Run(r.first, r.pages) \subseteq Pages
                                  /\ r.pages > 0 => m'.pt[r.first] \notin Reserved
  <2>1. r = Region(kind, result.ret, n) /\ result.ret # NoPage
    BY <1>3 DEF Return
  <2>2. r.kind = kind /\ r.first = result.ret /\ r.pages = n
    BY <2>1 DEF Region
  <2> QED BY <1>1, <2>1, <2>2
<1>4. CallInv'
  BY DEF CallInv, Idle, Call
<1> QED
  BY <1>1, <1>2, <1>3, <1>4 DEF MemInv

(* A run that follows the frames from g on is none of the reserved ones.   *)
LEMMA MappedRun ==
  ASSUME NEW st, NEW t, NEW v, NEW n \in Nat, NEW g \in Blocks \ Reserved, MappedTo(st, t, v, n, g)
  PROVE  v \in Pages /\ Run(v, n) \subseteq Pages /\ (n > 0 => t.pt[v] \notin Reserved)
<1>1. v \in Pages /\ Run(v, n) \subseteq Pages
  BY DEF MappedTo, FreshPages
<1>2. ASSUME n > 0 PROVE t.pt[v] \notin Reserved
  <2>1. v \in Nat /\ g \in Nat
    BY <1>1, Numbers
  <2>2. v \in Run(v, n) /\ g + (v - v) = g
    BY <1>2, <2>1 DEF Run
  <2> QED BY <2>2 DEF MappedTo
<1> QED
  BY <1>1, <1>2

(* A chunk of the back buffer lies in frames that were free.               *)
LEMMA ChunkIs ==
  ASSUME Sound(m), NEW n \in Nat, ScreenChunk(n)
  PROVE  LET map == vmm_map_mmio(pmm_alloc_blocks(m, n).st, pmm_alloc_blocks(m, n).ret, n)
         IN /\ Return("screen", map, n) /\ map.ret # NoPage /\ call' = Idle
            /\ Kept(m, map.st, {}) /\ FreshRun(m, map.st, map.ret, n)
<1> DEFINE blk == pmm_alloc_blocks(m, n)
           b == blk.st
           g == blk.ret
           map == vmm_map_mmio(b, g, n)
<1>1. Grants(m, blk, n)
  BY AllocBlocks
<1>2. g # NULL /\ map.ret # NoPage /\ Return("screen", map, n) /\ call' = Idle
  BY DEF ScreenChunk
<1> HIDE DEF blk
<1>3. g \in Blocks \ Reserved /\ Run(g, n) \subseteq Blocks \ m.map /\ Taken(m, b, g, n)
  BY <1>1, <1>2 DEF Grants
<1> HIDE DEF b, g
<1>4. /\ Sound(b) /\ b.held = m.held \cup Run(g, n) /\ b.bitmap = m.bitmap /\ b.pt = m.pt
  BY <1>3 DEF Taken
<1>5. Kept(b, map.st, {}) /\ MappedTo(b, map.st, map.ret, n, g)
  BY <1>2, <1>3, <1>4, MapMmioIs
<1> HIDE DEF map
<1>6. Kept(m, map.st, {})
  BY <1>4, <1>5 DEF Kept
<1>7. FreshRun(m, map.st, map.ret, n)
  BY <1>3, <1>4, <1>5 DEF FreshRun, MappedTo, FreshPages, Kept
<1> QED
  BY <1>2, <1>6, <1>7 DEF map, b, g, blk

(* A free of the heap leaves the call under way what it has found.         *)
LEMMA FreeKeepsMem ==
  ASSUME MemInv, NEW V, NEW F, Released(m, m', V, F), NEW q,
         regions' = regions \ {q}, (q.kind = "heap" /\ UNCHANGED call) \/ call' = Idle
  PROVE  MemInv'
<1>1. \A w \in Pages : m'.pt[w] = m.pt[w] \/ m'.pt[w] \notin Reserved
  BY NotReserved DEF Released
<1>2. Sound(m') /\ m'.bitmap \subseteq m.bitmap
  BY DEF Released
<1>3. CASE call' = Idle
  <2>1. CallInv'
    BY <1>3 DEF CallInv, Idle, Call
  <2> QED BY <1>1, <1>2, <2>1 DEF MemInv
<1>4. CASE q.kind = "heap" /\ UNCHANGED call
  <2>1. call.op = "free" => Region("run", call.virt, call.pages) \in regions'
    BY <1>4 DEF MemInv, CallInv, Region
  <2>2. CallInv'
    BY <1>2, <1>4, <2>1 DEF MemInv, CallInv
  <2> QED BY <1>1, <1>2, <2>2 DEF MemInv
<1> QED
  BY <1>3, <1>4

(* The first half of dma_alloc: frames of the zone, and a search.          *)
LEMMA DmaCalled ==
  ASSUME MemInv, NEW n \in DmaSizes, DmaAllocCalled(n)
  PROVE  /\ Sound(m') /\ m'.pt = m.pt /\ m'.bitmap = m.bitmap /\ UNCHANGED <<regions, overtaken>>
         /\ call'.op = "dma" /\ CallInv'
         /\ Run(call'.zone, call'.pages) \subseteq Blocks \ m.map
         /\ m'.held = m.held \cup Run(call'.zone, call'.pages)
<1> DEFINE zone == pmm_alloc_blocks_in_range(m, n)
           z == zone.st
           g == zone.ret
           v == find_contiguous_free_pages(z, n)
<1>1. n \in Nat /\ n <= vmm_max_pages
  BY Sizes
<1>2. Grants(m, zone, n)
  BY <1>1, AllocRangeBlocks DEF MemInv
<1>3. g # NULL /\ m' = z /\ call' = Call("dma", v, n, g) /\ UNCHANGED <<regions, overtaken>>
  BY DEF DmaAllocCalled, Begin
<1>4. n > 0
  <2>1. n = 0 => zone = [st |-> m, ret |-> NULL]
    BY DEF pmm_alloc_blocks_in_range
  <2> QED BY <1>1, <1>3, <2>1
<1> HIDE DEF zone
<1>5. g \in Blocks \ Reserved /\ Run(g, n) \subseteq Blocks \ m.map /\ Taken(m, z, g, n)
  BY <1>2, <1>3 DEF Grants
<1> HIDE DEF z, g
<1>6. Sound(z) /\ z.pt = m.pt /\ z.bitmap = m.bitmap /\ z.held = m.held \cup Run(g, n)
  BY <1>5 DEF Taken
<1>7. v = NoPage \/ (v \in Pages /\ Run(v, n) \subseteq Pages \ z.bitmap)
  BY <1>1, <1>6, SearchIs
<1> HIDE DEF v
<1>8. call'.op = "dma" /\ call'.virt = v /\ call'.pages = n /\ call'.zone = g
  BY <1>3 DEF Call
<1>9. CallInv'
  BY <1>1, <1>3, <1>4, <1>5, <1>7, <1>8 DEF CallInv
<1> QED
  BY <1>3, <1>5, <1>6, <1>8, <1>9

(* The first half of vmm_alloc_page.                                       *)
LEMMA PageCalled ==
  ASSUME MemInv, AllocPageCalled
  PROVE  UNCHANGED <<m, regions, overtaken>> /\ call'.op = "page" /\ CallInv'
<1> DEFINE v == find_free_page(m)
<1>1. UNCHANGED <<m, regions, overtaken>> /\ call' = Call("page", v, 1, NULL)
  BY DEF AllocPageCalled, Begin
<1>2. v = NoPage \/ (v \in Pages /\ Run(v, 1) \subseteq Pages \ m.bitmap)
  BY SearchIs DEF find_free_page, MemInv
<1> HIDE DEF v
<1>3. call'.op = "page" /\ call'.virt = v /\ call'.pages = 1
  BY <1>1 DEF Call
<1> QED
  BY <1>1, <1>2, <1>3, Sizes DEF CallInv

(* dma_free before anything is given back.                                 *)
LEMMA FreeCalled ==
  ASSUME MemInv, NEW r \in regions, DmaFreeCalled(r)
  PROVE  UNCHANGED <<m, regions, overtaken>> /\ call'.op = "free" /\ CallInv'
<1>1. UNCHANGED <<m, regions, overtaken>> /\ call' = Call("free", r.first, r.pages, NULL) /\ r.kind = "run"
  BY DEF DmaFreeCalled, Begin
<1>2. call'.op = "free" /\ call'.virt = r.first /\ call'.pages = r.pages
  BY <1>1 DEF Call
<1> QED
  BY <1>1, <1>2 DEF CallInv, MemInv

(* Every call keeps it, unless the heap comes into its middle.             *)
LEMMA MemStep == ASSUME MemInv, [Next]_vars, ~overtaken' PROVE MemInv'
<1>0. Sound(m) /\ CallInv
  BY DEF MemInv
<1>1. ASSUME NEW r, NEW n \in Nat, NEW kind, Return(kind, r, n), Kept(m, r.st, {}) \/ Kept(m, r.st, Run(0, n)),
             call' = Idle,
             r.ret # NoPage => \E g \in Blocks \ Reserved : MappedTo(m, r.st, r.ret, n, g)
      PROVE  MemInv'
  <2>1. ASSUME r.ret # NoPage
        PROVE  r.ret \in Pages /\ Run(r.ret, n) \subseteq Pages /\ (n > 0 => r.st.pt[r.ret] \notin Reserved)
    BY <1>1, <2>1, MappedRun
  <2>2. Sound(r.st) /\ \A w \in Pages : r.st.pt[w] = m.pt[w] \/ r.st.pt[w] \notin Reserved
    BY <1>1 DEF Kept
  <2> QED BY <1>1, <2>1, <2>2, ReturnKeepsMem
<1>2. CASE AllocPageCalled
  BY <1>2, PageCalled DEF MemInv
<1>3. CASE AllocPageReturns
  <2> DEFINE r == map_found_page(m, call.virt)
             v == call.virt
  <2>1. v = NoPage \/ v \in Pages \ m.bitmap
    <3>1. call.op = "page" /\ call.pages = 1
      BY <1>0, <1>3 DEF AllocPageReturns, CallInv
    <3>2. v = NoPage \/ (v \in Pages /\ Run(v, 1) \subseteq Pages \ m.bitmap)
      BY <1>0, <3>1 DEF CallInv
    <3>3. \A w \in Pages : w \in Run(w, 1)
      BY Numbers DEF Run
    <3> QED BY <3>2, <3>3
  <2>2. GetsAt(m, r, v)
    BY <1>0, <2>1, FoundPageGets
  <2>3. Return("run", r, 1) /\ call' = Idle
    BY <1>3 DEF AllocPageReturns, End
  <2> HIDE DEF r, v
  <2>4. r.ret # NoPage => \E b \in Blocks \ m.map : r.ret \in Pages /\ r.st.pt = [m.pt EXCEPT ![r.ret] = b]
    BY <2>2 DEF GetsAt
  <2>5. \A b \in Blocks \ m.map : b \notin Reserved
    BY <1>0 DEF Sound
  <2>6. /\ \A w \in Pages : r.st.pt[w] = m.pt[w] \/ r.st.pt[w] \notin Reserved
        /\ r.ret # NoPage => r.st.pt[r.ret] \notin Reserved /\ r.ret \in Pages
    <3>1. m.pt \in [Pages -> Frames]
      BY <1>0 DEF Sound, Mem
    <3>2. CASE r.ret = NoPage
      BY <2>2, <3>2 DEF GetsAt, NoPage, Pages
    <3>3. CASE r.ret # NoPage
      BY <2>4, <2>5, <3>1, <3>3
    <3> QED BY <3>2, <3>3
  <2>7. r.ret # NoPage => Run(r.ret, 1) \subseteq Pages
    <3>1. \A w \in Pages : Run(w, 1) = {w}
      BY Numbers DEF Run
    <3> QED BY <2>6, <3>1
  <2>8. Sound(r.st)
    BY <2>2 DEF GetsAt
  <2> QED BY <2>3, <2>6, <2>7, <2>8, ReturnKeepsMem
<1>4. ASSUME NEW n \in DmaSizes, DmaAllocCalled(n) PROVE MemInv'
  BY <1>4, DmaCalled DEF MemInv
<1>5. CASE DmaAllocReturns
  <2> DEFINE n == call.pages
  <2>1. /\ n \in Nat \ {0} /\ n \in Nat /\ n <= vmm_max_pages /\ call.zone \in Blocks \ Reserved
        /\ call.virt = NoPage \/ (call.virt \in Pages /\ Run(call.virt, n) \subseteq Pages \ m.bitmap)
    BY <1>0, <1>5 DEF DmaAllocReturns, CallInv
  <2>2. Return("run", Zone, n) /\ call' = Idle
    BY <1>5 DEF DmaAllocReturns, End
  <2> HIDE DEF n
  <2>3. Zone = map_zone(m, call.zone, call.virt, n)
    BY DEF Zone, n
  <2>4. \/ Zone.ret = NoPage /\ Kept(m, Zone.st, Run(0, n))
        \/ MappedTo(m, Zone.st, Zone.ret, n, call.zone) /\ Kept(m, Zone.st, {})
    BY <1>0, <2>1, <2>3, ZoneIs
  <2> QED BY <1>1, <2>1, <2>2, <2>4
<1>6. ASSUME NEW r \in regions, DmaFreeCalled(r) PROVE MemInv'
  BY <1>6, FreeCalled DEF MemInv
<1>7. CASE dma_free
  <2> DEFINE q == Region("run", call.virt, call.pages)
             v == call.virt
             n == call.pages
  <2>1. q \in regions /\ q.first = v /\ q.pages = n /\ q.kind = "run"
    BY <1>0, <1>7 DEF dma_free, CallInv, Region
  <2>2. /\ m' = vmm_free_contiguous(m, v, n) /\ regions' = regions \ {q} /\ call' = Idle
    BY <1>7 DEF dma_free, End
  <2> HIDE DEF q, v, n
  <2>3. v \in Nat /\ n \in Nat /\ Run(v, n) \subseteq Pages /\ (n > 0 => m.pt[v] \notin Reserved)
    BY <2>1, Numbers DEF MemInv
  <2>4. Released(m, m', Run(v, n), Run(m.pt[v], n))
    BY <1>0, <2>2, <2>3, FreeContiguousIs
  <2> QED BY <2>2, <2>4, FreeKeepsMem
<1>8. ASSUME NEW n \in ChunkSizes, ScreenChunk(n) PROVE MemInv'
  <2> DEFINE map == vmm_map_mmio(pmm_alloc_blocks(m, n).st, pmm_alloc_blocks(m, n).ret, n)
  <2>1. n \in Nat
    BY Sizes
  <2>2. /\ Return("screen", map, n) /\ call' = Idle
        /\ Kept(m, map.st, {}) /\ FreshRun(m, map.st, map.ret, n)
    BY <1>0, <1>8, <2>1, ChunkIs
  <2> HIDE DEF map
  <2>3. \E g \in Blocks \ Reserved : MappedTo(m, map.st, map.ret, n, g)
    BY <2>2 DEF FreshRun, MappedTo
  <2> QED BY <1>1, <2>1, <2>2, <2>3
<1>9. ASSUME NEW n \in HeapSizes, HeapAlloc(n) PROVE MemInv'
  <2> DEFINE r == liballoc_alloc(m, n)
  <2>1. n \in Nat /\ Return("heap", r, n) /\ call' = Idle
    BY <1>9, Sizes DEF HeapAlloc
  <2>2. HeapResult(m, r, n)
    BY <1>0, <2>1, HeapAllocIs
  <2> HIDE DEF r
  <2> QED BY <2>1, <2>2, ReturnKeepsMem DEF HeapResult
<1>10. ASSUME NEW r \in regions, HeapFree(r) PROVE MemInv'
  <2>1. r.first \in Int /\ r.pages \in Nat
    <3>1. r.first \in Pages /\ r.pages \in Nat
      BY DEF MemInv
    <3>2. Pages \subseteq Int
      BY Numbers
    <3> QED BY <3>1, <3>2
  <2>2. m' = FreePages(m, r.first, r.pages) /\ regions' = regions \ {r} /\ r.kind = "heap" /\ UNCHANGED call
    BY <1>10 DEF HeapFree, liballoc_free
  <2> DEFINE V == Run(r.first, r.pages)
             F == { m.pt[w] : w \in V \cap Pages }
  <2>3. Released(m, m', V, F)
    BY <1>0, <2>1, <2>2, FreePagesIs
  <2> HIDE DEF V, F
  <2> QED BY <2>2, <2>3, FreeKeepsMem
<1>11. CASE UNCHANGED vars
  BY <1>11 DEF vars, MemInv, CallInv
<1> QED
  BY <1>2, <1>3, <1>4, <1>5, <1>6, <1>7, <1>8, <1>9, <1>10, <1>11 DEF Next

(* It holds after boot.                                                    *)
LEMMA MemInit == ASSUME Init PROVE MemInv /\ ~overtaken
<1>1. PICK bits \in BootBitmaps : m = [Booted EXCEPT !.bitmap = bits]
  BY DEF Init
<1>2. bits \in SUBSET Pages
  BY Sizes
<1>3. Sound(m)
  <2>1. WithBitmap(Booted, m, bits)
    BY <1>1, <1>2, BootedIsSound, NewBitmap
  <2> QED BY <2>1 DEF WithBitmap
<1> QED
  BY <1>3 DEF Init, MemInv, CallInv, Idle, Call

(* Once a call has been overtaken it stays so.                             *)
LEMMA StaysOvertaken == ASSUME [Next]_vars, ~overtaken', overtaken \in BOOLEAN PROVE ~overtaken
<1>1. CASE Next
  BY <1>1 DEF Next, AllocPageCalled, AllocPageReturns, DmaAllocCalled, DmaAllocReturns,
              DmaFreeCalled, dma_free, ScreenChunk, HeapAlloc, HeapFree, End
<1>2. CASE UNCHANGED vars
  BY <1>2 DEF vars
<1> QED
  BY <1>1, <1>2

(* It is a Boolean.                                                        *)
LEMMA OvertakenType == ASSUME [Next]_vars, overtaken \in BOOLEAN PROVE overtaken' \in BOOLEAN
<1>1. CASE Next
  BY <1>1 DEF Next, AllocPageCalled, AllocPageReturns, DmaAllocCalled, DmaAllocReturns,
              DmaFreeCalled, dma_free, ScreenChunk, HeapAlloc, HeapFree, End
<1>2. CASE UNCHANGED vars
  BY <1>2 DEF vars
<1> QED
  BY <1>1, <1>2

(* What is kept as long as no call was overtaken.                          *)
MemSoFar == overtaken \in BOOLEAN /\ (~overtaken => MemInv)

(* It says that frames stay consistent.                                    *)
LEMMA MemInvImplies == ASSUME MemInv PROVE TypeOK /\ P!Inv
<1>1. P!Inv
  BY SoundIsInv DEF MemInv
<1>2. TypeOK
  BY DEF MemInv, Sound, Mem, TypeOK, Frames
<1> QED
  BY <1>1, <1>2

(* Whatever vmm.c, paging.c and liballoc_hook.c free, on any of their      *)
(* half-way failures, and with pages that are not adjacent or were mapped  *)
(* over, no reserved frame is freed or handed out, the PMM's counter       *)
(* agrees with its bitmap, and bitmap and page tables stay in range, as    *)
(* long as the heap takes no pages in the middle of a call without a lock. *)
THEOREM FramesAlwaysConsistent == Spec => []FramesStayConsistent
<1>1. Init => MemSoFar
  BY MemInit DEF MemSoFar, Init
<1>2. MemSoFar /\ [Next]_vars => MemSoFar'
  BY MemStep, StaysOvertaken, OvertakenType DEF MemSoFar
<1>3. MemSoFar => FramesStayConsistent
  BY MemInvImplies DEF MemSoFar, FramesStayConsistent
<1> QED
  BY <1>1, <1>2, <1>3, PTL DEF Spec

-----------------------------------------------------------------------------
(* Who owns what *)

(* The pages of a region are marked and mapped to frames that the PMM      *)
(* holds, in sequence unless the region is the heap's.                     *)
Owned(st, r) ==
  /\ r.first \in Pages /\ r.pages \in Nat /\ PagesOf(r) \subseteq st.bitmap
  /\ \A v \in PagesOf(r) : /\ st.pt[v] \in st.held
                           /\ r.kind # "heap" => st.pt[v] = st.pt[r.first] + (v - r.first)

(* No page of a region is mapped to one of the frames in F.                *)
Unused(st, F) == \A r \in regions : \A v \in PagesOf(r) : st.pt[v] \notin F

(* A page is in one region at most, and a frame is mapped once in all      *)
(* regions.  The second part is what the first needs: a free of one region *)
(* would otherwise take the frames of another.  The frames that dma_alloc  *)
(* has taken are no region's while it is under way.                        *)
OwnInv ==
  /\ \A r \in regions : Owned(m, r)
  /\ \A r, s \in regions : \A v \in PagesOf(r), w \in PagesOf(s) :
       /\ v = w => r = s
       /\ m.pt[v] = m.pt[w] => v = w
  /\ call.op = "dma" => /\ Run(call.zone, call.pages) \subseteq m.held
                        /\ Unused(m, Run(call.zone, call.pages))

(* What a caller gets.                                                     *)
Fresh(t, kind, v, n) ==
  /\ FreshPages(m, t, v, n)
  /\ \A w \in Run(v, n) : t.pt[w] \in t.held
  /\ \A w \in Run(v, n) : \A r \in regions : \A y \in PagesOf(r) : t.pt[w] # m.pt[y]
  /\ \A w, y \in Run(v, n) : t.pt[w] = t.pt[y] => w = y
  /\ kind # "heap" => \A w \in Run(v, n) : t.pt[w] = t.pt[v] + (w - v)

(* Frames that were free are no region's.                                  *)
LEMMA FreeIsUnused ==
  ASSUME Sound(m), OwnInv
  PROVE  \A r \in regions : \A v \in PagesOf(r) : m.pt[v] \in m.map
BY DEF Sound, OwnInv, Owned

(* A run of frames that are no region's is such a thing.                   *)
LEMMA RunIsFresh ==
  ASSUME NEW t, NEW v, NEW n \in Nat, NEW g \in Blocks \ Reserved, MappedTo(m, t, v, n, g),
         Run(g, n) \subseteq t.held, Unused(m, Run(g, n)), NEW kind
  PROVE  Fresh(t, kind, v, n)
<1>1. FreshPages(m, t, v, n) /\ v \in Nat /\ g \in Nat
  BY Numbers DEF MappedTo, FreshPages
<1>2. \A w \in Run(v, n) : t.pt[w] = g + (w - v)
  BY DEF MappedTo
<1>4. \A w \in Run(v, n) : w \in Int /\ g + (w - v) \in Run(g, n)
  BY <1>1 DEF Run
<1>5. \A w \in Run(v, n) : t.pt[w] \in t.held /\ t.pt[w] \in Run(g, n)
  BY <1>2, <1>4
<1>6. \A w, y \in Run(v, n) : t.pt[w] = t.pt[y] => w = y
  <2>1. \A w, y \in Run(v, n) : g + (w - v) = g + (y - v) => w = y
    BY <1>1, <1>4
  <2> QED BY <1>2, <2>1
<1>7. ASSUME NEW w \in Run(v, n) PROVE t.pt[w] = t.pt[v] + (w - v)
  <2>1. v \in Run(v, n) /\ g + (v - v) = g
    BY <1>1 DEF Run
  <2> QED BY <1>2, <2>1
<1> QED
  BY <1>1, <1>5, <1>6, <1>7 DEF Fresh, Unused

(* So is a page.                                                           *)
LEMMA PageIsFresh ==
  ASSUME Sound(m), OwnInv, NEW v, NEW r, GetsAt(m, r, v)
  PROVE  Kept(m, r.st, {}) /\ (r.ret = NoPage \/ Fresh(r.st, "run", r.ret, 1))
<1>1. CASE r.ret = NoPage
  <2>1. r.st.bitmap = m.bitmap /\ r.st.pt = m.pt
    BY <1>1 DEF GetsAt, NoPage, Pages
  <2> QED BY <1>1, <2>1 DEF GetsAt, Kept
<1>2. CASE r.ret # NoPage
  <2>1. /\ Sound(r.st) /\ m.held \subseteq r.st.held
        /\ r.ret \in Pages \ m.bitmap /\ r.st.bitmap = m.bitmap \cup {r.ret}
    BY <1>2 DEF GetsAt
  <2>2. PICK b \in Blocks \ m.map : b \in r.st.held /\ r.st.pt = [m.pt EXCEPT ![r.ret] = b]
    BY <1>2 DEF GetsAt
  <2>3. b \notin Reserved /\ m.bitmap \subseteq Pages /\ m.pt \in [Pages -> Frames] /\ b \in Nat
    BY <2>2, Numbers DEF Sound, Mem
  <2>4. \A w \in Pages : r.st.pt[w] = IF w = r.ret THEN b ELSE m.pt[w]
    BY <2>2, <2>3
  <2>5. Kept(m, r.st, {})
    BY <2>1, <2>3, <2>4 DEF Kept
  <2>6. Run(r.ret, 1) = {r.ret} /\ b + (r.ret - r.ret) = b
    <3>1. r.ret \in Nat
      BY <2>1, Numbers
    <3> QED BY <2>3, <3>1 DEF Run
  <2>7. FreshPages(m, r.st, r.ret, 1)
    BY <2>1, <2>6 DEF FreshPages
  <2>8. r.st.pt[r.ret] = b
    BY <2>1, <2>4
  <2>9. \A s \in regions : \A y \in PagesOf(s) : b # m.pt[y]
    BY <2>2, FreeIsUnused
  <2>10. Fresh(r.st, "run", r.ret, 1)
    BY <2>2, <2>6, <2>7, <2>8, <2>9 DEF Fresh
  <2> QED BY <2>5, <2>10
<1> QED
  BY <1>1, <1>2

(* The search of the heap's loop, in the words of the model.               *)
LEMMA GaplessIsAdjacent == ASSUME Sound(m), NEW n \in Nat, Gapless(n) PROVE Adjacent(m, n)
<1> DEFINE free == Pages \ m.bitmap
<1>1. FreePageRuns(m, 1) = free
  BY FreePageRunsAre
<1>2. \A w \in free, k \in 0 .. (n - 1) : w >= Least(free) + k => Least(free) + k \in free
  BY <1>1 DEF Gapless
<1>3. ASSUME NEW v \in free, \A y \in free : v <= y PROVE v = Least(free)
  <2>1. free \in SUBSET Nat
    BY Numbers
  <2> HIDE DEF free
  <2>2. Least(free) \in free /\ Least(free) <= v
    BY <2>1, LeastIs
  <2>3. v <= Least(free) /\ v \in Nat /\ Least(free) \in Nat
    BY <1>3, <2>1, <2>2
  <2> QED BY <2>2, <2>3
<1> QED
  BY <1>2, <1>3 DEF Adjacent

(* A region that a call leaves alone stays as it was.                      *)
LEMMA OwnedStays ==
  ASSUME NEW st, NEW t, Sound(st), NEW r, Owned(st, r),
         PagesOf(r) \subseteq t.bitmap,
         \A v \in PagesOf(r) : t.pt[v] = st.pt[v] /\ st.pt[v] \in t.held
  PROVE  Owned(t, r)
<1>1. \A v \in PagesOf(r) : r.first \in PagesOf(r)
  <2>1. r.first \in Nat /\ r.pages \in Nat
    BY Numbers DEF Owned
  <2> QED BY <2>1 DEF PagesOf
<1> QED
  BY <1>1 DEF Owned

(* An allocation takes nothing that another caller has.                    *)
LEMMA ReturnKeepsOwn ==
  ASSUME Sound(m), OwnInv, NEW kind, NEW result, NEW n \in Nat, Return(kind, result, n),
         call' = Idle,
         NEW V, Kept(m, result.st, V), \A r \in regions : PagesOf(r) \cap V = {},
         result.ret = NoPage \/ Fresh(result.st, kind, result.ret, n)
  PROVE  OwnInv'
<1> DEFINE t == result.st
           q == Region(kind, result.ret, n)
<1>0. call'.op # "dma"
  BY DEF Idle, Call
<1>1. m' = t /\ Sound(t) /\ m.held \subseteq t.held /\ m.bitmap \subseteq t.bitmap
  BY DEF Return, Kept
<1>2. ASSUME NEW r \in regions, NEW v \in PagesOf(r) PROVE t.pt[v] = m.pt[v] /\ v \in m.bitmap
  <2>1. v \in m.bitmap \ V
    BY DEF OwnInv, Owned
  <2> QED BY <2>1 DEF Kept
<1>3. ASSUME NEW r \in regions PROVE Owned(t, r)
  <2>1. Owned(m, r)
    BY DEF OwnInv
  <2>2. PagesOf(r) \subseteq t.bitmap /\ \A v \in PagesOf(r) : m.pt[v] \in t.held
    BY <1>1, <2>1 DEF Owned
  <2> HIDE DEF t
  <2> QED BY <1>2, <2>1, <2>2, OwnedStays
<1>4. q.kind = kind /\ q.first = result.ret /\ q.pages = n /\ PagesOf(q) = Run(result.ret, n)
  BY DEF Region, PagesOf, Run
<1>5. regions' = IF result.ret = NoPage THEN regions ELSE regions \cup {q}
  BY DEF Return
<1> HIDE DEF t, q
<1>6. CASE result.ret = NoPage
  BY <1>0, <1>1, <1>2, <1>3, <1>5, <1>6 DEF OwnInv
<1>7. CASE result.ret # NoPage
  <2>1. Fresh(t, kind, result.ret, n)
    BY <1>7 DEF t
  <2>2. Owned(t, q)
    BY <1>4, <2>1 DEF Fresh, FreshPages, Owned
  <2>3. ASSUME NEW r \in regions, NEW v \in PagesOf(r), NEW w \in PagesOf(q)
        PROVE  v # w /\ t.pt[v] # t.pt[w]
    <3>1. t.pt[v] = m.pt[v] /\ v \in m.bitmap
      BY <1>2
    <3>2. w \notin m.bitmap /\ t.pt[w] # m.pt[v]
      BY <1>4, <2>1 DEF Fresh, FreshPages
    <3> QED BY <3>1, <3>2
  <2>4. \A v, w \in PagesOf(q) : t.pt[v] = t.pt[w] => v = w
    BY <1>4, <2>1 DEF Fresh
  <2>5. ASSUME NEW r \in regions', NEW s \in regions', NEW v \in PagesOf(r), NEW w \in PagesOf(s)
        PROVE  /\ v = w => r = s
               /\ t.pt[v] = t.pt[w] => v = w
    <3>1. CASE r \in regions /\ s \in regions
      <4>1. t.pt[v] = m.pt[v] /\ t.pt[w] = m.pt[w]
        BY <1>2, <3>1
      <4> QED BY <3>1, <4>1 DEF OwnInv
    <3>2. CASE r \in regions /\ s = q
      BY <2>3, <3>2
    <3>3. CASE r = q /\ s \in regions
      BY <2>3, <3>3
    <3>4. CASE r = q /\ s = q
      BY <2>4, <3>4
    <3> QED BY <1>5, <1>7, <3>1, <3>2, <3>3, <3>4
  <2>6. \A r \in regions' : Owned(t, r)
    BY <1>3, <1>5, <1>7, <2>2
  <2> QED BY <1>0, <1>1, <2>5, <2>6 DEF OwnInv
<1> QED
  BY <1>6, <1>7

(* Giving back a region gives back nothing of another one, nor of a        *)
(* dma_alloc under way.                                                    *)
LEMMA FreeKeepsOwn ==
  ASSUME Sound(m), OwnInv, NEW q \in regions, regions' = regions \ {q},
         NEW F, Released(m, m', PagesOf(q), F),
         \A f \in F : \E v \in PagesOf(q) : f = m.pt[v],
         UNCHANGED call \/ call' = Idle
  PROVE  OwnInv'
<1>1. ASSUME NEW r \in regions' PROVE PagesOf(r) \subseteq m.bitmap /\ PagesOf(r) \subseteq Pages \ PagesOf(q)
  <2>1. r \in regions /\ r # q
    OBVIOUS
  <2>2. PagesOf(r) \subseteq m.bitmap /\ PagesOf(r) \cap PagesOf(q) = {}
    BY <2>1 DEF OwnInv, Owned
  <2> QED BY <2>2 DEF Sound, Mem
<1>2. ASSUME NEW r \in regions', NEW v \in PagesOf(r) PROVE m'.pt[v] = m.pt[v] /\ v \in m'.bitmap
  <2>1. v \in Pages \ PagesOf(q) /\ v \in m.bitmap
    BY <1>1
  <2> QED BY <2>1 DEF Released
<1>3. ASSUME NEW r \in regions', NEW v \in PagesOf(r) PROVE m.pt[v] \in m'.held
  <2>1. m.pt[v] \in m.held
    BY <1>3 DEF OwnInv, Owned
  <2>2. m.pt[v] \notin F
    <3> SUFFICES ASSUME NEW w \in PagesOf(q), m.pt[v] = m.pt[w] PROVE FALSE
      OBVIOUS
    <3>1. v = w
      BY <1>3 DEF OwnInv
    <3> QED BY <1>1, <3>1
  <2> QED BY <2>1, <2>2 DEF Released
<1>4. ASSUME NEW r \in regions' PROVE Owned(m', r)
  <2>1. Owned(m, r)
    BY DEF OwnInv
  <2> QED BY <1>2, <1>3, <2>1, OwnedStays
<1>5. ASSUME call'.op = "dma"
      PROVE  /\ Run(call'.zone, call'.pages) \subseteq m'.held
             /\ \A r \in regions' : \A v \in PagesOf(r) : m'.pt[v] \notin Run(call'.zone, call'.pages)
  <2>1. UNCHANGED call
    BY <1>5 DEF Idle, Call
  <2> DEFINE Z == Run(call.zone, call.pages)
  <2>2. Z \subseteq m.held /\ \A r \in regions : \A v \in PagesOf(r) : m.pt[v] \notin Z
    BY <1>5, <2>1 DEF OwnInv, Unused
  <2> HIDE DEF Z
  <2>3. F \cap Z = {}
    BY <2>2
  <2>4. Z \subseteq m'.held
    BY <2>2, <2>3 DEF Released
  <2>5. \A r \in regions' : \A v \in PagesOf(r) : m'.pt[v] \notin Z
    BY <1>2, <2>2
  <2> QED BY <2>1, <2>4, <2>5 DEF Z
<1> QED
  BY <1>2, <1>4, <1>5 DEF OwnInv, Unused

(* What MarkedMappingsStable asks of a step.                               *)
MarkedStable ==
  \A v \in m.bitmap : \/ m'.pt[v] = m.pt[v]
                      \/ \E r \in regions \ regions' : v \in PagesOf(r)
                      \/ DmaMisses /\ v < call.pages

(* Every call of GrantedSpec keeps owners apart, unless the heap comes     *)
(* into its middle.                                                        *)
LEMMA OwnStep ==
  ASSUME MemInv, OwnInv, [Next /\ Granted]_vars, ~overtaken'
  PROVE  OwnInv' /\ MarkedStable
<1>0. /\ Sound(m) /\ CallInv /\ \A r \in regions : PagesOf(r) \cap {} = {}
      /\ m.bitmap \subseteq Pages
  BY DEF MemInv, Sound, Mem
<1> DEFINE Goal == OwnInv' /\ MarkedStable
<1>1. ASSUME NEW kind, NEW r, NEW n \in Nat, Return(kind, r, n), Kept(m, r.st, {}), call' = Idle,
             r.ret = NoPage \/ Fresh(r.st, kind, r.ret, n)
      PROVE  Goal
  <2>1. OwnInv'
    BY <1>0, <1>1, ReturnKeepsOwn
  <2>2. MarkedStable
    BY <1>1 DEF Kept, Return, MarkedStable
  <2> QED BY <2>1, <2>2
<1>2. ASSUME UNCHANGED <<m, regions>>, call'.op # "dma" PROVE Goal
  BY <1>2 DEF OwnInv, MarkedStable
<1>3. CASE AllocPageCalled
  <2>1. UNCHANGED <<m, regions, overtaken>> /\ call'.op = "page"
    BY <1>3, PageCalled
  <2> QED BY <1>2, <2>1
<1>4. ASSUME AllocPageReturns PROVE Goal
  <2> DEFINE r == map_found_page(m, call.virt)
             v == call.virt
  <2>1. v = NoPage \/ v \in Pages \ m.bitmap
    <3>1. call.op = "page" /\ call.pages = 1
      BY <1>0, <1>4 DEF AllocPageReturns, CallInv
    <3>2. v = NoPage \/ (v \in Pages /\ Run(v, 1) \subseteq Pages \ m.bitmap)
      BY <1>0, <3>1 DEF CallInv
    <3>3. \A w \in Pages : w \in Run(w, 1)
      BY Numbers DEF Run
    <3> QED BY <3>2, <3>3
  <2>2. GetsAt(m, r, v)
    BY <1>0, <2>1, FoundPageGets
  <2>3. Return("run", r, 1) /\ call' = Idle
    BY <1>4 DEF AllocPageReturns, End
  <2> HIDE DEF r, Goal, v
  <2>4. Kept(m, r.st, {}) /\ (r.ret = NoPage \/ Fresh(r.st, "run", r.ret, 1))
    BY <1>0, <2>2, PageIsFresh
  <2> QED BY <1>1, <2>3, <2>4
<1>5. ASSUME NEW n \in DmaSizes, DmaAllocCalled(n) PROVE Goal
  <2> DEFINE Z == Run(call'.zone, call'.pages)
  <2>1. /\ m'.pt = m.pt /\ m'.bitmap = m.bitmap /\ UNCHANGED regions /\ call'.op = "dma"
        /\ Z \subseteq Blocks \ m.map /\ m'.held = m.held \cup Z
    BY <1>5, DmaCalled
  <2>2. \A r \in regions : \A v \in PagesOf(r) : m.pt[v] \in m.map
    BY <1>0, FreeIsUnused
  <2> HIDE DEF Z
  <2>3. Z \subseteq m'.held /\ \A r \in regions' : \A v \in PagesOf(r) : m'.pt[v] \notin Z
    BY <2>1, <2>2
  <2>4. \A r \in regions' : Owned(m', r)
    <3>1. ASSUME NEW r \in regions PROVE Owned(m', r)
      <4>1. Owned(m, r)
        BY DEF OwnInv
      <4>2. PagesOf(r) \subseteq m'.bitmap
            /\ \A v \in PagesOf(r) : m'.pt[v] = m.pt[v] /\ m.pt[v] \in m'.held
        BY <2>1, <4>1 DEF Owned
      <4> QED BY <1>0, <4>1, <4>2, OwnedStays
    <3> QED BY <2>1, <3>1
  <2>5. \A r, s \in regions' : \A v \in PagesOf(r), w \in PagesOf(s) :
          (v = w => r = s) /\ (m'.pt[v] = m'.pt[w] => v = w)
    BY <2>1 DEF OwnInv
  <2>6. MarkedStable
    BY <2>1 DEF MarkedStable
  <2> QED BY <2>3, <2>4, <2>5, <2>6 DEF OwnInv, Unused, Z
<1>6. ASSUME DmaAllocReturns,
             DmaMisses => \A r \in regions : PagesOf(r) \cap (0 .. (call.pages - 1)) = {}
      PROVE  Goal
  <2> DEFINE n == call.pages
             g == call.zone
  <2>1. /\ n \in Nat \ {0} /\ n \in Nat /\ n <= vmm_max_pages /\ g \in Blocks \ Reserved
        /\ call.virt = NoPage \/ (call.virt \in Pages /\ Run(call.virt, n) \subseteq Pages \ m.bitmap)
        /\ Run(g, n) \subseteq m.held /\ Unused(m, Run(g, n))
    BY <1>0, <1>6 DEF DmaAllocReturns, CallInv, OwnInv
  <2>2. Return("run", Zone, n) /\ call' = Idle
    BY <1>6 DEF DmaAllocReturns, End
  <2>3. DmaMisses <=> Zone.ret = NoPage
    BY <1>6 DEF DmaMisses
  <2>4. DmaMisses => \A r \in regions : PagesOf(r) \cap Run(0, n) = {}
    <3>1. Run(0, n) = 0 .. (call.pages - 1)
      BY <2>1 DEF Run
    <3> QED
      BY <1>6, <3>1
  <2>5. DmaMisses => \A v \in Run(0, n) : DmaMisses /\ v < call.pages
    BY <2>1 DEF Run
  <2> HIDE DEF n, g
  <2>6. Zone = map_zone(m, g, call.virt, n)
    BY DEF Zone, n, g
  <2>7. \/ Zone.ret = NoPage /\ Kept(m, Zone.st, Run(0, n))
        \/ MappedTo(m, Zone.st, Zone.ret, n, g) /\ Kept(m, Zone.st, {})
    BY <1>0, <2>1, <2>6, ZoneIs
  <2>8. CASE MappedTo(m, Zone.st, Zone.ret, n, g) /\ Kept(m, Zone.st, {})
    <3>1. Run(g, n) \subseteq Zone.st.held
      BY <2>1, <2>8 DEF Kept
    <3>2. Fresh(Zone.st, "run", Zone.ret, n)
      BY <2>1, <2>8, <3>1, RunIsFresh
    <3> HIDE DEF Goal
    <3> QED BY <1>1, <2>1, <2>2, <2>8, <3>2
  <2>9. CASE Zone.ret = NoPage /\ Kept(m, Zone.st, Run(0, n))
    <3>1. OwnInv'
      BY <1>0, <2>1, <2>2, <2>3, <2>4, <2>9, ReturnKeepsOwn
    <3>2. m' = Zone.st
      BY <2>2 DEF Return
    <3>3. \A v \in m.bitmap \ Run(0, n) : m'.pt[v] = m.pt[v]
      BY <2>9, <3>2 DEF Kept
    <3>4. MarkedStable
      BY <2>3, <2>5, <2>9, <3>3 DEF MarkedStable
    <3> QED BY <3>1, <3>4
  <2> QED BY <2>7, <2>8, <2>9
<1>7. ASSUME NEW r \in regions, DmaFreeCalled(r) PROVE Goal
  <2>1. UNCHANGED <<m, regions, overtaken>> /\ call'.op = "free"
    BY <1>7, FreeCalled
  <2> QED BY <1>2, <2>1
<1>8. ASSUME NEW q \in regions, regions' = regions \ {q}, UNCHANGED call \/ call' = Idle,
             NEW F, Released(m, m', PagesOf(q), F),
             \A f \in F : \E v \in PagesOf(q) : f = m.pt[v]
      PROVE  Goal
  <2>1. OwnInv'
    BY <1>0, <1>8, FreeKeepsOwn
  <2>2. ASSUME NEW v \in m.bitmap PROVE m'.pt[v] = m.pt[v] \/ v \in PagesOf(q)
    BY <1>0, <1>8 DEF Released
  <2>3. q \in regions \ regions'
    BY <1>8
  <2> QED BY <2>1, <2>2, <2>3 DEF MarkedStable
<1>9. ASSUME dma_free PROVE Goal
  <2> DEFINE r == Region("run", call.virt, call.pages)
             F == Run(m.pt[r.first], r.pages)
  <2>1. r \in regions /\ r.first = call.virt /\ r.pages = call.pages /\ r.kind = "run"
    BY <1>0, <1>9 DEF dma_free, CallInv, Region
  <2>2. m' = vmm_free_contiguous(m, r.first, r.pages) /\ regions' = regions \ {r} /\ call' = Idle
    BY <1>9, <2>1 DEF dma_free, End
  <2> HIDE DEF r
  <2>3. /\ r.first \in Nat /\ r.pages \in Nat /\ Run(r.first, r.pages) \subseteq Pages
        /\ r.pages > 0 => m.pt[r.first] \notin Reserved
        /\ r.first \in Pages /\ PagesOf(r) = Run(r.first, r.pages)
    BY <2>1, Numbers DEF MemInv, PagesOf, Run
  <2>4. Released(m, m', PagesOf(r), F)
    BY <1>0, <2>2, <2>3, FreeContiguousIs
  <2>5. ASSUME NEW f \in F PROVE \E v \in PagesOf(r) : f = m.pt[v]
    <3> DEFINE g == m.pt[r.first]
               v == r.first + (f - g)
    <3>1. g \in Int
      BY <1>0, <2>3, Numbers DEF Sound, Mem
    <3> HIDE DEF g
    <3>2. f \in Run(g, r.pages)
      BY DEF g
    <3>3. v \in Run(r.first, r.pages) /\ g + (v - r.first) = f
      BY <2>3, <3>1, <3>2 DEF Run
    <3>4. m.pt[v] = g + (v - r.first)
      BY <2>1, <2>3, <3>3 DEF OwnInv, Owned, g
    <3> HIDE DEF v
    <3> QED BY <2>3, <3>3, <3>4
  <2> HIDE DEF F, Goal
  <2> QED BY <1>8, <2>1, <2>2, <2>4, <2>5
<1>10. ASSUME NEW n \in ChunkSizes, ScreenChunk(n) PROVE Goal
  <2> DEFINE map == vmm_map_mmio(pmm_alloc_blocks(m, n).st, pmm_alloc_blocks(m, n).ret, n)
  <2>1. n \in Nat
    BY Sizes
  <2>2. /\ Return("screen", map, n) /\ call' = Idle
        /\ Kept(m, map.st, {}) /\ FreshRun(m, map.st, map.ret, n)
    BY <1>0, <1>10, <2>1, ChunkIs
  <2> HIDE DEF map, Goal
  <2>3. PICK g \in Blocks \ Reserved : MappedTo(m, map.st, map.ret, n, g)
              /\ Run(g, n) \subseteq Blocks \ m.map /\ Run(g, n) \subseteq map.st.held
    BY <2>2 DEF FreshRun, MappedTo
  <2>4. Unused(m, Run(g, n))
    BY <1>0, <2>3, FreeIsUnused DEF Unused
  <2>5. Fresh(map.st, "screen", map.ret, n)
    BY <2>1, <2>3, <2>4, RunIsFresh
  <2> QED BY <1>1, <2>1, <2>2, <2>5
<1>11. ASSUME NEW n \in HeapSizes, HeapAlloc(n), Gapless(n) PROVE Goal
  <2> DEFINE r == liballoc_alloc(m, n)
  <2>1. n \in Nat /\ Return("heap", r, n) /\ call' = Idle
    BY <1>11, Sizes DEF HeapAlloc
  <2>2. HeapResult(m, r, n) /\ Adjacent(m, n)
    BY <1>0, <1>11, <2>1, HeapAllocIs, GaplessIsAdjacent
  <2>3. \A s \in regions : \A v \in PagesOf(s) : m.pt[v] \in m.map
    BY <1>0, FreeIsUnused
  <2> HIDE DEF r, Goal
  <2>4. Kept(m, r.st, {}) /\ (r.ret = NoPage \/ FreshHeap(m, r.st, r.ret, n))
    BY <2>2 DEF HeapResult
  <2>5. r.ret = NoPage \/ Fresh(r.st, "heap", r.ret, n)
    BY <2>3, <2>4 DEF FreshHeap, Fresh
  <2> QED BY <1>1, <2>1, <2>4, <2>5
<1>12. ASSUME NEW r \in regions, HeapFree(r) PROVE Goal
  <2> DEFINE F == { m.pt[w] : w \in Run(r.first, r.pages) \cap Pages }
  <2>1. r.first \in Int /\ r.pages \in Nat
    <3>1. r.first \in Pages /\ r.pages \in Nat
      BY DEF MemInv
    <3>2. Pages \subseteq Int
      BY Numbers
    <3> QED BY <3>1, <3>2
  <2>2. /\ m' = FreePages(m, r.first, r.pages) /\ regions' = regions \ {r} /\ UNCHANGED call
        /\ PagesOf(r) = Run(r.first, r.pages)
    BY <1>12 DEF HeapFree, liballoc_free, PagesOf, Run
  <2>3. Released(m, m', PagesOf(r), F)
    BY <1>0, <2>1, <2>2, FreePagesIs
  <2>4. \A f \in F : \E v \in PagesOf(r) : f = m.pt[v]
    BY <2>2
  <2> HIDE DEF F, Goal
  <2> QED BY <1>8, <2>2, <2>3, <2>4
<1>13. CASE UNCHANGED vars
  BY <1>13 DEF vars, OwnInv, Unused, MarkedStable
<1>14. CASE Next /\ Granted
  <2>1. \A n \in HeapSizes : HeapAlloc(n) => Gapless(n)
    BY <1>14 DEF Granted
  <2>2. DmaMisses => \A r \in regions : PagesOf(r) \cap (0 .. (call.pages - 1)) = {}
    BY <1>14 DEF Granted
  <2> HIDE DEF Goal
  <2>3. Goal
    <3>1. CASE \E n \in HeapSizes : HeapAlloc(n)
      BY <1>11, <2>1, <3>1
    <3>2. CASE \E n \in DmaSizes : DmaAllocCalled(n)
      BY <1>5, <3>2
    <3>3. CASE DmaAllocReturns
      BY <1>6, <2>2, <3>3
    <3>4. CASE \E r \in regions : DmaFreeCalled(r) \/ HeapFree(r)
      BY <1>7, <1>12, <3>4
    <3>5. CASE \E n \in ChunkSizes : ScreenChunk(n)
      BY <1>10, <3>5
    <3>6. CASE AllocPageCalled
      BY <1>3, <3>6 DEF Goal
    <3> QED BY <1>4, <1>9, <1>14, <3>1, <3>2, <3>3, <3>4, <3>5, <3>6 DEF Next
  <2> QED BY <2>3 DEF Goal
<1> QED
  BY <1>13, <1>14

(* A region has as many frames as pages.                                   *)
LEMMA FrameCount ==
  ASSUME Sound(m), OwnInv, NEW r \in regions
  PROVE  Cardinality(FramesOf(r)) = r.pages
<1> DEFINE S == PagesOf(r)
           T == FramesOf(r)
           f == [v \in S |-> m.pt[v]]
<1>1. r.first \in Nat /\ r.pages \in Nat
  BY Numbers DEF OwnInv, Owned
<1>2. IsFiniteSet(S) /\ Cardinality(S) = r.pages
  BY <1>1, RunCardinality DEF PagesOf, Run
<1>3. f \in Bijection(S, T)
  <2>1. f \in [S -> T] /\ \A y \in T : \E v \in S : f[v] = y
    BY DEF FramesOf
  <2>2. \A v, w \in S : f[v] = f[w] => v = w
    BY DEF OwnInv
  <2> HIDE DEF S, T, f
  <2> QED BY <2>1, <2>2 DEF Bijection, Injection, Surjection, IsInjective
<1>4. ExistsBijection(S, T)
  BY <1>3 DEF ExistsBijection
<1> HIDE DEF S, T
<1>5. Cardinality(T) = Cardinality(S)
  BY <1>2, <1>4, FS_Bijection
<1> QED
  BY <1>2, <1>5 DEF T

(* What owners are promised follows.                                       *)
LEMMA OwnImplies == ASSUME Sound(m), OwnInv PROVE RegionsDisjoint /\ RegionsBacked
<1>1. RegionsDisjoint
  BY DEF OwnInv, RegionsDisjoint
<1>2. ASSUME NEW r \in regions
      PROVE  /\ PagesOf(r) \subseteq m.bitmap /\ FramesOf(r) \subseteq m.held
             /\ Cardinality(FramesOf(r)) = r.pages
  BY <1>2, FrameCount DEF OwnInv, Owned, FramesOf
<1>3. ASSUME NEW r \in regions, NEW s \in regions, r # s
      PROVE  FramesOf(r) \cap FramesOf(s) = {}
  <2> SUFFICES ASSUME NEW v \in PagesOf(r), NEW w \in PagesOf(s), m.pt[v] = m.pt[w]
               PROVE  FALSE
    BY DEF FramesOf
  <2> QED BY <1>3 DEF OwnInv
<1>4. ASSUME NEW r \in regions, r.kind # "heap", NEW v \in PagesOf(r)
      PROVE  m.pt[v] = m.pt[r.first] + (v - r.first)
  BY <1>4 DEF OwnInv, Owned
<1> QED
  BY <1>1, <1>2, <1>3, <1>4 DEF RegionsBacked

(* Memory and owners together, over the behaviours in which free pages are *)
(* adjacent when the heap asks for several and a failing dma_alloc maps    *)
(* over nobody's pages, until the heap comes into the middle of a call     *)
(* without a lock.                                                         *)
OwnSoFar == overtaken \in BOOLEAN /\ (~overtaken => MemInv /\ OwnInv)

LEMMA OwnersKept == GrantedSpec => []OwnSoFar
<1>1. Init => OwnSoFar
  <2> SUFFICES ASSUME Init PROVE OwnSoFar
    OBVIOUS
  <2>1. MemInv
    BY MemInit
  <2>2. regions = {} /\ call = Idle /\ overtaken = FALSE
    BY DEF Init
  <2>3. OwnInv
    BY <2>2 DEF OwnInv, Idle, Call
  <2> QED
    BY <2>1, <2>2, <2>3 DEF OwnSoFar
<1>2. OwnSoFar /\ [Next /\ Granted]_vars => OwnSoFar'
  BY MemStep, OwnStep, StaysOvertaken, OvertakenType DEF OwnSoFar
<1> QED
  BY <1>1, <1>2, PTL DEF GrantedSpec

(* No two allocations share a virtual page, whichever search of the bitmap *)
(* found them, whatever the heap has freed between search and marks, and   *)
(* however many allocations failed half way, as long as the heap takes no  *)
(* pages in the middle of a call without a lock.                           *)
THEOREM RegionsStayDisjoint == GrantedSpec => []RegionsDisjoint
<1>1. OwnSoFar => RegionsDisjoint
  BY OwnImplies DEF MemInv, OwnSoFar, RegionsDisjoint
<1> QED
  BY <1>1, OwnersKept, PTL

(* The pages of every allocation stay marked and mapped, to frames that    *)
(* the PMM holds and no other allocation is mapped to; those of a run in   *)
(* sequence, which vmm_free_contiguous relies on.  The same condition.     *)
THEOREM RegionsStayBacked == GrantedSpec => []RegionsBacked
<1>1. OwnSoFar => RegionsBacked
  BY OwnImplies DEF MemInv, OwnSoFar, RegionsBacked
<1> QED
  BY <1>1, OwnersKept, PTL

(* A page that the bitmap marks is mapped to another frame by the call     *)
(* that gives it back, by a dma_alloc without virtual pages, and by no     *)
(* other, whatever the bitmap held after boot: what is mapped and not      *)
(* marked, as the framebuffer is, has no part in it.  The same condition.  *)
THEOREM MappingsStayStable == GrantedSpec => MarkedMappingsStable
<1>1. OwnSoFar /\ [Next /\ Granted]_vars =>
        [~overtaken' =>
           \A v \in m.bitmap :
             \/ m'.pt[v] = m.pt[v]
             \/ \E r \in regions \ regions' : v \in PagesOf(r)
             \/ DmaMisses /\ v < call.pages]_vars
  BY OwnStep, StaysOvertaken DEF OwnSoFar, MarkedStable
<1> QED
  BY <1>1, OwnersKept, PTL DEF GrantedSpec, MarkedMappingsStable

=============================================================================
