-------------------------------- MODULE PMM --------------------------------
(***************************************************************************)
(* The physical memory manager, src/src/mm/pmm.c: a bitmap with one bit    *)
(* per 4 KiB block, a counter of the used blocks that the code maintains   *)
(* beside the bitmap, and the next-fit pointer of pmm_alloc_blocks.        *)
(*                                                                         *)
(* A block number stands for the block's address, so block 0 is the null   *)
(* pointer, exactly as block * PMM_BLOCK_SIZE is in the code.  The bitmap  *)
(* is the set of the blocks whose bit is 1.  `held` is not a variable of   *)
(* the program: it is the set of the blocks that the callers of the PMM    *)
(* (vmm.c, paging.c, vesa.c) were given and have not given back.           *)
(* A call is one step: an interrupt that breaks into it and calls the PMM   *)
(* itself is not modelled.                                                 *)
(***************************************************************************)
EXTENDS Integers, FiniteSets

CONSTANTS
  pmm_max_blocks,       \* blocks of memory, rounded up from the byte count
  PMM_BLOCKS_PER_BYTE,  \* bits per byte of the bitmap (8 in pmm.h)
  LowBlocks,            \* blocks below 1 MiB
  KernelBlocks,         \* blocks of the kernel image, which starts at 1 MiB
  BitmapBase,           \* first block of the bitmap handed to pmm_init
  Requests,             \* block counts that callers ask for
  DmaStart, DmaEnd      \* block range that dma_alloc searches

ASSUME PMMAssumption ==
  /\ pmm_max_blocks \in Nat \ {0}
  /\ PMM_BLOCKS_PER_BYTE \in Nat \ {0}
  /\ LowBlocks \in Nat \ {0}
  /\ KernelBlocks \in Nat
  /\ BitmapBase \in Nat
  /\ Requests \subseteq Nat
  /\ DmaStart \in Nat
  /\ DmaEnd \in Nat

VARIABLES
  pmm_memory_map,       \* blocks whose bit is set
  pmm_used_blocks,      \* the counter kept beside the bitmap
  pmm_last_alloc,       \* where pmm_alloc_blocks starts to search
  held                  \* ghost: blocks the callers hold

pmmState == <<pmm_memory_map, pmm_used_blocks, pmm_last_alloc>>
vars == <<pmm_memory_map, pmm_used_blocks, pmm_last_alloc, held>>

NULL == 0
Blocks == 0 .. (pmm_max_blocks - 1)

(* The n blocks from s on. *)
Run(s, n) == s .. (s + n - 1)

(* A region that a mark function walks stops at the end of memory. *)
Region(base, n) == Run(base, n) \cap Blocks

-----------------------------------------------------------------------------
(* Initialisation *)

PMM_BLOCK_SIZE == 4096

(* The bitmap's length in blocks: pmm_init counts its bytes as             *)
(* pmm_max_blocks / 8 rounded down.                                        *)
BitmapBlocks ==
  ((pmm_max_blocks \div PMM_BLOCKS_PER_BYTE) + PMM_BLOCK_SIZE - 1)
     \div PMM_BLOCK_SIZE

Reserved == Region(0, LowBlocks)
              \cup Region(LowBlocks, KernelBlocks)
              \cup Region(BitmapBase, BitmapBlocks)

pmm_init == /\ pmm_memory_map = Reserved
            /\ pmm_used_blocks = Cardinality(Reserved)
            /\ pmm_last_alloc = 0

Init == pmm_init /\ held = {}

-----------------------------------------------------------------------------
(* Searches.  Each one is the set of the positions at which the code's     *)
(* loop could stop; the loop stops at the least of them.                   *)

IsLeast(x, S) == x \in S /\ \A y \in S : x <= y

(* Mutant: the end of memory is not looked at. *)
FreePastTheEnd(map, b) == b \notin map

pmm_is_block_free(map, b) == b < pmm_max_blocks /\ b \notin map

RunIsFree(map, s, n) == \A b \in Run(s, n) : pmm_is_block_free(map, b)

(* Only whole bytes of the bitmap are scanned for a single block. *)
FreeInWholeBytes(map) ==
  { b \in Blocks : /\ b \div PMM_BLOCKS_PER_BYTE
                        < pmm_max_blocks \div PMM_BLOCKS_PER_BYTE
                   /\ b \notin map }

(* Mutant: only the first block of the run is looked at. *)
FirstBlockFree(map, n) ==
  { s \in Blocks : pmm_is_block_free(map, s) /\ s + n <= pmm_max_blocks }

find_contiguous_free_blocks(map, n) ==
  { s \in Blocks : pmm_is_block_free(map, s) /\ RunIsFree(map, s, n) }

(* pmm_alloc_blocks scans the blocks from `last` to the end of memory and  *)
(* then, in its second pass, all of them from 0.  Position k of that scan: *)
Scanned(last, k) == IF k < pmm_max_blocks - last
                      THEN last + k
                      ELSE k - (pmm_max_blocks - last)
ScanLength(last) == (pmm_max_blocks - last) + pmm_max_blocks

(* Mutant: no second pass from the start of memory. *)
OnePassStops(map, last, n) ==
  { k \in (n - 1) .. (pmm_max_blocks - last - 1) :
      \A j \in (k - n + 1) .. k : Scanned(last, j) \notin map }

(* `consecutive` is not reset between the passes: it counts the free       *)
(* blocks at the positions just scanned, wherever they lie in memory.      *)
(* It reaches n at the positions that close n free ones.                   *)
ScanStops(map, last, n) ==
  { k \in (n - 1) .. (ScanLength(last) - 1) :
      \A j \in (k - n + 1) .. k : Scanned(last, j) \notin map }

RangeStarts(map, n, first, end) ==
  { s \in first .. (end - 1) : s + n <= end /\ RunIsFree(map, s, n) }

-----------------------------------------------------------------------------
(* Operations *)

(* The call hands the n blocks from s on to its caller: it returns the     *)
(* address of s, which the caller takes for a failure if it is NULL.       *)
GiveOut(s, n) == /\ pmm_memory_map' = pmm_memory_map \cup Run(s, n)
                 /\ pmm_used_blocks' = pmm_used_blocks + n
                 /\ held' = IF s = NULL THEN held ELSE held \cup Run(s, n)

(* The call returns NULL. *)
Refuse == UNCHANGED vars

pmm_alloc_block ==
  \/ /\ pmm_used_blocks < pmm_max_blocks
     /\ \E b \in Blocks : /\ IsLeast(b, FreeInWholeBytes(pmm_memory_map))
                          /\ GiveOut(b, 1)
     /\ UNCHANGED pmm_last_alloc
  \/ /\ \/ pmm_used_blocks >= pmm_max_blocks
        \/ FreeInWholeBytes(pmm_memory_map) = {}
     /\ Refuse

pmm_alloc_contiguous(n) ==
  LET starts == find_contiguous_free_blocks(pmm_memory_map, n)
      valid  == n # 0 /\ n <= pmm_max_blocks
  IN \/ /\ valid
        /\ \E s \in Blocks : IsLeast(s, starts) /\ GiveOut(s, n)
        /\ UNCHANGED pmm_last_alloc
     \/ (~valid \/ starts = {}) /\ Refuse

validate_allocation_request(n) == /\ n # 0
                                  /\ n <= pmm_max_blocks
                                  /\ pmm_used_blocks + n <= pmm_max_blocks

pmm_alloc_blocks(n) ==
  LET stops == ScanStops(pmm_memory_map, pmm_last_alloc, n)
  IN \/ /\ validate_allocation_request(n)
        /\ \E k \in stops :
             /\ IsLeast(k, stops)
             /\ LET start_block == Scanned(pmm_last_alloc, k - n + 1)
                IN /\ GiveOut(start_block, n)
                   /\ pmm_last_alloc' = (start_block + n) % pmm_max_blocks
     \/ (~validate_allocation_request(n) \/ stops = {}) /\ Refuse

pmm_alloc_blocks_in_range(n, first, end) ==
  LET starts == RangeStarts(pmm_memory_map, n, first, end)
      valid  == n # 0 /\ first < end
  IN \/ /\ valid
        /\ \E s \in starts : IsLeast(s, starts) /\ GiveOut(s, n)
        /\ UNCHANGED pmm_last_alloc
     \/ (~valid \/ starts = {}) /\ Refuse

(* The statement after `if (p == NULL)` is the log call alone: the return  *)
(* below it is unconditional and the rest of the function is unreachable.  *)
(* The caller, which trusts the call, no longer holds the block.           *)
pmm_free_block(b) == /\ b \in held
                     /\ held' = held \ {b}
                     /\ UNCHANGED pmmState

(* A loop of pmm_free_block; refused requests never reach the loop. *)
pmm_free_blocks(b, n) ==
  /\ Run(b, n) \subseteq held
  /\ held' = IF b # NULL /\ n > 0 /\ b + n <= pmm_max_blocks
               THEN held \ Run(b, n) ELSE held
  /\ UNCHANGED pmmState

(* Mutant: blocks that are free already are not noticed. *)
FreeUnchecked(b, n) ==
  /\ Run(b, n) \subseteq held \/ \E c \in Run(b, n) : pmm_is_block_free(pmm_memory_map, c)
  /\ IF b = NULL \/ n = 0 \/ b + n > pmm_max_blocks
       THEN UNCHANGED <<pmm_memory_map, pmm_used_blocks, held>>
       ELSE /\ pmm_memory_map' = pmm_memory_map \ Run(b, n)
            /\ pmm_used_blocks' = pmm_used_blocks - n
            /\ held' = held \ Run(b, n)
  /\ UNCHANGED pmm_last_alloc

(* Refused unless every block is used; callers pass a run they hold, or,   *)
(* by mistake, one of which some block is free already (a double free).    *)
pmm_free_contiguous(b, n) ==
  /\ Run(b, n) \subseteq held \/ \E c \in Run(b, n) : pmm_is_block_free(pmm_memory_map, c)
  /\ IF \/ b = NULL \/ n = 0 \/ b + n > pmm_max_blocks
        \/ \E c \in Run(b, n) : pmm_is_block_free(pmm_memory_map, c)
       THEN UNCHANGED <<pmm_memory_map, pmm_used_blocks, held>>
       ELSE /\ pmm_memory_map' = pmm_memory_map \ Run(b, n)
            /\ pmm_used_blocks' = pmm_used_blocks - n
            /\ held' = held \ Run(b, n)
  /\ UNCHANGED pmm_last_alloc

(* Mutant: one block too many is cleared. *)
UnmarkOneMore(b, n) ==
  /\ Run(b, n) \subseteq held
  /\ pmm_memory_map' = pmm_memory_map \ Region(b, n + 1)
  /\ pmm_used_blocks' =
       pmm_used_blocks - Cardinality(Region(b, n + 1) \cap pmm_memory_map)
  /\ held' = held \ Run(b, n)
  /\ UNCHANGED pmm_last_alloc

(* Unconditional, and it counts only the bits that change; callers         *)
(* (vmm_free_contiguous) pass blocks they hold.                            *)
pmm_mark_unused_region(b, n) ==
  /\ Run(b, n) \subseteq held
  /\ pmm_memory_map' = pmm_memory_map \ Region(b, n)
  /\ pmm_used_blocks' =
       pmm_used_blocks - Cardinality(Region(b, n) \cap pmm_memory_map)
  /\ held' = held \ Run(b, n)
  /\ UNCHANGED pmm_last_alloc

Next == \/ pmm_alloc_block
        \/ \E n \in Requests :
             \/ pmm_alloc_blocks(n)
             \/ pmm_alloc_contiguous(n)
             \/ pmm_alloc_blocks_in_range(n, DmaStart, DmaEnd)
        \/ \E b \in Blocks : pmm_free_block(b)
        \/ \E b \in Blocks, n \in Requests :
             \/ pmm_free_blocks(b, n)
             \/ pmm_free_contiguous(b, n)
             \/ pmm_mark_unused_region(b, n)

Spec == Init /\ [][Next]_vars

-----------------------------------------------------------------------------
(* Properties *)

(* Every bit set in the bitmap belongs to memory that exists (a run that   *)
(* pmm_alloc_blocks pieces together across its two passes would reach past *)
(* the end of the bitmap), and the next-fit pointer stays inside memory.   *)
TypeOK == /\ pmm_memory_map \subseteq Blocks
          /\ pmm_used_blocks \in 0 .. pmm_max_blocks
          /\ pmm_last_alloc \in Blocks
          /\ held \subseteq Blocks

(* The counter that guards pmm_alloc_block and pmm_alloc_blocks against    *)
(* exhaustion agrees with the bitmap after any sequence of calls: four     *)
(* allocators and three ways to free maintain the two separately.          *)
CounterAgrees == pmm_used_blocks = Cardinality(pmm_memory_map)

(* Firmware memory, the kernel image and the bitmap are never free and     *)
(* never handed out, and what a caller holds is marked used.               *)
ReservedNeverGiven == /\ Reserved \subseteq pmm_memory_map
                      /\ held \subseteq pmm_memory_map
                      /\ held \cap Reserved = {}

(* The inductive invariant: no part is inductive alone.  That a run lies   *)
(* inside memory needs block 0 to be reserved, that the counter stays in   *)
(* range needs it to agree with the bitmap, and that a free is matched by  *)
(* set bits needs what callers hold to be marked used.                     *)
Inv == TypeOK /\ CounterAgrees /\ ReservedNeverGiven

(* No step hands out a block that some caller holds, or that is in use for *)
(* another reason.                                                         *)
NoDoubleGrant == [][held' \cap pmm_memory_map \subseteq held]_vars

(* A call that returns NULL has not taken blocks: block 0, whose address   *)
(* is NULL, is never given out, so that success is never mistaken for      *)
(* failure and no run is lost that way.                                    *)
NullTakesNothing == [][pmm_memory_map' \ pmm_memory_map \subseteq held']_vars

(* pmm_alloc_blocks gives up only when memory holds no run of n free       *)
(* blocks: neither the counter test in front of the search nor the place   *)
(* where its two passes start makes it miss one.                           *)
GivesUpOnlyWhenFragmented ==
  \A n \in Requests \ {0} :
    (\E s \in Blocks : RunIsFree(pmm_memory_map, s, n))
      => /\ validate_allocation_request(n)
         /\ ScanStops(pmm_memory_map, pmm_last_alloc, n) # {}

(* The PMM is a frame allocator: each of its calls grants a contiguous run *)
(* of free frames, takes frames back, or loses them.                       *)
FA == INSTANCE FrameAllocator WITH Frames <- Blocks,
                                   free <- Blocks \ pmm_memory_map,
                                   owned <- held
IsFrameAllocator == FA!FASpec

=============================================================================
