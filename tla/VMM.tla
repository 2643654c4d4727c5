-------------------------------- MODULE VMM --------------------------------
(***************************************************************************)
(* Virtual memory on top of the PMM: src/src/mm/vmm.c, paging.c and the    *)
(* page hooks of the heap, liballoc_hook.c.  A call of this layer makes    *)
(* several calls of the PMM and of the page tables, any of which may fail  *)
(* half way; each operation is therefore a function from the state of      *)
(* memory to the state it leaves and the value it returns, and an action   *)
(* applies one of them.                                                    *)
(*                                                                         *)
(* Only the heap calls this layer with interrupts off, under its own lock. *)
(* The other callers, fat32_init_volume while the shell runs and the       *)
(* drivers at boot, hold no lock: a handler that allocates memory can come *)
(* into their calls.  Those are two steps here, up to the search of the    *)
(* bitmap of pages and from there on, and the heap may call in between.    *)
(* A call of the program can also be broken into at other places, within   *)
(* the PMM or within paging_map_page; `overtaken` is set by any allocation *)
(* of the heap in the middle of a call, and nothing is claimed after it.   *)
(*                                                                         *)
(* A virtual page is its index from KERNEL_VMEM_START on.  Frames are the  *)
(* PMM's blocks.  Entry i of the first page table serves kernel page i and *)
(* low address i, since paging_init installs the table twice.  Reaching a  *)
(* page table through the window at 0xC0000000 is taken to work.  Once a   *)
(* page that the kernel itself runs from has been mapped elsewhere nothing *)
(* is known of the machine, and the model stops.                           *)
(***************************************************************************)
EXTENDS Integers, FiniteSets

CONSTANTS
  pmm_max_blocks, PMM_BLOCKS_PER_BYTE, LowBlocks, KernelBlocks,
  BitmapBase, Requests, DmaStart, DmaEnd,      \* as in PMM
  vmm_max_pages,      \* virtual pages that the bitmap describes
  TablePages,         \* pages that one page table maps (1024)
  HeapSizes,          \* page counts that liballoc asks for
  DmaSizes,           \* page counts of dma_alloc
  ChunkSizes,         \* page counts of the back buffer's chunks
  FbFirst, FbPages,   \* the framebuffer's first page, its number of pages
  BitmapPage,         \* the page at which vmm_map_mmio put the bitmap
  BootBitmaps         \* contents that the bitmap may have after vmm_init

(* The sizes are numbers of pages.  The kernel image lies in memory, and   *)
(* the PMM's bitmap is a static array of it.  No DMA buffer is larger than *)
(* what one page table maps.  The framebuffer's pages are among those that *)
(* the bitmap describes, as they are with more than 48 MB of memory.       *)
ASSUME VMMAssumption ==
  /\ pmm_max_blocks \in Nat \ {0} /\ PMM_BLOCKS_PER_BYTE \in Nat \ {0}
  /\ LowBlocks \in Nat \ {0} /\ KernelBlocks \in Nat
  /\ LowBlocks + KernelBlocks <= pmm_max_blocks
  /\ BitmapBase \in LowBlocks .. (LowBlocks + KernelBlocks)
  /\ DmaStart \in Nat /\ DmaEnd \in Nat
  /\ vmm_max_pages \in Nat \ {0} /\ TablePages \in 1 .. vmm_max_pages
  /\ HeapSizes \subseteq Nat /\ DmaSizes \subseteq 0 .. TablePages /\ ChunkSizes \subseteq Nat
  /\ FbFirst \in Nat /\ FbPages \in Nat /\ FbFirst + FbPages <= vmm_max_pages
  /\ BitmapPage \in 0 .. (vmm_max_pages - 1)
  /\ BootBitmaps \subseteq SUBSET (0 .. (vmm_max_pages - 1))

VARIABLES
  m,                  \* memory: PMM state, virtual bitmap, page tables
  call,               \* the call without a lock that is under way
  regions,            \* ghost: allocations their callers hold
  overtaken           \* ghost: the heap took pages in the middle of a call

vars == <<m, call, regions, overtaken>>

P == INSTANCE PMM WITH pmm_memory_map  <- m.map,
                       pmm_used_blocks <- m.used,
                       pmm_last_alloc  <- m.last,
                       held            <- m.held

NULL == 0                        \* the null frame
NoPage == -1                     \* the null virtual address
Pages == 0 .. (vmm_max_pages - 1)
Table(v) == v \div TablePages
Tables == { Table(v) : v \in Pages }
Unmapped == -1
Device == pmm_max_blocks         \* the framebuffer's first frame, no memory

Least(S) == CHOOSE x \in S : \A y \in S : x <= y

-----------------------------------------------------------------------------
(* The PMM calls this layer makes, as functions *)

Take(st, s, n) == [st EXCEPT !.map = @ \cup P!Run(s, n),
                             !.used = @ + n,
                             !.held = @ \cup P!Run(s, n)]

pmm_alloc_block(st) ==
  LET free == P!FreeInWholeBytes(st.map)
  IN IF st.used >= pmm_max_blocks \/ free = {}
       THEN [st |-> st, ret |-> NULL]
       ELSE [st |-> Take(st, Least(free), 1), ret |-> Least(free)]

pmm_alloc_contiguous(st, n) ==
  LET starts == P!find_contiguous_free_blocks(st.map, n)
  IN IF n = 0 \/ n > pmm_max_blocks \/ starts = {}
       THEN [st |-> st, ret |-> NULL]
       ELSE [st |-> Take(st, Least(starts), n), ret |-> Least(starts)]

pmm_alloc_blocks_in_range(st, n) ==
  LET starts == P!RangeStarts(st.map, n, DmaStart, DmaEnd)
  IN IF n = 0 \/ DmaStart >= DmaEnd \/ starts = {}
       THEN [st |-> st, ret |-> NULL]
       ELSE [st |-> Take(st, Least(starts), n), ret |-> Least(starts)]

(* Mutant: the bit is cleared and the counter forgotten. *)
FreeUncounted(st, f) == [st EXCEPT !.map = @ \ {f}, !.held = @ \ {f}]

(* The next-fit search of vesa_init's chunks. *)
pmm_alloc_blocks(st, n) ==
  LET stops == P!ScanStops(st.map, st.last, n)
      start == P!Scanned(st.last, Least(stops) - n + 1)
  IN IF n = 0 \/ n > pmm_max_blocks \/ st.used + n > pmm_max_blocks \/ stops = {}
       THEN [st |-> st, ret |-> NULL]
       ELSE [st |-> [Take(st, start, n) EXCEPT !.last = (start + n) % pmm_max_blocks],
             ret |-> start]

(* Frees nothing; the frame is no longer held by anyone. *)
pmm_free_block(st, f) == [st EXCEPT !.held = @ \ {f}]

pmm_mark_unused_region(st, f, n) ==
  LET gone == P!Region(f, n)
  IN [st EXCEPT !.map = @ \ gone,
                !.used = @ - Cardinality(gone \cap st.map),
                !.held = @ \ gone]

-----------------------------------------------------------------------------
(* Page tables *)

paging_map_page(st, f, v) ==
  LET table == IF st.pd[Table(v)] THEN [st |-> st, ret |-> Table(v) + 1]
                                  ELSE pmm_alloc_block(st)
  IN IF table.ret = NULL
       THEN [st |-> st, ok |-> FALSE]
       ELSE [st |-> [table.st EXCEPT !.pd[Table(v)] = TRUE, !.pt[v] = f], ok |-> TRUE]

paging_unmap_page(st, v) ==
  IF st.pd[Table(v)] THEN [st EXCEPT !.pt[v] = Unmapped] ELSE st

virt_to_phys(st, v) == IF st.pd[Table(v)] THEN st.pt[v] ELSE Unmapped

(* Map f, f+1, ... at v, v+1, ... until n are mapped or a table is missing. *)
(* `done` counts the pages that were mapped.                               *)
MapRun(st, f, v, n) ==
  LET step[i \in 0 .. n] ==
        IF i = 0 THEN [st |-> st, done |-> 0, ok |-> TRUE]
        ELSE LET prev == step[i - 1]
                 r    == paging_map_page(prev.st, f + i - 1, v + i - 1)
             IN IF ~prev.ok THEN prev
                ELSE IF r.ok THEN [st |-> r.st, done |-> i, ok |-> TRUE]
                ELSE [prev EXCEPT !.ok = FALSE]
  IN step[n]

-----------------------------------------------------------------------------
(* vmm.c *)

is_page_free(st, v) == v \notin st.bitmap

(* Mutant: the last page of a run is not looked at. *)
RunsButOne(st, n) ==
  { s \in Pages : /\ is_page_free(st, s)
                  /\ \A v \in s .. (s + n - 2) : v + 1 < vmm_max_pages /\ is_page_free(st, v) }

FreePageRuns(st, n) ==
  { s \in Pages : /\ is_page_free(st, s)
                  /\ \A v \in s .. (s + n - 1) : v < vmm_max_pages /\ is_page_free(st, v) }

mark_pages(st, v, n, used) ==
  [st EXCEPT !.bitmap = IF used THEN @ \cup (v .. (v + n - 1))
                                ELSE @ \ (v .. (v + n - 1))]

find_contiguous_free_pages(st, n) ==
  LET starts == FreePageRuns(st, n) IN IF starts = {} THEN NoPage ELSE Least(starts)

find_free_page(st) == find_contiguous_free_pages(st, 1)

(* Mutant: the page is not marked as used. *)
MapUnmarked(st, v) ==
  LET blk == pmm_alloc_block(st)
      map == paging_map_page(blk.st, blk.ret, v)
  IN IF v = NoPage \/ blk.ret = NULL THEN [st |-> st, ret |-> NoPage]
     ELSE IF ~map.ok THEN [st |-> pmm_free_block(blk.st, blk.ret), ret |-> NoPage]
     ELSE [st |-> map.st, ret |-> v]

(* vmm_alloc_page, once its search has found v. *)
map_found_page(st, v) ==
  LET blk == pmm_alloc_block(mark_pages(st, v, 1, TRUE))
      map == paging_map_page(blk.st, blk.ret, v)
  IN IF v = NoPage
       THEN [st |-> st, ret |-> NoPage]
     ELSE IF blk.ret = NULL
       THEN [st |-> mark_pages(blk.st, v, 1, FALSE), ret |-> NoPage]
     ELSE IF ~map.ok
       THEN [st |-> mark_pages(pmm_free_block(blk.st, blk.ret), v, 1, FALSE), ret |-> NoPage]
     ELSE [st |-> map.st, ret |-> v]

vmm_alloc_page(st) == map_found_page(st, find_free_page(st))

vmm_free_page(st, v) ==
  LET f == virt_to_phys(st, v)
  IN IF v \notin Pages \/ f = Unmapped
       THEN st
       ELSE mark_pages(paging_unmap_page(pmm_free_block(st, f), v), v, 1, FALSE)

(* Pages stay marked when a page table cannot be allocated. *)
vmm_map_mmio(st, f, n) ==
  LET v      == find_contiguous_free_pages(st, n)
      mapped == MapRun(mark_pages(st, v, n, TRUE), f, v, n)
  IN IF v = NoPage THEN [st |-> st, ret |-> NoPage]
     ELSE [st |-> mapped.st, ret |-> IF mapped.ok THEN v ELSE NoPage]

(* Mutant: each turn of the loop frees n frames. *)
FreesTooMany(st, v, n) ==
  LET f == virt_to_phys(st, v)
      step[i \in 0 .. n] ==
        IF i = 0 THEN st
        ELSE mark_pages(pmm_mark_unused_region(paging_unmap_page(step[i - 1], v + i - 1),
                                               f + i - 1, n),
                        v + i - 1, 1, FALSE)
  IN IF n = 0 \/ f = Unmapped THEN st ELSE step[n]

(* Frees the n frames from the first page's frame on, whatever the other   *)
(* pages are mapped to.                                                    *)
vmm_free_contiguous(st, v, n) ==
  LET f == virt_to_phys(st, v)
      step[i \in 0 .. n] ==
        IF i = 0 THEN st
        ELSE mark_pages(pmm_mark_unused_region(paging_unmap_page(step[i - 1], v + i - 1),
                                               f + i - 1, 1),
                        v + i - 1, 1, FALSE)
  IN IF n = 0 \/ f = Unmapped THEN st ELSE step[n]

(* vmm_alloc_contiguous, once its search has found the n pages from v on. *)
map_found_pages(st, v, n) ==
  LET blk    == pmm_alloc_contiguous(mark_pages(st, v, n, TRUE), n)
      mapped == MapRun(blk.st, blk.ret, v, n)
  IN IF v = NoPage
       THEN [st |-> st, ret |-> NoPage]
     ELSE IF blk.ret = NULL
       THEN [st |-> mark_pages(blk.st, v, n, FALSE), ret |-> NoPage]
     ELSE IF ~mapped.ok
       THEN [st |-> vmm_free_contiguous(mapped.st, v, mapped.done), ret |-> NoPage]
     ELSE [st |-> mapped.st, ret |-> v]

(* The rest of dma_alloc: the frames of the DMA zone replace those that    *)
(* vmm_alloc_contiguous has mapped; without virtual pages they are mapped  *)
(* at address 0 all the same.                                              *)
map_zone(st, zone, v, n) ==
  LET virt == map_found_pages(st, v, n)
      at   == IF virt.ret = NoPage THEN 0 ELSE virt.ret
  IN [st |-> MapRun(virt.st, zone, at, n).st, ret |-> virt.ret]

-----------------------------------------------------------------------------
(* liballoc_hook.c *)

FreePages(st, v, n) ==
  LET step[i \in 0 .. n] == IF i = 0 THEN st ELSE vmm_free_page(step[i - 1], v + i - 1)
  IN step[n]

(* n single pages, of which only the first one's address is kept. *)
liballoc_alloc(st, n) ==
  LET step[i \in 0 .. n] ==
        IF i = 0 THEN [st |-> st, first |-> NoPage, done |-> 0, ok |-> n > 0]
        ELSE LET prev == step[i - 1]
                 r    == vmm_alloc_page(prev.st)
             IN IF ~prev.ok THEN prev
                ELSE IF r.ret = NoPage THEN [prev EXCEPT !.ok = FALSE, !.st = r.st]
                ELSE [st |-> r.st, first |-> IF i = 1 THEN r.ret ELSE prev.first,
                      done |-> i, ok |-> TRUE]
      end == step[n]
  IN IF end.ok THEN [st |-> end.st, ret |-> end.first]
     ELSE [st |-> FreePages(end.st, end.first, end.done), ret |-> NoPage]

liballoc_free(st, v, n) == FreePages(st, v, n)

-----------------------------------------------------------------------------
(* The state vmm_init leaves: the directory and the first page table, one  *)
(* frame for the bitmap, an identity map of the first table over which the *)
(* kernel image is mapped from page 0 on.  The bitmap is cleared before    *)
(* paging is on, through an address that is not mapped to it then, and its *)
(* page is mapped again by the loop over the kernel image: its contents    *)
(* are whatever that memory holds (BootBitmaps).  kmain maps the           *)
(* framebuffer next, at pages of its own choice that it does not mark.     *)

Booted == LET pmm  == [map |-> P!Reserved, used |-> Cardinality(P!Reserved),
                       last |-> 0, held |-> {}, bitmap |-> {},
                       pd |-> [t \in Tables |-> t = 0],
                       pt |-> [v \in Pages |->
                                 IF Table(v) # 0 THEN Unmapped
                                 ELSE IF v < KernelBlocks THEN LowBlocks + v ELSE v]]
              pd   == pmm_alloc_block(pmm)
              pt0  == pmm_alloc_block(pd.st)
              bits == pmm_alloc_contiguous(pt0.st, 1)
              vmm  == [bits.st EXCEPT !.last = (bits.ret + 1) % pmm_max_blocks]
          IN MapRun(vmm, Device, FbFirst, FbPages).st

(* The page tables serve the kernel through these pages: the bitmap, and   *)
(* the identity map of the kernel image in the first table.                *)
Vital == {BitmapPage} \cup ((LowBlocks .. (LowBlocks + KernelBlocks - 1)) \cap (0 .. (TablePages - 1)))

Intact == \A v \in Vital : m.pt[v] = Booted.pt[v]

(* A call that has no lock, between its search and its marks.  The frames  *)
(* from `zone` on are those dma_alloc has taken.                           *)
Call(op, v, n, zone) == [op |-> op, virt |-> v, pages |-> n, zone |-> zone]
Idle == Call("none", NoPage, 0, NULL)

Init == /\ \E bits \in BootBitmaps : m = [Booted EXCEPT !.bitmap = bits]
        /\ call = Idle
        /\ regions = {}
        /\ overtaken = FALSE

Region(kind, v, n) == [kind |-> kind, first |-> v, pages |-> n]
PagesOf(r) == r.first .. (r.first + r.pages - 1)

(* The caller holds the region unless the call returned NULL. *)
Return(kind, result, n) ==
  /\ Intact
  /\ m' = result.st
  /\ regions' = IF result.ret = NoPage THEN regions
                ELSE regions \cup {Region(kind, result.ret, n)}

Begin(op, v, n, zone) == Intact /\ call = Idle /\ call' = Call(op, v, n, zone)
End == call' = Idle /\ UNCHANGED overtaken

AllocPageCalled == /\ Begin("page", find_free_page(m), 1, NULL)
                   /\ UNCHANGED <<m, regions, overtaken>>

(* A single page is given back by dma_free, as fat32_init does. *)
AllocPageReturns == /\ call.op = "page"
                    /\ Return("run", map_found_page(m, call.virt), 1)
                    /\ End

(* Without frames in the zone dma_alloc returns NULL at once. *)
DmaAllocCalled(n) ==
  LET zone == pmm_alloc_blocks_in_range(m, n)
  IN /\ zone.ret # NULL
     /\ Begin("dma", find_contiguous_free_pages(zone.st, n), n, zone.ret)
     /\ m' = zone.st
     /\ UNCHANGED <<regions, overtaken>>

Zone == map_zone(m, call.zone, call.virt, call.pages)

DmaAllocReturns == call.op = "dma" /\ Return("run", Zone, call.pages) /\ End

DmaFreeCalled(r) == /\ r.kind = "run"
                    /\ Begin("free", r.first, r.pages, NULL)
                    /\ UNCHANGED <<m, regions, overtaken>>

dma_free == /\ Intact /\ call.op = "free"
            /\ m' = vmm_free_contiguous(m, call.virt, call.pages)
            /\ regions' = regions \ {Region("run", call.virt, call.pages)}
            /\ End

(* One chunk of the back buffer: frames of memory, mapped as a device's.   *)
(* vesa_init runs before interrupts are on, and without a chunk the kernel *)
(* panics, which ends what is modelled.                                    *)
ScreenChunk(n) ==
  LET blk == pmm_alloc_blocks(m, n)
      map == vmm_map_mmio(blk.st, blk.ret, n)
  IN /\ call = Idle /\ blk.ret # NULL /\ map.ret # NoPage
     /\ Return("screen", map, n)
     /\ UNCHANGED <<call, overtaken>>

(* The heap's calls come from the foreground or from a handler. *)
HeapAlloc(n) == /\ Return("heap", liballoc_alloc(m, n), n)
                /\ overtaken' = (overtaken \/ call # Idle)
                /\ UNCHANGED call

HeapFree(r) == /\ Intact /\ r.kind = "heap"
               /\ m' = liballoc_free(m, r.first, r.pages)
               /\ regions' = regions \ {r}
               /\ UNCHANGED <<call, overtaken>>

Next == \/ AllocPageCalled \/ AllocPageReturns
        \/ \E n \in DmaSizes : DmaAllocCalled(n)
        \/ DmaAllocReturns
        \/ \E r \in regions : DmaFreeCalled(r)
        \/ dma_free
        \/ \E n \in ChunkSizes : ScreenChunk(n)
        \/ \E n \in HeapSizes : HeapAlloc(n)
        \/ \E r \in regions : HeapFree(r)

Spec == Init /\ [][Next]_vars

-----------------------------------------------------------------------------
(* What the code takes for granted *)

(* From the first free page on there is no used page among the next n as   *)
(* long as there are free ones: liballoc_alloc finds adjacent pages.       *)
Gapless(n) ==
  LET free == FreePageRuns(m, 1)
  IN \A w \in free, k \in 0 .. (n - 1) : w >= Least(free) + k => Least(free) + k \in free

(* dma_alloc has frames of the zone and no virtual pages for them. *)
DmaMisses == DmaAllocReturns /\ Zone.ret = NoPage

(* liballoc_alloc and dma_alloc, which check neither, are called when the  *)
(* pages of a request are adjacent, and when a failing dma_alloc maps over *)
(* nobody's pages.                                                         *)
Granted ==
  /\ \A n \in HeapSizes : HeapAlloc(n) => Gapless(n)
  /\ DmaMisses => \A r \in regions : PagesOf(r) \cap (0 .. (call.pages - 1)) = {}

GrantedSpec == Init /\ [][Next /\ Granted]_vars

-----------------------------------------------------------------------------
(* Properties.  All of them are about behaviours in which no allocation of *)
(* the heap comes into the middle of a call that has no lock.              *)

FramesOf(r) == { m.pt[v] : v \in PagesOf(r) }

(* Bitmap, page tables and allocations range over the pages that exist. *)
TypeOK == /\ m.bitmap \subseteq Pages
          /\ m.pt \in [Pages -> {Unmapped} \cup (0 .. (Device + vmm_max_pages))]
          /\ m.pd \in [Tables -> BOOLEAN]
          /\ \A r \in regions : r.first \in Pages /\ r.pages \in Nat

(* The PMM stays consistent underneath: whatever this layer frees, on any  *)
(* of its half-way failures, and also after pages that are not adjacent or *)
(* were mapped over, no reserved frame is freed and the counter agrees,    *)
(* although vmm_free_contiguous clears bits without asking whose they are. *)
FramesStayConsistent == ~overtaken => TypeOK /\ P!Inv

(* No two allocations share a virtual page, whichever of the searches of   *)
(* the bitmap found them, and although a search without a lock is followed *)
(* by frees of the heap before its pages are marked.  An allocation of the *)
(* heap at that point does break it: both get the page.                    *)
RegionsDisjoint ==
  ~overtaken => \A r, s \in regions : r # s => PagesOf(r) \cap PagesOf(s) = {}

(* The pages of an allocation stay marked and mapped, to frames that the   *)
(* PMM holds for it and that no other allocation is mapped to, although    *)
(* dma_alloc maps over the frames vmm_alloc_contiguous chose.  Those of a  *)
(* run are adjacent, since vmm_free_contiguous computes what it frees from *)
(* the first page alone.                                                   *)
RegionsBacked ==
  ~overtaken =>
    /\ \A r \in regions : /\ PagesOf(r) \subseteq m.bitmap
                          /\ FramesOf(r) \subseteq m.held
                          /\ Cardinality(FramesOf(r)) = r.pages
    /\ \A r, s \in regions : r # s => FramesOf(r) \cap FramesOf(s) = {}
    /\ \A r \in regions : r.kind # "heap" =>
         \A v \in PagesOf(r) : m.pt[v] = m.pt[r.first] + (v - r.first)

(* A page that the bitmap marks is mapped to another frame by the call     *)
(* that gives it back and by a dma_alloc without virtual pages, which maps *)
(* over the first pages of the kernel, and by no other call.  Pages in use *)
(* that the bitmap does not mark have no such protection: those of the     *)
(* framebuffer, and those of the kernel's own whose bit was 0 at boot.     *)
MarkedMappingsStable ==
  [][~overtaken' =>
       \A v \in m.bitmap :
         \/ m'.pt[v] = m.pt[v]
         \/ \E r \in regions \ regions' : v \in PagesOf(r)
         \/ DmaMisses /\ v < call.pages]_vars

=============================================================================
