-------------------------------- MODULE Heap --------------------------------
(***************************************************************************)
(* The heap, src/src/mm/liballoc.c.  Memory comes from the page hooks in   *)
(* runs of pages, is cut into boundary-tagged blocks, and is handed out    *)
(* from one list of free blocks per size class.                            *)
(*                                                                         *)
(* malloc and free run with interrupts off (liballoc_lock), one at a time: *)
(* `op` is the call that holds the lock, and each turn of one of its loops *)
(* is a step.  realloc takes the lock three times, and the handlers of     *)
(* interrupts may call malloc and free in between.                         *)
(*                                                                         *)
(* A tag is its address.  The bytes of a tag that has been merged into its *)
(* neighbour stay in memory but are a tag no more.  Requests are taken to  *)
(* be far from 2^32, where the sums below would wrap.                      *)
(***************************************************************************)
EXTENDS Integers, FiniteSets

CONSTANTS
  TagSize,            \* sizeof(struct boundary_tag)
  l_pageSize,
  l_pageCount,        \* pages that are asked for at least
  MINEXP, MAXEXP,
  MAXCOMPLETE,        \* whole runs a size class keeps
  HeapPages,          \* bound: pages that the hooks can hand out
  Sizes               \* sizes that callers ask for

ASSUME HeapAssumption ==
  /\ TagSize \in Nat \ {0} /\ l_pageSize \in Nat \ {0} /\ l_pageCount \in Nat \ {0}
  /\ MINEXP \in Nat /\ MAXEXP \in Nat /\ MINEXP < MAXEXP
  /\ MAXCOMPLETE \in Nat /\ HeapPages \in Nat
  /\ Sizes \subseteq Nat

VARIABLES
  h,                  \* tags, l_freePages and l_completePages
  op,                 \* the call that holds the lock
  moving,             \* the realloc between its malloc and its free
  pages,              \* virtual pages the hooks have mapped for the heap
  runs,               \* ghost: runs of pages the heap takes itself to own
  blocks              \* ghost: blocks that callers hold, with their sizes

vars == <<h, op, moving, pages, runs, blocks>>

NULL == 0
Exps == 0 .. (MAXEXP - 1)

Idle == [pc |-> "idle", cur |-> NULL, size |-> 0, index |-> -1, from |-> NULL]
NoMove == [from |-> NULL, to |-> NULL]

Tags == DOMAIN h.tag
Ptr(t) == t + TagSize
TagOf(p) == p - TagSize

-----------------------------------------------------------------------------
(* Helpers of liballoc.c, as functions on the heap *)

(* The exponent n with 2^n <= size < 2^(n+1), or -1 below the quantum. *)
getexp(size) ==
  IF size < 2^MINEXP THEN -1
  ELSE CHOOSE n \in MINEXP .. (MAXEXP - 1) :
         2^n <= size /\ (size < 2^(n + 1) \/ n = MAXEXP - 1)

AtLeastMin(e) == IF e < MINEXP THEN MINEXP ELSE e

(* Mutant: the old head does not learn of the tag in front of it. *)
InsertSingly(hp, t, index) ==
  LET i == IF index < 0 THEN AtLeastMin(getexp(hp.tag[t].real_size - TagSize)) ELSE index
  IN [hp EXCEPT !.tag[t].index = i,
                !.tag[t].next = IF hp.l_freePages[i] # NULL THEN hp.l_freePages[i] ELSE @,
                !.l_freePages[i] = t]

insert_tag(hp, t, index) ==
  LET T == hp.tag
      i == IF index < 0 THEN AtLeastMin(getexp(T[t].real_size - TagSize)) ELSE index
      first == hp.l_freePages[i]
  IN [hp EXCEPT
        !.tag = [a \in DOMAIN T |->
                   IF a = t THEN [T[a] EXCEPT !.index = i,
                                              !.next = IF first # NULL THEN first ELSE @]
                   ELSE IF a = first THEN [T[a] EXCEPT !.prev = t]
                   ELSE T[a]],
        !.l_freePages[i] = t]

remove_tag(hp, t) ==
  LET T == hp.tag
  IN [hp EXCEPT
        !.l_freePages[T[t].index] = IF @ = t THEN T[t].next ELSE @,
        !.tag = [a \in DOMAIN T |->
                   IF a = t THEN [T[a] EXCEPT !.next = NULL, !.prev = NULL, !.index = -1]
                   ELSE [T[a] EXCEPT !.next = IF a = T[t].prev THEN T[t].next ELSE @,
                                     !.prev = IF a = T[t].next THEN T[t].prev ELSE @]]]

(* Tag t becomes a part of its left neighbour l. *)
Join(hp, l, t) ==
  LET T == hp.tag
  IN [hp EXCEPT
        !.tag = [a \in DOMAIN T \ {t} |->
                   IF a = l THEN [T[a] EXCEPT !.real_size = @ + T[t].real_size,
                                              !.split_right = T[t].split_right]
                   ELSE IF a = T[t].split_right THEN [T[a] EXCEPT !.split_left = l]
                   ELSE T[a]]]

melt_left(hp, t) == Join(hp, hp.tag[t].split_left, t)

absorb_right(hp, t) == LET right == hp.tag[t].split_right
                       IN Join(remove_tag(hp, right), t, right)

(* Mutant: the block that is split keeps its old size. *)
SplitKeepsSize(hp, t) ==
  LET T   == hp.tag
      new == t + TagSize + T[t].size
      n   == [size |-> 0, real_size |-> T[t].real_size - TagSize - T[t].size, index |-> -1,
              split_left |-> t, split_right |-> T[t].split_right, next |-> NULL, prev |-> NULL]
  IN insert_tag([hp EXCEPT !.tag = [a \in DOMAIN T \cup {new} |->
        IF a = new THEN n ELSE IF a = t THEN [T[a] EXCEPT !.split_right = new]
        ELSE IF a = n.split_right THEN [T[a] EXCEPT !.split_left = new] ELSE T[a]]], new, -1)

(* The size field of the new tag is not set: it is not read before malloc  *)
(* sets it.                                                                *)
split_tag(hp, t) ==
  LET T   == hp.tag
      new == t + TagSize + T[t].size
      n   == [size |-> 0, real_size |-> T[t].real_size - TagSize - T[t].size, index |-> -1,
              split_left |-> t, split_right |-> T[t].split_right,
              next |-> NULL, prev |-> NULL]
      cut == [hp EXCEPT
                !.tag = [a \in DOMAIN T \cup {new} |->
                   IF a = new THEN n
                   ELSE IF a = t THEN [T[a] EXCEPT !.split_right = new,
                                                   !.real_size = @ - n.real_size]
                   ELSE IF a = n.split_right THEN [T[a] EXCEPT !.split_left = new]
                   ELSE T[a]]]
  IN insert_tag(cut, new, -1)

PagesFor(n) == LET needed == (n + l_pageSize - 1) \div l_pageSize
               IN IF needed < l_pageCount THEN l_pageCount ELSE needed

-----------------------------------------------------------------------------
(* The page hooks, liballoc_hook.c.  liballoc_alloc maps the lowest free   *)
(* pages one at a time and returns the first of them; when a page cannot   *)
(* be had, for want of a frame at any time, it gives back as many pages    *)
(* from the first one on as it has mapped.                                 *)

Run(v, n) == v .. (v + n - 1)
FreePages == (1 .. HeapPages) \ pages
Lowest(n) == { v \in FreePages : Cardinality({ w \in FreePages : w < v }) < n }
FirstOf(n) == CHOOSE v \in Lowest(n) : \A w \in Lowest(n) : v <= w

(* Mutant: the pages are not marked as taken. *)
AllocUnmarked(n) == Cardinality(FreePages) >= n /\ UNCHANGED pages

liballoc_alloc(n) ==
  /\ Cardinality(FreePages) >= n
  /\ pages' = pages \cup Lowest(n)

AllocFails(n) ==
  \E i \in 0 .. (n - 1) :
    /\ Cardinality(FreePages) >= i
    /\ pages' = IF i = 0 THEN pages ELSE (pages \cup Lowest(i)) \ Run(FirstOf(i), i)

liballoc_free(v, n) == pages' = pages \ Run(v, n)

PageOf(a) == a \div l_pageSize

allocate_new_tag(hp, v, size) ==
  LET t == v * l_pageSize
  IN [hp EXCEPT !.tag = [a \in DOMAIN @ \cup {t} |->
        IF a = t THEN [size |-> size, real_size |-> PagesFor(size + TagSize) * l_pageSize,
                       index |-> -1, split_left |-> NULL, split_right |-> NULL,
                       next |-> NULL, prev |-> NULL]
        ELSE @[a]]]

-----------------------------------------------------------------------------
(* malloc *)

Whole(hp, t) == hp.tag[t].split_left = NULL /\ hp.tag[t].split_right = NULL

(* Mutant: the room that the tag itself takes is forgotten. *)
FitsIgnoresTag(t, size) == h.tag[t].real_size >= size

Fits(t, size) == h.tag[t].real_size - TagSize >= size + TagSize

malloc(size, from) ==
  /\ op = Idle
  /\ LET index == AtLeastMin(getexp(size))
     IN op' = [pc |-> "search", cur |-> h.l_freePages[index], size |-> size,
               index |-> index, from |-> from]
  /\ UNCHANGED <<h, pages, runs, blocks>>

(* Mutant: after a block that is too small the search starts again. *)
SearchRestarts ==
  /\ op.pc = "search" /\ op.cur # NULL /\ ~Fits(op.cur, op.size)
  /\ op' = [op EXCEPT !.cur = h.l_freePages[op.index]]
  /\ UNCHANGED <<h, moving, pages, runs, blocks>>

SearchNext ==
  /\ op.pc = "search" /\ op.cur # NULL /\ ~Fits(op.cur, op.size)
  /\ op' = [op EXCEPT !.cur = h.tag[@].next]
  /\ UNCHANGED <<h, moving, pages, runs, blocks>>

(* The excess is split off when it has room for a tag and the quantum. *)
Place(hp, t, size) ==
  LET sized     == [hp EXCEPT !.tag[t].size = size]
      remainder == hp.tag[t].real_size - size - 2 * TagSize
  IN IF remainder > 0 /\ getexp(remainder) >= 0 THEN split_tag(sized, t) ELSE sized

(* A pointer goes back to the caller, or to the realloc that asked for it. *)
Return(p) ==
  /\ op' = Idle
  /\ blocks' = IF p = NULL THEN blocks
               ELSE [q \in DOMAIN blocks \cup {p} |-> IF q = p THEN op.size ELSE blocks[q]]
  /\ moving' = IF op.from = NULL THEN moving ELSE [from |-> op.from, to |-> p]

(* Mutant: the count of whole runs is not taken back. *)
TakeUncounted ==
  /\ op.pc = "search" /\ op.cur # NULL /\ Fits(op.cur, op.size)
  /\ h' = Place(remove_tag(h, op.cur), op.cur, op.size)
  /\ Return(Ptr(op.cur))
  /\ UNCHANGED <<pages, runs>>

TakeFound ==
  /\ op.pc = "search" /\ op.cur # NULL /\ Fits(op.cur, op.size)
  /\ LET out == remove_tag(h, op.cur)
         counted == IF Whole(out, op.cur)
                      THEN [out EXCEPT !.l_completePages[op.index] = @ - 1] ELSE out
     IN h' = Place(counted, op.cur, op.size)
  /\ Return(Ptr(op.cur))
  /\ UNCHANGED <<pages, runs>>

TakeNewPages ==
  /\ op.pc = "search" /\ op.cur = NULL
  /\ LET n == PagesFor(op.size + TagSize)
         v == FirstOf(n)
     IN /\ liballoc_alloc(n)
        /\ h' = Place(allocate_new_tag(h, v, op.size), v * l_pageSize, op.size)
        /\ runs' = runs \cup {[first |-> v, pages |-> n]}
        /\ Return(Ptr(v * l_pageSize))

OutOfMemory ==
  /\ op.pc = "search" /\ op.cur = NULL
  /\ AllocFails(PagesFor(op.size + TagSize))
  /\ Return(NULL)
  /\ UNCHANGED <<h, runs>>

-----------------------------------------------------------------------------
(* free *)

free(p) ==
  /\ op = Idle
  /\ op' = [Idle EXCEPT !.pc = "free", !.cur = TagOf(p)]
  /\ blocks' = [q \in DOMAIN blocks \ {p} |-> blocks[q]]
  /\ UNCHANGED <<h, pages, runs>>

IsFree(t) == t # NULL /\ h.tag[t].index >= 0
LeftIsFree == IsFree(h.tag[op.cur].split_left)
RightIsFree == IsFree(h.tag[op.cur].split_right)

MeltLeft ==
  /\ op.pc = "free" /\ LeftIsFree
  /\ LET left == h.tag[op.cur].split_left
     IN /\ h' = remove_tag(melt_left(h, op.cur), left)
        /\ op' = [op EXCEPT !.cur = left]
  /\ UNCHANGED <<moving, pages, runs, blocks>>

AbsorbRight ==
  /\ op.pc = "free" /\ ~LeftIsFree /\ RightIsFree
  /\ h' = absorb_right(h, op.cur)
  /\ UNCHANGED <<op, moving, pages, runs, blocks>>

Merged == op.pc = "free" /\ ~LeftIsFree /\ ~RightIsFree
ClassOf(t) == AtLeastMin(getexp(h.tag[t].real_size - TagSize))
TooMany == Whole(h, op.cur) /\ h.l_completePages[ClassOf(op.cur)] = MAXCOMPLETE

(* A whole run goes back to the hooks when its class keeps enough. *)
ReturnPages ==
  /\ Merged /\ TooMany
  /\ h' = [h EXCEPT !.tag = [a \in DOMAIN @ \ {op.cur} |-> @[a]]]
  /\ LET v == PageOf(op.cur)
         n == PagesFor(h.tag[op.cur].real_size)
     IN liballoc_free(v, n) /\ runs' = runs \ {[first |-> v, pages |-> n]}
  /\ op' = Idle
  /\ UNCHANGED <<moving, blocks>>

KeepFree ==
  /\ Merged /\ ~TooMany
  /\ LET i == ClassOf(op.cur)
         counted == IF Whole(h, op.cur) THEN [h EXCEPT !.l_completePages[i] = @ + 1] ELSE h
     IN h' = insert_tag(counted, op.cur, i)
  /\ op' = Idle
  /\ UNCHANGED <<moving, pages, runs, blocks>>

-----------------------------------------------------------------------------
(* The callers.  realloc(p, 0) is free(p) and realloc(NULL, n) malloc(n);  *)
(* calloc is malloc and a memset.  One realloc runs at a time, since only  *)
(* the shell calls it; its caller does not free the block meanwhile.       *)

Malloc(n) == malloc(n, NULL) /\ UNCHANGED moving

Free(p) == p \notin {moving.from, moving.to} /\ free(p) /\ UNCHANGED moving

Realloc(p, n) == n # 0 /\ moving = NoMove /\ malloc(n, p)
                 /\ moving' = [from |-> p, to |-> NULL]

(* The old block is copied and freed, whether there is a new one or not.   *)
(* Copying to NULL writes to the low memory the identity map leaves there. *)
FinishRealloc ==
  /\ moving # NoMove /\ op = Idle
  /\ free(moving.from)
  /\ moving' = NoMove

Init ==
  /\ h = [tag |-> [a \in {} |-> NULL],
          l_freePages |-> [i \in Exps |-> NULL],
          l_completePages |-> [i \in Exps |-> 0]]
  /\ op = Idle /\ moving = NoMove
  /\ pages = {} /\ runs = {} /\ blocks = [p \in {} |-> 0]

MallocSteps == SearchNext \/ TakeFound \/ TakeNewPages \/ OutOfMemory
FreeSteps == MeltLeft \/ AbsorbRight \/ ReturnPages \/ KeepFree

Next == \/ \E n \in Sizes : Malloc(n)
        \/ \E p \in DOMAIN blocks : Free(p)
        \/ \E p \in DOMAIN blocks, n \in Sizes : Realloc(p, n)
        \/ MallocSteps
        \/ FreeSteps
        \/ FinishRealloc

(* A call that holds the lock cannot be interrupted: it goes on. *)
Spec == Init /\ [][Next]_vars /\ WF_vars(MallocSteps \/ FreeSteps)

(* The pages that the hooks take are adjacent when n of them are asked for,*)
(* as far as they get: liballoc_alloc returns the first as if they were,   *)
(* and counts on from it when it gives them back.                          *)
Gapless(n) ==
  \A i \in 1 .. n : Cardinality(FreePages) >= i => Lowest(i) = Run(FirstOf(i), i)

Granted ==
  op.pc = "search" /\ op.cur = NULL => Gapless(PagesFor(op.size + TagSize))

GrantedSpec == Init /\ [][Next /\ Granted]_vars

-----------------------------------------------------------------------------
(* Properties *)

(* The tags, the lists, the calls and the ghosts are well formed. *)
TypeOK ==
  /\ h.tag \in [Tags -> [size : Nat, real_size : Nat, index : {-1} \cup Exps,
                         split_left : {NULL} \cup Tags, split_right : {NULL} \cup Tags,
                         next : {NULL} \cup Tags, prev : {NULL} \cup Tags]]
  /\ h.l_freePages \in [Exps -> {NULL} \cup Tags]
  /\ h.l_completePages \in [Exps -> 0 .. MAXCOMPLETE]
  /\ op.pc \in {"idle", "search", "free"} /\ op.cur \in {NULL} \cup Tags
  /\ \A r \in runs : r.first \in 1 .. HeapPages

(* The neighbour links describe memory: the tags of a run of pages cover   *)
(* it without gap or overlap, from its first byte to its last, however     *)
(* often it has been cut and merged.                                       *)
TagsTile ==
  TypeOK /\ \A t \in Tags :
    LET c == h.tag[t]
        run == CHOOSE r \in runs : t \in (r.first * l_pageSize) .. ((r.first + r.pages) * l_pageSize - 1)
    IN /\ c.real_size >= TagSize
       /\ IF c.split_right = NULL THEN t + c.real_size = (run.first + run.pages) * l_pageSize
          ELSE c.split_right = t + c.real_size /\ h.tag[c.split_right].split_left = t
       /\ IF c.split_left = NULL THEN t = run.first * l_pageSize
          ELSE h.tag[c.split_left].split_right = t

FreeTags(i) == { t \in Tags : h.tag[t].index = i }

(* What a walk along the list from its head meets. *)
Chain(i) ==
  LET walk[k \in 0 .. Cardinality(Tags)] ==
        IF k = 0 THEN h.l_freePages[i]
        ELSE IF walk[k - 1] = NULL THEN NULL ELSE h.tag[walk[k - 1]].next
  IN { walk[k] : k \in 0 .. Cardinality(Tags) } \ {NULL}

(* The list of a class holds the free blocks of that class and no others,  *)
(* linked both ways: insert_tag leaves prev and next of a tag alone when   *)
(* the list is empty, which is right only because remove_tag cleared them. *)
ListsComplete ==
  \A i \in Exps :
    /\ Chain(i) = FreeTags(i)
    /\ \A t \in FreeTags(i) :
         /\ i = ClassOf(t)
         /\ h.tag[t].prev = NULL <=> t = h.l_freePages[i]
         /\ h.tag[t].next # NULL => h.tag[h.tag[t].next].prev = t

(* Between calls no two free blocks are neighbours, every run that is      *)
(* whole and free is counted, and every tag that is not free is the block  *)
(* of somebody: nothing leaks and nothing stays fragmented.                *)
NothingLeaks ==
  op = Idle =>
    /\ \A t \in Tags : IsFree(t) => ~IsFree(h.tag[t].split_right)
    /\ \A i \in Exps : h.l_completePages[i] = Cardinality({ t \in FreeTags(i) : Whole(h, t) })
    /\ { Ptr(t) : t \in { u \in Tags : ~IsFree(u) } } = DOMAIN blocks

(* A block that a caller holds has the room it asked for, and none of it   *)
(* belongs to a tag or to another block, across any reuse and merging; a   *)
(* realloc that interrupts have delayed still finds both of its blocks.    *)
BlocksIntact ==
  /\ \A p \in DOMAIN blocks :
       /\ TagOf(p) \in Tags /\ h.tag[TagOf(p)].index = -1
       /\ TagSize + blocks[p] <= h.tag[TagOf(p)].real_size
       /\ h.tag[TagOf(p)].size = blocks[p]
       /\ \A t \in Tags : (t .. (t + TagSize - 1)) \cap (p .. (p + blocks[p] - 1)) = {}
  /\ {moving.from, moving.to} \ {NULL} \subseteq DOMAIN blocks

(* Every call of malloc and free comes to its end: the loops along a list  *)
(* and along the neighbours meet NULL.                                     *)
CallsReturn == (op # Idle) ~> (op = Idle)

AH == INSTANCE AbstractHeap WITH Pointers <- 0 .. ((HeapPages + 1) * l_pageSize)

(* The heap keeps the promise of AbstractHeap: a block is made of memory   *)
(* that no other block has.                                                *)
Refinement == AH!AHSpec

(* liballoc.h:63: liballoc_alloc returns "NULL if the pages were not       *)
(* allocated" or "A pointer to the allocated memory", for "the number of   *)
(* pages required": behind the pointer there are as many pages.            *)
PagesBehindPointer ==
  \A r, q \in runs :
    /\ Run(r.first, r.pages) \subseteq pages
    /\ r # q => Run(r.first, r.pages) \cap Run(q.first, q.pages) = {}
=============================================================================
