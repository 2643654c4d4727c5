----------------------------- MODULE Heap_proofs -----------------------------
(***************************************************************************)
(* Proofs about the heap.  All four invariants of Heap and the refinement  *)
(* of AbstractHeap hold for any pages, classes and requests as long as the *)
(* page hooks deliver what liballoc takes for granted, adjacent pages      *)
(* (GrantedSpec).  They always do so while every request fits into the     *)
(* minimum number of pages, and then nothing is granted.                   *)
(*                                                                         *)
(* One inductive invariant, HeapInv, serves for all of them.  A heap is    *)
(* described by predicates (Removed, Inserted, Joined, CutOff, Fresh) in   *)
(* place of the EXCEPTs that make it: for each helper of liballoc.c one    *)
(* lemma says that it does just that, and others what follows for the      *)
(* lists and for memory; each action of Heap then has one lemma.           *)
(***************************************************************************)
EXTENDS Heap, FiniteSetTheorems, InductionLemmas, TLAPS

(* A tag as liballoc.c keeps it, with addresses for pointers. *)
TagRec == [size : Nat, real_size : Nat, index : {-1} \cup Exps,
           split_left : Nat, split_right : Nat, next : Nat, prev : Nat]

(* The class of a free block of this size. *)
ClassFor(real_size) == AtLeastMin(getexp(real_size - TagSize))

(* The heap is well formed: finitely many tags, none of them at NULL. *)
Shape(hp) ==
  /\ hp \in [tag : [DOMAIN hp.tag -> TagRec], l_freePages : [Exps -> Nat],
             l_completePages : [Exps -> Int]]
  /\ DOMAIN hp.tag \subseteq Nat \ {NULL}
  /\ IsFiniteSet(DOMAIN hp.tag)

(* The lists are linked both ways, each within its class: a free tag       *)
(* without a predecessor is the head of its list, and a tag in use has no  *)
(* links, which insert_tag takes for granted.                              *)
Linked(hp) ==
  /\ \A i \in Exps : hp.l_freePages[i] # NULL =>
       /\ hp.l_freePages[i] \in DOMAIN hp.tag
       /\ hp.tag[hp.l_freePages[i]].index = i
       /\ hp.tag[hp.l_freePages[i]].prev = NULL
  /\ \A t \in DOMAIN hp.tag :
       /\ hp.tag[t].next # NULL =>
            /\ hp.tag[t].next \in DOMAIN hp.tag
            /\ hp.tag[hp.tag[t].next].prev = t
            /\ hp.tag[hp.tag[t].next].index = hp.tag[t].index
       /\ hp.tag[t].prev # NULL =>
            /\ hp.tag[t].prev \in DOMAIN hp.tag
            /\ hp.tag[hp.tag[t].prev].next = t
            /\ hp.tag[hp.tag[t].prev].index = hp.tag[t].index
       /\ hp.tag[t].index # -1 /\ hp.tag[t].prev = NULL =>
            hp.l_freePages[hp.tag[t].index] = t
       /\ hp.tag[t].index = -1 => hp.tag[t].next = NULL /\ hp.tag[t].prev = NULL

(* A free block is in the list of its size. *)
Classed(hp) ==
  \A t \in DOMAIN hp.tag :
    hp.tag[t].index # -1 => hp.tag[t].index = ClassFor(hp.tag[t].real_size)

(* The neighbour links are addresses: a right neighbour begins where its   *)
(* left neighbour ends, and no two tags share a byte.                      *)
Tiled(hp) ==
  /\ \A t \in DOMAIN hp.tag :
       /\ hp.tag[t].real_size >= TagSize
       /\ hp.tag[t].split_right # NULL =>
            /\ hp.tag[t].split_right \in DOMAIN hp.tag
            /\ hp.tag[t].split_right = t + hp.tag[t].real_size
            /\ hp.tag[hp.tag[t].split_right].split_left = t
       /\ hp.tag[t].split_left # NULL =>
            /\ hp.tag[t].split_left \in DOMAIN hp.tag
            /\ hp.tag[hp.tag[t].split_left].split_right = t
  /\ \A t, u \in DOMAIN hp.tag : t < u => t + hp.tag[t].real_size <= u

(* The bytes of a run of pages, from Lo to below Hi. *)
Lo(r) == r.first * l_pageSize
Hi(r) == (r.first + r.pages) * l_pageSize

(* A tag lies in a run; it has no left neighbour only at the start of the  *)
(* run, and no right one exactly at its end.                               *)
Covers(r, t, c) ==
  /\ Lo(r) <= t /\ t + c.real_size <= Hi(r)
  /\ c.split_left = NULL => t = Lo(r)
  /\ c.split_right = NULL <=> t + c.real_size = Hi(r)

(* Every tag lies in a run that the heap owns. *)
Covered(hp, R) == \A t \in DOMAIN hp.tag : \E r \in R : Covers(r, t, hp.tag[t])

(* The runs are made of mapped pages, and no two share a page. *)
RunsOK(R, P) ==
  /\ P \subseteq 1 .. HeapPages
  /\ R \subseteq [first : Nat \ {0}, pages : Nat \ {0}]
  /\ \A r \in R : r.pages >= l_pageCount /\ Run(r.first, r.pages) \subseteq P
  /\ \A r, q \in R : r # q => Run(r.first, r.pages) \cap Run(q.first, q.pages) = {}

(* Nowhere is a free block next to a free block. *)
Melted(hp) ==
  \A t \in DOMAIN hp.tag :
    hp.tag[t].index # -1 /\ hp.tag[t].split_right # NULL =>
      hp.tag[hp.tag[t].split_right].index = -1

(* The free blocks of a class that are a whole run. *)
WholeFree(hp, i) == { t \in DOMAIN hp.tag : hp.tag[t].index = i /\ Whole(hp, t) }

(* l_completePages counts them, up to its limit. *)
Counted(hp) ==
  \A i \in Exps : /\ hp.l_completePages[i] = Cardinality(WholeFree(hp, i))
                  /\ hp.l_completePages[i] <= MAXCOMPLETE

(* What callers hold are blocks in use, with the room asked for. *)
Holds(hp, B) ==
  /\ B \in [DOMAIN B -> Nat]
  /\ \A p \in DOMAIN B :
       /\ p \in Nat /\ TagOf(p) \in DOMAIN hp.tag
       /\ hp.tag[TagOf(p)].index = -1
       /\ hp.tag[TagOf(p)].size = B[p]
       /\ TagSize + B[p] <= hp.tag[TagOf(p)].real_size

(* The call that holds the lock: malloc looks at a free tag of the list it *)
(* walks, free at a tag that nobody holds any more.                        *)
OpInv ==
  /\ op \in [pc : {"idle", "search", "free"}, cur : Nat, size : Nat,
             index : {-1} \cup Exps, from : Nat]
  /\ op.pc = "idle" => op = Idle
  /\ op.pc = "search" =>
       /\ op.size \in Sizes /\ op.index \in Exps
       /\ op.cur # NULL => op.cur \in Tags /\ h.tag[op.cur].index = op.index
       /\ op.from # NULL => op.from = moving.from
  /\ op.pc = "free" =>
       /\ op.cur \in Tags /\ h.tag[op.cur].index = -1
       /\ Ptr(op.cur) \notin DOMAIN blocks

(* A tag that is not free is the block of a caller, or is being freed. *)
Owned ==
  \A t \in Tags : h.tag[t].index = -1 =>
    Ptr(t) \in DOMAIN blocks \/ (op.pc = "free" /\ t = op.cur)

(* A realloc keeps both of its blocks. *)
MoveInv ==
  /\ moving \in [from : Nat, to : Nat]
  /\ {moving.from, moving.to} \ {NULL} \subseteq DOMAIN blocks
  /\ moving.from = NULL => moving = NoMove

-----------------------------------------------------------------------------
(* Numbers *)

(* The assumption on the constants, as the proofs use it. *)
LEMMA Given ==
  /\ TagSize \in Nat /\ TagSize >= 1
  /\ l_pageSize \in Nat /\ l_pageSize >= 1
  /\ l_pageCount \in Nat /\ l_pageCount >= 1
  /\ MINEXP \in Nat /\ MAXEXP \in Nat /\ MINEXP <= MAXEXP - 1
  /\ MAXCOMPLETE \in Nat /\ HeapPages \in Nat /\ Sizes \subseteq Nat
  /\ NULL = 0
BY HeapAssumption DEF NULL

(* Every size has a class. *)
LEMMA ExpIs ==
  ASSUME NEW s \in Int
  PROVE  getexp(s) \in {-1} \cup (MINEXP .. (MAXEXP - 1))
<1> USE Given
<1> DEFINE P(n) == 2^n <= s /\ (s < 2^(n + 1) \/ n = MAXEXP - 1)
<1>1. \A n \in Nat : 2^n \in Int
  OBVIOUS
<1>2. ASSUME ~(s < 2^MINEXP) PROVE \E n \in MINEXP .. (MAXEXP - 1) : P(n)
  <2> DEFINE S == { k \in Nat : \E n \in MINEXP .. (MAXEXP - 1) :
                                   k = MAXEXP - 1 - n /\ 2^n <= s }
  <2>1. 2^MINEXP <= s
    BY <1>1, <1>2
  <2>2. MAXEXP - 1 - MINEXP \in S
    BY <2>1
  <2>3. PICK k \in S : \A j \in S : k <= j
    <3> HIDE DEF S
    <3>1. S \in SUBSET Nat
      BY DEF S
    <3> QED BY <2>2, <3>1, LeastNatural
  <2>4. PICK n \in MINEXP .. (MAXEXP - 1) : k = MAXEXP - 1 - n /\ 2^n <= s
    OBVIOUS
  <2>5. CASE n = MAXEXP - 1
    BY <2>4, <2>5
  <2>6. CASE n # MAXEXP - 1
    <3>1. n + 1 \in MINEXP .. (MAXEXP - 1) /\ MAXEXP - 1 - (n + 1) \in Nat
      BY <2>4, <2>6
    <3>2. ~(2^(n + 1) <= s)
      <4> SUFFICES ASSUME 2^(n + 1) <= s PROVE FALSE
        OBVIOUS
      <4>1. MAXEXP - 1 - (n + 1) \in S
        BY <3>1
      <4> HIDE DEF S
      <4>2. k <= MAXEXP - 1 - (n + 1)
        BY <4>1, <2>3
      <4> QED BY <4>2, <2>4
    <3>3. s < 2^(n + 1)
      BY <3>1, <3>2, <1>1
    <3> QED BY <3>3, <2>4
  <2> QED BY <2>5, <2>6
<1>3. CASE s < 2^MINEXP
  BY <1>3 DEF getexp
<1>4. CASE ~(s < 2^MINEXP)
  <2> HIDE DEF P
  <2>1. (CHOOSE n \in MINEXP .. (MAXEXP - 1) : P(n)) \in MINEXP .. (MAXEXP - 1)
    BY <1>2, <1>4
  <2>2. getexp(s) = CHOOSE n \in MINEXP .. (MAXEXP - 1) : P(n)
    BY <1>4 DEF getexp, P
  <2> QED BY <2>1, <2>2
<1> QED BY <1>3, <1>4

(* Every request has a class. *)
LEMMA ClassIs ==
  ASSUME NEW s \in Int
  PROVE  /\ AtLeastMin(getexp(s)) \in Exps
         /\ AtLeastMin(getexp(s)) # -1 /\ AtLeastMin(getexp(s)) >= 0
         /\ getexp(s) \in Int
BY ExpIs, Given DEF AtLeastMin, Exps

(* Every block has a class. *)
LEMMA ClassForIs ==
  ASSUME NEW s \in Int
  PROVE  ClassFor(s) \in Exps /\ ClassFor(s) # -1 /\ ClassFor(s) >= 0
BY ClassIs, Given DEF ClassFor

-----------------------------------------------------------------------------
(* What the helpers do, field by field *)

(* Two heaps cut memory alike. *)
SameGeometry(g, hp) ==
  /\ DOMAIN g.tag = DOMAIN hp.tag
  /\ \A a \in DOMAIN hp.tag : /\ g.tag[a].real_size = hp.tag[a].real_size
                              /\ g.tag[a].split_left = hp.tag[a].split_left
                              /\ g.tag[a].split_right = hp.tag[a].split_right

(* Two heaps have the same lists, as far as the tags in S are concerned. *)
SameLists(g, hp, S) ==
  /\ g.l_freePages = hp.l_freePages
  /\ \A a \in S : /\ g.tag[a].index = hp.tag[a].index
                  /\ g.tag[a].next = hp.tag[a].next
                  /\ g.tag[a].prev = hp.tag[a].prev

(* g is hp without tag t in its list. *)
Removed(g, hp, t) ==
  /\ Shape(g) /\ SameGeometry(g, hp)
  /\ \A a \in DOMAIN hp.tag : g.tag[a].size = hp.tag[a].size
  /\ g.l_completePages = hp.l_completePages
  /\ \A i \in Exps : g.l_freePages[i] =
       IF i = hp.tag[t].index /\ hp.l_freePages[i] = t THEN hp.tag[t].next
       ELSE hp.l_freePages[i]
  /\ g.tag[t].index = -1 /\ g.tag[t].next = NULL /\ g.tag[t].prev = NULL
  /\ \A a \in DOMAIN hp.tag \ {t} :
       /\ g.tag[a].index = hp.tag[a].index
       /\ g.tag[a].next = IF a = hp.tag[t].prev THEN hp.tag[t].next ELSE hp.tag[a].next
       /\ g.tag[a].prev = IF a = hp.tag[t].next THEN hp.tag[t].prev ELSE hp.tag[a].prev

(* remove_tag takes a tag out of its list and does nothing else. *)
LEMMA RemoveIs ==
  ASSUME NEW hp, Shape(hp), NEW t \in DOMAIN hp.tag, hp.tag[t].index \in Exps
  PROVE  Removed(remove_tag(hp, t), hp, t)
<1> DEFINE D == DOMAIN hp.tag
           T == hp.tag
           C(a) == IF a = t THEN [T[a] EXCEPT !.next = NULL, !.prev = NULL, !.index = -1]
                   ELSE [T[a] EXCEPT !.next = IF a = T[t].prev THEN T[t].next ELSE @,
                                     !.prev = IF a = T[t].next THEN T[t].prev ELSE @]
           tag == [a \in D |-> C(a)]
           F == [hp.l_freePages EXCEPT ![T[t].index] = IF @ = t THEN T[t].next ELSE @]
           g == [tag |-> tag, l_freePages |-> F, l_completePages |-> hp.l_completePages]
<1>1. /\ hp \in [tag : [D -> TagRec], l_freePages : [Exps -> Nat],
                 l_completePages : [Exps -> Int]]
      /\ D \subseteq Nat \ {NULL} /\ IsFiniteSet(D)
  BY DEF Shape
<1>2. remove_tag(hp, t) = g
  <2>1. remove_tag(hp, t) =
          [hp EXCEPT !.l_freePages[T[t].index] = IF @ = t THEN T[t].next ELSE @, !.tag = tag]
    BY DEF remove_tag
  <2> HIDE DEF tag
  <2> QED BY <1>1, <2>1
<1>3. \A a \in D : T[a] \in TagRec
  BY <1>1
<1>4. \A a \in D : C(a) \in TagRec
  BY <1>3, Given DEF TagRec
<1>5. tag \in [D -> TagRec] /\ DOMAIN tag = D /\ \A a \in D : tag[a] = C(a)
  BY <1>4
<1>6. F \in [Exps -> Nat]
  BY <1>1, <1>3 DEF TagRec
<1>7. Shape(g)
  BY <1>1, <1>5, <1>6 DEF Shape
<1>8. SameGeometry(g, hp) /\ \A a \in D : g.tag[a].size = hp.tag[a].size
  BY <1>3, <1>5 DEF SameGeometry, TagRec
<1>9. \A i \in Exps : g.l_freePages[i] =
       IF i = hp.tag[t].index /\ hp.l_freePages[i] = t THEN hp.tag[t].next
       ELSE hp.l_freePages[i]
  BY <1>1
<1>10. g.tag[t].index = -1 /\ g.tag[t].next = NULL /\ g.tag[t].prev = NULL
  <2>1. g.tag[t] = [T[t] EXCEPT !.next = NULL, !.prev = NULL, !.index = -1]
    BY <1>5
  <2> HIDE DEF g
  <2> QED BY <1>3, <2>1 DEF TagRec
<1>11. \A a \in D \ {t} :
       /\ g.tag[a].index = hp.tag[a].index
       /\ g.tag[a].next = IF a = hp.tag[t].prev THEN hp.tag[t].next ELSE hp.tag[a].next
       /\ g.tag[a].prev = IF a = hp.tag[t].next THEN hp.tag[t].prev ELSE hp.tag[a].prev
  BY <1>3, <1>5 DEF TagRec
<1>12. g.l_completePages = hp.l_completePages
  OBVIOUS
<1> HIDE DEF g
<1> QED BY <1>2, <1>7, <1>8, <1>9, <1>10, <1>11, <1>12 DEF Removed

(* g is hp with tag t in front of list i. *)
Inserted(g, hp, t, i) ==
  /\ Shape(g) /\ SameGeometry(g, hp)
  /\ \A a \in DOMAIN hp.tag : g.tag[a].size = hp.tag[a].size
  /\ g.l_completePages = hp.l_completePages
  /\ \A j \in Exps : g.l_freePages[j] = IF j = i THEN t ELSE hp.l_freePages[j]
  /\ g.tag[t].index = i /\ g.tag[t].prev = hp.tag[t].prev
  /\ g.tag[t].next = IF hp.l_freePages[i] # NULL THEN hp.l_freePages[i] ELSE hp.tag[t].next
  /\ \A a \in DOMAIN hp.tag \ {t} :
       /\ g.tag[a].index = hp.tag[a].index
       /\ g.tag[a].next = hp.tag[a].next
       /\ g.tag[a].prev = IF a = hp.l_freePages[i] THEN t ELSE hp.tag[a].prev

(* insert_tag puts a tag in front of the list of its class and does        *)
(* nothing else.                                                           *)
LEMMA InsertIs ==
  ASSUME NEW hp, Shape(hp), NEW t \in DOMAIN hp.tag, NEW index \in Int,
         NEW i \in Exps,
         i = IF index < 0 THEN ClassFor(hp.tag[t].real_size) ELSE index
  PROVE  Inserted(insert_tag(hp, t, index), hp, t, i)
<1> DEFINE D == DOMAIN hp.tag
           T == hp.tag
           first == hp.l_freePages[i]
           C(a) == IF a = t THEN [T[a] EXCEPT !.index = i,
                                              !.next = IF first # NULL THEN first ELSE @]
                   ELSE IF a = first THEN [T[a] EXCEPT !.prev = t]
                   ELSE T[a]
           tag == [a \in D |-> C(a)]
           F == [hp.l_freePages EXCEPT ![i] = t]
           g == [tag |-> tag, l_freePages |-> F, l_completePages |-> hp.l_completePages]
<1>1. /\ hp \in [tag : [D -> TagRec], l_freePages : [Exps -> Nat],
                 l_completePages : [Exps -> Int]]
      /\ D \subseteq Nat \ {NULL} /\ IsFiniteSet(D)
  BY DEF Shape
<1>2. insert_tag(hp, t, index) = g
  <2>1. insert_tag(hp, t, index) = [hp EXCEPT !.tag = tag, !.l_freePages[i] = t]
    BY DEF insert_tag, ClassFor
  <2> HIDE DEF tag
  <2> QED BY <1>1, <2>1
<1>3. \A a \in D : T[a] \in TagRec
  BY <1>1
<1>4. \A a \in D : C(a) \in TagRec
  <2>1. first \in Nat /\ t \in Nat
    BY <1>1
  <2> QED BY <1>3, <2>1 DEF TagRec
<1>5. tag \in [D -> TagRec] /\ DOMAIN tag = D /\ \A a \in D : tag[a] = C(a)
  BY <1>4
<1>6. F \in [Exps -> Nat]
  BY <1>1
<1>7. Shape(g)
  BY <1>1, <1>5, <1>6 DEF Shape
<1>8. SameGeometry(g, hp) /\ \A a \in D : g.tag[a].size = hp.tag[a].size
  BY <1>3, <1>5 DEF SameGeometry, TagRec
<1>9. \A j \in Exps : g.l_freePages[j] = IF j = i THEN t ELSE hp.l_freePages[j]
  BY <1>1
<1>10. /\ g.tag[t].index = i /\ g.tag[t].prev = hp.tag[t].prev
       /\ g.tag[t].next = IF first # NULL THEN first ELSE hp.tag[t].next
  BY <1>3, <1>5 DEF TagRec
<1>11. \A a \in D \ {t} :
       /\ g.tag[a].index = hp.tag[a].index
       /\ g.tag[a].next = hp.tag[a].next
       /\ g.tag[a].prev = IF a = hp.l_freePages[i] THEN t ELSE hp.tag[a].prev
  BY <1>3, <1>5 DEF TagRec
<1>12. g.l_completePages = hp.l_completePages
  OBVIOUS
<1> HIDE DEF g
<1> QED BY <1>2, <1>7, <1>8, <1>9, <1>10, <1>11, <1>12 DEF Inserted

(* Tag t has become a part of l. *)
Joined(g, hp, l, t) ==
  /\ Shape(g) /\ DOMAIN g.tag = DOMAIN hp.tag \ {t}
  /\ SameLists(g, hp, DOMAIN g.tag) /\ g.l_completePages = hp.l_completePages
  /\ \A a \in DOMAIN g.tag : g.tag[a].size = hp.tag[a].size
  /\ g.tag[l].real_size = hp.tag[l].real_size + hp.tag[t].real_size
  /\ g.tag[l].split_right = hp.tag[t].split_right
  /\ g.tag[l].split_left = hp.tag[l].split_left
  /\ \A a \in DOMAIN g.tag \ {l} :
       /\ g.tag[a].real_size = hp.tag[a].real_size
       /\ g.tag[a].split_right = hp.tag[a].split_right
       /\ g.tag[a].split_left = IF a = hp.tag[t].split_right THEN l ELSE hp.tag[a].split_left

(* A tag becomes a part of its left neighbour. *)
LEMMA JoinIs ==
  ASSUME NEW hp, Shape(hp), NEW t \in DOMAIN hp.tag, NEW l \in DOMAIN hp.tag, l # t
  PROVE  Joined(Join(hp, l, t), hp, l, t)
<1> DEFINE D == DOMAIN hp.tag
           T == hp.tag
           C(a) == IF a = l THEN [T[a] EXCEPT !.real_size = @ + T[t].real_size,
                                              !.split_right = T[t].split_right]
                   ELSE IF a = T[t].split_right THEN [T[a] EXCEPT !.split_left = l]
                   ELSE T[a]
           tag == [a \in D \ {t} |-> C(a)]
           g == [tag |-> tag, l_freePages |-> hp.l_freePages,
                 l_completePages |-> hp.l_completePages]
<1>1. /\ hp \in [tag : [D -> TagRec], l_freePages : [Exps -> Nat],
                 l_completePages : [Exps -> Int]]
      /\ D \subseteq Nat \ {NULL} /\ IsFiniteSet(D)
  BY DEF Shape
<1>2. Join(hp, l, t) = g
  <2>1. Join(hp, l, t) = [hp EXCEPT !.tag = tag]
    BY DEF Join
  <2> HIDE DEF tag
  <2> QED BY <1>1, <2>1
<1>3. \A a \in D : T[a] \in TagRec
  BY <1>1
<1>4. \A a \in D : C(a) \in TagRec
  <2>1. l \in Nat /\ T[t] \in TagRec /\ T[l] \in TagRec
    BY <1>1
  <2>2. T[t].real_size \in Nat /\ T[l].real_size \in Nat /\ T[t].split_right \in Nat
    BY <2>1 DEF TagRec
  <2>3. T[l].real_size + T[t].real_size \in Nat
    BY <2>2
  <2>4. [T[l] EXCEPT !.real_size = @ + T[t].real_size, !.split_right = T[t].split_right] \in TagRec
    BY <2>1, <2>2, <2>3 DEF TagRec
  <2>5. \A a \in D : [T[a] EXCEPT !.split_left = l] \in TagRec
    BY <1>3, <2>1 DEF TagRec
  <2> QED BY <1>3, <2>4, <2>5
<1>5. tag \in [D \ {t} -> TagRec] /\ DOMAIN tag = D \ {t} /\ \A a \in D \ {t} : tag[a] = C(a)
  BY <1>4
<1>6. IsFiniteSet(D \ {t})
  BY <1>1, FS_RemoveElement
<1>7. Shape(g)
  BY <1>1, <1>5, <1>6 DEF Shape
<1>8. \A a \in DOMAIN g.tag : g.tag[a].size = hp.tag[a].size
  BY <1>3, <1>5 DEF TagRec
<1>9. SameLists(g, hp, DOMAIN g.tag)
  BY <1>3, <1>5 DEF SameLists, TagRec
<1>10. /\ g.tag[l].real_size = hp.tag[l].real_size + hp.tag[t].real_size
       /\ g.tag[l].split_right = hp.tag[t].split_right
       /\ g.tag[l].split_left = hp.tag[l].split_left
  BY <1>3, <1>5 DEF TagRec
<1>11. \A a \in D \ {t, l} :
       /\ g.tag[a].real_size = hp.tag[a].real_size
       /\ g.tag[a].split_right = hp.tag[a].split_right
       /\ g.tag[a].split_left = IF a = hp.tag[t].split_right THEN l ELSE hp.tag[a].split_left
  BY <1>3, <1>5 DEF TagRec
<1>12. g.l_completePages = hp.l_completePages /\ DOMAIN g.tag = D \ {t}
  BY <1>5
<1> HIDE DEF g
<1> QED BY <1>2, <1>7, <1>8, <1>9, <1>10, <1>11, <1>12 DEF Joined

(* A new tag stands behind the n bytes of tag t. *)
CutOff(g, hp, t, n) ==
  /\ Shape(g)
  /\ t + TagSize + n \notin DOMAIN hp.tag
  /\ DOMAIN g.tag = DOMAIN hp.tag \cup {t + TagSize + n}
  /\ SameLists(g, hp, DOMAIN hp.tag) /\ g.l_completePages = hp.l_completePages
  /\ \A a \in DOMAIN hp.tag : g.tag[a].size = hp.tag[a].size
  /\ LET new == t + TagSize + n
     IN /\ g.tag[new].real_size = hp.tag[t].real_size - TagSize - n
        /\ g.tag[new].split_left = t /\ g.tag[new].split_right = hp.tag[t].split_right
        /\ g.tag[new].index = -1 /\ g.tag[new].next = NULL /\ g.tag[new].prev = NULL
        /\ g.tag[t].real_size = TagSize + n /\ g.tag[t].split_right = new
        /\ g.tag[t].split_left = hp.tag[t].split_left
        /\ \A a \in DOMAIN hp.tag \ {t} :
             /\ g.tag[a].real_size = hp.tag[a].real_size
             /\ g.tag[a].split_right = hp.tag[a].split_right
             /\ g.tag[a].split_left = IF a = hp.tag[t].split_right THEN new
                                      ELSE hp.tag[a].split_left

(* The part of split_tag before the new tag is put into a list. *)
CutTag(hp, t) ==
  LET T   == hp.tag
      new == t + TagSize + T[t].size
      n   == [size |-> 0, real_size |-> T[t].real_size - TagSize - T[t].size, index |-> -1,
              split_left |-> t, split_right |-> T[t].split_right,
              next |-> NULL, prev |-> NULL]
  IN [hp EXCEPT
        !.tag = [a \in DOMAIN T \cup {new} |->
           IF a = new THEN n
           ELSE IF a = t THEN [T[a] EXCEPT !.split_right = new,
                                           !.real_size = @ - n.real_size]
           ELSE IF a = n.split_right THEN [T[a] EXCEPT !.split_left = new]
           ELSE T[a]]]

(* split_tag cuts off the rest and inserts it. *)
LEMMA SplitIs ==
  ASSUME NEW hp, NEW t
  PROVE  split_tag(hp, t) = insert_tag(CutTag(hp, t), t + TagSize + hp.tag[t].size, -1)
BY DEF split_tag, CutTag

(* What is cut off is a tag of its own, between the block and its          *)
(* neighbour.                                                              *)
LEMMA CutIs ==
  ASSUME NEW hp, Shape(hp), Tiled(hp), NEW t \in DOMAIN hp.tag,
         hp.tag[t].real_size - hp.tag[t].size - 2 * TagSize > 0
  PROVE  CutOff(CutTag(hp, t), hp, t, hp.tag[t].size)
<1> DEFINE D == DOMAIN hp.tag
           T == hp.tag
           new == t + TagSize + T[t].size
           n   == [size |-> 0, real_size |-> T[t].real_size - TagSize - T[t].size, index |-> -1,
                   split_left |-> t, split_right |-> T[t].split_right,
                   next |-> NULL, prev |-> NULL]
           C(a) == IF a = new THEN n
                   ELSE IF a = t THEN [T[a] EXCEPT !.split_right = new,
                                                   !.real_size = @ - n.real_size]
                   ELSE IF a = n.split_right THEN [T[a] EXCEPT !.split_left = new]
                   ELSE T[a]
           tag == [a \in D \cup {new} |-> C(a)]
           g == [tag |-> tag, l_freePages |-> hp.l_freePages,
                 l_completePages |-> hp.l_completePages]
<1>1. /\ hp \in [tag : [D -> TagRec], l_freePages : [Exps -> Nat],
                 l_completePages : [Exps -> Int]]
      /\ D \subseteq Nat \ {NULL} /\ IsFiniteSet(D)
  BY DEF Shape
<1>2. CutTag(hp, t) = g
  <2>1. CutTag(hp, t) = [hp EXCEPT !.tag = tag]
    BY DEF CutTag
  <2> HIDE DEF tag
  <2> QED BY <1>1, <2>1
<1>3. \A a \in D : T[a] \in TagRec
  BY <1>1
<1>0. /\ t \in Nat /\ T[t].size \in Nat /\ T[t].real_size \in Nat /\ T[t].split_right \in Nat
      /\ new \in Nat /\ new # NULL /\ new > t /\ new < t + T[t].real_size
      /\ n.real_size \in Nat /\ T[t].real_size - n.real_size = TagSize + T[t].size
  BY <1>1, <1>3, Given DEF TagRec
<1>a. new \notin D
  <2> HIDE DEF new
  <2> QED BY <1>0, <1>1 DEF Tiled
<1>b. n \in TagRec
  BY <1>0, Given DEF TagRec
<1>4. \A a \in D \cup {new} : C(a) \in TagRec
  <2> HIDE DEF new, n
  <2>1. \A a \in D : [T[a] EXCEPT !.split_left = new] \in TagRec
    BY <1>0, <1>3 DEF TagRec
  <2>2. [T[t] EXCEPT !.split_right = new, !.real_size = @ - n.real_size] \in TagRec
    <3>1. T[t].real_size - n.real_size \in Nat
      BY <1>0, Given
    <3> QED BY <1>0, <1>3, <3>1 DEF TagRec
  <2> QED BY <1>b, <1>3, <2>1, <2>2
<1>5. /\ tag \in [D \cup {new} -> TagRec] /\ DOMAIN tag = D \cup {new}
      /\ \A a \in D \cup {new} : tag[a] = C(a)
  <2> HIDE DEF C
  <2> QED BY <1>4
<1>6. IsFiniteSet(D \cup {new})
  BY <1>1, FS_AddElement
<1>7. Shape(g)
  <2> HIDE DEF tag, new
  <2> QED BY <1>0, <1>1, <1>5, <1>6 DEF Shape
<1>8. tag[new] = n /\ tag[t] = [T[t] EXCEPT !.split_right = new, !.real_size = @ - n.real_size]
  <2> HIDE DEF n, new
  <2> QED BY <1>5, <1>a
<1>9. \A a \in D \ {t} : tag[a] = IF a = T[t].split_right THEN [T[a] EXCEPT !.split_left = new]
                                  ELSE T[a]
  <2>1. n.split_right = T[t].split_right
    OBVIOUS
  <2> HIDE DEF n, new
  <2> QED BY <1>5, <1>a, <2>1
<1> HIDE DEF tag, C
<1>10. /\ tag[new].real_size = T[t].real_size - TagSize - T[t].size
       /\ tag[new].split_left = t /\ tag[new].split_right = T[t].split_right
       /\ tag[new].index = -1 /\ tag[new].next = NULL /\ tag[new].prev = NULL
  BY <1>8
<1>11. /\ tag[t].real_size = TagSize + T[t].size /\ tag[t].split_right = new
       /\ tag[t].split_left = T[t].split_left /\ tag[t].size = T[t].size
       /\ tag[t].index = T[t].index /\ tag[t].next = T[t].next /\ tag[t].prev = T[t].prev
  <2> HIDE DEF new, n
  <2> QED BY <1>8, <1>0, <1>3 DEF TagRec
<1>12. \A a \in D \ {t} :
         /\ tag[a].real_size = T[a].real_size /\ tag[a].split_right = T[a].split_right
         /\ tag[a].split_left = IF a = T[t].split_right THEN new ELSE T[a].split_left
         /\ tag[a].size = T[a].size
         /\ tag[a].index = T[a].index /\ tag[a].next = T[a].next /\ tag[a].prev = T[a].prev
  <2> HIDE DEF new, n
  <2> QED BY <1>9, <1>3 DEF TagRec
<1>13. SameLists(g, hp, D)
  BY <1>11, <1>12 DEF SameLists
<1>14. \A a \in D : tag[a].size = T[a].size
  BY <1>11, <1>12
<1>15. /\ g.tag = tag /\ g.l_completePages = hp.l_completePages
  OBVIOUS
<1> HIDE DEF g, n
<1> QED BY <1>2, <1>a, <1>5, <1>7, <1>10, <1>11, <1>12, <1>13, <1>14, <1>15 DEF CutOff

(* Nothing but sizes, or but counts, is different. *)
Alike(g, hp) ==
  /\ Shape(g) /\ SameGeometry(g, hp) /\ SameLists(g, hp, DOMAIN hp.tag)

(* To set the size of a block changes nothing else. *)
LEMMA SizeIs ==
  ASSUME NEW hp, Shape(hp), NEW t \in DOMAIN hp.tag, NEW n \in Nat,
         NEW g, g = [hp EXCEPT !.tag[t].size = n]
  PROVE  /\ Alike(g, hp) /\ g.l_completePages = hp.l_completePages
         /\ g.tag[t].size = n
         /\ \A a \in DOMAIN hp.tag \ {t} : g.tag[a].size = hp.tag[a].size
<1> DEFINE D == DOMAIN hp.tag
           T == hp.tag
           tag == [T EXCEPT ![t].size = n]
<1>1. /\ hp \in [tag : [D -> TagRec], l_freePages : [Exps -> Nat],
                 l_completePages : [Exps -> Int]]
      /\ D \subseteq Nat \ {NULL} /\ IsFiniteSet(D)
  BY DEF Shape
<1>2. g = [tag |-> tag, l_freePages |-> hp.l_freePages,
           l_completePages |-> hp.l_completePages]
  <2>1. g = [hp EXCEPT !.tag = tag]
    BY <1>1
  <2> HIDE DEF tag
  <2> QED BY <1>1, <2>1
<1>3. \A a \in D : T[a] \in TagRec
  BY <1>1
<1>4. tag \in [D -> TagRec] /\ DOMAIN tag = D
  BY <1>1, <1>3 DEF TagRec
<1>5. tag[t] = [T[t] EXCEPT !.size = n] /\ \A a \in D \ {t} : tag[a] = T[a]
  BY <1>1
<1> HIDE DEF tag
<1>6. /\ g.tag = tag /\ g.l_freePages = hp.l_freePages
      /\ g.l_completePages = hp.l_completePages
  BY <1>2
<1>7. Shape(g)
  BY <1>1, <1>2, <1>4 DEF Shape
<1>8. /\ tag[t].size = n /\ tag[t].real_size = T[t].real_size
      /\ tag[t].split_left = T[t].split_left /\ tag[t].split_right = T[t].split_right
      /\ tag[t].index = T[t].index /\ tag[t].next = T[t].next /\ tag[t].prev = T[t].prev
  BY <1>5, <1>3 DEF TagRec
<1> QED BY <1>4, <1>5, <1>6, <1>7, <1>8 DEF Alike, SameGeometry, SameLists

(* To set a count changes nothing else. *)
LEMMA CountIs ==
  ASSUME NEW hp, Shape(hp), NEW i \in Exps, NEW n \in Int,
         NEW g, g = [hp EXCEPT !.l_completePages[i] = n]
  PROVE  /\ Alike(g, hp) /\ g.tag = hp.tag
         /\ g.l_completePages[i] = n
         /\ \A j \in Exps \ {i} : g.l_completePages[j] = hp.l_completePages[j]
BY DEF Shape, Alike, SameGeometry, SameLists

(* A tag of its own at the address t, the start of new pages. *)
Fresh(g, hp, t, n, size) ==
  /\ Shape(g) /\ DOMAIN g.tag = DOMAIN hp.tag \cup {t}
  /\ g.l_freePages = hp.l_freePages /\ g.l_completePages = hp.l_completePages
  /\ \A a \in DOMAIN hp.tag : g.tag[a] = hp.tag[a]
  /\ g.tag[t].real_size = n /\ g.tag[t].size = size
  /\ g.tag[t].split_left = NULL /\ g.tag[t].split_right = NULL
  /\ g.tag[t].index = -1 /\ g.tag[t].next = NULL /\ g.tag[t].prev = NULL

(* allocate_new_tag adds one tag, for a whole run. *)
LEMMA FreshIs ==
  ASSUME NEW hp, Shape(hp), NEW v \in Nat \ {0}, NEW size \in Nat,
         PagesFor(size + TagSize) \in Nat, v * l_pageSize \notin DOMAIN hp.tag
  PROVE  Fresh(allocate_new_tag(hp, v, size), hp, v * l_pageSize,
               PagesFor(size + TagSize) * l_pageSize, size)
<1> DEFINE D == DOMAIN hp.tag
           T == hp.tag
           t == v * l_pageSize
           n == PagesFor(size + TagSize) * l_pageSize
           N == [size |-> size, real_size |-> n,
                 index |-> -1, split_left |-> NULL, split_right |-> NULL,
                 next |-> NULL, prev |-> NULL]
           tag == [a \in D \cup {t} |-> IF a = t THEN N ELSE T[a]]
           g == [tag |-> tag, l_freePages |-> hp.l_freePages,
                 l_completePages |-> hp.l_completePages]
<1>1. /\ hp \in [tag : [D -> TagRec], l_freePages : [Exps -> Nat],
                 l_completePages : [Exps -> Int]]
      /\ D \subseteq Nat \ {NULL} /\ IsFiniteSet(D)
  BY DEF Shape
<1>2. allocate_new_tag(hp, v, size) = g
  <2>1. allocate_new_tag(hp, v, size) = [hp EXCEPT !.tag = tag]
    BY DEF allocate_new_tag
  <2> HIDE DEF tag
  <2> QED BY <1>1, <2>1
<1>3. n \in Nat /\ t \in Nat \ {NULL}
  BY Given
<1> HIDE DEF n, t
<1>4. N \in TagRec
  BY <1>3, Given DEF TagRec
<1> HIDE DEF N
<1>5. /\ tag \in [D \cup {t} -> TagRec] /\ DOMAIN tag = D \cup {t} /\ tag[t] = N
      /\ \A a \in D : tag[a] = T[a]
  <2>1. t \notin D
    BY DEF t
  <2> QED BY <1>1, <1>4, <2>1
<1>6. IsFiniteSet(D \cup {t})
  BY <1>1, FS_AddElement
<1>7. Shape(g)
  <2> HIDE DEF tag
  <2> QED BY <1>1, <1>3, <1>5, <1>6 DEF Shape
<1>8. /\ g.l_freePages = hp.l_freePages /\ g.l_completePages = hp.l_completePages
      /\ g.tag = tag
  OBVIOUS
<1> HIDE DEF g, tag
<1>9. Fresh(g, hp, t, n, size)
  BY <1>5, <1>7, <1>8 DEF Fresh, N
<1> QED BY <1>2, <1>9 DEF t, n

-----------------------------------------------------------------------------
(* The lists *)

(* The types of the fields of a tag. *)
LEMMA Fields ==
  ASSUME NEW hp, Shape(hp), NEW t \in DOMAIN hp.tag
  PROVE  /\ t \in Nat /\ t # NULL
         /\ hp.tag[t].size \in Nat /\ hp.tag[t].real_size \in Nat
         /\ hp.tag[t].index \in {-1} \cup Exps
         /\ hp.tag[t].split_left \in Nat /\ hp.tag[t].split_right \in Nat
         /\ hp.tag[t].next \in Nat /\ hp.tag[t].prev \in Nat
<1>1. hp.tag[t] \in TagRec
  BY DEF Shape
<1> QED BY <1>1 DEF Shape, TagRec

(* -1 is not a class. *)
LEMMA NotExp == -1 \notin Exps /\ \A i \in Exps : i \in Int /\ i # -1 /\ i >= 0
BY Given DEF Exps

(* Tags that are in no list may come and go. *)
LEMMA ListsKept ==
  ASSUME NEW hp, Linked(hp), NEW g, g.l_freePages = hp.l_freePages,
         \A a \in DOMAIN hp.tag \cap DOMAIN g.tag :
           /\ g.tag[a].index = hp.tag[a].index
           /\ g.tag[a].next = hp.tag[a].next
           /\ g.tag[a].prev = hp.tag[a].prev,
         \A a \in DOMAIN hp.tag \ DOMAIN g.tag : hp.tag[a].index = -1,
         \A a \in DOMAIN g.tag \ DOMAIN hp.tag :
           g.tag[a].index = -1 /\ g.tag[a].next = NULL /\ g.tag[a].prev = NULL
  PROVE  Linked(g)
<1>1. \A i \in Exps : hp.l_freePages[i] # NULL =>
        hp.l_freePages[i] \in DOMAIN hp.tag \cap DOMAIN g.tag
  BY NotExp DEF Linked
<1>2. ASSUME NEW t \in DOMAIN g.tag \cap DOMAIN hp.tag, hp.tag[t].index = -1
      PROVE  hp.tag[t].next = NULL /\ hp.tag[t].prev = NULL
  BY <1>2 DEF Linked
<1>3. ASSUME NEW t \in DOMAIN g.tag \cap DOMAIN hp.tag, hp.tag[t].index # -1
      PROVE  /\ hp.tag[t].next # NULL => hp.tag[t].next \in DOMAIN hp.tag \cap DOMAIN g.tag
             /\ hp.tag[t].prev # NULL => hp.tag[t].prev \in DOMAIN hp.tag \cap DOMAIN g.tag
  BY <1>3 DEF Linked
<1>4. \A i \in Exps : g.l_freePages[i] # NULL =>
       /\ g.l_freePages[i] \in DOMAIN g.tag
       /\ g.tag[g.l_freePages[i]].index = i
       /\ g.tag[g.l_freePages[i]].prev = NULL
  BY <1>1 DEF Linked
<1>5. ASSUME NEW t \in DOMAIN g.tag
      PROVE
       /\ g.tag[t].next # NULL =>
            /\ g.tag[t].next \in DOMAIN g.tag
            /\ g.tag[g.tag[t].next].prev = t
            /\ g.tag[g.tag[t].next].index = g.tag[t].index
       /\ g.tag[t].prev # NULL =>
            /\ g.tag[t].prev \in DOMAIN g.tag
            /\ g.tag[g.tag[t].prev].next = t
            /\ g.tag[g.tag[t].prev].index = g.tag[t].index
       /\ g.tag[t].index # -1 /\ g.tag[t].prev = NULL =>
            g.l_freePages[g.tag[t].index] = t
       /\ g.tag[t].index = -1 => g.tag[t].next = NULL /\ g.tag[t].prev = NULL
  <2>1. CASE t \notin DOMAIN hp.tag
    BY <2>1
  <2>2. CASE t \in DOMAIN hp.tag /\ hp.tag[t].index = -1
    BY <2>2, <1>2
  <2>3. CASE t \in DOMAIN hp.tag /\ hp.tag[t].index # -1
    BY <2>3, <1>3 DEF Linked
  <2> QED BY <2>1, <2>2, <2>3
<1> QED BY <1>4, <1>5 DEF Linked

(* remove_tag keeps the lists linked both ways. *)
LEMMA RemoveLinked ==
  ASSUME NEW hp, Shape(hp), Linked(hp), NEW t \in DOMAIN hp.tag,
         hp.tag[t].index \in Exps, NEW g, Removed(g, hp, t)
  PROVE  Linked(g)
<1> DEFINE T == hp.tag
           D == DOMAIN hp.tag
           nx == T[t].next
           pv == T[t].prev
<1>0. DOMAIN g.tag = D /\ t # NULL
  BY Fields DEF Removed, SameGeometry
<1>1. /\ T[t].index # -1
      /\ nx # NULL => nx \in D /\ T[nx].prev = t /\ T[nx].index = T[t].index
      /\ pv # NULL => pv \in D /\ T[pv].next = t /\ T[pv].index = T[t].index
      /\ pv = NULL => hp.l_freePages[T[t].index] = t
  BY NotExp DEF Linked
<1>2. hp.l_freePages[T[t].index] = t => pv = NULL
  BY <1>0 DEF Linked
<1>3. \A a \in D \ {t} :
        /\ g.tag[a].index = T[a].index
        /\ g.tag[a].next = IF a = pv THEN nx ELSE T[a].next
        /\ g.tag[a].prev = IF a = nx THEN pv ELSE T[a].prev
  BY DEF Removed
<1>4. g.tag[t].index = -1 /\ g.tag[t].next = NULL /\ g.tag[t].prev = NULL
  BY DEF Removed
<1>5. ASSUME NEW i \in Exps, g.l_freePages[i] # NULL
      PROVE  /\ g.l_freePages[i] \in D
             /\ g.tag[g.l_freePages[i]].index = i
             /\ g.tag[g.l_freePages[i]].prev = NULL
  <2>1. CASE i = T[t].index /\ hp.l_freePages[i] = t
    <3>1. g.l_freePages[i] = nx
      BY <2>1 DEF Removed
    <3>2. pv = NULL /\ nx # t
      BY <2>1, <1>2, <1>1, <1>0
    <3> QED BY <3>1, <3>2, <2>1, <1>5, <1>1, <1>3
  <2>2. CASE ~(i = T[t].index /\ hp.l_freePages[i] = t)
    <3>1. g.l_freePages[i] = hp.l_freePages[i]
      BY <2>2 DEF Removed
    <3> DEFINE f == hp.l_freePages[i]
    <3>2. f \in D /\ T[f].index = i /\ T[f].prev = NULL
      BY <3>1, <1>5 DEF Linked
    <3>3. f # t /\ f # nx
      BY <3>1, <3>2, <2>2, <1>1, <1>0, <1>5
    <3> QED BY <3>1, <3>2, <3>3, <1>3
  <2> QED BY <2>1, <2>2
<1>6. ASSUME NEW a \in D \ {t}, g.tag[a].next # NULL
      PROVE  /\ g.tag[a].next \in D
             /\ g.tag[g.tag[a].next].prev = a
             /\ g.tag[g.tag[a].next].index = g.tag[a].index
  <2>1. CASE a = pv
    <3>1. g.tag[a].next = nx /\ nx # NULL
      BY <2>1, <1>3, <1>6
    <3>2. a # NULL
      BY Fields
    <3>3. nx # t
      BY <3>1, <2>1, <1>1
    <3> QED BY <3>1, <3>2, <3>3, <2>1, <1>1, <1>3
  <2>2. CASE a # pv
    <3> DEFINE b == T[a].next
    <3>1. g.tag[a].next = b /\ b # NULL
      BY <2>2, <1>3, <1>6
    <3>2. b \in D /\ T[b].prev = a /\ T[b].index = T[a].index
      BY <3>1 DEF Linked
    <3>3. b # t
      BY <3>2, <2>2
    <3>4. b # nx
      BY <3>2, <3>1, <1>1
    <3> QED BY <3>1, <3>2, <3>3, <3>4, <1>3
  <2> QED BY <2>1, <2>2
<1>7. ASSUME NEW a \in D \ {t}, g.tag[a].prev # NULL
      PROVE  /\ g.tag[a].prev \in D
             /\ g.tag[g.tag[a].prev].next = a
             /\ g.tag[g.tag[a].prev].index = g.tag[a].index
  <2>1. CASE a = nx
    <3>1. g.tag[a].prev = pv /\ pv # NULL
      BY <2>1, <1>3, <1>7
    <3>2. a # NULL
      BY Fields
    <3>3. pv # t
      BY <3>1, <2>1, <1>1
    <3> QED BY <3>1, <3>2, <3>3, <2>1, <1>1, <1>3
  <2>2. CASE a # nx
    <3> DEFINE b == T[a].prev
    <3>1. g.tag[a].prev = b /\ b # NULL
      BY <2>2, <1>3, <1>7
    <3>2. b \in D /\ T[b].next = a /\ T[b].index = T[a].index
      BY <3>1 DEF Linked
    <3>3. b # t
      BY <3>2, <2>2
    <3>4. b # pv
      BY <3>2, <3>1, <1>1
    <3> QED BY <3>1, <3>2, <3>3, <3>4, <1>3
  <2> QED BY <2>1, <2>2
<1>8. ASSUME NEW a \in D \ {t}, g.tag[a].index # -1, g.tag[a].prev = NULL
      PROVE  g.l_freePages[g.tag[a].index] = a
  <2>0. T[a].index # -1 /\ T[a].index \in Exps /\ g.tag[a].index = T[a].index /\ a # NULL
    BY <1>3, <1>8, Fields
  <2>1. CASE a = nx
    <3>1. pv = NULL /\ T[a].index = T[t].index
      BY <2>0, <2>1, <1>1, <1>3, <1>8
    <3> QED BY <3>1, <1>1, <2>0, <2>1 DEF Removed
  <2>2. CASE a # nx
    <3>1. T[a].prev = NULL
      BY <2>2, <1>3, <1>8
    <3>2. hp.l_freePages[T[a].index] = a
      BY <2>0, <3>1 DEF Linked
    <3> QED BY <3>2, <2>0 DEF Removed
  <2> QED BY <2>1, <2>2
<1>9. ASSUME NEW a \in D \ {t}, g.tag[a].index = -1
      PROVE  g.tag[a].next = NULL /\ g.tag[a].prev = NULL
  <2>1. T[a].index = -1 /\ T[a].next = NULL /\ T[a].prev = NULL
    BY <1>3, <1>9 DEF Linked
  <2>2. a # pv /\ a # nx
    BY <2>1, <1>1, Fields
  <2> QED BY <2>1, <2>2, <1>3
<1> QED BY <1>0, <1>4, <1>5, <1>6, <1>7, <1>8, <1>9 DEF Linked

(* insert_tag keeps the lists linked both ways, because the tag that comes *)
(* in has no links of its own.                                             *)
LEMMA InsertLinked ==
  ASSUME NEW hp, Shape(hp), Linked(hp), NEW t \in DOMAIN hp.tag,
         hp.tag[t].index = -1, NEW i \in Exps, NEW g, Inserted(g, hp, t, i)
  PROVE  Linked(g)
<1> DEFINE T == hp.tag
           D == DOMAIN hp.tag
           f == hp.l_freePages[i]
<1>0. DOMAIN g.tag = D /\ t # NULL
  BY Fields DEF Inserted, SameGeometry
<1>1. /\ T[t].next = NULL /\ T[t].prev = NULL
      /\ f # NULL => f \in D /\ T[f].index = i /\ T[f].prev = NULL /\ f # t
  BY NotExp DEF Linked
<1>2. \A a \in D \ {t} : /\ g.tag[a].index = T[a].index /\ g.tag[a].next = T[a].next
                         /\ g.tag[a].prev = IF a = f THEN t ELSE T[a].prev
  BY DEF Inserted
<1>3. /\ g.tag[t].index = i /\ g.tag[t].prev = NULL /\ g.tag[t].next = f
      /\ \A j \in Exps : g.l_freePages[j] = IF j = i THEN t ELSE hp.l_freePages[j]
  BY <1>1 DEF Inserted
<1>5. ASSUME NEW j \in Exps, g.l_freePages[j] # NULL
      PROVE  /\ g.l_freePages[j] \in D
             /\ g.tag[g.l_freePages[j]].index = j
             /\ g.tag[g.l_freePages[j]].prev = NULL
  <2>1. CASE i = j
    BY <2>1, <1>3
  <2>2. CASE i # j
    <3> DEFINE e == hp.l_freePages[j]
    <3>1. e \in D /\ T[e].index = j /\ T[e].prev = NULL /\ g.l_freePages[j] = e
      BY <2>2, <1>3, <1>5 DEF Linked
    <3>2. e # t /\ e # f
      BY <3>1, <2>2, <1>1, <1>5, NotExp
    <3> QED BY <3>1, <3>2, <1>2
  <2> QED BY <2>1, <2>2
<1>6. ASSUME NEW a \in D, g.tag[a].next # NULL
      PROVE  /\ g.tag[a].next \in D
             /\ g.tag[g.tag[a].next].prev = a
             /\ g.tag[g.tag[a].next].index = g.tag[a].index
  <2>1. CASE a = t
    BY <2>1, <1>6, <1>1, <1>2, <1>3
  <2>2. CASE a # t
    <3> DEFINE b == T[a].next
    <3>1. g.tag[a].next = b /\ b # NULL
      BY <2>2, <1>2, <1>6
    <3>2. b \in D /\ T[b].prev = a /\ T[b].index = T[a].index
      BY <3>1 DEF Linked
    <3>3. b # t /\ b # f
      BY <3>1, <3>2, <1>1, Fields
    <3> QED BY <2>2, <3>1, <3>2, <3>3, <1>2
  <2> QED BY <2>1, <2>2
<1>7. ASSUME NEW a \in D, g.tag[a].prev # NULL
      PROVE  /\ g.tag[a].prev \in D
             /\ g.tag[g.tag[a].prev].next = a
             /\ g.tag[g.tag[a].prev].index = g.tag[a].index
  <2>1. CASE a = f /\ a # t
    <3>1. g.tag[a].prev = t /\ g.tag[t].next = a /\ a # NULL
      BY <2>1, <1>2, <1>3, Fields
    <3> QED BY <3>1, <2>1, <1>1, <1>2, <1>3
  <2>2. CASE a # f \/ a = t
    <3> DEFINE b == T[a].prev
    <3>0. a # t
      BY <1>3, <1>7
    <3>1. g.tag[a].prev = b /\ b # NULL
      BY <2>2, <3>0, <1>2, <1>7
    <3>2. b \in D /\ T[b].next = a /\ T[b].index = T[a].index
      BY <3>1 DEF Linked
    <3>3. b # t
      BY <3>2, <1>1, Fields
    <3> QED BY <3>0, <3>1, <3>2, <3>3, <1>2
  <2> QED BY <2>1, <2>2
<1>8. ASSUME NEW a \in D, g.tag[a].index # -1, g.tag[a].prev = NULL
      PROVE  g.l_freePages[g.tag[a].index] = a
  <2>1. CASE a = t
    BY <2>1, <1>3
  <2>2. CASE a # t
    <3>1. a # f /\ T[a].prev = NULL /\ T[a].index # -1 /\ g.tag[a].index = T[a].index
          /\ T[a].index \in Exps
      BY <2>2, <1>0, <1>2, <1>8, Fields
    <3>2. hp.l_freePages[T[a].index] = a
      BY <3>1 DEF Linked
    <3> QED BY <3>1, <3>2, <1>3
  <2> QED BY <2>1, <2>2
<1>9. ASSUME NEW a \in D, g.tag[a].index = -1
      PROVE  g.tag[a].next = NULL /\ g.tag[a].prev = NULL
  <2>1. a # t
    BY <1>3, <1>9, NotExp
  <2>2. T[a].index = -1 /\ T[a].next = NULL /\ T[a].prev = NULL
    BY <2>1, <1>2, <1>9 DEF Linked
  <2>3. a # f
    BY <2>2, <1>1, NotExp, Fields
  <2> QED BY <2>1, <2>2, <2>3, <1>2
<1> QED BY <1>0, <1>5, <1>6, <1>7, <1>8, <1>9 DEF Linked

(* A list ends: there is a rank that falls along it. *)
Ranked(hp) ==
  \E rank \in [Nat -> Nat] : \A t \in DOMAIN hp.tag :
    hp.tag[t].next # NULL => rank[hp.tag[t].next] < rank[t]

(* Ranks stay good when links are only taken away. *)
LEMMA RanksKept ==
  ASSUME NEW hp, Ranked(hp), NEW g,
         \A a \in DOMAIN g.tag : g.tag[a].next = NULL
           \/ (a \in DOMAIN hp.tag /\ g.tag[a].next = hp.tag[a].next)
  PROVE  Ranked(g)
<1>1. PICK rank \in [Nat -> Nat] : \A t \in DOMAIN hp.tag :
             hp.tag[t].next # NULL => rank[hp.tag[t].next] < rank[t]
  BY DEF Ranked
<1>2. \A t \in DOMAIN g.tag : g.tag[t].next # NULL => rank[g.tag[t].next] < rank[t]
  BY <1>1
<1> QED BY <1>2 DEF Ranked

(* remove_tag makes no circle. *)
LEMMA RemoveRanked ==
  ASSUME NEW hp, Shape(hp), Linked(hp), Ranked(hp), NEW t \in DOMAIN hp.tag,
         NEW g, Removed(g, hp, t)
  PROVE  Ranked(g)
<1>1. PICK rank \in [Nat -> Nat] : \A a \in DOMAIN hp.tag :
             hp.tag[a].next # NULL => rank[hp.tag[a].next] < rank[a]
  BY DEF Ranked
<1>2. ASSUME NEW a \in DOMAIN g.tag, g.tag[a].next # NULL
      PROVE  rank[g.tag[a].next] < rank[a]
  <2>1. a \in DOMAIN hp.tag \ {t} /\ a # NULL /\ a \in Nat /\ t \in Nat
    BY <1>2, Fields DEF Removed, SameGeometry
  <2>2. CASE a = hp.tag[t].prev
    <3>1. g.tag[a].next = hp.tag[t].next
      BY <2>1, <2>2 DEF Removed
    <3>2. hp.tag[a].next = t /\ t # NULL
      BY <2>1, <2>2, Fields DEF Linked
    <3>3. rank[t] < rank[a] /\ rank[hp.tag[t].next] < rank[t]
      BY <3>1, <3>2, <2>1, <1>1, <1>2
    <3>4. hp.tag[t].next \in Nat
      BY Fields
    <3> QED BY <3>1, <3>3, <3>4, <2>1
  <2>3. CASE a # hp.tag[t].prev
    <3>1. g.tag[a].next = hp.tag[a].next
      BY <2>1, <2>3 DEF Removed
    <3> QED BY <3>1, <2>1, <1>1, <1>2
  <2> QED BY <2>2, <2>3
<1> QED BY <1>2 DEF Ranked

(* insert_tag makes no circle. *)
LEMMA InsertRanked ==
  ASSUME NEW hp, Shape(hp), Linked(hp), Ranked(hp), NEW t \in DOMAIN hp.tag,
         hp.tag[t].index = -1, NEW i \in Exps, NEW g, Inserted(g, hp, t, i)
  PROVE  Ranked(g)
<1>1. PICK rank \in [Nat -> Nat] : \A a \in DOMAIN hp.tag :
             hp.tag[a].next # NULL => rank[hp.tag[a].next] < rank[a]
  BY DEF Ranked
<1> DEFINE f == hp.l_freePages[i]
           r == [rank EXCEPT ![t] = rank[f] + 1]
<1>2. t \in Nat /\ t # NULL /\ f \in Nat /\ hp.tag[t].next = NULL /\ hp.tag[t].prev = NULL
  BY Fields DEF Linked, Shape
<1>3. r \in [Nat -> Nat] /\ r[t] = rank[f] + 1 /\ \A a \in Nat \ {t} : r[a] = rank[a]
  BY <1>2
<1>4. f # t
  BY <1>2, NotExp DEF Linked
<1>5. ASSUME NEW a \in DOMAIN g.tag, g.tag[a].next # NULL
      PROVE  r[g.tag[a].next] < r[a]
  <2>1. a \in DOMAIN hp.tag /\ a \in Nat
    BY Fields DEF Inserted, SameGeometry
  <2>2. CASE a = t
    <3>1. g.tag[a].next = f
      BY <2>2, <1>2, <1>5 DEF Inserted
    <3> HIDE DEF r
    <3>2. rank[f] \in Nat
      BY <1>2
    <3> QED BY <3>1, <3>2, <2>2, <1>2, <1>3, <1>4
  <2>3. CASE a # t
    <3>1. g.tag[a].next = hp.tag[a].next
      BY <2>1, <2>3 DEF Inserted
    <3>2. hp.tag[a].next # t /\ hp.tag[a].next \in Nat
      BY <3>1, <2>1, <1>2, <1>5, Fields DEF Linked
    <3> HIDE DEF r
    <3> QED BY <3>1, <3>2, <2>1, <2>3, <1>1, <1>3, <1>5
  <2> QED BY <2>2, <2>3
<1> HIDE DEF r
<1> QED BY <1>3, <1>5 DEF Ranked

-----------------------------------------------------------------------------
(* The neighbours *)

(* Runs of pages as runs of bytes. *)
ByteRuns(R) ==
  /\ \A r \in R : Lo(r) \in Nat /\ Hi(r) \in Nat /\ Lo(r) < Hi(r)
  /\ \A r, q \in R : r # q => Hi(r) <= Lo(q) \/ Hi(q) <= Lo(r)

(* To multiply keeps the order. *)
LEMMA Scale ==
  ASSUME NEW a \in Nat, NEW b \in Nat, NEW c \in Nat, a <= b
  PROVE  a * c \in Nat /\ b * c \in Nat /\ a * c <= b * c
OBVIOUS

(* To multiply by a positive number keeps the strict order. *)
LEMMA ScaleStrict ==
  ASSUME NEW a \in Nat, NEW b \in Nat, NEW c \in Nat, c >= 1, a < b
  PROVE  a * c \in Nat /\ b * c \in Nat /\ a * c < b * c
<1>1. a + 1 <= b
  OBVIOUS
<1>2. (a + 1) * c <= b * c
  BY <1>1, Scale
<1>3. (a + 1) * c = a * c + c
  OBVIOUS
<1>4. a * c \in Nat /\ b * c \in Nat
  OBVIOUS
<1> QED BY <1>2, <1>3, <1>4

(* Runs that share no page share no byte. *)
LEMMA RunsApart ==
  ASSUME NEW R, NEW P, RunsOK(R, P)
  PROVE  ByteRuns(R)
<1>1. ASSUME NEW r \in R
      PROVE  /\ r.first \in Nat /\ r.pages \in Nat /\ r.pages >= 1
             /\ Lo(r) \in Nat /\ Hi(r) \in Nat /\ Lo(r) < Hi(r)
  <2>1. r.first \in Nat /\ r.pages \in Nat /\ r.pages >= 1
    BY DEF RunsOK
  <2>2. r.first + r.pages \in Nat /\ r.first < r.first + r.pages
    BY <2>1
  <2> QED BY <2>1, <2>2, ScaleStrict, Given DEF Lo, Hi
<1>2. ASSUME NEW r \in R, NEW q \in R, r # q
      PROVE  Hi(r) <= Lo(q) \/ Hi(q) <= Lo(r)
  <2>1. /\ r.first \in Nat /\ r.pages \in Nat /\ r.pages >= 1
        /\ q.first \in Nat /\ q.pages \in Nat /\ q.pages >= 1
    BY <1>1
  <2>2. r.first + r.pages <= q.first \/ q.first + q.pages <= r.first
    <3>1. Run(r.first, r.pages) \cap Run(q.first, q.pages) = {}
      BY <1>2 DEF RunsOK
    <3>2. r.first \notin Run(q.first, q.pages) \/ r.first \notin Run(r.first, r.pages)
      BY <3>1
    <3>3. q.first \notin Run(q.first, q.pages) \/ q.first \notin Run(r.first, r.pages)
      BY <3>1
    <3> QED BY <2>1, <3>2, <3>3 DEF Run
  <2> QED BY <2>1, <2>2, Scale, Given DEF Lo, Hi
<1> QED BY <1>1, <1>2 DEF ByteRuns

(* Heaps that cut memory alike are tiled alike. *)
LEMMA GeometryKept ==
  ASSUME NEW hp, NEW g, SameGeometry(g, hp)
  PROVE  /\ Tiled(hp) => Tiled(g)
         /\ \A R : Covered(hp, R) => Covered(g, R)
<1>1. ASSUME Tiled(hp) PROVE Tiled(g)
  BY <1>1 DEF SameGeometry, Tiled
<1>2. ASSUME NEW R, Covered(hp, R) PROVE Covered(g, R)
  BY <1>2 DEF SameGeometry, Covered, Covers
<1> QED BY <1>1, <1>2

(* The run that covers a tag is the only one that reaches it. *)
LEMMA OneRun ==
  ASSUME NEW R, ByteRuns(R), NEW r \in R, NEW q \in R, NEW t \in Nat,
         Lo(r) <= t, t < Hi(r), Lo(q) <= t, t < Hi(q)
  PROVE  r = q
BY DEF ByteRuns

(* Memory stays tiled when two neighbours are joined. *)
LEMMA JoinTiled ==
  ASSUME NEW hp, Shape(hp), Tiled(hp), NEW R, ByteRuns(R), Covered(hp, R),
         NEW t \in DOMAIN hp.tag, NEW l \in DOMAIN hp.tag, hp.tag[l].split_right = t,
         NEW g, Joined(g, hp, l, t)
  PROVE  Tiled(g) /\ Covered(g, R)
<1> DEFINE T == hp.tag
           D == DOMAIN hp.tag
           u == T[t].split_right
<1>1. /\ t = l + T[l].real_size /\ T[t].split_left = l /\ t # NULL /\ l # NULL
      /\ T[l].real_size >= TagSize /\ T[t].real_size >= TagSize
      /\ t \in Nat /\ l \in Nat /\ l < t
      /\ T[l].real_size \in Nat /\ T[t].real_size \in Nat
  BY Fields, Given DEF Tiled
<1>2. u # NULL => /\ u \in D /\ u = t + T[t].real_size /\ T[u].split_left = t
                  /\ u # t /\ u # l /\ u > t
  <2>1. u # NULL => u \in D /\ u = t + T[t].real_size /\ T[u].split_left = t
    BY DEF Tiled
  <2> QED BY <2>1, <1>1, Given
<1>3. /\ DOMAIN g.tag = D \ {t}
      /\ g.tag[l].real_size = T[l].real_size + T[t].real_size
      /\ g.tag[l].split_right = u /\ g.tag[l].split_left = T[l].split_left
      /\ \A a \in D \ {t, l} : /\ g.tag[a].real_size = T[a].real_size
                               /\ g.tag[a].split_right = T[a].split_right
                               /\ g.tag[a].split_left = IF a = u THEN l ELSE T[a].split_left
  BY DEF Joined
<1>4. ASSUME NEW a \in D \ {t}
      PROVE  /\ g.tag[a].real_size >= TagSize
             /\ g.tag[a].split_right # NULL =>
                  /\ g.tag[a].split_right \in D \ {t}
                  /\ g.tag[a].split_right = a + g.tag[a].real_size
                  /\ g.tag[g.tag[a].split_right].split_left = a
  <2>1. CASE a = l
    <3>1. g.tag[a].real_size = T[l].real_size + T[t].real_size /\ g.tag[a].split_right = u
      BY <2>1, <1>3
    <3>2. g.tag[a].real_size >= TagSize
      BY <3>1, <1>1, Given
    <3>3. ASSUME u # NULL PROVE u \in D \ {t} /\ u = a + g.tag[a].real_size /\ g.tag[u].split_left = a
      BY <3>1, <3>3, <2>1, <1>1, <1>2, <1>3
    <3> QED BY <3>1, <3>2, <3>3
  <2>2. CASE a # l
    <3>1. g.tag[a].real_size = T[a].real_size /\ g.tag[a].split_right = T[a].split_right
      BY <2>2, <1>3
    <3> DEFINE b == T[a].split_right
    <3>2. ASSUME b # NULL PROVE b \in D \ {t} /\ b = a + T[a].real_size /\ g.tag[b].split_left = a
      <4>1. b \in D /\ b = a + T[a].real_size /\ T[b].split_left = a
        BY <3>2 DEF Tiled
      <4>2. b # t
        BY <4>1, <2>2, <1>1
      <4>3. b # u
        BY <4>1, <1>2, <3>2
      <4>4. b # l \/ g.tag[l].split_left = T[l].split_left
        BY <1>3
      <4> QED BY <4>1, <4>2, <4>3, <4>4, <1>3
    <3> QED BY <3>1, <3>2 DEF Tiled
  <2> QED BY <2>1, <2>2
<1>5. ASSUME NEW a \in D \ {t}, g.tag[a].split_left # NULL
      PROVE  /\ g.tag[a].split_left \in D \ {t}
             /\ g.tag[g.tag[a].split_left].split_right = a
  <2>1. CASE a = u
    <3>1. a # NULL
      BY Fields
    <3>2. a # l
      BY <2>1, <3>1, <1>2
    <3>3. g.tag[a].split_left = l
      BY <2>1, <3>2, <1>3
    <3> QED BY <3>3, <2>1, <1>1, <1>3
  <2>2. CASE a # u
    <3> DEFINE b == T[a].split_left
    <3>1. g.tag[a].split_left = b
      BY <2>2, <1>3
    <3>2. b \in D /\ T[b].split_right = a
      BY <3>1, <1>5 DEF Tiled
    <3>3. b # t /\ b # l
      BY <3>2, <2>2
    <3> QED BY <3>1, <3>2, <3>3, <1>3
  <2> QED BY <2>1, <2>2
<1>6. ASSUME NEW a \in D \ {t}, NEW b \in D \ {t}, a < b
      PROVE  a + g.tag[a].real_size <= b
  <2>0. a + T[a].real_size <= b /\ a \in Nat /\ b \in Nat /\ T[a].real_size \in Nat
    BY <1>6, Fields DEF Tiled
  <2>1. CASE a = l
    <3>1. t <= b
      BY <2>0, <2>1, <1>1
    <3>2. t < b
      BY <3>1, <2>0, <1>1
    <3>3. t + T[t].real_size <= b
      BY <3>2 DEF Tiled
    <3> QED BY <3>3, <2>0, <2>1, <1>1, <1>3
  <2>2. CASE a # l
    BY <2>0, <2>2, <1>3
  <2> QED BY <2>1, <2>2
<1>7. Tiled(g)
  BY <1>3, <1>4, <1>5, <1>6 DEF Tiled
<1>8. ASSUME NEW a \in D \ {t} PROVE \E r \in R : Covers(r, a, g.tag[a])
  <2>1. PICK r \in R : Covers(r, a, T[a])
    BY DEF Covered
  <2>2. CASE a = l
    <3>1. PICK q \in R : Covers(q, t, T[t])
      BY DEF Covered
    <3>2. Lo(r) \in Nat /\ Hi(r) \in Nat /\ Lo(q) \in Nat /\ Hi(q) \in Nat
      BY DEF ByteRuns
    <3>3. Lo(r) <= t /\ t <= Hi(r) /\ t # Hi(r)
      BY <3>2, <2>1, <2>2, <1>1 DEF Covers
    <3>4. Lo(q) <= t /\ t < Hi(q)
      BY <3>1, <3>2, <1>1, Given DEF Covers
    <3>5. t < Hi(r)
      BY <3>2, <3>3, <1>1
    <3>6. r = q
      BY <3>3, <3>4, <3>5, <1>1, OneRun
    <3>7. a + g.tag[a].real_size = t + T[t].real_size
      BY <2>2, <1>1, <1>3
    <3>8. Covers(r, a, g.tag[a])
      BY <3>6, <3>7, <3>1, <2>1, <2>2, <1>3 DEF Covers
    <3> QED BY <3>8
  <2>3. CASE a # l
    <3>1. a = u => T[a].split_left # NULL
      BY <1>1, <1>2, Fields
    <3>2. Covers(r, a, g.tag[a])
      BY <3>1, <2>1, <2>3, <1>1, <1>3 DEF Covers
    <3> QED BY <3>2
  <2> QED BY <2>2, <2>3
<1> QED BY <1>3, <1>7, <1>8 DEF Covered

(* Memory stays tiled when a block is split. *)
LEMMA CutTiled ==
  ASSUME NEW hp, Shape(hp), Tiled(hp), NEW R, ByteRuns(R), Covered(hp, R),
         NEW t \in DOMAIN hp.tag, NEW n \in Nat,
         hp.tag[t].real_size - n - 2 * TagSize > 0,
         NEW g, CutOff(g, hp, t, n)
  PROVE  Tiled(g) /\ Covered(g, R)
<1> DEFINE T == hp.tag
           D == DOMAIN hp.tag
           new == t + TagSize + n
           u == T[t].split_right
<1>1. /\ t \in Nat /\ t # NULL /\ T[t].real_size \in Nat
      /\ new \in Nat /\ new # NULL /\ t < new /\ new < t + T[t].real_size
      /\ t + (TagSize + n) = new
      /\ new + (T[t].real_size - TagSize - n) = t + T[t].real_size
      /\ T[t].real_size - TagSize - n >= TagSize /\ TagSize + n >= TagSize
      /\ T[t].real_size - TagSize - n \in Nat /\ TagSize + n \in Nat
  BY Fields, Given
<1>2. u # NULL => u \in D /\ u = t + T[t].real_size /\ T[u].split_left = t /\ u # t
  <2>1. u # NULL => u \in D /\ u = t + T[t].real_size /\ T[u].split_left = t
    BY DEF Tiled
  <2> QED BY <2>1, <1>1, Given
<1>3. /\ new \notin D /\ DOMAIN g.tag = D \cup {new}
      /\ g.tag[new].real_size = T[t].real_size - TagSize - n
      /\ g.tag[new].split_left = t /\ g.tag[new].split_right = u
      /\ g.tag[t].real_size = TagSize + n /\ g.tag[t].split_right = new
      /\ g.tag[t].split_left = T[t].split_left
      /\ \A a \in D \ {t} : /\ g.tag[a].real_size = T[a].real_size
                            /\ g.tag[a].split_right = T[a].split_right
                            /\ g.tag[a].split_left = IF a = u THEN new ELSE T[a].split_left
  BY DEF CutOff
<1> HIDE DEF new
<1>4. ASSUME NEW a \in D \cup {new}
      PROVE  /\ g.tag[a].real_size >= TagSize
             /\ g.tag[a].split_right # NULL =>
                  /\ g.tag[a].split_right \in D \cup {new}
                  /\ g.tag[a].split_right = a + g.tag[a].real_size
                  /\ g.tag[g.tag[a].split_right].split_left = a
  <2>1. CASE a = new
    BY <2>1, <1>1, <1>2, <1>3
  <2>2. CASE a = t
    BY <2>2, <1>1, <1>3
  <2>3. CASE a # t /\ a # new
    <3> DEFINE b == T[a].split_right
    <3>1. g.tag[a].real_size = T[a].real_size /\ g.tag[a].split_right = b /\ a \in D
      BY <2>3, <1>3
    <3>2. ASSUME b # NULL PROVE b \in D /\ b = a + T[a].real_size /\ g.tag[b].split_left = a
      <4>1. b \in D /\ b = a + T[a].real_size /\ T[b].split_left = a
        BY <3>1, <3>2 DEF Tiled
      <4>2. b # u
        BY <4>1, <3>2, <2>3, <1>2
      <4> QED BY <4>1, <4>2, <1>3
    <3> QED BY <3>1, <3>2 DEF Tiled
  <2> QED BY <2>1, <2>2, <2>3
<1>5. ASSUME NEW a \in D \cup {new}, g.tag[a].split_left # NULL
      PROVE  /\ g.tag[a].split_left \in D \cup {new}
             /\ g.tag[g.tag[a].split_left].split_right = a
  <2>1. CASE a = new
    BY <2>1, <1>3
  <2>2. CASE a # new /\ a = u
    <3>1. a # NULL /\ a # t
      BY <2>2, <1>2, Fields
    <3> QED BY <3>1, <2>2, <1>3
  <2>3. CASE a # new /\ a # u
    <3> DEFINE b == T[a].split_left
    <3>1. a \in D /\ g.tag[a].split_left = b
      BY <2>3, <1>3
    <3>2. b \in D /\ T[b].split_right = a
      BY <3>1, <1>5 DEF Tiled
    <3>3. b # t
      BY <3>2, <2>3
    <3> QED BY <3>1, <3>2, <3>3, <1>3
  <2> QED BY <2>1, <2>2, <2>3
<1>6. ASSUME NEW a \in D \cup {new}, NEW b \in D \cup {new}, a < b
      PROVE  a + g.tag[a].real_size <= b
  <2>1. CASE a = new
    <3>1. b \in D /\ b \in Nat
      BY <2>1, <1>6, <1>1, Fields
    <3>2. t < b
      BY <3>1, <2>1, <1>1, <1>6
    <3>3. t + T[t].real_size <= b
      BY <3>1, <3>2 DEF Tiled
    <3> QED BY <3>3, <2>1, <1>1, <1>3
  <2>2. CASE a = t
    <3>1. b \in D => t + T[t].real_size <= b /\ b \in Nat
      BY <2>2, <1>6, Fields DEF Tiled
    <3> QED BY <3>1, <2>2, <1>1, <1>3
  <2>3. CASE a # t /\ a # new
    <3>1. a \in D /\ a \in Nat /\ T[a].real_size \in Nat /\ g.tag[a].real_size = T[a].real_size
      BY <2>3, <1>3, Fields
    <3>2. CASE b \in D
      BY <3>1, <3>2, <1>6 DEF Tiled
    <3>3. CASE b = new
      <4>1. a < t
        <5> SUFFICES ASSUME t < a PROVE FALSE
          BY <3>1, <2>3, <1>1
        <5>1. t + T[t].real_size <= a
          BY <3>1 DEF Tiled
        <5> QED BY <5>1, <3>1, <3>3, <1>1, <1>6
      <4>2. a + T[a].real_size <= t
        BY <4>1, <3>1 DEF Tiled
      <4> QED BY <4>2, <3>1, <3>3, <1>1
    <3> QED BY <3>2, <3>3
  <2> QED BY <2>1, <2>2, <2>3
<1>7. Tiled(g)
  BY <1>3, <1>4, <1>5, <1>6 DEF Tiled
<1>8. ASSUME NEW a \in D \cup {new} PROVE \E r \in R : Covers(r, a, g.tag[a])
  <2>1. PICK q \in R : Covers(q, t, T[t])
    BY DEF Covered
  <2>2. Lo(q) \in Nat /\ Hi(q) \in Nat
    BY DEF ByteRuns
  <2>3. CASE a = new
    <3>1. Covers(q, new, g.tag[new])
      BY <2>1, <2>2, <1>1, <1>3 DEF Covers
    <3> QED BY <3>1, <2>3
  <2>4. CASE a = t
    <3>1. Covers(q, t, g.tag[t])
      BY <2>1, <2>2, <1>1, <1>3 DEF Covers
    <3> QED BY <3>1, <2>4
  <2>5. CASE a # t /\ a # new
    <3>1. PICK r \in R : Covers(r, a, T[a])
      BY <2>5 DEF Covered
    <3>2. a = u => T[a].split_left # NULL
      BY <2>5, <1>1, <1>2, Fields
    <3>3. Covers(r, a, g.tag[a])
      BY <3>1, <3>2, <2>5, <1>1, <1>3 DEF Covers
    <3> QED BY <3>3
  <2> QED BY <2>3, <2>4, <2>5
<1> QED BY <1>3, <1>7, <1>8 DEF Covered

(* New pages that no tag reaches into are a run of one tag. *)
LEMMA FreshTiled ==
  ASSUME NEW hp, Shape(hp), Tiled(hp), NEW R, Covered(hp, R), NEW r,
         ByteRuns(R \cup {r}), r \notin R,
         NEW n \in Nat, n >= TagSize, Lo(r) + n = Hi(r),
         NEW size, NEW g, Fresh(g, hp, Lo(r), n, size)
  PROVE  Tiled(g) /\ Covered(g, R \cup {r})
<1> DEFINE T == hp.tag
           D == DOMAIN hp.tag
           t == Lo(r)
<1>1. /\ DOMAIN g.tag = D \cup {t} /\ \A a \in D : g.tag[a] = T[a]
      /\ g.tag[t].real_size = n /\ g.tag[t].split_left = NULL /\ g.tag[t].split_right = NULL
  BY DEF Fresh
<1>2. \A q \in R \cup {r} : Lo(q) \in Nat /\ Hi(q) \in Nat /\ Lo(q) < Hi(q)
  BY DEF ByteRuns
<1>3. ASSUME NEW a \in D
      PROVE  a + T[a].real_size <= t \/ Hi(r) <= a
  <2>1. PICK q \in R : Covers(q, a, T[a])
    BY DEF Covered
  <2>2. Hi(q) <= Lo(r) \/ Hi(r) <= Lo(q)
    BY DEF ByteRuns
  <2>3. a \in Nat /\ T[a].real_size \in Nat
    BY Fields
  <2> QED BY <2>1, <2>2, <2>3, <1>2 DEF Covers
<1>4. \A a \in D : a \in Nat /\ T[a].real_size \in Nat /\ T[a].real_size >= TagSize
  BY Fields DEF Tiled
<1>5. t \notin D
  BY <1>2, <1>3, <1>4, Given
<1>6. ASSUME NEW a \in D \cup {t}
      PROVE  /\ g.tag[a].real_size >= TagSize
             /\ g.tag[a].split_right # NULL =>
                  /\ g.tag[a].split_right \in D \cup {t}
                  /\ g.tag[a].split_right = a + g.tag[a].real_size
                  /\ g.tag[g.tag[a].split_right].split_left = a
             /\ g.tag[a].split_left # NULL =>
                  /\ g.tag[a].split_left \in D \cup {t}
                  /\ g.tag[g.tag[a].split_left].split_right = a
  <2>1. CASE a = t
    BY <2>1, <1>1
  <2>2. CASE a \in D
    BY <2>2, <1>1 DEF Tiled
  <2> QED BY <2>1, <2>2
<1>7. ASSUME NEW a \in D \cup {t}, NEW b \in D \cup {t}, a < b
      PROVE  a + g.tag[a].real_size <= b
  <2> HIDE DEF t
  <2>1. CASE a = t /\ b \in D
    BY <2>1, <1>1, <1>2, <1>3, <1>4, <1>7, Given DEF t
  <2>2. CASE a \in D /\ b = t
    BY <2>2, <1>1, <1>2, <1>3, <1>4, <1>7, Given DEF t
  <2>3. CASE a \in D /\ b \in D
    BY <2>3, <1>1, <1>7 DEF Tiled
  <2>4. ~(a = t /\ b = t)
    BY <1>2, <1>7 DEF t
  <2> QED BY <2>1, <2>2, <2>3, <2>4
<1>8. Tiled(g)
  BY <1>1, <1>6, <1>7 DEF Tiled
<1>9. Covers(r, t, g.tag[t])
  BY <1>1, <1>2, Given DEF Covers
<1>10. ASSUME NEW a \in D \cup {t} PROVE \E q \in R \cup {r} : Covers(q, a, g.tag[a])
  <2>1. CASE a = t
    BY <2>1, <1>9
  <2>2. CASE a \in D
    BY <2>2, <1>1 DEF Covered
  <2> QED BY <2>1, <2>2
<1> QED BY <1>1, <1>8, <1>10 DEF Covered

(* A tag without neighbours is a whole run; no other tag is in that run. *)
LEMMA DropTiled ==
  ASSUME NEW hp, Shape(hp), Tiled(hp), NEW R, ByteRuns(R), Covered(hp, R),
         NEW t \in DOMAIN hp.tag, Whole(hp, t),
         NEW r \in R, Covers(r, t, hp.tag[t]),
         NEW g, DOMAIN g.tag = DOMAIN hp.tag \ {t},
         \A a \in DOMAIN g.tag : g.tag[a] = hp.tag[a]
  PROVE  Tiled(g) /\ Covered(g, R \ {r})
<1> DEFINE T == hp.tag
           D == DOMAIN hp.tag
<1>1. t = Lo(r) /\ t + T[t].real_size = Hi(r) /\ Lo(r) \in Nat /\ Hi(r) \in Nat
  BY DEF Covers, Whole, ByteRuns
<1>2. ASSUME NEW a \in D \ {t}
      PROVE  T[a].split_right # t /\ T[a].split_left # t
  <2>1. t # NULL /\ a # NULL
    BY Fields
  <2>2. T[a].split_right = t => T[t].split_left = a
    BY <2>1 DEF Tiled
  <2>3. T[a].split_left = t => T[t].split_right = a
    BY <2>1 DEF Tiled
  <2> QED BY <2>1, <2>2, <2>3 DEF Whole
<1>3. Tiled(g)
  BY <1>2 DEF Tiled
<1>4. ASSUME NEW a \in D \ {t} PROVE \E q \in R \ {r} : Covers(q, a, g.tag[a])
  <2>1. PICK q \in R : Covers(q, a, T[a])
    BY DEF Covered
  <2>2. q # r
    <3> SUFFICES ASSUME q = r PROVE FALSE
      OBVIOUS
    <3>1. Lo(r) <= a /\ a + T[a].real_size <= Hi(r)
      BY <2>1 DEF Covers
    <3>2. a \in Nat /\ T[a].real_size \in Nat /\ T[a].real_size >= 1
          /\ t \in Nat /\ T[t].real_size \in Nat
      BY Fields, Given DEF Tiled
    <3>3. a < t \/ t < a
      BY <3>2
    <3>4. a + T[a].real_size <= t \/ t + T[t].real_size <= a
      BY <3>3 DEF Tiled
    <3> QED BY <3>1, <3>2, <3>4, <1>1
  <2> QED BY <2>1, <2>2
<1> QED BY <1>3, <1>4 DEF Covered

-----------------------------------------------------------------------------
(* What malloc and free do to the heap as a whole *)

(* What holds of the heap between any two steps. *)
Struct(hp, R) ==
  /\ Shape(hp) /\ Linked(hp) /\ Ranked(hp) /\ Classed(hp)
  /\ Tiled(hp) /\ Covered(hp, R) /\ Melted(hp) /\ Counted(hp)

(* What the owner of a tag sees of it. *)
SameFor(g, hp, a) ==
  /\ a \in DOMAIN g.tag
  /\ g.tag[a].index = hp.tag[a].index /\ g.tag[a].size = hp.tag[a].size
  /\ g.tag[a].real_size = hp.tag[a].real_size

(* The right neighbour of a tag, if there is one, is in use. *)
NoFreeRight(hp, t) ==
  hp.tag[t].split_right # NULL => hp.tag[hp.tag[t].split_right].index = -1

(* The left neighbour of a tag, if there is one, is in use. *)
NoFreeLeft(hp, t) ==
  hp.tag[t].split_left # NULL => hp.tag[hp.tag[t].split_left].index = -1

(* The whole free runs of a class can be counted. *)
LEMMA WholeFinite ==
  ASSUME NEW hp, Shape(hp), NEW i
  PROVE  IsFiniteSet(WholeFree(hp, i)) /\ Cardinality(WholeFree(hp, i)) \in Nat
<1>1. IsFiniteSet(DOMAIN hp.tag) /\ WholeFree(hp, i) \subseteq DOMAIN hp.tag
  BY DEF Shape, WholeFree
<1>2. IsFiniteSet(WholeFree(hp, i))
  BY <1>1, FS_Subset
<1> QED BY <1>2, FS_CardinalityType

(* Classes whose whole free runs are the same keep their counts. *)
LEMMA CountsKept ==
  ASSUME NEW hp, Counted(hp), NEW g, g.l_completePages = hp.l_completePages,
         \A i \in Exps : WholeFree(g, i) = WholeFree(hp, i)
  PROVE  Counted(g)
BY DEF Counted

(* The whole runs of class i are counted d more, if t is one. *)
Recounted(c, hp, t, i, d) ==
  /\ Shape(c) /\ c.tag = hp.tag /\ c.l_freePages = hp.l_freePages
  /\ c.l_completePages[i] = hp.l_completePages[i] + (IF Whole(hp, t) THEN d ELSE 0)
  /\ \A j \in Exps \ {i} : c.l_completePages[j] = hp.l_completePages[j]

(* The count of a class changes when the block is a whole run. *)
LEMMA RecountIs ==
  ASSUME NEW hp, Shape(hp), NEW t, NEW i \in Exps, NEW d \in Int, NEW n \in Int,
         n = hp.l_completePages[i] + d,
         NEW c, c = IF Whole(hp, t) THEN [hp EXCEPT !.l_completePages[i] = n] ELSE hp
  PROVE  Recounted(c, hp, t, i, d)
<1>0. hp.l_completePages[i] \in Int
  BY DEF Shape
<1>1. CASE Whole(hp, t)
  <2> DEFINE x == [hp EXCEPT !.l_completePages[i] = n]
  <2>1. c = x
    BY <1>1
  <2>2. /\ Alike(x, hp) /\ x.tag = hp.tag /\ x.l_completePages[i] = n
        /\ \A j \in Exps \ {i} : x.l_completePages[j] = hp.l_completePages[j]
    BY CountIs
  <2> HIDE DEF x
  <2> QED BY <2>1, <2>2, <1>1 DEF Recounted, Alike, SameLists
<1>2. CASE ~Whole(hp, t)
  BY <1>0, <1>2 DEF Recounted
<1> QED BY <1>1, <1>2

(* free puts a merged block into its list. *)
LEMMA KeepStruct ==
  ASSUME NEW hp, NEW R, Struct(hp, R), NEW t \in DOMAIN hp.tag, hp.tag[t].index = -1,
         NoFreeLeft(hp, t), NoFreeRight(hp, t),
         NEW i \in Exps, i = ClassFor(hp.tag[t].real_size),
         ~(Whole(hp, t) /\ hp.l_completePages[i] = MAXCOMPLETE),
         NEW c, Recounted(c, hp, t, i, 1), NEW g, Inserted(g, c, t, i)
  PROVE  /\ Struct(g, R) /\ DOMAIN g.tag = DOMAIN hp.tag
         /\ g.tag[t].index # -1
         /\ \A a \in DOMAIN hp.tag \ {t} : SameFor(g, hp, a)
<1> USE DEF Struct
<1> DEFINE T == hp.tag
           D == DOMAIN hp.tag
<1>1. i \in Exps /\ i \in Int /\ i >= 0 /\ i # -1
  BY NotExp
<1>2. /\ Shape(c) /\ SameGeometry(c, hp) /\ c.tag = T /\ c.l_freePages = hp.l_freePages
      /\ c.l_completePages[i] = hp.l_completePages[i] + (IF Whole(hp, t) THEN 1 ELSE 0)
      /\ \A j \in Exps \ {i} : c.l_completePages[j] = hp.l_completePages[j]
  BY DEF Recounted, SameGeometry
<1>3. Inserted(g, c, t, i)
  OBVIOUS
<1>4. Linked(c) /\ Ranked(c)
  BY <1>2 DEF Linked, Ranked
<1>5. Linked(g) /\ Ranked(g) /\ Shape(g) /\ SameGeometry(g, c)
  <2>1. t \in DOMAIN c.tag /\ c.tag[t].index = -1
    BY <1>2
  <2>2. Linked(g)
    BY <2>1, <1>2, <1>4, InsertLinked
  <2>3. Ranked(g)
    BY <2>1, <1>2, <1>4, InsertRanked
  <2> QED BY <2>2, <2>3, <1>3 DEF Inserted
<1>6. SameGeometry(g, hp) /\ DOMAIN g.tag = D
  BY <1>2, <1>5 DEF SameGeometry
<1>7. Tiled(g) /\ Covered(g, R)
  BY <1>6, GeometryKept
<1>8. /\ g.tag[t].index = i
      /\ \A a \in D \ {t} : g.tag[a].index = T[a].index
      /\ \A a \in D : g.tag[a].size = T[a].size
      /\ g.l_completePages = c.l_completePages
  BY <1>2, <1>3 DEF Inserted
<1>9. \A a \in D : /\ g.tag[a].real_size = T[a].real_size
                   /\ g.tag[a].split_left = T[a].split_left
                   /\ g.tag[a].split_right = T[a].split_right
                   /\ Whole(g, a) <=> Whole(hp, a)
  BY <1>6 DEF SameGeometry, Whole
<1>10. Classed(g)
  BY <1>6, <1>8, <1>9 DEF Classed
<1>11. Melted(g)
  <2> SUFFICES ASSUME NEW a \in D, g.tag[a].index # -1, g.tag[a].split_right # NULL
               PROVE  g.tag[g.tag[a].split_right].index = -1
    BY <1>6 DEF Melted
  <2> DEFINE b == T[a].split_right
  <2>1. g.tag[a].split_right = b /\ b \in D /\ T[b].split_left = a /\ b # a /\ a # NULL
    <3>1. g.tag[a].split_right = b /\ b # NULL
      BY <1>9
    <3>2. b \in D /\ T[b].split_left = a /\ b = a + T[a].real_size
      BY <3>1 DEF Tiled
    <3>3. T[a].real_size >= TagSize /\ T[a].real_size \in Nat /\ a \in Nat /\ a # NULL
      BY Fields DEF Tiled
    <3> QED BY <3>1, <3>2, <3>3, Given
  <2>2. CASE a = t
    BY <2>1, <2>2, <1>8 DEF NoFreeRight
  <2>3. CASE a # t
    <3>1. T[a].index # -1
      BY <2>3, <1>8
    <3>2. b # t
      BY <3>1, <2>1 DEF NoFreeLeft
    <3>3. T[b].index = -1
      BY <3>1, <2>1, <1>9 DEF Melted
    <3> QED BY <2>1, <3>2, <3>3, <1>8
  <2> QED BY <2>2, <2>3
<1>12. Counted(g)
  <2> SUFFICES ASSUME NEW j \in Exps
               PROVE  /\ g.l_completePages[j] = Cardinality(WholeFree(g, j))
                      /\ g.l_completePages[j] <= MAXCOMPLETE
    BY DEF Counted
  <2>1. CASE j = i /\ Whole(hp, t)
    <3>1. WholeFree(g, i) = WholeFree(hp, i) \cup {t} /\ t \notin WholeFree(hp, i)
      BY <2>1, <1>1, <1>6, <1>8, <1>9 DEF WholeFree
    <3>2. Cardinality(WholeFree(g, i)) = Cardinality(WholeFree(hp, i)) + 1
      BY <3>1, WholeFinite, FS_AddElement
    <3>3. /\ hp.l_completePages[i] = Cardinality(WholeFree(hp, i))
          /\ hp.l_completePages[i] <= MAXCOMPLETE /\ hp.l_completePages[i] # MAXCOMPLETE
      BY <2>1, <1>1 DEF Counted
    <3>4. Cardinality(WholeFree(hp, i)) \in Nat
      BY WholeFinite
    <3> QED BY <2>1, <3>2, <3>3, <3>4, <1>2, <1>8, Given
  <2>2. CASE j # i \/ ~Whole(hp, t)
    <3>1. WholeFree(g, j) = WholeFree(hp, j)
      <4>1. j # -1
        BY NotExp
      <4> QED BY <4>1, <2>2, <1>1, <1>6, <1>8, <1>9 DEF WholeFree
    <3>2. g.l_completePages[j] = hp.l_completePages[j]
      <4>1. hp.l_completePages[j] \in Int
        BY DEF Shape
      <4> QED BY <4>1, <2>2, <1>2, <1>8
    <3> QED BY <3>1, <3>2 DEF Counted
  <2> QED BY <2>1, <2>2
<1>13. \A a \in D \ {t} : SameFor(g, hp, a)
  BY <1>6, <1>8, <1>9 DEF SameFor
<1> QED BY <1>1, <1>5, <1>6, <1>7, <1>8, <1>10, <1>11, <1>12, <1>13

(* malloc takes a block out of its list. *)
LEMMA TakeOutStruct ==
  ASSUME NEW hp, NEW R, Struct(hp, R), NEW t \in DOMAIN hp.tag,
         NEW i \in Exps, hp.tag[t].index = i,
         NEW o, Removed(o, hp, t), NEW g, Recounted(g, o, t, i, -1)
  PROVE  /\ Struct(g, R) /\ SameGeometry(g, hp)
         /\ g.tag[t].index = -1 /\ NoFreeRight(g, t)
         /\ \A a \in DOMAIN hp.tag \ {t} : SameFor(g, hp, a)
<1> USE DEF Struct
<1> DEFINE T == hp.tag
           D == DOMAIN hp.tag
<1>1. Removed(o, hp, t) /\ i # -1
  BY NotExp
<1>2. Linked(o) /\ Ranked(o) /\ Shape(o) /\ SameGeometry(o, hp)
  BY <1>1, RemoveLinked, RemoveRanked DEF Removed
<1>3. t \in DOMAIN o.tag /\ o.l_completePages = hp.l_completePages
  BY <1>1, <1>2 DEF SameGeometry, Removed
<1>4. /\ Shape(g) /\ g.tag = o.tag /\ g.l_freePages = o.l_freePages
      /\ g.l_completePages[i] = hp.l_completePages[i] + (IF Whole(o, t) THEN -1 ELSE 0)
      /\ \A j \in Exps \ {i} : g.l_completePages[j] = hp.l_completePages[j]
  BY <1>3 DEF Recounted
<1>5. Linked(g) /\ Ranked(g)
  BY <1>2, <1>4 DEF Linked, Ranked
<1>6. SameGeometry(g, hp) /\ DOMAIN g.tag = D
  BY <1>2, <1>4 DEF SameGeometry
<1>7. Tiled(g) /\ Covered(g, R)
  BY <1>6, GeometryKept
<1>8. /\ g.tag[t].index = -1
      /\ \A a \in D \ {t} : g.tag[a].index = T[a].index
      /\ \A a \in D : g.tag[a].size = T[a].size
  BY <1>1, <1>4 DEF Removed
<1>9. \A a \in D : /\ g.tag[a].real_size = T[a].real_size
                   /\ g.tag[a].split_left = T[a].split_left
                   /\ g.tag[a].split_right = T[a].split_right
                   /\ Whole(g, a) <=> Whole(hp, a)
                   /\ Whole(o, a) <=> Whole(hp, a)
  BY <1>2, <1>6 DEF SameGeometry, Whole
<1>10. Classed(g)
  BY <1>6, <1>8, <1>9 DEF Classed
<1>11. ASSUME NEW a \in D, T[a].index # -1, g.tag[a].split_right # NULL
       PROVE  g.tag[g.tag[a].split_right].index = -1
  <2>1. g.tag[a].split_right = T[a].split_right /\ T[a].split_right \in D
    BY <1>9, <1>11 DEF Tiled
  <2>2. T[T[a].split_right].index = -1
    BY <2>1, <1>9, <1>11 DEF Melted
  <2> QED BY <2>1, <2>2, <1>8
<1>12. Melted(g) /\ NoFreeRight(g, t)
  <2>1. \A a \in D : g.tag[a].index # -1 => T[a].index # -1
    BY <1>8
  <2> QED BY <1>1, <1>6, <1>11, <2>1 DEF Melted, NoFreeRight
<1>13. Counted(g)
  <2> SUFFICES ASSUME NEW j \in Exps
               PROVE  /\ g.l_completePages[j] = Cardinality(WholeFree(g, j))
                      /\ g.l_completePages[j] <= MAXCOMPLETE
    BY DEF Counted
  <2>1. CASE j = i /\ Whole(hp, t)
    <3>1. WholeFree(g, i) = WholeFree(hp, i) \ {t} /\ t \in WholeFree(hp, i)
      BY <2>1, <1>1, <1>6, <1>8, <1>9 DEF WholeFree
    <3>2. Cardinality(WholeFree(g, i)) = Cardinality(WholeFree(hp, i)) - 1
      <4>1. IsFiniteSet(WholeFree(hp, i))
        BY WholeFinite
      <4> QED BY <3>1, <4>1, FS_RemoveElement
    <3>3. /\ hp.l_completePages[i] = Cardinality(WholeFree(hp, i))
          /\ hp.l_completePages[i] <= MAXCOMPLETE
      BY DEF Counted
    <3>4. Cardinality(WholeFree(hp, i)) \in Nat
      BY WholeFinite
    <3>5. Whole(o, t)
      BY <2>1, <1>9
    <3> QED BY <2>1, <3>2, <3>3, <3>4, <3>5, <1>4, Given
  <2>2. CASE j # i \/ ~Whole(hp, t)
    <3>1. WholeFree(g, j) = WholeFree(hp, j)
      <4>1. j # -1
        BY NotExp
      <4> QED BY <4>1, <2>2, <1>1, <1>6, <1>8, <1>9 DEF WholeFree
    <3>2. g.l_completePages[j] = hp.l_completePages[j]
      <4>1. hp.l_completePages[j] \in Int
        BY DEF Shape
      <4> QED BY <4>1, <2>2, <1>4, <1>9
    <3> QED BY <3>1, <3>2 DEF Counted
  <2> QED BY <2>1, <2>2
<1>14. \A a \in D \ {t} : SameFor(g, hp, a)
  BY <1>6, <1>8, <1>9 DEF SameFor
<1> QED BY <1>4, <1>5, <1>6, <1>7, <1>8, <1>10, <1>12, <1>13, <1>14

(* Nothing depends on the sizes that tags record. *)
LEMMA AlikeStruct ==
  ASSUME NEW hp, NEW R, Struct(hp, R), NEW g, Alike(g, hp),
         g.l_completePages = hp.l_completePages
  PROVE  Struct(g, R)
<1> USE DEF Struct
<1>1. /\ Shape(g) /\ DOMAIN g.tag = DOMAIN hp.tag /\ SameGeometry(g, hp)
      /\ g.l_freePages = hp.l_freePages
      /\ \A a \in DOMAIN hp.tag : /\ g.tag[a].index = hp.tag[a].index
                                  /\ g.tag[a].next = hp.tag[a].next
                                  /\ g.tag[a].prev = hp.tag[a].prev
  BY DEF Alike, SameGeometry, SameLists
<1>2. \A a \in DOMAIN hp.tag : /\ g.tag[a].real_size = hp.tag[a].real_size
                               /\ g.tag[a].split_left = hp.tag[a].split_left
                               /\ g.tag[a].split_right = hp.tag[a].split_right
                               /\ Whole(g, a) <=> Whole(hp, a)
  BY <1>1 DEF SameGeometry, Whole
<1>3. Linked(g)
  BY <1>1, ListsKept
<1>4. Ranked(g)
  BY <1>1, RanksKept
<1>5. Tiled(g) /\ Covered(g, R)
  BY <1>1, GeometryKept
<1>6. Classed(g)
  BY <1>1, <1>2 DEF Classed
<1>7. Melted(g)
  <2>1. \A a \in DOMAIN hp.tag :
          hp.tag[a].split_right # NULL => hp.tag[a].split_right \in DOMAIN hp.tag
    BY DEF Tiled
  <2> QED BY <2>1, <1>1, <1>2 DEF Melted
<1>8. Counted(g)
  <2>1. \A i \in Exps : WholeFree(g, i) = WholeFree(hp, i)
    BY <1>1, <1>2 DEF WholeFree
  <2> QED BY <2>1, CountsKept
<1> QED BY <1>1, <1>3, <1>4, <1>5, <1>6, <1>7, <1>8

(* malloc splits off what is not asked for. *)
LEMMA SplitStruct ==
  ASSUME NEW hp, NEW R, Struct(hp, R), ByteRuns(R), NEW t \in DOMAIN hp.tag,
         hp.tag[t].index = -1, NoFreeRight(hp, t),
         hp.tag[t].real_size - hp.tag[t].size - 2 * TagSize > 0
  PROVE  LET g == split_tag(hp, t)
         IN /\ Struct(g, R) /\ DOMAIN hp.tag \subseteq DOMAIN g.tag
            /\ \A a \in DOMAIN hp.tag \ {t} : SameFor(g, hp, a)
            /\ g.tag[t].index = -1 /\ g.tag[t].size = hp.tag[t].size
            /\ g.tag[t].real_size = TagSize + hp.tag[t].size
            /\ \A a \in DOMAIN g.tag \ DOMAIN hp.tag : g.tag[a].index # -1
<1> USE DEF Struct
<1> DEFINE T == hp.tag
           D == DOMAIN hp.tag
           n == hp.tag[t].size
           new == t + TagSize + n
           c == CutTag(hp, t)
           g == split_tag(hp, t)
           u == T[t].split_right
<1>1. CutOff(c, hp, t, n) /\ n \in Nat
  BY CutIs, Fields
<1>2. g = insert_tag(c, new, -1)
  BY SplitIs
<1> HIDE DEF c, g
<1>3. /\ Shape(c) /\ new \notin D /\ DOMAIN c.tag = D \cup {new}
      /\ c.l_freePages = hp.l_freePages
      /\ c.tag[new].index = -1 /\ c.tag[new].next = NULL /\ c.tag[new].prev = NULL
      /\ \A a \in D : /\ c.tag[a].index = T[a].index /\ c.tag[a].size = T[a].size
                      /\ c.tag[a].next = T[a].next /\ c.tag[a].prev = T[a].prev
      /\ c.l_completePages = hp.l_completePages
  BY <1>1 DEF CutOff, SameLists
<1>4. /\ c.tag[new].split_left = t /\ c.tag[new].split_right = u
      /\ c.tag[t].real_size = TagSize + n
      /\ \A a \in D \ {t} : /\ c.tag[a].real_size = T[a].real_size
                            /\ c.tag[a].split_right = T[a].split_right
                            /\ c.tag[a].split_left = IF a = u THEN new ELSE T[a].split_left
  BY <1>1 DEF CutOff
<1>5. Tiled(c) /\ Covered(c, R)
  BY <1>1, CutTiled
<1> HIDE DEF new
<1>6. Linked(c)
  BY <1>3, ListsKept
<1>7. Ranked(c)
  BY <1>3, RanksKept
<1> DEFINE i == ClassFor(c.tag[new].real_size)
<1>8. i \in Exps /\ i # -1
  <2>1. c.tag[new].real_size \in Int
    BY <1>3, Fields
  <2> QED BY <2>1, ClassForIs
<1>9. Inserted(g, c, new, i)
  <2>1. new \in DOMAIN c.tag /\ -1 \in Int /\ i = IF -1 < 0 THEN i ELSE -1
    BY <1>3
  <2>2. i = IF -1 < 0 THEN ClassFor(c.tag[new].real_size) ELSE -1
    BY <2>1
  <2> HIDE DEF i
  <2> QED BY <2>1, <2>2, <1>2, <1>3, <1>8, InsertIs
<1>10. Linked(g) /\ Ranked(g)
  <2> HIDE DEF i
  <2>1. Linked(g)
    BY <1>3, <1>6, <1>8, <1>9, InsertLinked
  <2>2. Ranked(g)
    BY <1>3, <1>6, <1>7, <1>8, <1>9, InsertRanked
  <2> QED BY <2>1, <2>2
<1>11. Shape(g) /\ SameGeometry(g, c) /\ DOMAIN g.tag = D \cup {new}
       /\ g.l_completePages = hp.l_completePages
  BY <1>3, <1>9 DEF Inserted, SameGeometry
<1>12. Tiled(g) /\ Covered(g, R)
  BY <1>5, <1>11, GeometryKept
<1>13. /\ g.tag[new].index = i /\ g.tag[new].split_left = t /\ g.tag[new].split_right = u
       /\ g.tag[new].real_size = c.tag[new].real_size
       /\ \A a \in D : g.tag[a].index = T[a].index /\ g.tag[a].size = T[a].size
       /\ g.tag[t].real_size = TagSize + n
       /\ \A a \in D \ {t} : /\ g.tag[a].real_size = T[a].real_size
                             /\ g.tag[a].split_right = T[a].split_right
                             /\ g.tag[a].split_left = IF a = u THEN new ELSE T[a].split_left
  <2>1. /\ g.tag[new].index = i
        /\ \A a \in D : g.tag[a].index = T[a].index /\ g.tag[a].size = T[a].size
    BY <1>3, <1>9 DEF Inserted
  <2>2. \A a \in D \cup {new} : /\ g.tag[a].real_size = c.tag[a].real_size
                                /\ g.tag[a].split_left = c.tag[a].split_left
                                /\ g.tag[a].split_right = c.tag[a].split_right
    BY <1>3, <1>11 DEF SameGeometry
  <2> QED BY <2>1, <2>2, <1>4
<1>14. Classed(g)
  <2>1. g.tag[new].index = ClassFor(g.tag[new].real_size)
    BY <1>13
  <2>2. \A a \in D : T[a].index # -1 =>
          a # t /\ T[a].index = ClassFor(T[a].real_size)
    BY DEF Classed
  <2> QED BY <2>1, <2>2, <1>11, <1>13 DEF Classed
<1>15. Melted(g)
  <2> SUFFICES ASSUME NEW a \in D \cup {new}, g.tag[a].index # -1, g.tag[a].split_right # NULL
               PROVE  g.tag[g.tag[a].split_right].index = -1
    BY <1>11 DEF Melted
  <2>1. CASE a = new
    <3>1. u # NULL /\ g.tag[a].split_right = u
      BY <2>1, <1>13
    <3>2. u \in D
      BY <3>1 DEF Tiled
    <3>3. T[u].index = -1
      BY <3>1 DEF NoFreeRight
    <3> QED BY <3>1, <3>2, <3>3, <1>13
  <2>2. CASE a # new
    <3>1. a \in D \ {t} /\ T[a].index # -1
      BY <2>2, <1>13
    <3> DEFINE b == T[a].split_right
    <3>2. g.tag[a].split_right = b /\ b # NULL
      BY <3>1, <1>13
    <3>3. b \in D
      BY <3>1, <3>2 DEF Tiled
    <3>4. T[b].index = -1
      BY <3>1, <3>2 DEF Melted
    <3> QED BY <3>2, <3>3, <3>4, <1>13
  <2> QED BY <2>1, <2>2
<1>16. Counted(g)
  <2>1. ASSUME NEW j \in Exps PROVE WholeFree(g, j) = WholeFree(hp, j)
    <3>1. t # NULL /\ j # -1 /\ new # NULL
      <4>1. new \in DOMAIN c.tag
        BY <1>3
      <4> QED BY <4>1, <1>3, Fields, NotExp
    <3>2. ~Whole(g, new)
      BY <3>1, <1>13 DEF Whole
    <3>3. ASSUME NEW a \in D, T[a].index = j PROVE Whole(g, a) <=> Whole(hp, a)
      <4>1. a # t /\ a # NULL
        BY <3>1, <3>3, Fields
      <4>2. a = u => T[a].split_left = t
        BY <4>1 DEF Tiled
      <4> QED BY <3>1, <4>1, <4>2, <1>13 DEF Whole
    <3> QED BY <3>2, <3>3, <1>11, <1>13 DEF WholeFree
  <2> QED BY <2>1, <1>11, CountsKept
<1>17. \A a \in D \ {t} : SameFor(g, hp, a)
  BY <1>11, <1>13 DEF SameFor
<1> QED BY <1>8, <1>10, <1>11, <1>12, <1>13, <1>14, <1>15, <1>16, <1>17 DEF g

(* malloc makes a block of a tag, split or not. *)
LEMMA PlaceStruct ==
  ASSUME NEW hp, NEW R, Struct(hp, R), ByteRuns(R), NEW t \in DOMAIN hp.tag,
         hp.tag[t].index = -1, NoFreeRight(hp, t),
         NEW n \in Nat, TagSize + n <= hp.tag[t].real_size
  PROVE  LET g == Place(hp, t, n)
         IN /\ Struct(g, R) /\ DOMAIN hp.tag \subseteq DOMAIN g.tag
            /\ \A a \in DOMAIN hp.tag \ {t} : SameFor(g, hp, a)
            /\ g.tag[t].index = -1 /\ g.tag[t].size = n
            /\ TagSize + n <= g.tag[t].real_size
            /\ \A a \in DOMAIN g.tag \ DOMAIN hp.tag : g.tag[a].index # -1
<1> DEFINE s == [hp EXCEPT !.tag[t].size = n]
           rest == hp.tag[t].real_size - n - 2 * TagSize
           g == Place(hp, t, n)
<1>0. Shape(hp)
  BY DEF Struct
<1>1. /\ Alike(s, hp) /\ s.l_completePages = hp.l_completePages /\ s.tag[t].size = n
      /\ \A a \in DOMAIN hp.tag \ {t} : s.tag[a].size = hp.tag[a].size
  BY <1>0, SizeIs
<1>2. g = IF rest > 0 /\ getexp(rest) >= 0 THEN split_tag(s, t) ELSE s
  BY DEF Place
<1> HIDE DEF s, g
<1>3. Struct(s, R)
  BY <1>1, AlikeStruct
<1>4. /\ DOMAIN s.tag = DOMAIN hp.tag
      /\ \A a \in DOMAIN hp.tag : /\ s.tag[a].real_size = hp.tag[a].real_size
                                  /\ s.tag[a].index = hp.tag[a].index
                                  /\ s.tag[a].split_right = hp.tag[a].split_right
  BY <1>1 DEF Alike, SameGeometry, SameLists
<1>5. NoFreeRight(s, t)
  <2>1. hp.tag[t].split_right # NULL => hp.tag[t].split_right \in DOMAIN hp.tag
    BY DEF Struct, Tiled
  <2> QED BY <2>1, <1>4 DEF NoFreeRight
<1>6. CASE rest > 0 /\ getexp(rest) >= 0
  <2>1. g = split_tag(s, t)
    BY <1>2, <1>6
  <2>2. s.tag[t].real_size - s.tag[t].size - 2 * TagSize > 0
    BY <1>1, <1>4, <1>6
  <2>3. /\ Struct(g, R) /\ DOMAIN s.tag \subseteq DOMAIN g.tag
        /\ \A a \in DOMAIN s.tag \ {t} : SameFor(g, s, a)
        /\ g.tag[t].index = -1 /\ g.tag[t].size = s.tag[t].size
        /\ g.tag[t].real_size = TagSize + s.tag[t].size
        /\ \A a \in DOMAIN g.tag \ DOMAIN s.tag : g.tag[a].index # -1
    BY <2>1, <2>2, <1>3, <1>4, <1>5, SplitStruct
  <2>4. TagSize + n <= g.tag[t].real_size
    BY <2>3, <1>1, Given
  <2> QED BY <2>3, <2>4, <1>1, <1>4 DEF SameFor, g
<1>7. CASE ~(rest > 0 /\ getexp(rest) >= 0)
  <2>1. g = s
    BY <1>2, <1>7
  <2> QED BY <2>1, <1>1, <1>3, <1>4 DEF SameFor, g
<1> QED BY <1>6, <1>7

(* Tag x has become a part of k, which is in no list any more. *)
LEMMA MergeStruct ==
  ASSUME NEW hp, NEW R, Struct(hp, R), NEW k \in DOMAIN hp.tag, NEW x \in DOMAIN hp.tag,
         hp.tag[k].split_right = x,
         NEW g, Shape(g), DOMAIN g.tag = DOMAIN hp.tag \ {x},
         g.l_completePages = hp.l_completePages, g.tag[k].index = -1,
         \A a \in DOMAIN hp.tag \ {k, x} :
           /\ g.tag[a].index = hp.tag[a].index
           /\ g.tag[a].real_size = hp.tag[a].real_size
           /\ g.tag[a].split_right = hp.tag[a].split_right
           /\ g.tag[a].split_left = IF a = hp.tag[x].split_right THEN k ELSE hp.tag[a].split_left
  PROVE  Classed(g) /\ Melted(g) /\ Counted(g)
<1> USE DEF Struct
<1> DEFINE T == hp.tag
           D == DOMAIN hp.tag
<1>1. k # NULL /\ x # NULL /\ T[x].split_left = k
  BY Fields DEF Tiled
<1>2. Classed(g)
  BY DEF Classed
<1>3. Melted(g)
  <2> SUFFICES ASSUME NEW a \in D \ {x}, g.tag[a].index # -1, g.tag[a].split_right # NULL
               PROVE  g.tag[g.tag[a].split_right].index = -1
    BY DEF Melted
  <2> DEFINE b == T[a].split_right
  <2>1. a # k /\ T[a].index # -1 /\ g.tag[a].split_right = b /\ b # NULL
    OBVIOUS
  <2>2. b \in D /\ T[b].split_left = a
    BY <2>1 DEF Tiled
  <2>3. b # x /\ T[b].index = -1
    BY <2>1, <2>2, <1>1 DEF Melted
  <2> QED BY <2>1, <2>2, <2>3
<1>4. ASSUME NEW j \in Exps PROVE WholeFree(g, j) = WholeFree(hp, j)
  <2>1. j # -1 /\ ~Whole(hp, k) /\ ~Whole(hp, x)
    BY <1>1, NotExp DEF Whole
  <2>2. ASSUME NEW a \in D \ {k, x} PROVE Whole(g, a) <=> Whole(hp, a)
    <3>1. a # NULL
      BY Fields
    <3>2. a = T[x].split_right => T[a].split_left = x
      BY <3>1 DEF Tiled
    <3> QED BY <3>2, <1>1 DEF Whole
  <2> QED BY <2>1, <2>2 DEF WholeFree
<1> QED BY <1>2, <1>3, <1>4, CountsKept

(* free merges a block into its left neighbour. *)
LEMMA MeltStruct ==
  ASSUME NEW hp, NEW R, Struct(hp, R), ByteRuns(R), NEW t \in DOMAIN hp.tag,
         hp.tag[t].index = -1, NEW l, l = hp.tag[t].split_left, l # NULL,
         hp.tag[l].index \in Exps
  PROVE  LET g == remove_tag(melt_left(hp, t), l)
         IN /\ Struct(g, R) /\ DOMAIN g.tag = DOMAIN hp.tag \ {t}
            /\ l \in DOMAIN g.tag /\ g.tag[l].index = -1
            /\ \A a \in DOMAIN hp.tag \ {t, l} : SameFor(g, hp, a)
<1> DEFINE T == hp.tag
           D == DOMAIN hp.tag
           j == melt_left(hp, t)
           g == remove_tag(j, l)
<1>0. Shape(hp) /\ Linked(hp) /\ Ranked(hp) /\ Tiled(hp) /\ Covered(hp, R)
  BY DEF Struct
<1>1. l \in D /\ T[l].split_right = t /\ l # t /\ T[l].index # -1
  BY <1>0, NotExp DEF Tiled
<1>2. Joined(j, hp, l, t)
  BY <1>0, <1>1, JoinIs DEF melt_left
<1> HIDE DEF j
<1>3. /\ Shape(j) /\ DOMAIN j.tag = D \ {t} /\ j.l_freePages = hp.l_freePages
      /\ j.l_completePages = hp.l_completePages
      /\ \A a \in D \ {t} : /\ j.tag[a].index = T[a].index /\ j.tag[a].size = T[a].size
                            /\ j.tag[a].next = T[a].next /\ j.tag[a].prev = T[a].prev
      /\ \A a \in D \ {t, l} : /\ j.tag[a].real_size = T[a].real_size
                               /\ j.tag[a].split_right = T[a].split_right
                               /\ j.tag[a].split_left = IF a = T[t].split_right THEN l
                                                        ELSE T[a].split_left
  BY <1>2 DEF Joined, SameLists
<1>4. Linked(j)
  BY <1>0, <1>3, ListsKept
<1>5. Ranked(j)
  BY <1>0, <1>3, RanksKept
<1>6. Tiled(j) /\ Covered(j, R)
  BY <1>0, <1>1, <1>2, JoinTiled
<1>7. l \in DOMAIN j.tag /\ j.tag[l].index \in Exps
  BY <1>1, <1>3
<1>8. Removed(g, j, l)
  BY <1>3, <1>7, RemoveIs
<1> HIDE DEF g
<1>9. Linked(g)
  BY <1>3, <1>4, <1>7, <1>8, RemoveLinked
<1>10. Ranked(g)
  BY <1>3, <1>4, <1>5, <1>7, <1>8, RemoveRanked
<1>11. Shape(g) /\ SameGeometry(g, j) /\ DOMAIN g.tag = D \ {t}
       /\ g.l_completePages = hp.l_completePages /\ g.tag[l].index = -1
  BY <1>3, <1>8 DEF Removed, SameGeometry
<1>12. Tiled(g) /\ Covered(g, R)
  BY <1>6, <1>11, GeometryKept
<1>13. \A a \in D \ {t, l} :
         /\ g.tag[a].index = T[a].index /\ g.tag[a].size = T[a].size
         /\ g.tag[a].real_size = T[a].real_size
         /\ g.tag[a].split_right = T[a].split_right
         /\ g.tag[a].split_left = IF a = T[t].split_right THEN l ELSE T[a].split_left
  <2>1. \A a \in D \ {t, l} : g.tag[a].index = j.tag[a].index /\ g.tag[a].size = j.tag[a].size
    BY <1>3, <1>8 DEF Removed
  <2>2. \A a \in D \ {t, l} : /\ g.tag[a].real_size = j.tag[a].real_size
                              /\ g.tag[a].split_right = j.tag[a].split_right
                              /\ g.tag[a].split_left = j.tag[a].split_left
    BY <1>3, <1>11 DEF SameGeometry
  <2> QED BY <2>1, <2>2, <1>3
<1>14. Classed(g) /\ Melted(g) /\ Counted(g)
  BY <1>1, <1>11, <1>13, MergeStruct
<1>15. \A a \in D \ {t, l} : SameFor(g, hp, a)
  BY <1>11, <1>13 DEF SameFor
<1> QED BY <1>1, <1>9, <1>10, <1>11, <1>12, <1>14, <1>15 DEF g, j, Struct

(* free merges the right neighbour into a block. *)
LEMMA AbsorbStruct ==
  ASSUME NEW hp, NEW R, Struct(hp, R), ByteRuns(R), NEW t \in DOMAIN hp.tag,
         hp.tag[t].index = -1, NEW r, r = hp.tag[t].split_right, r # NULL,
         hp.tag[r].index \in Exps
  PROVE  LET g == absorb_right(hp, t)
         IN /\ Struct(g, R) /\ DOMAIN g.tag = DOMAIN hp.tag \ {r}
            /\ t \in DOMAIN g.tag /\ r \in DOMAIN hp.tag /\ g.tag[t].index = -1
            /\ \A a \in DOMAIN hp.tag \ {t, r} : SameFor(g, hp, a)
<1> DEFINE T == hp.tag
           D == DOMAIN hp.tag
           o == remove_tag(hp, r)
           g == absorb_right(hp, t)
<1>0. Shape(hp) /\ Linked(hp) /\ Ranked(hp) /\ Tiled(hp) /\ Covered(hp, R)
  BY DEF Struct
<1>1. r \in D /\ r # t
  BY <1>0, NotExp DEF Tiled
<1>2. Removed(o, hp, r)
  BY <1>0, <1>1, RemoveIs
<1>3. g = Join(o, t, r)
  BY DEF absorb_right
<1> HIDE DEF o, g
<1>4. Linked(o)
  BY <1>0, <1>1, <1>2, RemoveLinked
<1>5. Ranked(o)
  BY <1>0, <1>1, <1>2, RemoveRanked
<1>6. Shape(o) /\ SameGeometry(o, hp) /\ DOMAIN o.tag = D
      /\ o.l_completePages = hp.l_completePages /\ o.tag[r].index = -1
      /\ \A a \in D \ {r} : o.tag[a].index = T[a].index /\ o.tag[a].size = T[a].size
  BY <1>2 DEF Removed, SameGeometry
<1>7. Tiled(o) /\ Covered(o, R)
  BY <1>0, <1>6, GeometryKept
<1>8. \A a \in D : /\ o.tag[a].real_size = T[a].real_size
                   /\ o.tag[a].split_right = T[a].split_right
                   /\ o.tag[a].split_left = T[a].split_left
  BY <1>6 DEF SameGeometry
<1>9. Joined(g, o, t, r)
  BY <1>1, <1>3, <1>6, JoinIs
<1>10. Tiled(g) /\ Covered(g, R)
  BY <1>1, <1>6, <1>7, <1>8, <1>9, JoinTiled
<1>11. /\ Shape(g) /\ DOMAIN g.tag = D \ {r} /\ g.l_freePages = o.l_freePages
       /\ g.l_completePages = hp.l_completePages
       /\ \A a \in D \ {r} : /\ g.tag[a].index = o.tag[a].index /\ g.tag[a].size = o.tag[a].size
                             /\ g.tag[a].next = o.tag[a].next /\ g.tag[a].prev = o.tag[a].prev
       /\ \A a \in D \ {t, r} : /\ g.tag[a].real_size = o.tag[a].real_size
                                /\ g.tag[a].split_right = o.tag[a].split_right
                                /\ g.tag[a].split_left = IF a = o.tag[r].split_right THEN t
                                                         ELSE o.tag[a].split_left
  BY <1>6, <1>9 DEF Joined, SameLists
<1>12. Linked(g)
  BY <1>4, <1>6, <1>11, ListsKept
<1>13. Ranked(g)
  BY <1>5, <1>6, <1>11, RanksKept
<1>14. \A a \in D \ {t, r} :
         /\ g.tag[a].index = T[a].index /\ g.tag[a].size = T[a].size
         /\ g.tag[a].real_size = T[a].real_size
         /\ g.tag[a].split_right = T[a].split_right
         /\ g.tag[a].split_left = IF a = T[r].split_right THEN t ELSE T[a].split_left
  BY <1>1, <1>6, <1>8, <1>11
<1>15. g.tag[t].index = -1
  BY <1>1, <1>6, <1>11
<1>16. Classed(g) /\ Melted(g) /\ Counted(g)
  BY <1>1, <1>11, <1>14, <1>15, MergeStruct
<1>17. \A a \in D \ {t, r} : SameFor(g, hp, a)
  BY <1>11, <1>14 DEF SameFor
<1> QED BY <1>1, <1>10, <1>11, <1>12, <1>13, <1>15, <1>16, <1>17 DEF g, Struct

(* free forgets the tag of a run that it gives back. *)
LEMMA DropStruct ==
  ASSUME NEW hp, NEW R, Struct(hp, R), ByteRuns(R), NEW t \in DOMAIN hp.tag,
         hp.tag[t].index = -1, Whole(hp, t), NEW r \in R, Covers(r, t, hp.tag[t]),
         NEW f, Shape(f), DOMAIN f.tag = DOMAIN hp.tag \ {t},
         f.l_freePages = hp.l_freePages, f.l_completePages = hp.l_completePages,
         \A a \in DOMAIN f.tag : f.tag[a] = hp.tag[a]
  PROVE  /\ Struct(f, R \ {r})
         /\ \A a \in DOMAIN hp.tag \ {t} : SameFor(f, hp, a)
<1> DEFINE T == hp.tag
           D == DOMAIN hp.tag
<1>0. Shape(hp) /\ Linked(hp) /\ Ranked(hp) /\ Tiled(hp) /\ Covered(hp, R)
      /\ Classed(hp) /\ Melted(hp) /\ Counted(hp)
  BY DEF Struct
<1>2. Tiled(f) /\ Covered(f, R \ {r})
  BY <1>0, DropTiled
<1>3. Linked(f)
  BY <1>0, ListsKept
<1>4. Ranked(f)
  BY <1>0, RanksKept
<1>5. Classed(f)
  BY <1>0 DEF Classed
<1>6. Melted(f)
  <2>1. \A a \in D \ {t} : f.tag[a].split_right # NULL => f.tag[a].split_right \in D \ {t}
    BY <1>2 DEF Tiled
  <2> QED BY <1>0, <2>1 DEF Melted
<1>7. Counted(f)
  <2>1. \A i \in Exps : WholeFree(f, i) = WholeFree(hp, i)
    BY NotExp DEF WholeFree, Whole
  <2> QED BY <1>0, <2>1, CountsKept
<1> QED BY <1>2, <1>3, <1>4, <1>5, <1>6, <1>7 DEF Struct, SameFor

(* malloc makes a tag of a new run. *)
LEMMA FreshStruct ==
  ASSUME NEW hp, NEW R, Struct(hp, R), NEW r, ByteRuns(R \cup {r}), r \notin R,
         NEW n \in Nat, n >= TagSize, Lo(r) + n = Hi(r), Lo(r) \notin DOMAIN hp.tag,
         NEW size, NEW g, Fresh(g, hp, Lo(r), n, size)
  PROVE  Struct(g, R \cup {r})
<1> DEFINE T == hp.tag
           D == DOMAIN hp.tag
           t == Lo(r)
<1>0. Shape(hp) /\ Linked(hp) /\ Ranked(hp) /\ Tiled(hp) /\ Covered(hp, R)
      /\ Classed(hp) /\ Melted(hp) /\ Counted(hp)
  BY DEF Struct
<1>1. /\ Shape(g) /\ DOMAIN g.tag = D \cup {t} /\ \A a \in D : g.tag[a] = T[a]
      /\ g.l_freePages = hp.l_freePages /\ g.l_completePages = hp.l_completePages
      /\ g.tag[t].index = -1 /\ g.tag[t].next = NULL /\ g.tag[t].prev = NULL
  BY DEF Fresh
<1>2. Tiled(g) /\ Covered(g, R \cup {r})
  BY <1>0, FreshTiled
<1> HIDE DEF t
<1>3. Linked(g)
  BY <1>0, <1>1, ListsKept
<1>4. Ranked(g)
  BY <1>0, <1>1, RanksKept
<1>5. Classed(g)
  BY <1>0, <1>1 DEF Classed
<1>6. Melted(g)
  <2>1. \A a \in D : T[a].split_right # NULL => T[a].split_right \in D
    BY <1>0 DEF Tiled
  <2> QED BY <1>0, <1>1, <2>1 DEF Melted
<1>7. Counted(g)
  <2>1. t \notin D
    BY DEF t
  <2>2. \A i \in Exps : WholeFree(g, i) = WholeFree(hp, i)
    BY <1>1, <2>1, NotExp DEF WholeFree, Whole
  <2> QED BY <1>0, <1>1, <2>2, CountsKept
<1> QED BY <1>1, <1>2, <1>3, <1>4, <1>5, <1>6, <1>7 DEF Struct

-----------------------------------------------------------------------------
(* Pages *)

(* As many pages are asked for as are needed, and the minimum at least. *)
LEMMA PagesForIs ==
  ASSUME NEW n \in Nat
  PROVE  /\ PagesFor(n) \in Nat /\ PagesFor(n) >= l_pageCount /\ PagesFor(n) >= 1
         /\ PagesFor(n) * l_pageSize \in Nat /\ PagesFor(n) * l_pageSize >= n
<1> DEFINE k == (n + l_pageSize - 1) \div l_pageSize
<1>1. k * l_pageSize >= n /\ k \in Nat
  <2>1. ASSUME NEW c \in Nat \ {0}
        PROVE  ((n + c - 1) \div c) * c >= n /\ (n + c - 1) \div c \in Nat
    OBVIOUS
  <2> QED BY <2>1, Given
<1> HIDE DEF k
<1>2. PagesFor(n) = IF k < l_pageCount THEN l_pageCount ELSE k
  BY DEF PagesFor, k
<1>3. PagesFor(n) \in Nat /\ PagesFor(n) >= l_pageCount /\ PagesFor(n) >= 1 /\ k <= PagesFor(n)
  BY <1>1, <1>2, Given
<1>4. k * l_pageSize <= PagesFor(n) * l_pageSize /\ PagesFor(n) * l_pageSize \in Nat
      /\ k * l_pageSize \in Nat
  BY <1>1, <1>3, Scale, Given
<1> QED BY <1>1, <1>3, <1>4

(* A run of whole pages is given back as it was asked for. *)
LEMMA PagesBack ==
  ASSUME NEW f \in Nat, NEW k \in Nat, k >= l_pageCount
  PROVE  PageOf(f * l_pageSize) = f /\ PagesFor(k * l_pageSize) = k
<1>1. ASSUME NEW c \in Nat \ {0}
      PROVE  (f * c) \div c = f /\ (k * c + c - 1) \div c = k
  <2>1. (f * c) \div c = f
    OBVIOUS
  <2>2. (k * c + c - 1) \div c = k
    OBVIOUS
  <2> QED BY <2>1, <2>2
<1>2. (f * l_pageSize) \div l_pageSize = f
      /\ (k * l_pageSize + l_pageSize - 1) \div l_pageSize = k
  BY <1>1, Given
<1> QED BY <1>2, Given DEF PageOf, PagesFor

(* Adjacent pages that the hooks hand out were free. *)
LEMMA NewRun ==
  ASSUME pages \subseteq 1 .. HeapPages, NEW n \in Nat, n >= 1,
         Cardinality(FreePages) >= n, Lowest(n) = Run(FirstOf(n), n)
  PROVE  /\ FirstOf(n) \in 1 .. HeapPages
         /\ Lowest(n) \subseteq 1 .. HeapPages /\ Lowest(n) \cap pages = {}
<1>1. FreePages \in SUBSET Nat /\ FreePages # {}
  <2>1. FreePages # {}
    <3> SUFFICES ASSUME FreePages = {} PROVE FALSE
      OBVIOUS
    <3> QED BY FS_EmptySet
  <2> QED BY <2>1, Given DEF FreePages
<1>2. PICK w \in FreePages : \A y \in FreePages : w <= y
  BY <1>1, LeastNatural
<1>3. w \in Lowest(n)
  <2>0. \A y \in FreePages : y \in Nat /\ w \in Nat /\ w <= y
    BY <1>1, <1>2
  <2>1. { y \in FreePages : y < w } = {}
    <3>1. \A y \in FreePages : ~(y < w)
      BY <2>0
    <3> QED BY <3>1
  <2>2. Cardinality({ y \in FreePages : y < w }) = 0
    BY <2>1, FS_EmptySet
  <2> QED BY <2>2 DEF Lowest
<1>4. Lowest(n) \subseteq FreePages
  BY DEF Lowest
<1>5. FirstOf(n) \in Lowest(n)
  <2>1. \A y \in Lowest(n) : w <= y
    BY <1>2, <1>4
  <2> QED BY <1>3, <2>1 DEF FirstOf
<1> QED BY <1>4, <1>5, Given DEF FreePages

(* They become a run of the heap. *)
LEMMA RunGained ==
  ASSUME RunsOK(runs, pages), NEW n \in Nat, n >= l_pageCount,
         liballoc_alloc(n), Gapless(n)
  PROVE  LET r == [first |-> FirstOf(n), pages |-> n]
         IN /\ RunsOK(runs \cup {r}, pages') /\ r \notin runs
            /\ FirstOf(n) \in Nat \ {0}
<1> DEFINE v == FirstOf(n)
           r == [first |-> v, pages |-> n]
<1>1. n >= 1 /\ n \in 1 .. n
  BY Given
<1>2. Lowest(n) = Run(v, n)
  BY <1>1 DEF Gapless, liballoc_alloc
<1>3. /\ v \in 1 .. HeapPages
      /\ Run(v, n) \subseteq 1 .. HeapPages /\ Run(v, n) \cap pages = {}
  BY <1>1, <1>2, NewRun DEF liballoc_alloc, RunsOK
<1>4. pages' = pages \cup Run(v, n)
  BY <1>2 DEF liballoc_alloc
<1>5. r \in [first : Nat \ {0}, pages : Nat \ {0}] /\ r.first = v /\ r.pages = n
  BY <1>1, <1>3, Given
<1>6. v \in Run(v, n)
  BY <1>1, <1>3, Given DEF Run
<1> HIDE DEF r, v
<1>7. \A q \in runs : Run(q.first, q.pages) \cap Run(v, n) = {}
  BY <1>3 DEF RunsOK
<1>8. r \notin runs
  BY <1>5, <1>6, <1>7
<1>9. RunsOK(runs \cup {r}, pages')
  <2>1. pages' \subseteq 1 .. HeapPages
    BY <1>3, <1>4 DEF RunsOK
  <2>2. runs \cup {r} \subseteq [first : Nat \ {0}, pages : Nat \ {0}]
    BY <1>5 DEF RunsOK
  <2>3. \A q \in runs \cup {r} : q.pages >= l_pageCount /\ Run(q.first, q.pages) \subseteq pages'
    BY <1>4, <1>5 DEF RunsOK
  <2>4. \A p, q \in runs \cup {r} : p # q => Run(p.first, p.pages) \cap Run(q.first, q.pages) = {}
    BY <1>5, <1>7 DEF RunsOK
  <2> QED BY <2>1, <2>2, <2>3, <2>4 DEF RunsOK
<1> QED BY <1>3, <1>8, <1>9, Given DEF r, v

(* What a failing request has mapped, it gives back, and nothing else. *)
LEMMA PagesKept ==
  ASSUME RunsOK(runs, pages), NEW n \in Nat, AllocFails(n), Gapless(n)
  PROVE  pages' = pages
<1>1. PICK i \in 0 .. (n - 1) :
        /\ Cardinality(FreePages) >= i
        /\ pages' = IF i = 0 THEN pages ELSE (pages \cup Lowest(i)) \ Run(FirstOf(i), i)
  BY DEF AllocFails
<1>2. CASE i = 0
  BY <1>1, <1>2
<1>3. CASE i # 0
  <2>1. i \in 1 .. n /\ i \in Nat /\ i >= 1
    BY <1>3
  <2>2. Lowest(i) = Run(FirstOf(i), i)
    BY <1>1, <2>1 DEF Gapless
  <2>3. Lowest(i) \cap pages = {}
    BY <1>1, <2>1, <2>2, NewRun DEF RunsOK
  <2> QED BY <1>1, <1>3, <2>2, <2>3
<1> QED BY <1>2, <1>3

(* A run that is given back is a run the heap owns, and no other run loses *)
(* a page.                                                                 *)
LEMMA RunLost ==
  ASSUME RunsOK(runs, pages), NEW r \in runs,
         NEW t, NEW c, c.real_size \in Nat, t \in Nat, Covers(r, t, c),
         c.split_left = NULL, c.split_right = NULL, pages' = pages \ Run(PageOf(t), PagesFor(c.real_size))
  PROVE  /\ [first |-> PageOf(t), pages |-> PagesFor(c.real_size)] = r
         /\ RunsOK(runs \ {r}, pages')
<1>1. /\ r \in [first : Nat \ {0}, pages : Nat \ {0}] /\ r.pages >= l_pageCount
      /\ r.first \in Nat /\ r.pages \in Nat
  BY DEF RunsOK
<1>2. t = r.first * l_pageSize /\ t + c.real_size = (r.first + r.pages) * l_pageSize
  BY DEF Covers, Lo, Hi
<1>3. c.real_size = r.pages * l_pageSize
  <2>1. (r.first + r.pages) * l_pageSize = r.first * l_pageSize + r.pages * l_pageSize
    BY <1>1, Given
  <2>2. r.first * l_pageSize \in Nat /\ r.pages * l_pageSize \in Nat
    BY <1>1, Given
  <2> QED BY <1>2, <2>1, <2>2
<1>4. PageOf(t) = r.first /\ PagesFor(c.real_size) = r.pages
  BY <1>1, <1>2, <1>3, PagesBack
<1>5. pages' = pages \ Run(r.first, r.pages)
  BY <1>4
<1>6. RunsOK(runs \ {r}, pages')
  BY <1>5 DEF RunsOK
<1> QED BY <1>1, <1>4, <1>6

-----------------------------------------------------------------------------
(* The invariant *)

(* The inductive invariant. *)
HeapInv == /\ Struct(h, runs) /\ RunsOK(runs, pages)
           /\ Holds(h, blocks) /\ OpInv /\ Owned /\ MoveInv

(* Callers do not notice changes to other tags. *)
LEMMA HoldsKept ==
  ASSUME NEW hp, NEW B, Holds(hp, B), NEW g,
         \A p \in DOMAIN B : SameFor(g, hp, TagOf(p))
  PROVE  Holds(g, B)
BY DEF Holds, SameFor

(* A tag is the tag of one pointer. *)
LEMMA Pointers ==
  /\ \A t \in Nat : TagOf(Ptr(t)) = t /\ Ptr(t) \in Nat /\ Ptr(t) # NULL
  /\ \A p \in Nat : Ptr(TagOf(p)) = p
BY Given DEF TagOf, Ptr

(* A block comes after its tag. *)
LEMMA BlockAddress ==
  ASSUME NEW B, NEW hp, NEW R, Struct(hp, R), Holds(hp, B), NEW p \in DOMAIN B
  PROVE  p \in Nat /\ p # NULL /\ TagOf(p) \in DOMAIN hp.tag /\ TagOf(p) \in Nat
<1>1. p \in Nat /\ TagOf(p) \in DOMAIN hp.tag
  BY DEF Holds
<1>2. TagOf(p) \in Nat
  BY <1>1 DEF Struct, Shape
<1> QED BY <1>1, <1>2, Given DEF TagOf

(* The heap starts empty. *)
LEMMA HeapInit == Init => HeapInv
<1> SUFFICES ASSUME Init PROVE HeapInv
  OBVIOUS
<1> USE DEF Init
<1>0. h.tag = [a \in {} |-> NULL] /\ DOMAIN h.tag = {} /\ h.l_freePages = [i \in Exps |-> NULL]
      /\ h.l_completePages = [i \in Exps |-> 0]
  OBVIOUS
<1>1. Shape(h)
  <2>1. IsFiniteSet(DOMAIN h.tag)
    BY <1>0, FS_EmptySet
  <2>2. h.tag \in [DOMAIN h.tag -> TagRec]
    BY <1>0
  <2>3. h.l_freePages \in [Exps -> Nat] /\ h.l_completePages \in [Exps -> Int]
    BY <1>0, Given
  <2>4. h = [tag |-> h.tag, l_freePages |-> h.l_freePages, l_completePages |-> h.l_completePages]
    OBVIOUS
  <2> QED BY <2>1, <2>2, <2>3, <2>4, <1>0 DEF Shape
<1>2. Linked(h) /\ Classed(h) /\ Tiled(h) /\ Covered(h, runs) /\ Melted(h)
  BY <1>0 DEF Linked, Classed, Tiled, Covered, Melted
<1>3. Ranked(h)
  <2>1. [n \in Nat |-> 0] \in [Nat -> Nat]
    OBVIOUS
  <2> QED BY <1>0, <2>1 DEF Ranked
<1>4. Counted(h)
  <2>1. \A i \in Exps : WholeFree(h, i) = {}
    BY <1>0 DEF WholeFree
  <2>2. \A i \in Exps : h.l_completePages[i] = 0
    BY <1>0
  <2>3. Cardinality({}) = 0 /\ 0 <= MAXCOMPLETE
    BY FS_EmptySet, Given
  <2> HIDE DEF Init
  <2> QED BY <2>1, <2>2, <2>3 DEF Counted
<1>5. RunsOK(runs, pages)
  BY DEF RunsOK
<1>6. Holds(h, blocks) /\ Owned
  BY <1>0 DEF Holds, Owned, Tags
<1>7. OpInv /\ MoveInv
  BY Given DEF OpInv, MoveInv, Idle, NoMove
<1> QED BY <1>1, <1>2, <1>3, <1>4, <1>5, <1>6, <1>7 DEF HeapInv, Struct

(* The calls: *)
LEMMA MallocStep ==
  ASSUME HeapInv, NEW n \in Sizes, NEW from \in Nat, malloc(n, from),
         \/ from = NULL /\ UNCHANGED moving
         \/ from \in DOMAIN blocks /\ moving' = [from |-> from, to |-> NULL]
  PROVE  HeapInv'
<1> DEFINE i == AtLeastMin(getexp(n))
<1>1. /\ UNCHANGED <<h, pages, runs, blocks>>
      /\ op' = [pc |-> "search", cur |-> h.l_freePages[i], size |-> n, index |-> i, from |-> from]
  BY DEF malloc
<1>2. i \in Exps /\ n \in Nat
  BY ClassIs, Given
<1>3. h.l_freePages[i] \in Nat
  BY <1>2 DEF HeapInv, Struct, Shape
<1>4. h.l_freePages[i] # NULL => h.l_freePages[i] \in Tags /\ h.tag[h.l_freePages[i]].index = i
  BY <1>2 DEF HeapInv, Struct, Linked, Tags
<1> HIDE DEF i
<1>5. moving' \in [from : Nat, to : Nat] /\ from # NULL => from = moving'.from
  BY Given DEF HeapInv, MoveInv
<1>6. OpInv'
  <2>1. op' \in [pc : {"idle", "search", "free"}, cur : Nat, size : Nat,
                 index : {-1} \cup Exps, from : Nat]
    BY <1>1, <1>2, <1>3
  <2>2. /\ op'.pc = "search" /\ op'.size = n /\ op'.index = i /\ op'.from = from
        /\ op'.cur = h.l_freePages[i]
    BY <1>1
  <2> QED BY <2>1, <2>2, <1>1, <1>2, <1>4, <1>5 DEF OpInv, Tags
<1>7. Owned'
  <2>1. op.pc = "idle"
    BY DEF malloc, Idle
  <2> QED BY <2>1, <1>1 DEF HeapInv, Owned, Tags
<1>8. MoveInv'
  <2>1. \A p \in DOMAIN blocks : p # NULL
    BY BlockAddress DEF HeapInv
  <2> QED BY <2>1, <1>1, Given DEF HeapInv, MoveInv
<1> QED BY <1>1, <1>6, <1>7, <1>8 DEF HeapInv

(* free begins with a block that its caller gives up. *)
LEMMA FreeStep ==
  ASSUME HeapInv, NEW p \in DOMAIN blocks, free(p),
         {moving'.from, moving'.to} \ {NULL} \subseteq DOMAIN blocks \ {p},
         moving' \in [from : Nat, to : Nat], moving'.from = NULL => moving' = NoMove
  PROVE  HeapInv'
<1>1. /\ UNCHANGED <<h, pages, runs>> /\ op = Idle
      /\ op' = [Idle EXCEPT !.pc = "free", !.cur = TagOf(p)]
      /\ blocks' = [q \in DOMAIN blocks \ {p} |-> blocks[q]]
  BY DEF free
<1>2. /\ p \in Nat /\ TagOf(p) \in Tags /\ h.tag[TagOf(p)].index = -1 /\ TagOf(p) \in Nat
  <2>1. p \in Nat /\ TagOf(p) \in Tags /\ h.tag[TagOf(p)].index = -1
    BY DEF HeapInv, Holds, Tags
  <2> QED BY <2>1 DEF HeapInv, Struct, Shape, Tags
<1>3. /\ op'.pc = "free" /\ op'.cur = TagOf(p)
      /\ op' \in [pc : {"idle", "search", "free"}, cur : Nat, size : Nat,
                  index : {-1} \cup Exps, from : Nat]
  BY <1>1, <1>2, Given DEF Idle
<1>4. DOMAIN blocks' = DOMAIN blocks \ {p} /\ Ptr(TagOf(p)) = p
  BY <1>1, <1>2, Pointers
<1>5. OpInv'
  BY <1>1, <1>2, <1>3, <1>4 DEF OpInv, Tags
<1>6. Owned'
  <2> SUFFICES ASSUME NEW t \in Tags, h.tag[t].index = -1
               PROVE  Ptr(t) \in DOMAIN blocks' \/ t = TagOf(p)
    BY <1>1, <1>3 DEF Owned, Tags
  <2>1. Ptr(t) \in DOMAIN blocks
    BY <1>1 DEF HeapInv, Owned, Idle
  <2>2. TagOf(Ptr(t)) = t
    BY Pointers DEF HeapInv, Struct, Shape, Tags
  <2> QED BY <2>1, <2>2, <1>4
<1>7. Holds(h, blocks)'
  BY <1>1, <1>4 DEF HeapInv, Holds
<1>8. MoveInv'
  BY <1>4 DEF MoveInv
<1> QED BY <1>1, <1>5, <1>6, <1>7, <1>8 DEF HeapInv

(* malloc goes on along its list. *)
LEMMA SearchStep ==
  ASSUME HeapInv, SearchNext
  PROVE  HeapInv'
<1>1. /\ op.pc = "search" /\ op.cur # NULL
      /\ op' = [op EXCEPT !.cur = h.tag[op.cur].next]
      /\ UNCHANGED <<h, moving, pages, runs, blocks>>
  BY DEF SearchNext
<1> DEFINE nx == h.tag[op.cur].next
<1>2. op.cur \in Tags /\ h.tag[op.cur].index = op.index /\ op.index \in Exps
  BY <1>1 DEF HeapInv, OpInv
<1>3. nx \in Nat /\ (nx # NULL => nx \in Tags /\ h.tag[nx].index = op.index)
  BY <1>2, Fields DEF HeapInv, Struct, Linked, Tags
<1> HIDE DEF nx
<1>4. op \in [pc : {"idle", "search", "free"}, cur : Nat, size : Nat,
              index : {-1} \cup Exps, from : Nat]
  BY DEF HeapInv, OpInv
<1>5. /\ op' \in [pc : {"idle", "search", "free"}, cur : Nat, size : Nat,
                  index : {-1} \cup Exps, from : Nat]
      /\ op'.pc = "search" /\ op'.cur = nx /\ op'.size = op.size
      /\ op'.index = op.index /\ op'.from = op.from
  BY <1>1, <1>3, <1>4 DEF nx
<1>6. OpInv'
  BY <1>1, <1>3, <1>5 DEF HeapInv, OpInv, Tags
<1>7. Owned' /\ MoveInv'
  BY <1>1, <1>5 DEF HeapInv, Owned, MoveInv, Tags
<1> QED BY <1>1, <1>6, <1>7 DEF HeapInv

(* A call ends with a block, or without one. *)
LEMMA HandOut ==
  ASSUME HeapInv, op.pc = "search", NEW t \in DOMAIN h'.tag, t \in Nat,
         \A a \in Tags \ {t} : SameFor(h', h, a),
         t \in Tags => h.tag[t].index # -1,
         \A a \in DOMAIN h'.tag \ Tags : a # t => h'.tag[a].index # -1,
         h'.tag[t].index = -1, h'.tag[t].size = op.size,
         TagSize + op.size <= h'.tag[t].real_size,
         Return(Ptr(t))
  PROVE  Holds(h', blocks') /\ OpInv' /\ Owned' /\ MoveInv'
<1> DEFINE p == Ptr(t)
<1>1. p \in Nat /\ p # NULL /\ TagOf(p) = t
  BY Pointers
<1>2. /\ op' = Idle
      /\ blocks' = [q \in DOMAIN blocks \cup {p} |-> IF q = p THEN op.size ELSE blocks[q]]
      /\ moving' = IF op.from = NULL THEN moving ELSE [from |-> op.from, to |-> p]
  BY <1>1 DEF Return
<1>3. DOMAIN blocks' = DOMAIN blocks \cup {p} /\ blocks'[p] = op.size
      /\ \A q \in DOMAIN blocks \ {p} : blocks'[q] = blocks[q]
  BY <1>2
<1>4. op.size \in Nat /\ op.from \in Nat /\ (op.from # NULL => op.from = moving.from)
  BY DEF HeapInv, OpInv
<1> HIDE DEF p
<1>5. \A q \in DOMAIN blocks : q # p /\ TagOf(q) # t /\ q \in Nat /\ TagOf(q) \in Tags
                               /\ h.tag[TagOf(q)].index = -1
  BY <1>1 DEF HeapInv, Holds, Tags
<1>6. Holds(h', blocks')
  <2>1. blocks' \in [DOMAIN blocks' -> Nat]
    BY <1>2, <1>4 DEF HeapInv, Holds
  <2>2. ASSUME NEW q \in DOMAIN blocks
        PROVE  /\ q \in Nat /\ TagOf(q) \in DOMAIN h'.tag
               /\ h'.tag[TagOf(q)].index = -1
               /\ h'.tag[TagOf(q)].size = blocks'[q]
               /\ TagSize + blocks'[q] <= h'.tag[TagOf(q)].real_size
    <3>1. SameFor(h', h, TagOf(q)) /\ blocks'[q] = blocks[q]
      BY <1>3, <1>5
    <3> QED BY <3>1, <1>5 DEF HeapInv, Holds, SameFor
  <2> QED BY <2>1, <2>2, <1>1, <1>3 DEF Holds
<1>7. OpInv'
  BY <1>2, Given DEF OpInv, Idle
<1>8. Owned'
  <2> SUFFICES ASSUME NEW a \in DOMAIN h'.tag, h'.tag[a].index = -1
               PROVE  Ptr(a) \in DOMAIN blocks'
    BY DEF Owned, Tags
  <2>1. CASE a = t
    BY <2>1, <1>3 DEF p
  <2>2. CASE a # t
    <3>1. a \in Tags /\ h.tag[a].index = -1
      BY <2>2 DEF SameFor
    <3>2. Ptr(a) \in DOMAIN blocks
      BY <3>1 DEF HeapInv, Owned
    <3> QED BY <3>2, <1>3
  <2> QED BY <2>1, <2>2
<1>9. MoveInv'
  <2>1. /\ moving \in [from : Nat, to : Nat] /\ {moving.from, moving.to} \ {NULL} \subseteq DOMAIN blocks
        /\ moving.from = NULL => moving = NoMove
    BY DEF HeapInv, MoveInv
  <2>2. CASE op.from = NULL
    BY <2>1, <2>2, <1>2, <1>3 DEF MoveInv
  <2>3. CASE op.from # NULL
    <3>1. moving' = [from |-> op.from, to |-> p] /\ op.from \in DOMAIN blocks
      BY <2>1, <2>3, <1>2, <1>4
    <3> QED BY <2>3, <3>1, <1>1, <1>3, <1>4 DEF MoveInv
  <2> QED BY <2>2, <2>3
<1> QED BY <1>6, <1>7, <1>8, <1>9

(* malloc takes the block it has found. *)
LEMMA TakeFoundStep ==
  ASSUME HeapInv, TakeFound
  PROVE  HeapInv'
<1> DEFINE t == op.cur
           n == op.size
           i == op.index
           o == remove_tag(h, t)
           d == o.l_completePages[i] - 1
           g == IF Whole(o, t) THEN [o EXCEPT !.l_completePages[i] = d] ELSE o
<1>1. /\ op.pc = "search" /\ t # NULL /\ Fits(t, n)
      /\ h' = Place(g, t, n) /\ Return(Ptr(t)) /\ UNCHANGED <<pages, runs>>
  BY DEF TakeFound
<1>2. /\ t \in Tags /\ h.tag[t].index = i /\ i \in Exps /\ n \in Nat /\ i # -1
  BY <1>1, NotExp DEF HeapInv, OpInv
<1>3. Struct(h, runs) /\ Shape(h) /\ ByteRuns(runs)
  BY RunsApart DEF HeapInv, Struct
<1>4. t \in Nat /\ h.tag[t].real_size \in Nat /\ TagSize + n <= h.tag[t].real_size
  <2>1. t \in Nat /\ h.tag[t].real_size \in Nat
    BY <1>2, <1>3, Fields DEF Tags
  <2>2. h.tag[t].real_size - TagSize >= n + TagSize
    BY <1>1 DEF Fits
  <2> QED BY <2>1, <2>2, <1>2, Given
<1>5. Removed(o, h, t)
  BY <1>2, <1>3, RemoveIs DEF Tags
<1> HIDE DEF o
<1>6. Shape(o) /\ d \in Int
  BY <1>2, <1>5 DEF Removed, Shape
<1>7. Recounted(g, o, t, i, -1)
  <2>1. d = o.l_completePages[i] + (-1)
    BY <1>2, <1>6 DEF Shape
  <2> HIDE DEF d
  <2> QED BY <2>1, <1>2, <1>6, RecountIs
<1> HIDE DEF g
<1>8. /\ Struct(g, runs) /\ SameGeometry(g, h)
      /\ g.tag[t].index = -1 /\ NoFreeRight(g, t)
      /\ \A a \in Tags \ {t} : SameFor(g, h, a)
  BY <1>2, <1>3, <1>5, <1>7, TakeOutStruct DEF Tags
<1>9. DOMAIN g.tag = Tags /\ t \in DOMAIN g.tag /\ g.tag[t].real_size = h.tag[t].real_size
  BY <1>2, <1>8 DEF SameGeometry, Tags
<1>10. /\ Struct(h', runs) /\ DOMAIN g.tag \subseteq DOMAIN h'.tag
       /\ \A a \in DOMAIN g.tag \ {t} : SameFor(h', g, a)
       /\ h'.tag[t].index = -1 /\ h'.tag[t].size = n
       /\ TagSize + n <= h'.tag[t].real_size
       /\ \A a \in DOMAIN h'.tag \ DOMAIN g.tag : h'.tag[a].index # -1
  BY <1>1, <1>2, <1>3, <1>4, <1>8, <1>9, PlaceStruct
<1>11. \A a \in Tags \ {t} : SameFor(h', h, a)
  BY <1>8, <1>9, <1>10 DEF SameFor
<1>12. Holds(h', blocks') /\ OpInv' /\ Owned' /\ MoveInv'
  <2> HIDE DEF t, n
  <2>1. op.pc = "search" /\ t \in DOMAIN h'.tag /\ t \in Nat
    BY <1>1, <1>4, <1>9, <1>10
  <2>2. h.tag[t].index # -1
    BY <1>2
  <2>3. \A a \in DOMAIN h'.tag \ Tags : h'.tag[a].index # -1
    BY <1>9, <1>10
  <2>4. h'.tag[t].size = op.size /\ TagSize + op.size <= h'.tag[t].real_size
    BY <1>10 DEF n
  <2> QED BY <2>1, <2>2, <2>3, <2>4, <1>1, <1>10, <1>11, HandOut
<1> QED BY <1>1, <1>10, <1>12 DEF HeapInv

(* malloc takes new pages, whose tag is new. *)
LEMMA TakeNewStep ==
  ASSUME HeapInv, TakeNewPages, Granted
  PROVE  HeapInv' /\ FirstOf(PagesFor(op.size + TagSize)) * l_pageSize \in Nat \ Tags
<1> DEFINE k == PagesFor(op.size + TagSize)
           v == FirstOf(k)
           n == op.size
           t == v * l_pageSize
           r == [first |-> v, pages |-> k]
           g == allocate_new_tag(h, v, n)
<1>1. /\ op.pc = "search" /\ op.cur = NULL /\ liballoc_alloc(k)
      /\ h' = Place(g, t, n) /\ runs' = runs \cup {r} /\ Return(Ptr(t))
  BY DEF TakeNewPages
<1>2. n \in Nat /\ k \in Nat /\ k >= l_pageCount /\ k >= 1
      /\ k * l_pageSize \in Nat /\ k * l_pageSize >= n + TagSize
  <2>1. n \in Nat /\ n + TagSize \in Nat
    BY Given DEF HeapInv, OpInv
  <2> QED BY <2>1, PagesForIs
<1>3. Gapless(k)
  BY <1>1 DEF Granted
<1>4. Struct(h, runs) /\ RunsOK(runs, pages) /\ Shape(h)
  BY DEF HeapInv, Struct
<1> HIDE DEF k
<1>5. RunsOK(runs', pages') /\ r \notin runs /\ v \in Nat \ {0}
  BY <1>1, <1>2, <1>3, <1>4, RunGained
<1>6. r.first = v /\ r.pages = k
  OBVIOUS
<1> HIDE DEF r, v
<1>7. ByteRuns(runs \cup {r}) /\ Lo(r) = t
  BY <1>1, <1>5, <1>6, RunsApart DEF Lo
<1>8. Lo(r) + k * l_pageSize = Hi(r) /\ t \in Nat
  <2>1. (v + k) * l_pageSize = v * l_pageSize + k * l_pageSize /\ v * l_pageSize \in Nat
    BY <1>2, <1>5, Given
  <2> QED BY <2>1, <1>6, <1>7 DEF Hi
<1>9. t \notin Tags
  <2> SUFFICES ASSUME t \in Tags PROVE FALSE
    OBVIOUS
  <2>1. PICK q \in runs : Covers(q, t, h.tag[t])
    BY <1>4 DEF Struct, Covered, Tags
  <2>2. /\ Lo(q) \in Nat /\ Hi(q) \in Nat /\ Lo(r) < Hi(r) /\ Hi(r) \in Nat
        /\ Hi(q) <= Lo(r) \/ Hi(r) <= Lo(q)
    BY <1>5, <1>7 DEF ByteRuns
  <2>3. h.tag[t].real_size \in Nat /\ h.tag[t].real_size >= TagSize
    BY <1>4, Fields DEF Tags, Struct, Tiled
  <2> HIDE DEF t
  <2> QED BY <2>1, <2>2, <2>3, <1>7, <1>8, Given DEF Covers
<1>10. Fresh(g, h, t, k * l_pageSize, n)
  BY <1>2, <1>4, <1>5, <1>9, FreshIs DEF k, Tags
<1> HIDE DEF g, t
<1>11. Struct(g, runs')
  <2>1. k * l_pageSize >= TagSize
    BY <1>2, Given
  <2>2. Lo(r) \notin DOMAIN h.tag
    BY <1>7, <1>9 DEF Tags
  <2> QED BY <2>1, <2>2, <1>1, <1>2, <1>4, <1>5, <1>7, <1>8, <1>10, FreshStruct
<1>12. /\ DOMAIN g.tag = Tags \cup {t} /\ \A a \in Tags : g.tag[a] = h.tag[a]
       /\ g.tag[t].index = -1 /\ NoFreeRight(g, t) /\ g.tag[t].real_size = k * l_pageSize
  BY <1>10 DEF Fresh, Tags, NoFreeRight
<1>13. /\ Struct(h', runs') /\ DOMAIN g.tag \subseteq DOMAIN h'.tag
       /\ \A a \in DOMAIN g.tag \ {t} : SameFor(h', g, a)
       /\ h'.tag[t].index = -1 /\ h'.tag[t].size = n
       /\ TagSize + n <= h'.tag[t].real_size
       /\ \A a \in DOMAIN h'.tag \ DOMAIN g.tag : h'.tag[a].index # -1
  <2>1. TagSize + n <= g.tag[t].real_size
    BY <1>2, <1>12, Given
  <2>2. ByteRuns(runs')
    BY <1>1, <1>7
  <2> QED BY <2>1, <2>2, <1>1, <1>2, <1>11, <1>12, PlaceStruct
<1>14. \A a \in Tags \ {t} : SameFor(h', h, a)
  BY <1>12, <1>13 DEF SameFor
<1>15. Holds(h', blocks') /\ OpInv' /\ Owned' /\ MoveInv'
  <2>1. t \in DOMAIN h'.tag
    BY <1>12, <1>13
  <2>2. \A a \in DOMAIN h'.tag \ Tags : a # t => h'.tag[a].index # -1
    BY <1>12, <1>13
  <2>3. h'.tag[t].size = op.size /\ TagSize + op.size <= h'.tag[t].real_size
    BY <1>13
  <2> QED BY <2>1, <2>2, <2>3, <1>1, <1>8, <1>9, <1>13, <1>14, HandOut
<1> QED BY <1>5, <1>8, <1>9, <1>13, <1>15 DEF HeapInv, k, v, t

(* malloc fails and leaves everything as it was. *)
LEMMA OutOfMemoryStep ==
  ASSUME HeapInv, OutOfMemory, Granted
  PROVE  HeapInv'
<1>1. /\ op.pc = "search" /\ op.cur = NULL /\ UNCHANGED <<h, runs>>
      /\ op' = Idle /\ blocks' = blocks
      /\ moving' = IF op.from = NULL THEN moving ELSE [from |-> op.from, to |-> NULL]
      /\ AllocFails(PagesFor(op.size + TagSize))
  BY DEF OutOfMemory, Return
<1>2. Gapless(PagesFor(op.size + TagSize))
  BY <1>1 DEF Granted
<1>3. PagesFor(op.size + TagSize) \in Nat
  BY PagesForIs, Given DEF HeapInv, OpInv
<1>4. pages' = pages
  BY <1>1, <1>2, <1>3, PagesKept DEF HeapInv
<1>5. OpInv'
  BY <1>1, Given DEF OpInv, Idle
<1>6. Owned'
  BY <1>1 DEF HeapInv, Owned, Tags
<1>7. MoveInv'
  <2>1. op.from \in Nat /\ (op.from # NULL => op.from = moving.from)
    BY <1>1 DEF HeapInv, OpInv
  <2> QED BY <1>1, <2>1, Given DEF HeapInv, MoveInv
<1> QED BY <1>1, <1>4, <1>5, <1>6, <1>7 DEF HeapInv

(* The block that is being freed has an owner no more, and every other tag *)
(* that its merging leaves in use is as it was.                            *)
LEMMA Merging ==
  ASSUME HeapInv, op.pc = "free", UNCHANGED <<moving, blocks>>,
         op' = [op EXCEPT !.cur = op'.cur], op'.cur \in DOMAIN h'.tag, op'.cur \in Nat,
         h'.tag[op'.cur].index = -1,
         NEW S, S = Tags \cap {op.cur, op'.cur},
         \A a \in S : a # op.cur => h.tag[a].index # -1,
         DOMAIN h'.tag \subseteq Tags,
         \A a \in Tags \ S : h.tag[a].index = -1 => SameFor(h', h, a),
         \A a \in DOMAIN h'.tag \ {op'.cur} : h'.tag[a].index = -1 =>
           h.tag[a].index = -1 /\ a # op.cur
  PROVE  Holds(h', blocks') /\ OpInv' /\ Owned' /\ MoveInv'
<1> DEFINE x == op'.cur
<1>1. /\ op.cur \in Tags /\ h.tag[op.cur].index = -1 /\ Ptr(op.cur) \notin DOMAIN blocks
      /\ op \in [pc : {"idle", "search", "free"}, cur : Nat, size : Nat,
                 index : {-1} \cup Exps, from : Nat]
  BY DEF HeapInv, OpInv
<1>2. /\ op'.pc = "free"
      /\ op' \in [pc : {"idle", "search", "free"}, cur : Nat, size : Nat,
                  index : {-1} \cup Exps, from : Nat]
  BY <1>1
<1>3. ASSUME NEW p \in DOMAIN blocks
      PROVE  /\ TagOf(p) \in Tags /\ h.tag[TagOf(p)].index = -1 /\ TagOf(p) # op.cur
             /\ TagOf(p) \notin S
  <2>1. p \in Nat /\ TagOf(p) \in Tags /\ h.tag[TagOf(p)].index = -1
    BY DEF HeapInv, Holds, Tags
  <2>2. TagOf(p) # op.cur
    BY <2>1, <1>1, Pointers
  <2> QED BY <2>1, <2>2
<1>4. Holds(h', blocks')
  <2>1. \A p \in DOMAIN blocks : SameFor(h', h, TagOf(p))
    BY <1>3
  <2> QED BY <2>1, HoldsKept DEF HeapInv
<1>5. OpInv'
  <2>1. x \in Tags /\ (x = op.cur \/ h.tag[x].index # -1)
    OBVIOUS
  <2>2. Ptr(x) \notin DOMAIN blocks
    BY <2>1, <1>1, <1>3, Pointers
  <2> QED BY <2>2, <1>2 DEF OpInv, Tags
<1>6. Owned'
  <2> SUFFICES ASSUME NEW a \in DOMAIN h'.tag, h'.tag[a].index = -1
               PROVE  Ptr(a) \in DOMAIN blocks \/ a = op'.cur
    BY <1>2 DEF Owned, Tags
  <2>1. CASE a # op'.cur
    BY <2>1 DEF HeapInv, Owned
  <2> QED BY <2>1
<1>7. MoveInv'
  BY DEF HeapInv, MoveInv
<1> QED BY <1>4, <1>5, <1>6, <1>7

(* free merges to the left. *)
LEMMA MeltStep ==
  ASSUME HeapInv, MeltLeft
  PROVE  HeapInv'
<1> DEFINE t == op.cur
           l == h.tag[t].split_left
<1>1. /\ op.pc = "free" /\ IsFree(l) /\ h' = remove_tag(melt_left(h, t), l)
      /\ op' = [op EXCEPT !.cur = l] /\ UNCHANGED <<moving, pages, runs, blocks>>
  BY DEF MeltLeft, LeftIsFree
<1>2. t \in Tags /\ h.tag[t].index = -1
  BY <1>1 DEF HeapInv, OpInv
<1>3. Struct(h, runs) /\ Shape(h) /\ ByteRuns(runs)
  BY RunsApart DEF HeapInv, Struct
<1>4. l # NULL /\ l \in Tags /\ h.tag[l].index \in Exps /\ h.tag[l].index # -1 /\ l \in Nat
  <2>1. l # NULL /\ h.tag[l].index >= 0
    BY <1>1 DEF IsFree
  <2>2. l \in Tags
    BY <2>1, <1>2, <1>3 DEF Struct, Tiled, Tags
  <2> QED BY <2>1, <2>2, <1>3, Fields, NotExp DEF Tags
<1>5. /\ Struct(h', runs) /\ DOMAIN h'.tag = Tags \ {t}
      /\ l \in DOMAIN h'.tag /\ h'.tag[l].index = -1
      /\ \A a \in Tags \ {t, l} : SameFor(h', h, a)
  BY <1>1, <1>2, <1>3, <1>4, MeltStruct DEF Tags
<1>6. op'.cur = l /\ op' = [op EXCEPT !.cur = op'.cur]
  BY <1>1 DEF HeapInv, OpInv
<1>7. Holds(h', blocks') /\ OpInv' /\ Owned' /\ MoveInv'
  <2> DEFINE S == Tags \cap {op.cur, op'.cur}
  <2> HIDE DEF l
  <2>1. \A a \in S : a # op.cur => h.tag[a].index # -1
    BY <1>4, <1>6
  <2>2. \A a \in Tags \ S : SameFor(h', h, a)
    BY <1>5, <1>6
  <2>3. \A a \in DOMAIN h'.tag \ {op'.cur} : h'.tag[a].index = -1 =>
          h.tag[a].index = -1 /\ a # op.cur
    BY <1>5, <1>6 DEF SameFor
  <2>4. DOMAIN h'.tag \subseteq Tags /\ op'.cur \in DOMAIN h'.tag /\ op'.cur \in Nat
        /\ h'.tag[op'.cur].index = -1
    BY <1>4, <1>5, <1>6
  <2> HIDE DEF S
  <2>5. S = Tags \cap {op.cur, op'.cur}
    BY DEF S
  <2> QED BY <2>1, <2>2, <2>3, <2>4, <2>5, <1>1, <1>6, Merging
<1> QED BY <1>1, <1>5, <1>7 DEF HeapInv

(* free merges to the right. *)
LEMMA AbsorbStep ==
  ASSUME HeapInv, AbsorbRight
  PROVE  HeapInv'
<1> DEFINE t == op.cur
           r == h.tag[t].split_right
<1>1. /\ op.pc = "free" /\ IsFree(r) /\ h' = absorb_right(h, t)
      /\ UNCHANGED <<op, moving, pages, runs, blocks>>
  BY DEF AbsorbRight, RightIsFree
<1>2. t \in Tags /\ h.tag[t].index = -1 /\ t \in Nat
  BY <1>1 DEF HeapInv, OpInv
<1>3. Struct(h, runs) /\ Shape(h) /\ ByteRuns(runs)
  BY RunsApart DEF HeapInv, Struct
<1>4. r # NULL /\ r \in Tags /\ h.tag[r].index \in Exps /\ h.tag[r].index # -1
  <2>1. r # NULL /\ h.tag[r].index >= 0
    BY <1>1 DEF IsFree
  <2>2. r \in Tags
    BY <2>1, <1>2, <1>3 DEF Struct, Tiled, Tags
  <2> QED BY <2>1, <2>2, <1>3, Fields, NotExp DEF Tags
<1>5. /\ Struct(h', runs) /\ DOMAIN h'.tag = Tags \ {r}
      /\ t \in DOMAIN h'.tag /\ h'.tag[t].index = -1
      /\ \A a \in Tags \ {t, r} : SameFor(h', h, a)
  BY <1>1, <1>2, <1>3, <1>4, AbsorbStruct DEF Tags
<1>6. op'.cur = t /\ op' = [op EXCEPT !.cur = op'.cur]
  BY <1>1 DEF HeapInv, OpInv
<1>7. Holds(h', blocks') /\ OpInv' /\ Owned' /\ MoveInv'
  <2> DEFINE S == Tags \cap {op.cur, op'.cur}
  <2> HIDE DEF r
  <2>1. \A a \in S : a # op.cur => h.tag[a].index # -1
    BY <1>6
  <2>2. \A a \in Tags \ S : h.tag[a].index = -1 => SameFor(h', h, a)
    BY <1>4, <1>5, <1>6
  <2>3. \A a \in DOMAIN h'.tag \ {op'.cur} : h'.tag[a].index = -1 =>
          h.tag[a].index = -1 /\ a # op.cur
    BY <1>5, <1>6 DEF SameFor
  <2>4. DOMAIN h'.tag \subseteq Tags /\ op'.cur \in DOMAIN h'.tag /\ op'.cur \in Nat
        /\ h'.tag[op'.cur].index = -1
    BY <1>2, <1>5, <1>6
  <2> HIDE DEF S
  <2>5. S = Tags \cap {op.cur, op'.cur}
    BY DEF S
  <2> QED BY <2>1, <2>2, <2>3, <2>4, <2>5, <1>1, <1>6, Merging
<1> QED BY <1>1, <1>5, <1>7 DEF HeapInv

(* The block is gone, or free again, and the call has ended. *)
LEMMA PutAway ==
  ASSUME HeapInv, op.pc = "free", UNCHANGED <<moving, blocks>>, op' = Idle,
         DOMAIN h'.tag \subseteq Tags,
         \A a \in Tags \ {op.cur} : SameFor(h', h, a),
         op.cur \in DOMAIN h'.tag => h'.tag[op.cur].index # -1
  PROVE  Holds(h', blocks') /\ OpInv' /\ Owned' /\ MoveInv'
<1>1. op.cur \in Tags /\ Ptr(op.cur) \notin DOMAIN blocks
  BY DEF HeapInv, OpInv
<1>2. Holds(h', blocks')
  <2>1. \A p \in DOMAIN blocks : p \in Nat /\ TagOf(p) \in Tags
    BY DEF HeapInv, Holds, Tags
  <2>2. \A p \in DOMAIN blocks : TagOf(p) # op.cur
    BY <2>1, <1>1, Pointers
  <2>3. \A p \in DOMAIN blocks : SameFor(h', h, TagOf(p))
    BY <2>1, <2>2
  <2> QED BY <2>3, HoldsKept DEF HeapInv
<1>3. OpInv' /\ MoveInv'
  BY Given DEF HeapInv, OpInv, MoveInv, Idle
<1>4. Owned'
  <2> SUFFICES ASSUME NEW a \in DOMAIN h'.tag, h'.tag[a].index = -1
               PROVE  Ptr(a) \in DOMAIN blocks
    BY DEF Owned, Tags
  <2>1. a \in Tags \ {op.cur} /\ h.tag[a].index = -1
    BY DEF SameFor
  <2> QED BY <2>1 DEF HeapInv, Owned
<1> QED BY <1>2, <1>3, <1>4

(* free gives a whole run back to the hooks. *)
LEMMA ReturnStep ==
  ASSUME HeapInv, ReturnPages
  PROVE  /\ HeapInv'
         /\ \E r \in runs : runs' = runs \ {r} /\ pages' = pages \ Run(r.first, r.pages)
<1> DEFINE t == op.cur
           k == PagesFor(h.tag[t].real_size)
<1>1. /\ op.pc = "free" /\ Whole(h, t) /\ op' = Idle /\ UNCHANGED <<moving, blocks>>
      /\ pages' = pages \ Run(PageOf(t), k)
      /\ runs' = runs \ {[first |-> PageOf(t), pages |-> k]}
      /\ h' = [h EXCEPT !.tag = [a \in DOMAIN @ \ {t} |-> @[a]]]
  BY DEF ReturnPages, Merged, TooMany, liballoc_free
<1>2. t \in Tags /\ h.tag[t].index = -1 /\ t \in Nat
  BY <1>1 DEF HeapInv, OpInv
<1>3. Struct(h, runs) /\ Shape(h) /\ ByteRuns(runs) /\ RunsOK(runs, pages)
  BY RunsApart DEF HeapInv, Struct
<1>4. PICK r \in runs : Covers(r, t, h.tag[t])
  BY <1>2, <1>3 DEF Struct, Covered, Tags
<1>5. h.tag[t].real_size \in Nat /\ h.tag[t].split_left = NULL /\ h.tag[t].split_right = NULL
  BY <1>1, <1>2, <1>3, Fields DEF Whole, Tags
<1>6. [first |-> PageOf(t), pages |-> k] = r /\ RunsOK(runs \ {r}, pages')
  BY <1>1, <1>2, <1>3, <1>4, <1>5, RunLost
<1>7. runs' = runs \ {r}
  BY <1>1, <1>6
<1>8. /\ Shape(h') /\ DOMAIN h'.tag = Tags \ {t}
      /\ h'.l_freePages = h.l_freePages /\ h'.l_completePages = h.l_completePages
      /\ \A a \in DOMAIN h'.tag : h'.tag[a] = h.tag[a]
  <2> DEFINE D == DOMAIN h.tag
             tag == [a \in D \ {t} |-> h.tag[a]]
  <2>1. /\ h \in [tag : [D -> TagRec], l_freePages : [Exps -> Nat],
                  l_completePages : [Exps -> Int]]
        /\ D \subseteq Nat \ {NULL} /\ IsFiniteSet(D)
    BY <1>3 DEF Shape
  <2>2. IsFiniteSet(D \ {t})
    BY <2>1, FS_RemoveElement
  <2>3. h' = [tag |-> tag, l_freePages |-> h.l_freePages,
              l_completePages |-> h.l_completePages]
    BY <1>1, <2>1
  <2>4. tag \in [D \ {t} -> TagRec] /\ DOMAIN tag = D \ {t} /\ \A a \in D \ {t} : tag[a] = h.tag[a]
    BY <2>1
  <2> HIDE DEF tag
  <2>5. /\ h'.tag = tag /\ h'.l_freePages = h.l_freePages
        /\ h'.l_completePages = h.l_completePages
    BY <2>3
  <2>6. h' \in [tag : [D \ {t} -> TagRec], l_freePages : [Exps -> Nat],
               l_completePages : [Exps -> Int]]
    BY <2>1, <2>3, <2>4
  <2>7. Shape(h')
    BY <2>1, <2>2, <2>4, <2>5, <2>6 DEF Shape
  <2> QED BY <2>4, <2>5, <2>7 DEF Tags
<1>9. Struct(h', runs') /\ \A a \in Tags \ {t} : SameFor(h', h, a)
  <2>1. Whole(h, t)
    BY <1>1
  <2>2. Struct(h', runs \ {r}) /\ \A a \in Tags \ {t} : SameFor(h', h, a)
    BY <2>1, <1>2, <1>3, <1>4, <1>8, DropStruct DEF Tags
  <2> QED BY <2>2, <1>7
<1>10. Holds(h', blocks') /\ OpInv' /\ Owned' /\ MoveInv'
  BY <1>1, <1>8, <1>9, PutAway
<1>11. pages' = pages \ Run(r.first, r.pages)
  BY <1>1, <1>6
<1> QED BY <1>6, <1>7, <1>9, <1>10, <1>11 DEF HeapInv

(* free keeps the block in a list. *)
LEMMA KeepStep ==
  ASSUME HeapInv, KeepFree
  PROVE  HeapInv'
<1> DEFINE t == op.cur
           i == ClassOf(t)
           d == h.l_completePages[i] + 1
           c == IF Whole(h, t) THEN [h EXCEPT !.l_completePages[i] = d] ELSE h
<1>1. /\ op.pc = "free" /\ ~IsFree(h.tag[t].split_left) /\ ~IsFree(h.tag[t].split_right)
      /\ ~(Whole(h, t) /\ h.l_completePages[i] = MAXCOMPLETE)
      /\ h' = insert_tag(c, t, i) /\ op' = Idle /\ UNCHANGED <<moving, pages, runs, blocks>>
  BY DEF KeepFree, Merged, TooMany, LeftIsFree, RightIsFree
<1>2. t \in Tags /\ h.tag[t].index = -1 /\ t \in Nat
  BY <1>1 DEF HeapInv, OpInv
<1>3. Struct(h, runs) /\ Shape(h)
  BY DEF HeapInv, Struct
<1>4. h.tag[t].real_size \in Nat
  BY <1>2, <1>3, Fields DEF Tags
<1>5. i = ClassFor(h.tag[t].real_size) /\ i \in Exps /\ i >= 0 /\ i \in Int
  BY <1>4, ClassForIs, NotExp DEF ClassOf, ClassFor
<1> HIDE DEF i
<1>6. Recounted(c, h, t, i, 1)
  <2>1. h.l_completePages[i] \in Int /\ d \in Int
    BY <1>3, <1>5 DEF Shape
  <2> HIDE DEF d
  <2>2. d = h.l_completePages[i] + 1
    BY DEF d
  <2> QED BY <2>1, <2>2, <1>3, <1>5, RecountIs
<1> HIDE DEF c
<1>7. Inserted(h', c, t, i)
  <2>1. Shape(c) /\ c.tag = h.tag
    BY <1>6 DEF Recounted
  <2>2. i = IF i < 0 THEN ClassFor(c.tag[t].real_size) ELSE i
    BY <1>5
  <2> QED BY <2>1, <2>2, <1>1, <1>2, <1>5, InsertIs DEF Tags
<1>8. NoFreeLeft(h, t) /\ NoFreeRight(h, t)
  <2>1. ASSUME NEW a, a # NULL => a \in Tags, ~IsFree(a)
        PROVE  a # NULL => h.tag[a].index = -1
    BY <2>1, <1>3, Fields, NotExp DEF IsFree, Tags
  <2>2. /\ h.tag[t].split_left # NULL => h.tag[t].split_left \in Tags
        /\ h.tag[t].split_right # NULL => h.tag[t].split_right \in Tags
    BY <1>2, <1>3 DEF Struct, Tiled, Tags
  <2> QED BY <2>1, <2>2, <1>1 DEF NoFreeLeft, NoFreeRight
<1>9. /\ Struct(h', runs) /\ DOMAIN h'.tag = Tags /\ h'.tag[t].index # -1
      /\ \A a \in Tags \ {t} : SameFor(h', h, a)
  BY <1>1, <1>2, <1>3, <1>5, <1>6, <1>7, <1>8, KeepStruct DEF Tags
<1>10. Holds(h', blocks') /\ OpInv' /\ Owned' /\ MoveInv'
  BY <1>1, <1>9, PutAway
<1> QED BY <1>1, <1>9, <1>10 DEF HeapInv

(* Every step keeps the invariant. *)
LEMMA HeapStep ==
  ASSUME HeapInv, [Next /\ Granted]_vars
  PROVE  HeapInv'
<1>1. CASE UNCHANGED vars
  BY <1>1 DEF vars, HeapInv, OpInv, Owned, MoveInv, Tags
<1>2. ASSUME NEW n \in Sizes, Malloc(n) PROVE HeapInv'
  <2>1. malloc(n, NULL) /\ UNCHANGED moving /\ NULL \in Nat
    BY <1>2, Given DEF Malloc
  <2> QED BY <2>1, MallocStep
<1>3. ASSUME NEW p \in DOMAIN blocks, Free(p) PROVE HeapInv'
  <2>1. free(p) /\ p \notin {moving.from, moving.to} /\ UNCHANGED moving
    BY <1>3 DEF Free
  <2>2. {moving'.from, moving'.to} \ {NULL} \subseteq DOMAIN blocks \ {p}
        /\ moving' \in [from : Nat, to : Nat] /\ (moving'.from = NULL => moving' = NoMove)
    BY <2>1 DEF HeapInv, MoveInv
  <2> QED BY <2>1, <2>2, FreeStep
<1>4. ASSUME NEW p \in DOMAIN blocks, NEW n \in Sizes, Realloc(p, n) PROVE HeapInv'
  <2>1. malloc(n, p) /\ moving' = [from |-> p, to |-> NULL]
    BY <1>4 DEF Realloc
  <2>2. p \in Nat
    BY DEF HeapInv, Holds
  <2> QED BY <2>1, <2>2, MallocStep
<1>5. CASE MallocSteps /\ Granted
  BY <1>5, SearchStep, TakeFoundStep, TakeNewStep, OutOfMemoryStep DEF MallocSteps
<1>6. CASE FreeSteps
  BY <1>6, MeltStep, AbsorbStep, ReturnStep, KeepStep DEF FreeSteps
<1>7. CASE FinishRealloc
  <2>1. moving # NoMove /\ free(moving.from) /\ moving' = NoMove
    BY <1>7 DEF FinishRealloc
  <2>2. moving' \in [from : Nat, to : Nat] /\ {moving'.from, moving'.to} \ {NULL} = {}
    BY <2>1, Given DEF NoMove
  <2>3. moving.from \in DOMAIN blocks
    BY <2>1 DEF HeapInv, MoveInv
  <2> QED BY <2>1, <2>2, <2>3, FreeStep
<1> QED BY <1>1, <1>2, <1>3, <1>4, <1>5, <1>6, <1>7 DEF Next

-----------------------------------------------------------------------------
(* The theorems *)

(* The invariant holds whatever malloc, free and realloc do. *)
LEMMA HeapInvariant == GrantedSpec => []HeapInv
<1>1. HeapInv /\ [Next /\ Granted]_vars => HeapInv'
  BY HeapStep
<1> QED BY HeapInit, <1>1, PTL DEF GrantedSpec

(* It implies that everything has its type. *)
LEMMA HeapTyped == HeapInv => TypeOK
<1> SUFFICES ASSUME HeapInv PROVE TypeOK
  OBVIOUS
<1>1. Shape(h) /\ Linked(h) /\ Tiled(h) /\ Counted(h) /\ RunsOK(runs, pages)
  BY DEF HeapInv, Struct
<1> DEFINE C == [size : Nat, real_size : Nat, index : {-1} \cup Exps,
                 split_left : {NULL} \cup Tags, split_right : {NULL} \cup Tags,
                 next : {NULL} \cup Tags, prev : {NULL} \cup Tags]
<1>2. ASSUME NEW t \in Tags PROVE h.tag[t] \in C
  <2>1. h.tag[t] \in TagRec
    BY <1>1 DEF Shape, Tags
  <2>2. /\ h.tag[t].split_left \in {NULL} \cup Tags /\ h.tag[t].split_right \in {NULL} \cup Tags
        /\ h.tag[t].next \in {NULL} \cup Tags /\ h.tag[t].prev \in {NULL} \cup Tags
    BY <1>1 DEF Tags, Linked, Tiled
  <2> QED BY <2>1, <2>2 DEF TagRec
<1>3. h.tag \in [Tags -> C]
  <2>1. h.tag \in [Tags -> TagRec]
    BY <1>1 DEF Shape, Tags
  <2> HIDE DEF C
  <2> QED BY <1>2, <2>1
<1>4. h.l_freePages \in [Exps -> {NULL} \cup Tags]
  <2>1. h.l_freePages \in [Exps -> Nat]
    BY <1>1 DEF Shape
  <2>2. \A i \in Exps : h.l_freePages[i] \in {NULL} \cup Tags
    BY <1>1 DEF Linked, Tags
  <2> QED BY <2>1, <2>2
<1>5. h.l_completePages \in [Exps -> 0 .. MAXCOMPLETE]
  <2>1. h.l_completePages \in [Exps -> Int]
    BY <1>1 DEF Shape
  <2>2. ASSUME NEW i \in Exps PROVE h.l_completePages[i] \in 0 .. MAXCOMPLETE
    <3>1. Cardinality(WholeFree(h, i)) \in Nat
      BY <1>1, WholeFinite
    <3> QED BY <1>1, <3>1, Given DEF Counted
  <2> QED BY <2>1, <2>2
<1>6. op.pc \in {"idle", "search", "free"} /\ op.cur \in {NULL} \cup Tags
  <2>1. OpInv
    BY DEF HeapInv
  <2> QED BY <2>1 DEF OpInv, Idle
<1>7. ASSUME NEW r \in runs PROVE r.first \in 1 .. HeapPages
  <2>1. r.first \in Nat /\ r.pages \in Nat /\ r.pages >= 1
    BY <1>1 DEF RunsOK
  <2>2. r.first \in Run(r.first, r.pages)
    BY <2>1 DEF Run
  <2> QED BY <2>2, <1>1 DEF RunsOK
<1> QED BY <1>3, <1>4, <1>5, <1>6, <1>7 DEF TypeOK

(* It implies that the tags tile their runs. *)
LEMMA InvTiles == HeapInv => TagsTile
<1> SUFFICES ASSUME HeapInv PROVE TagsTile
  OBVIOUS
<1>1. Shape(h) /\ Tiled(h) /\ Covered(h, runs) /\ ByteRuns(runs)
  BY RunsApart DEF HeapInv, Struct
<1>2. ASSUME NEW t \in Tags
      PROVE  LET c == h.tag[t]
                 run == CHOOSE r \in runs : t \in (r.first * l_pageSize) .. ((r.first + r.pages) * l_pageSize - 1)
             IN /\ c.real_size >= TagSize
                /\ IF c.split_right = NULL THEN t + c.real_size = (run.first + run.pages) * l_pageSize
                   ELSE c.split_right = t + c.real_size /\ h.tag[c.split_right].split_left = t
                /\ IF c.split_left = NULL THEN t = run.first * l_pageSize
                   ELSE h.tag[c.split_left].split_right = t
  <2> DEFINE c == h.tag[t]
             In(r) == t \in (r.first * l_pageSize) .. ((r.first + r.pages) * l_pageSize - 1)
             run == CHOOSE r \in runs : In(r)
  <2>1. PICK q \in runs : Covers(q, t, c)
    BY <1>1 DEF Covered, Tags
  <2>2. t \in Nat /\ c.real_size \in Nat /\ c.real_size >= TagSize
    BY <1>1, Fields DEF Tags, Tiled
  <2>3. \A r \in runs : In(r) <=> Lo(r) <= t /\ t < Hi(r)
    <3>1. \A r \in runs : Lo(r) \in Nat /\ Hi(r) \in Nat
      BY <1>1 DEF ByteRuns
    <3> QED BY <3>1, <2>2 DEF Lo, Hi
  <2>4. In(q)
    <3>1. Lo(q) \in Nat /\ Hi(q) \in Nat
      BY <1>1 DEF ByteRuns
    <3>2. Lo(q) <= t /\ t < Hi(q)
      BY <3>1, <2>1, <2>2, Given DEF Covers
    <3> QED BY <2>3, <3>2
  <2> HIDE DEF In
  <2>5. run \in runs /\ In(run)
    BY <2>4
  <2>6. run = q
    BY <2>2, <2>3, <2>4, <2>5, <1>1, OneRun
  <2> HIDE DEF run
  <2>7. /\ c.split_right = NULL => t + c.real_size = (run.first + run.pages) * l_pageSize
        /\ c.split_left = NULL => t = run.first * l_pageSize
    BY <2>1, <2>6 DEF Covers, Lo, Hi
  <2>8. /\ c.split_right # NULL => c.split_right = t + c.real_size /\ h.tag[c.split_right].split_left = t
        /\ c.split_left # NULL => h.tag[c.split_left].split_right = t
    BY <1>1 DEF Tiled, Tags
  <2> QED BY <2>2, <2>7, <2>8 DEF run, In
<1> QED BY <1>2, HeapTyped DEF TagsTile

(* Blocks do not reach into a tag or each other. *)
LEMMA Untouched ==
  ASSUME NEW hp, NEW R, Struct(hp, R), NEW B, Holds(hp, B), NEW p \in DOMAIN B
  PROVE  /\ \A t \in DOMAIN hp.tag : t + TagSize <= p \/ p + B[p] <= t
         /\ \A q \in DOMAIN B \ {p} : p + B[p] <= q \/ q + B[q] <= p
<1> DEFINE u == TagOf(p)
<1>1. /\ p \in Nat /\ u \in DOMAIN hp.tag /\ u \in Nat /\ p = u + TagSize /\ B[p] \in Nat
      /\ hp.tag[u].real_size \in Nat /\ p + B[p] <= u + hp.tag[u].real_size
  <2>1. p \in Nat /\ u \in DOMAIN hp.tag /\ u \in Nat
    BY BlockAddress
  <2>2. hp.tag[u].real_size \in Nat
    BY <2>1, Fields DEF Struct
  <2>3. TagSize + B[p] <= hp.tag[u].real_size /\ B[p] \in Nat
    BY DEF Holds
  <2>4. p = u + TagSize
    BY <2>1, Given DEF TagOf
  <2> HIDE DEF u
  <2> QED BY <2>1, <2>2, <2>3, <2>4, Given
<1>2. ASSUME NEW t \in DOMAIN hp.tag, NEW n \in Nat, n <= hp.tag[t].real_size, n >= TagSize
      PROVE  t = u \/ t + n <= u \/ p + B[p] <= t
  <2>1. t \in Nat /\ hp.tag[t].real_size \in Nat
    BY Fields DEF Struct
  <2>2. t = u \/ t < u \/ u < t
    BY <2>1, <1>1
  <2>3. t < u => t + hp.tag[t].real_size <= u
    BY <1>1 DEF Struct, Tiled
  <2>4. u < t => u + hp.tag[u].real_size <= t
    BY <1>1 DEF Struct, Tiled
  <2> HIDE DEF u
  <2> QED BY <2>1, <2>2, <2>3, <2>4, <1>1, <1>2
<1>3. ASSUME NEW t \in DOMAIN hp.tag PROVE t + TagSize <= p \/ p + B[p] <= t
  <2>1. t \in Nat /\ hp.tag[t].real_size >= TagSize
    BY Fields DEF Struct, Tiled
  <2>2. t = u \/ t + TagSize <= u \/ p + B[p] <= t
    BY <2>1, <1>2, Given
  <2> HIDE DEF u
  <2> QED BY <2>1, <2>2, <1>1, Given
<1>4. ASSUME NEW q \in DOMAIN B \ {p} PROVE p + B[p] <= q \/ q + B[q] <= p
  <2> DEFINE w == TagOf(q)
  <2>1. q \in Nat /\ w \in DOMAIN hp.tag /\ w \in Nat
    BY BlockAddress
  <2>2. TagSize + B[q] <= hp.tag[w].real_size /\ B[q] \in Nat /\ TagSize + B[q] \in Nat
    BY Given DEF Holds
  <2>3. q = w + TagSize
    BY <2>1, Given DEF TagOf
  <2> HIDE DEF w, u
  <2>4. w # u
    BY <2>3, <1>1
  <2>5. w + (TagSize + B[q]) <= u \/ p + B[p] <= w
    BY <2>1, <2>2, <2>4, <1>2, Given
  <2> QED BY <2>1, <2>2, <2>3, <2>5, <1>1, Given
<1> QED BY <1>3, <1>4

(* It implies that blocks are intact. *)
LEMMA InvIntact == HeapInv => BlocksIntact
<1> SUFFICES ASSUME HeapInv PROVE BlocksIntact
  OBVIOUS
<1>1. Struct(h, runs) /\ Holds(h, blocks) /\ MoveInv
  BY DEF HeapInv
<1>2. ASSUME NEW p \in DOMAIN blocks, NEW t \in Tags
      PROVE  (t .. (t + TagSize - 1)) \cap (p .. (p + blocks[p] - 1)) = {}
  <2>1. t + TagSize <= p \/ p + blocks[p] <= t
    BY <1>1, Untouched DEF Tags
  <2>2. t \in Nat /\ p \in Nat /\ blocks[p] \in Nat
    BY <1>1, Fields, BlockAddress DEF Tags, Struct, Holds
  <2> QED BY <2>1, <2>2, Given
<1> QED BY <1>1, <1>2 DEF BlocksIntact, Holds, MoveInv, Tags

(* It implies that nothing leaks: between calls nobody is freeing. *)
LEMMA InvNoLeak == HeapInv => NothingLeaks
<1> SUFFICES ASSUME HeapInv, op = Idle PROVE NothingLeaks
  BY DEF NothingLeaks
<1>1. Struct(h, runs) /\ Shape(h) /\ Tiled(h) /\ Melted(h) /\ Counted(h) /\ Holds(h, blocks)
      /\ Owned /\ op.pc = "idle"
  BY DEF HeapInv, Struct, Idle
<1>2. \A t \in Tags : t # NULL /\ (IsFree(t) <=> h.tag[t].index # -1)
  BY <1>1, Fields, NotExp DEF IsFree, Tags
<1>3. ASSUME NEW t \in Tags, IsFree(t) PROVE ~IsFree(h.tag[t].split_right)
  <2>1. CASE h.tag[t].split_right = NULL
    BY <2>1 DEF IsFree
  <2>2. CASE h.tag[t].split_right # NULL
    <3>1. h.tag[t].split_right \in Tags
      BY <2>2, <1>1 DEF Tiled, Tags
    <3>2. h.tag[h.tag[t].split_right].index = -1
      BY <2>2, <1>1, <1>2, <1>3 DEF Melted, Tags
    <3> QED BY <3>1, <3>2, <1>2
  <2> QED BY <2>1, <2>2
<1>4. ASSUME NEW i \in Exps
      PROVE  h.l_completePages[i] = Cardinality({ t \in FreeTags(i) : Whole(h, t) })
  <2>1. { t \in FreeTags(i) : Whole(h, t) } = WholeFree(h, i)
    BY DEF FreeTags, WholeFree, Tags
  <2> QED BY <2>1, <1>1 DEF Counted
<1>5. { Ptr(t) : t \in { u \in Tags : ~IsFree(u) } } = DOMAIN blocks
  <2>1. ASSUME NEW u \in Tags, ~IsFree(u) PROVE Ptr(u) \in DOMAIN blocks
    BY <2>1, <1>1, <1>2 DEF Owned
  <2>2. ASSUME NEW p \in DOMAIN blocks
        PROVE  TagOf(p) \in Tags /\ ~IsFree(TagOf(p)) /\ Ptr(TagOf(p)) = p
    <3>1. p \in Nat /\ TagOf(p) \in Tags /\ h.tag[TagOf(p)].index = -1
      BY <1>1 DEF Holds, Tags
    <3> QED BY <3>1, <1>2, Pointers
  <2> QED BY <2>1, <2>2
<1> QED BY <1>3, <1>4, <1>5 DEF NothingLeaks

(* However often split_tag, melt_left and absorb_right have cut and merged *)
(* a run of pages, its tags cover it from its first byte to its last       *)
(* without gap or overlap.                                                 *)
THEOREM TagsAlwaysTile == GrantedSpec => []TagsTile
BY HeapInvariant, InvTiles, PTL

(* A block that malloc has returned keeps the room asked for until it is   *)
(* freed: no tag is ever written inside it, whatever other callers do,     *)
(* also between the malloc and the free of a realloc.                      *)
THEOREM BlocksStayIntact == GrantedSpec => []BlocksIntact
BY HeapInvariant, InvIntact, PTL

(* Between calls free has merged all free neighbours, l_completePages      *)
(* counts the whole free runs, and every other tag is the block of a       *)
(* caller.                                                                 *)
THEOREM NothingEverLeaks == GrantedSpec => []NothingLeaks
BY HeapInvariant, InvNoLeak, PTL

(* Blocks lie within the pages that the hooks can hand out. *)
LEMMA WithinPages ==
  ASSUME NEW hp, NEW R, NEW P, NEW B, Struct(hp, R), RunsOK(R, P), Holds(hp, B),
         NEW p \in DOMAIN B
  PROVE  p \in 0 .. ((HeapPages + 1) * l_pageSize)
<1> DEFINE t == TagOf(p)
           top == (HeapPages + 1) * l_pageSize
<1>1. p \in Nat /\ t \in DOMAIN hp.tag /\ t \in Nat
  BY BlockAddress
<1>2. PICK r \in R : Covers(r, t, hp.tag[t])
  BY <1>1 DEF Struct, Covered
<1>3. hp.tag[t].real_size \in Nat /\ TagSize <= hp.tag[t].real_size
  BY <1>1, Fields DEF Struct, Tiled
<1>4. p = t + TagSize
  BY <1>1, Given DEF TagOf
<1>5. r.first \in Nat /\ r.pages \in Nat /\ r.pages >= 1
  BY DEF RunsOK
<1>6. r.first + r.pages - 1 \in 1 .. HeapPages
  BY <1>5 DEF RunsOK, Run
<1>7. r.first + r.pages \in Nat /\ HeapPages + 1 \in Nat /\ r.first + r.pages <= HeapPages + 1
  BY <1>5, <1>6, Given
<1>8. Hi(r) \in Nat /\ top \in Nat /\ Hi(r) <= top
  BY <1>7, Scale, Given DEF Hi
<1> HIDE DEF t, top
<1>9. p <= top
  BY <1>1, <1>2, <1>3, <1>4, <1>8, Given DEF Covers
<1> QED BY <1>1, <1>8, <1>9 DEF top

(* A block that malloc returns is new and made of memory of its own. *)
LEMMA ReturnGrants ==
  ASSUME HeapInv, HeapInv', op.pc = "search", NEW t \in Nat, Return(Ptr(t)),
         t \in Tags => h.tag[t].index # -1
  PROVE  AH!AHNext
<1> DEFINE p == Ptr(t)
           n == op.size
<1>1. p \in Nat /\ p # NULL /\ TagOf(p) = t
  BY Pointers
<1>2. blocks' = [q \in DOMAIN blocks \cup {p} |-> IF q = p THEN n ELSE blocks[q]]
  BY <1>1 DEF Return
<1> HIDE DEF p
<1>3. p \notin DOMAIN blocks
  BY <1>1 DEF HeapInv, Holds, Tags
<1>4. p \in DOMAIN blocks' /\ blocks'[p] = n /\ DOMAIN blocks' = DOMAIN blocks \cup {p}
      /\ \A q \in DOMAIN blocks : q # p /\ blocks'[q] = blocks[q]
  BY <1>2, <1>3
<1>5. n \in Sizes
  BY DEF HeapInv, OpInv
<1>6. Struct(h', runs') /\ RunsOK(runs', pages') /\ Holds(h', blocks')
  BY DEF HeapInv
<1>7. p \in 0 .. ((HeapPages + 1) * l_pageSize)
  BY <1>4, <1>6, WithinPages
<1>8. \A q \in DOMAIN blocks : AH!Apart(p, n, q, blocks[q])
  <2>1. \A q \in DOMAIN blocks' \ {p} : p + blocks'[p] <= q \/ q + blocks'[q] <= p
    BY <1>4, <1>6, Untouched
  <2> QED BY <2>1, <1>4 DEF AH!Apart
<1>9. AH!Grant(p, n)
  BY <1>2, <1>3, <1>8 DEF AH!Grant
<1> HIDE DEF n
<1> QED BY <1>5, <1>7, <1>9 DEF AH!AHNext

(* Every step is a step of AbstractHeap or leaves the blocks alone. *)
LEMMA StepRefines ==
  ASSUME HeapInv, [Next /\ Granted]_vars
  PROVE  [AH!AHNext]_blocks
<1>0. HeapInv'
  BY HeapStep
<1>1. CASE UNCHANGED vars
  BY <1>1 DEF vars
<1>2. CASE \E n \in Sizes : Malloc(n)
  BY <1>2 DEF Malloc, malloc
<1>3. CASE \E p \in DOMAIN blocks, n \in Sizes : Realloc(p, n)
  BY <1>3 DEF Realloc, malloc
<1>4. ASSUME NEW p \in DOMAIN blocks, free(p) PROVE AH!AHNext
  <2>1. AH!GiveBack(p)
    BY <1>4 DEF free, AH!GiveBack
  <2> QED BY <2>1 DEF AH!AHNext
<1>5. CASE \E p \in DOMAIN blocks : Free(p)
  BY <1>4, <1>5 DEF Free
<1>6. CASE FinishRealloc
  <2>1. moving # NoMove /\ free(moving.from)
    BY <1>6 DEF FinishRealloc
  <2>2. moving.from \in DOMAIN blocks
    BY <2>1 DEF HeapInv, MoveInv
  <2> QED BY <2>1, <2>2, <1>4
<1>7. CASE TakeFound
  <2>1. op.pc = "search" /\ op.cur # NULL /\ Return(Ptr(op.cur))
    BY <1>7 DEF TakeFound
  <2>2. op.cur \in Nat /\ h.tag[op.cur].index # -1
    BY <2>1, NotExp DEF HeapInv, OpInv
  <2> QED BY <2>1, <2>2, <1>0, ReturnGrants
<1>8. CASE TakeNewPages /\ Granted
  <2> DEFINE t == FirstOf(PagesFor(op.size + TagSize)) * l_pageSize
  <2>1. op.pc = "search" /\ Return(Ptr(t))
    BY <1>8 DEF TakeNewPages
  <2>2. t \in Nat \ Tags
    BY <1>8, TakeNewStep
  <2> HIDE DEF t
  <2> QED BY <2>1, <2>2, <1>0, ReturnGrants
<1>9. CASE OutOfMemory \/ SearchNext
  BY <1>9 DEF OutOfMemory, SearchNext, Return
<1>10. CASE FreeSteps
  BY <1>10 DEF FreeSteps, MeltLeft, AbsorbRight, ReturnPages, KeepFree
<1> QED BY <1>1, <1>2, <1>3, <1>5, <1>6, <1>7, <1>8, <1>9, <1>10 DEF Next, MallocSteps

(* liballoc implements AbstractHeap: malloc returns memory of which no     *)
(* block in use has a part, and only free takes a block away.              *)
THEOREM KeepsItsPromise == GrantedSpec => Refinement
<1>1. Init => AH!AHInit
  BY DEF Init, AH!AHInit
<1>2. HeapInv /\ [Next /\ Granted]_vars => [AH!AHNext]_blocks
  BY StepRefines
<1> QED BY <1>1, <1>2, HeapInvariant, PTL DEF GrantedSpec, Refinement, AH!AHSpec

-----------------------------------------------------------------------------
(* The lists of free blocks, from head to end *)

(* The next tag of a walk. *)
After(a) == IF a = NULL THEN NULL ELSE h.tag[a].next

(* w is the walk along list i, in as many steps as there are tags. *)
Walk(w, i) ==
  /\ w \in [0 .. Cardinality(Tags) -> {NULL} \cup FreeTags(i)]
  /\ w[0] = h.l_freePages[i]
  /\ \A k \in 1 .. Cardinality(Tags) : w[k] = After(w[k - 1])
  /\ Chain(i) = { w[k] : k \in 0 .. Cardinality(Tags) } \ {NULL}

(* The tags can be counted. *)
LEMMA TagCount ==
  ASSUME HeapInv
  PROVE  IsFiniteSet(Tags) /\ Cardinality(Tags) \in Nat
<1>1. IsFiniteSet(Tags)
  BY DEF HeapInv, Struct, Shape, Tags
<1> QED BY <1>1, FS_CardinalityType

(* The walk meets only free blocks of its class. *)
LEMMA WalkIs ==
  ASSUME HeapInv, NEW i \in Exps
  PROVE  \E w : Walk(w, i)
<1> DEFINE n == Cardinality(Tags)
           T == {NULL} \cup FreeTags(i)
           a0 == h.l_freePages[i]
           Def(w) == [k \in 0 .. n |-> IF k = 0 THEN h.l_freePages[i]
                        ELSE IF w[k - 1] = NULL THEN NULL ELSE h.tag[w[k - 1]].next]
           K == CHOOSE w : w = Def(w)
           G == [p \in T \X (1 .. n) |-> After(p[1])]
<1>1. n \in Nat
  BY TagCount
<1>2. Linked(h) /\ Shape(h)
  BY DEF HeapInv, Struct
<1>3. a0 \in T
  BY <1>2 DEF Linked, FreeTags, Tags
<1>4. \A a \in T : After(a) \in T
  BY <1>2 DEF Linked, FreeTags, Tags, After
<1>5. G \in [T \X (1 .. n) -> T] /\ \A a \in T, k \in 1 .. n : G[<<a, k>>] = After(a)
  <2> HIDE DEF T, n
  <2> QED BY <1>4
<1>6. \E w \in [0 .. n -> T] : Recursion(w, n, a0, G)
  <2> HIDE DEF T, n, G, a0
  <2> QED BY <1>1, <1>3, <1>5, RecursionUpTo
<1>7. PICK w \in [0 .. n -> T] : w[0] = a0 /\ \A k \in 1 .. n : w[k] = G[<<w[k - 1], k>>]
  BY <1>6 DEF Recursion
<1>8. ASSUME NEW k \in 1 .. n PROVE w[k] = After(w[k - 1])
  <2> HIDE DEF T, n, G, a0
  <2>1. k - 1 \in 0 .. n
    BY <1>1
  <2>2. w[k - 1] \in T
    BY <2>1
  <2> QED BY <2>2, <1>5, <1>7
<1>9. w = Def(w)
  <2> HIDE DEF T, n
  <2>1. \A k \in 0 .. n : k # 0 => k \in 1 .. n
    BY <1>1
  <2>2. \A k \in 0 .. n : w[k] = Def(w)[k]
    BY <2>1, <1>7, <1>8 DEF After
  <2>3. w = [k \in 0 .. n |-> w[k]]
    OBVIOUS
  <2>4. DOMAIN Def(w) = 0 .. n /\ Def(w) = [k \in 0 .. n |-> Def(w)[k]]
    OBVIOUS
  <2> HIDE DEF Def
  <2> QED BY <2>2, <2>3, <2>4
<1>10. K = Def(K)
  <2> HIDE DEF Def
  <2> QED BY <1>9
<1>11. /\ K = [k \in 0 .. n |-> K[k]]
       /\ K[0] = a0 /\ \A k \in 1 .. n : K[k] = After(K[k - 1])
  <2> HIDE DEF T, n, K
  <2>1. Def(K)[0] = a0
    BY <1>1
  <2>2. \A k \in 1 .. n : k \in 0 .. n /\ k # 0
    BY <1>1
  <2>3. \A k \in 1 .. n : Def(K)[k] = After(K[k - 1])
    BY <2>2 DEF After
  <2>4. DOMAIN Def(K) = 0 .. n /\ Def(K) = [k \in 0 .. n |-> Def(K)[k]]
    OBVIOUS
  <2> HIDE DEF Def, a0
  <2> QED BY <1>10, <2>1, <2>3, <2>4
<1>12. \A k \in 0 .. n : K[k] \in T
  <2> HIDE DEF T, n, K, a0
  <2>1. \A k \in 1 .. n : K[k - 1] \in T => K[k] \in T
    BY <1>4, <1>11
  <2>2. K[0] \in T
    BY <1>3, <1>11
  <2> QED BY <2>1, <2>2, <1>1, RecursionStaysIn
<1>13. Chain(i) = { K[k] : k \in 0 .. n } \ {NULL}
  BY DEF Chain
<1> HIDE DEF K
<1> QED BY <1>11, <1>12, <1>13 DEF Walk

(* It comes to the end of the list: no tag is met twice. *)
LEMMA WalkEnds ==
  ASSUME HeapInv, NEW i \in Exps, NEW w, Walk(w, i)
  PROVE  w[Cardinality(Tags)] = NULL
<1> DEFINE n == Cardinality(Tags)
<1>1. n \in Nat /\ IsFiniteSet(Tags)
  BY TagCount
<1>2. PICK rank \in [Nat -> Nat] : \A t \in Tags :
             h.tag[t].next # NULL => rank[h.tag[t].next] < rank[t]
  BY DEF HeapInv, Struct, Ranked, Tags
<1>3. Tags \subseteq Nat \ {NULL} /\ FreeTags(i) \subseteq Tags
  BY DEF HeapInv, Struct, Shape, Tags, FreeTags
<1>4. /\ w \in [0 .. n -> {NULL} \cup FreeTags(i)]
      /\ \A k \in 1 .. n : w[k] = After(w[k - 1])
  BY DEF Walk
<1> HIDE DEF n
<1> SUFFICES ASSUME w[n] # NULL PROVE FALSE
  BY DEF n
<1>5. ASSUME NEW m \in 0 .. n PROVE w[m] # NULL
  <2> SUFFICES ASSUME w[m] = NULL PROVE FALSE
    OBVIOUS
  <2> DEFINE S == { k \in 0 .. n : k < m \/ w[k] = NULL }
  <2>1. 0 \in S
    BY <1>1
  <2>2. ASSUME NEW k \in 0 .. (n - 1), k \in S PROVE k + 1 \in S
    <3>1. k + 1 \in 1 .. n /\ (k + 1) - 1 = k /\ k + 1 \in 0 .. n
      BY <1>1
    <3>2. CASE k + 1 = m
      BY <3>1, <3>2
    <3>3. CASE k + 1 # m /\ k < m
      BY <3>1, <3>3
    <3>4. CASE w[k] = NULL
      BY <3>1, <3>4, <1>4 DEF After
    <3> QED BY <2>2, <3>2, <3>3, <3>4
  <2>3. \A k \in 0 .. n : k \in S
    <3> HIDE DEF S
    <3> QED BY <1>1, <2>1, <2>2, InductionUpTo
  <2>4. n \in 0 .. n /\ ~(n < m)
    BY <1>1
  <2> QED BY <2>3, <2>4
<1>6. w \in [0 .. n -> Tags]
  BY <1>3, <1>4, <1>5
<1>7. ASSUME NEW k \in 1 .. n PROVE k - 1 \in 0 .. n /\ rank[w[k]] < rank[w[k - 1]]
  <2>1. k - 1 \in 0 .. n /\ k \in 0 .. n
    BY <1>1
  <2>2. w[k - 1] \in Tags /\ w[k - 1] # NULL /\ w[k] # NULL
    BY <2>1, <1>5, <1>6
  <2>3. w[k] = h.tag[w[k - 1]].next
    BY <2>2, <1>4 DEF After
  <2> QED BY <2>1, <2>2, <2>3, <1>2
<1>8. \A k \in 0 .. n : rank[w[k]] \in Nat
  BY <1>3, <1>6
<1> DEFINE S == { k \in 0 .. n : \A j \in 0 .. n : j < k => rank[w[k]] < rank[w[j]] }
<1>9. 0 \in S
  BY <1>1
<1>10. ASSUME NEW k \in 0 .. (n - 1), k \in S PROVE k + 1 \in S
  <2>1. k + 1 \in 1 .. n /\ (k + 1) - 1 = k /\ k + 1 \in 0 .. n /\ k \in 0 .. n
    BY <1>1
  <2>2. rank[w[k + 1]] < rank[w[k]]
    BY <2>1, <1>7
  <2>3. ASSUME NEW j \in 0 .. n, j < k + 1 PROVE rank[w[k + 1]] < rank[w[j]]
    <3>1. j = k \/ j < k
      BY <2>1, <2>3
    <3>2. j < k => rank[w[k]] < rank[w[j]]
      BY <1>10
    <3> QED BY <3>1, <3>2, <2>1, <2>2, <1>8
  <2> QED BY <2>1, <2>3
<1>11. \A k \in 0 .. n : k \in S
  <2> HIDE DEF S
  <2> QED BY <1>1, <1>9, <1>10, InductionUpTo
<1>12. IsFiniteSet(0 .. n) /\ Cardinality(0 .. n) = n + 1
  <2>1. IsFiniteSet(0 .. n) /\ Cardinality(0 .. n) = IF 0 > n THEN 0 ELSE n - 0 + 1
    BY <1>1, FS_Interval
  <2> QED BY <2>1, <1>1
<1>13. Cardinality(Tags) < Cardinality(0 .. n)
  BY <1>1, <1>12 DEF n
<1>14. PICK x, y \in 0 .. n : x # y /\ w[x] = w[y]
  BY <1>1, <1>6, <1>12, <1>13, FS_PigeonHole
<1>15. x < y \/ y < x
  BY <1>14
<1> QED BY <1>8, <1>11, <1>14, <1>15

(* And it meets all of them. *)
LEMMA WalkMeetsAll ==
  ASSUME HeapInv, NEW i \in Exps, NEW w, Walk(w, i), NEW t0 \in FreeTags(i)
  PROVE  t0 \in Chain(i)
<1> DEFINE n == Cardinality(Tags)
           F == FreeTags(i)
           M == F \ Chain(i)
<1>1. n \in Nat /\ IsFiniteSet(Tags)
  BY TagCount
<1>2. PICK rank \in [Nat -> Nat] : \A t \in Tags :
             h.tag[t].next # NULL => rank[h.tag[t].next] < rank[t]
  BY DEF HeapInv, Struct, Ranked, Tags
<1>3. Tags \subseteq Nat \ {NULL} /\ F \subseteq Tags /\ Linked(h)
  BY DEF HeapInv, Struct, Shape, Tags, FreeTags
<1>4. /\ w[0] = h.l_freePages[i] /\ \A k \in 1 .. n : w[k] = After(w[k - 1])
      /\ Chain(i) = { w[k] : k \in 0 .. n } \ {NULL}
      /\ w[n] = NULL
  BY WalkEnds DEF Walk
<1>5. ASSUME NEW t \in M PROVE h.tag[t].prev \in M /\ rank[t] < rank[h.tag[t].prev]
  <2> DEFINE u == h.tag[t].prev
  <2>1. t \in F /\ t \in Tags /\ t # NULL /\ h.tag[t].index = i /\ i # -1
    BY <1>3, NotExp DEF FreeTags
  <2>2. u # NULL
    <3> SUFFICES ASSUME u = NULL PROVE FALSE
      OBVIOUS
    <3>1. w[0] = t
      BY <2>1, <1>3, <1>4 DEF Linked, Tags
    <3>2. 0 \in 0 .. n
      BY <1>1
    <3> QED BY <3>1, <3>2, <2>1, <1>4
  <2>3. u \in Tags /\ h.tag[u].next = t /\ h.tag[u].index = i
    BY <2>1, <2>2, <1>3 DEF Linked, Tags
  <2>4. u \notin Chain(i)
    <3> SUFFICES ASSUME u \in Chain(i) PROVE FALSE
      OBVIOUS
    <3>1. PICK k \in 0 .. n : w[k] = u
      BY <1>4
    <3>2. k # n
      BY <3>1, <2>2, <1>4
    <3>3. k + 1 \in 1 .. n /\ (k + 1) - 1 = k /\ k + 1 \in 0 .. n
      BY <3>2, <1>1
    <3>4. w[k + 1] = t
      BY <3>1, <3>3, <2>2, <2>3, <1>4 DEF After
    <3> QED BY <3>3, <3>4, <2>1, <1>4
  <2>5. rank[t] < rank[u]
    BY <2>1, <2>3, <1>2
  <2> QED BY <2>3, <2>4, <2>5 DEF FreeTags
<1> SUFFICES ASSUME t0 \in M PROVE FALSE
  OBVIOUS
<1> HIDE DEF n, M
<1>6. M \subseteq Tags
  BY <1>3 DEF M
<1> DEFINE Above(t) == { u \in Tags : rank[t] < rank[u] }
           N(t) == Cardinality(Above(t))
<1>7. \A t \in M : IsFiniteSet(Above(t)) /\ N(t) \in Nat
  <2> TAKE t \in M
  <2>1. Above(t) \subseteq Tags
    OBVIOUS
  <2> HIDE DEF Above
  <2>2. IsFiniteSet(Above(t))
    BY <2>1, <1>1, FS_Subset
  <2> QED BY <2>2, FS_CardinalityType
<1>8. PICK t \in M : \A u \in M : N(t) <= N(u)
  <2> DEFINE S == { N(u) : u \in M }
  <2> HIDE DEF N
  <2>1. S \in SUBSET Nat /\ S # {}
    BY <1>7
  <2>2. PICK x \in S : \A y \in S : x <= y
    <3> HIDE DEF S
    <3> QED BY <2>1, LeastNatural
  <2> QED BY <2>2
<1> DEFINE u == h.tag[t].prev
<1>9. u \in M /\ rank[t] < rank[u]
  BY <1>5
<1> HIDE DEF u
<1>10. u \in Tags /\ t \in Tags /\ \A a \in Tags : rank[a] \in Nat
  BY <1>3, <1>6, <1>9
<1>11. Above(u) \subseteq Above(t) /\ Above(u) # Above(t)
  <2>1. u \in Above(t) /\ u \notin Above(u)
    BY <1>9, <1>10
  <2>2. Above(u) \subseteq Above(t)
    BY <1>9, <1>10
  <2> QED BY <2>1, <2>2
<1>12. IsFiniteSet(Above(t)) /\ N(t) \in Nat /\ N(u) \in Nat /\ N(t) <= N(u)
  BY <1>7, <1>8, <1>9
<1> HIDE DEF Above
<1>13. N(u) <= N(t) /\ (N(t) = N(u) => Above(u) = Above(t))
  BY <1>11, <1>12, FS_Subset
<1> HIDE DEF N
<1> QED BY <1>11, <1>12, <1>13

(* The invariant implies that the lists are complete. *)
LEMMA InvLists == HeapInv => ListsComplete
<1> SUFFICES ASSUME HeapInv, NEW i \in Exps
             PROVE  /\ Chain(i) = FreeTags(i)
                    /\ \A t \in FreeTags(i) :
                         /\ i = ClassOf(t)
                         /\ h.tag[t].prev = NULL <=> t = h.l_freePages[i]
                         /\ h.tag[t].next # NULL => h.tag[h.tag[t].next].prev = t
  BY DEF ListsComplete
<1>1. PICK w : Walk(w, i)
  BY WalkIs
<1>2. Chain(i) \subseteq FreeTags(i)
  BY <1>1 DEF Walk
<1>3. FreeTags(i) \subseteq Chain(i)
  BY <1>1, WalkMeetsAll
<1>4. ASSUME NEW t \in FreeTags(i)
      PROVE  /\ i = ClassOf(t)
             /\ h.tag[t].prev = NULL <=> t = h.l_freePages[i]
             /\ h.tag[t].next # NULL => h.tag[h.tag[t].next].prev = t
  <2>1. Linked(h) /\ Classed(h) /\ t \in DOMAIN h.tag /\ h.tag[t].index = i /\ i # -1 /\ t # NULL
    BY NotExp DEF HeapInv, Struct, Shape, FreeTags, Tags
  <2>2. i = ClassOf(t)
    BY <2>1 DEF Classed, ClassFor, ClassOf
  <2> QED BY <2>1, <2>2 DEF Linked
<1> QED BY <1>2, <1>3, <1>4

(* A walk from l_freePages[i] along next meets exactly the free blocks of  *)
(* class i, so malloc searches all of them and the walk ends; the links    *)
(* back agree with it.                                                     *)
THEOREM ListsStayComplete == GrantedSpec => []ListsComplete
BY HeapInvariant, InvLists, PTL

-----------------------------------------------------------------------------
(* Requests that fit the least number of pages *)

(* Every request fits into the least number of pages that is asked for: 16 *)
(* pages in liballoc.c.                                                    *)
SmallRequests == \A n \in Sizes : PagesFor(n + TagSize) = l_pageCount

(* The places of a grid that are that many pages apart. *)
Aligned(v) == \E k \in Nat : v = 1 + k * l_pageCount

(* The pages in use are those of the runs, which stand in one grid. *)
Gridded ==
  /\ \A r \in runs : r.pages = l_pageCount /\ Aligned(r.first)
  /\ \A w \in pages : \E r \in runs : w \in Run(r.first, r.pages)

(* The lowest free pages when enough of them are adjacent. *)
LEMMA LowestIs ==
  ASSUME NEW v \in FreePages, \A w \in FreePages : v <= w,
         NEW i \in Nat, i >= 1, Run(v, i) \subseteq FreePages
  PROVE  Lowest(i) = Run(v, i) /\ FirstOf(i) = v
<1> DEFINE Below(u) == { w \in FreePages : w < u }
<1>1. FreePages \subseteq 1 .. HeapPages /\ v \in Nat /\ FreePages \subseteq Nat
  BY Given DEF FreePages
<1>2. IsFiniteSet(FreePages)
  <2>1. IsFiniteSet(1 .. HeapPages)
    BY FS_Interval, Given
  <2> QED BY <2>1, <1>1, FS_Subset
<1>3. ASSUME NEW u \in Run(v, i) PROVE u \in Lowest(i)
  <2>1. u \in FreePages /\ u \in Nat /\ v <= u /\ u - v < i
    BY <1>1 DEF Run
  <2>2. Below(u) \subseteq v .. (u - 1)
    <3> SUFFICES ASSUME NEW w \in FreePages, w < u PROVE w \in v .. (u - 1)
      OBVIOUS
    <3>1. w \in Nat /\ v <= w
      BY <1>1
    <3> QED BY <3>1, <2>1, <1>1
  <2>3. IsFiniteSet(v .. (u - 1)) /\ Cardinality(v .. (u - 1)) = IF v > u - 1 THEN 0 ELSE (u - 1) - v + 1
    BY <1>1, <2>1, FS_Interval
  <2>4. Cardinality(v .. (u - 1)) = u - v
    BY <1>1, <2>1, <2>3
  <2> HIDE DEF Below
  <2>5. Cardinality(Below(u)) <= Cardinality(v .. (u - 1)) /\ Cardinality(Below(u)) \in Nat
    BY <2>2, <2>3, FS_Subset, FS_CardinalityType
  <2>6. Cardinality(Below(u)) < i
    BY <1>1, <2>1, <2>4, <2>5
  <2> QED BY <2>1, <2>6 DEF Lowest, Below
<1>4. ASSUME NEW u \in Lowest(i) PROVE u \in Run(v, i)
  <2>1. u \in FreePages /\ u \in Nat /\ v <= u /\ Cardinality(Below(u)) < i
    BY <1>1 DEF Lowest
  <2> SUFFICES ASSUME u >= v + i PROVE FALSE
    BY <1>1, <2>1 DEF Run
  <2>2. Run(v, i) \subseteq Below(u)
    BY <1>1, <2>1 DEF Run
  <2>3. Cardinality(Run(v, i)) = i
    <3>1. Cardinality(v .. (v + i - 1)) = IF v > v + i - 1 THEN 0 ELSE (v + i - 1) - v + 1
      BY <1>1, FS_Interval
    <3> QED BY <1>1, <3>1 DEF Run
  <2>4. Below(u) \subseteq FreePages
    OBVIOUS
  <2> HIDE DEF Below
  <2>5. IsFiniteSet(Below(u))
    BY <2>4, <1>2, FS_Subset
  <2>6. Cardinality(Run(v, i)) <= Cardinality(Below(u)) /\ Cardinality(Below(u)) \in Nat
    BY <2>2, <2>5, FS_Subset, FS_CardinalityType
  <2> QED BY <2>1, <2>3, <2>6
<1>5. Lowest(i) = Run(v, i)
  BY <1>3, <1>4
<1>6. v \in Lowest(i) /\ \A w \in Lowest(i) : v <= w /\ w \in Nat
  BY <1>1, <1>5 DEF Run
<1>7. FirstOf(i) \in Lowest(i) /\ \A w \in Lowest(i) : FirstOf(i) <= w
  BY <1>6 DEF FirstOf
<1>8. FirstOf(i) = v
  <2>1. FirstOf(i) \in Nat /\ v <= FirstOf(i) /\ FirstOf(i) <= v
    BY <1>6, <1>7
  <2> QED BY <2>1, <1>1
<1> QED BY <1>5, <1>8

(* A place of the grid is free as a whole or in use as a whole. *)
LEMMA PlaceIsFree ==
  ASSUME Gridded, RunsOK(runs, pages), NEW u \in FreePages
  PROVE  \E b \in Nat : /\ Aligned(b) /\ b >= 1 /\ b <= u
                        /\ \A w \in Run(b, l_pageCount) : w \notin pages
<1> DEFINE c == l_pageCount
<1>1. c \in Nat \ {0} /\ u \in Nat /\ u >= 1
  BY Given DEF FreePages
<1> HIDE DEF c
<1>2. \E k \in Nat : 1 + k * c <= u /\ u < 1 + k * c + c
  <2>1. ASSUME NEW x \in Nat, NEW d \in Nat \ {0}
        PROVE  x \div d \in Nat /\ (x \div d) * d <= x /\ x < (x \div d) * d + d
    OBVIOUS
  <2>2. u - 1 \in Nat
    BY <1>1
  <2> DEFINE k == (u - 1) \div c
  <2>3. k \in Nat /\ k * c <= u - 1 /\ u - 1 < k * c + c
    BY <1>1, <2>1, <2>2
  <2> HIDE DEF k
  <2>4. k * c \in Nat
    BY <2>3, <1>1
  <2>5. 1 + k * c <= u /\ u < 1 + k * c + c
    BY <2>3, <2>4, <1>1
  <2> QED BY <2>3, <2>5
<1>3. PICK k \in Nat : 1 + k * c <= u /\ u < 1 + k * c + c
  BY <1>2
<1> DEFINE b == 1 + k * c
<1>4. b \in Nat /\ b >= 1 /\ b <= u /\ u < b + c /\ Aligned(b)
  <2>1. k * c \in Nat
    BY <1>1
  <2> QED BY <2>1, <1>1, <1>3 DEF Aligned, c
<1>5. ASSUME NEW w \in Run(b, c), w \in pages PROVE FALSE
  <2>1. PICK r \in runs : w \in Run(r.first, r.pages)
    BY <1>5 DEF Gridded
  <2>2. PICK j \in Nat : r.first = 1 + j * c
    BY DEF Gridded, Aligned, c
  <2>3. r.pages = c
    BY DEF Gridded, c
  <2>4. j * c \in Nat /\ k * c \in Nat
    BY <1>1
  <2>5. w \in Nat /\ k * c + 1 <= w /\ w < k * c + 1 + c /\ j * c + 1 <= w /\ w < j * c + 1 + c
    BY <2>1, <2>2, <2>3, <2>4, <1>1, <1>5 DEF Run
  <2>6. ASSUME NEW x \in Nat, NEW y \in Nat, x < y PROVE x * c + c <= y * c
    <3>1. x + 1 <= y /\ x + 1 \in Nat
      BY <2>6
    <3>2. (x + 1) * c <= y * c
      BY <2>6, <3>1, <1>1, Scale
    <3>3. (x + 1) * c = x * c + c
      BY <1>1
    <3> QED BY <3>2, <3>3
  <2>7. ~(j < k) /\ ~(k < j)
    <3>1. j < k => j * c + c <= k * c
      BY <2>6
    <3>2. k < j => k * c + c <= j * c
      BY <2>6
    <3> QED BY <3>1, <3>2, <2>4, <2>5, <1>1
  <2>8. j = k
    BY <2>7
  <2>9. r.first = b
    BY <2>2, <2>8
  <2> HIDE DEF b
  <2>10. u \in Run(r.first, r.pages)
    BY <2>3, <2>9, <1>1, <1>4 DEF Run
  <2> QED BY <2>10 DEF RunsOK, FreePages
<1> HIDE DEF b
<1> QED BY <1>4, <1>5 DEF c

(* On the grid the lowest free pages are adjacent. *)
LEMMA GridGapless ==
  ASSUME Gridded, RunsOK(runs, pages), NEW i \in 1 .. l_pageCount,
         Cardinality(FreePages) >= i
  PROVE  Lowest(i) = Run(FirstOf(i), i) /\ Aligned(FirstOf(i))
<1>1. FreePages \subseteq 1 .. HeapPages /\ i \in Nat /\ i >= 1 /\ i <= l_pageCount
  BY Given DEF FreePages
<1>2. FreePages \in SUBSET Nat /\ FreePages # {}
  <2>1. FreePages # {}
    <3> SUFFICES ASSUME FreePages = {} PROVE FALSE
      OBVIOUS
    <3> QED BY <1>1, FS_EmptySet
  <2> QED BY <2>1, <1>1, Given
<1>3. PICK v \in FreePages : \A w \in FreePages : v <= w
  BY <1>2, LeastNatural
<1>4. PICK b \in Nat : /\ Aligned(b) /\ b >= 1 /\ b <= v
                       /\ \A w \in Run(b, l_pageCount) : w \notin pages
  BY PlaceIsFree
<1>5. v \in Nat /\ v \in 1 .. HeapPages
  BY <1>1, <1>2
<1>6. b = v
  <2>1. b \in Run(b, l_pageCount) /\ b \in 1 .. HeapPages
    BY <1>4, <1>5, Given DEF Run
  <2>2. b \in FreePages
    BY <2>1, <1>4 DEF FreePages
  <2> QED BY <2>2, <1>3, <1>4, <1>5
<1>7. v + i - 1 <= HeapPages
  <2> SUFFICES ASSUME v + i - 1 > HeapPages PROVE FALSE
    BY <1>1, <1>5, Given
  <2>1. FreePages \subseteq v .. HeapPages
    BY <1>1, <1>3, <1>5, Given
  <2>2. IsFiniteSet(v .. HeapPages)
        /\ Cardinality(v .. HeapPages) = IF v > HeapPages THEN 0 ELSE HeapPages - v + 1
    BY <1>5, Given, FS_Interval
  <2>3. Cardinality(FreePages) <= Cardinality(v .. HeapPages) /\ Cardinality(FreePages) \in Nat
    BY <2>1, <2>2, FS_Subset, FS_CardinalityType
  <2> QED BY <2>2, <2>3, <1>1, <1>5, Given
<1>8. Run(v, i) \subseteq FreePages
  <2> SUFFICES ASSUME NEW w \in Run(v, i) PROVE w \in FreePages
    OBVIOUS
  <2>1. w \in 1 .. HeapPages /\ w \in Run(b, l_pageCount)
    BY <1>1, <1>5, <1>6, <1>7, Given DEF Run
  <2> QED BY <2>1, <1>4 DEF FreePages
<1>9. Lowest(i) = Run(v, i) /\ FirstOf(i) = v
  BY <1>1, <1>3, <1>8, LowestIs
<1> QED BY <1>4, <1>6, <1>9

(* Then what liballoc_alloc takes for granted is true. *)
LEMMA GridGrants ==
  ASSUME SmallRequests, HeapInv, Gridded
  PROVE  Granted
<1> SUFFICES ASSUME op.pc = "search" PROVE Gapless(PagesFor(op.size + TagSize))
  BY DEF Granted
<1>1. PagesFor(op.size + TagSize) = l_pageCount
  BY DEF SmallRequests, HeapInv, OpInv
<1>2. RunsOK(runs, pages)
  BY DEF HeapInv
<1> QED BY <1>1, <1>2, GridGapless DEF Gapless

(* The runs stay in the grid. *)
LEMMA GridKept ==
  ASSUME SmallRequests, HeapInv, Gridded, [Next]_vars
  PROVE  Gridded'
<1>1. RunsOK(runs, pages) /\ Granted
  BY GridGrants DEF HeapInv
<1>2. CASE UNCHANGED <<pages, runs>>
  BY <1>2 DEF Gridded
<1>3. CASE TakeNewPages
  <2> DEFINE c == PagesFor(op.size + TagSize)
             v == FirstOf(c)
             r == [first |-> v, pages |-> c]
  <2>1. op.pc = "search" /\ liballoc_alloc(c) /\ runs' = runs \cup {r}
    BY <1>3 DEF TakeNewPages
  <2>2. c = l_pageCount
    BY <2>1 DEF SmallRequests, HeapInv, OpInv
  <2>3. c \in 1 .. l_pageCount
    BY <2>2, Given
  <2> HIDE DEF c
  <2>4. Lowest(c) = Run(v, c) /\ Aligned(v)
    BY <2>1, <2>3, <1>1, GridGapless DEF liballoc_alloc
  <2>5. pages' = pages \cup Run(v, c) /\ r.first = v /\ r.pages = c
    BY <2>1, <2>4 DEF liballoc_alloc
  <2> HIDE DEF v, r
  <2> QED BY <2>1, <2>2, <2>4, <2>5 DEF Gridded
<1>4. CASE OutOfMemory
  <2>1. op.pc = "search" /\ op.cur = NULL /\ AllocFails(PagesFor(op.size + TagSize)) /\ runs' = runs
    BY <1>4 DEF OutOfMemory
  <2>2. Gapless(PagesFor(op.size + TagSize)) /\ PagesFor(op.size + TagSize) \in Nat
    BY <2>1, <1>1, PagesForIs, Given DEF Granted, HeapInv, OpInv
  <2>3. pages' = pages
    BY <2>1, <2>2, <1>1, PagesKept
  <2> QED BY <2>1, <2>3, <1>2
<1>5. CASE ReturnPages
  <2>1. PICK r \in runs : runs' = runs \ {r} /\ pages' = pages \ Run(r.first, r.pages)
    BY <1>5, ReturnStep
  <2> QED BY <2>1 DEF Gridded
<1>6. CASE UNCHANGED vars
  BY <1>2, <1>6 DEF vars
<1>7. CASE SearchNext \/ TakeFound \/ MeltLeft \/ AbsorbRight \/ KeepFree \/ FinishRealloc
  BY <1>2, <1>7 DEF SearchNext, TakeFound, MeltLeft, AbsorbRight, KeepFree, FinishRealloc, free
<1>8. CASE \/ \E n \in Sizes : Malloc(n)
           \/ \E p \in DOMAIN blocks : Free(p)
           \/ \E p \in DOMAIN blocks, n \in Sizes : Realloc(p, n)
  BY <1>2, <1>8 DEF Malloc, malloc, Free, free, Realloc
<1> QED BY <1>3, <1>4, <1>5, <1>6, <1>7, <1>8 DEF Next, MallocSteps, FreeSteps

(* While all requests fit into the minimum, the pages that liballoc_alloc  *)
(* maps one at a time are always adjacent, after any sequence of requests, *)
(* returns and failures: what the heap takes for granted needs no          *)
(* granting.                                                               *)
THEOREM SmallRequestsAreGranted ==
  ASSUME SmallRequests PROVE Spec => GrantedSpec
<1>1. Init => HeapInv /\ Gridded
  BY HeapInit DEF Init, Gridded
<1>2. HeapInv /\ Gridded => Granted
  BY GridGrants
<1>3. HeapInv /\ Gridded /\ [Next]_vars => HeapInv' /\ Gridded'
  <2> SUFFICES ASSUME HeapInv, Gridded, [Next]_vars PROVE HeapInv' /\ Gridded'
    OBVIOUS
  <2>1. Gridded'
    BY GridKept
  <2>2. HeapInv'
    BY <1>2, HeapStep
  <2> QED BY <2>1, <2>2
<1>4. HeapInv /\ Gridded /\ [Next]_vars => [Next /\ Granted]_vars
  BY <1>2
<1> QED BY <1>1, <1>3, <1>4, PTL DEF Spec, GrantedSpec

(* So for such requests everything above holds of the heap as it is, with  *)
(* nothing granted.                                                        *)
THEOREM SmallRequestsAreSafe ==
  ASSUME SmallRequests
  PROVE  Spec => /\ [](TagsTile /\ ListsComplete /\ NothingLeaks /\ BlocksIntact)
                 /\ Refinement
BY SmallRequestsAreGranted, TagsAlwaysTile, ListsStayComplete, NothingEverLeaks,
   BlocksStayIntact, KeepsItsPromise, PTL
=============================================================================
