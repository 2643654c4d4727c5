---------------------------- MODULE AbstractHeap ----------------------------
(***************************************************************************)
(* What a heap promises its callers: a block is memory that no other block *)
(* holds a part of, and stays its caller's until it is given back.         *)
(***************************************************************************)
EXTENDS Integers

CONSTANTS
  Pointers,           \* addresses that blocks may have
  Sizes               \* sizes that callers ask for

VARIABLE blocks       \* the blocks in use: a function from address to size

(* n bytes from p on and k bytes from q on have none in common. *)
Apart(p, n, q, k) == p + n <= q \/ q + k <= p

AHInit == blocks = [p \in {} |-> 0]

Grant(p, n) ==
  /\ p \notin DOMAIN blocks
  /\ \A q \in DOMAIN blocks : Apart(p, n, q, blocks[q])
  /\ blocks' = [q \in DOMAIN blocks \cup {p} |-> IF q = p THEN n ELSE blocks[q]]

GiveBack(p) ==
  /\ p \in DOMAIN blocks
  /\ blocks' = [q \in DOMAIN blocks \ {p} |-> blocks[q]]

AHNext == \/ \E p \in DOMAIN blocks : GiveBack(p)
          \/ \E p \in Pointers, n \in Sizes : Grant(p, n)

AHSpec == AHInit /\ [][AHNext]_blocks
=============================================================================
