------------------------------- MODULE MCHeap -------------------------------
(* The heap over few, small pages, a tag being one word: blocks are split, *)
(* reused, merged from both sides and given back, and pages run out.       *)
EXTENDS Heap
=============================================================================
