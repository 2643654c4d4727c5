--------------------------- MODULE FrameAllocator ---------------------------
(***************************************************************************)
(* What a physical frame allocator promises its callers, whatever search   *)
(* it uses: a frame is free, held by a caller, or neither (reserved by the *)
(* firmware and the kernel image, or abandoned by a caller that believed   *)
(* it gave the frame back).  A grant is a contiguous run of free frames.   *)
(***************************************************************************)
EXTENDS Integers

CONSTANT Frames       \* the frame numbers that exist

VARIABLES free,       \* frames a grant may take
          owned       \* frames callers hold

faVars == <<free, owned>>

FAInit == /\ free \subseteq Frames
          /\ owned = {}

(* A caller receives the frames first .. last, all of them free until now. *)
Grant == \E first \in free, last \in free :
           /\ first <= last
           /\ first..last \subseteq free
           /\ free' = free \ (first..last)
           /\ owned' = owned \cup (first..last)

(* A caller gives back frames it holds, and they become free again.        *)
Return == \E S \in SUBSET owned :
            /\ free' = free \cup S
            /\ owned' = owned \ S

(* A caller gives frames back and they are lost: nobody holds them and     *)
(* no later grant can contain them.                                        *)
Abandon == \E S \in SUBSET owned :
             /\ free' = free
             /\ owned' = owned \ S

FANext == Grant \/ Return \/ Abandon

FASpec == FAInit /\ [][FANext]_faVars
=============================================================================
