------------------------------- MODULE MCTCP -------------------------------
(* TCP with two peers, of which one sends requests, so that the timer of   *)
(* one connection runs out while a segment of the other is handled.        *)
EXTENDS TCP
=============================================================================
