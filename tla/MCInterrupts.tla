---------------------------- MODULE MCInterrupts ----------------------------
(* Interrupts with the card on line 11, one key, and handlers nested up to *)
(* three deep: the card's, the card's again, and a short one.              *)
EXTENDS Interrupts
=============================================================================
