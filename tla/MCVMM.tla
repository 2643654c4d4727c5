------------------------------- MODULE MCVMM -------------------------------
(* VMM on few pages and frames, so that both run out.                      *)
EXTENDS VMM

(* Whatever the memory of the bitmap holds at boot. *)
AnyBitmap == SUBSET Pages
=============================================================================
