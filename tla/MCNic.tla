------------------------------- MODULE MCNic --------------------------------
(* The card's driver with the sizes of the code, and frames of medium and  *)
(* of full length.                                                         *)
EXTENDS Nic
=============================================================================
