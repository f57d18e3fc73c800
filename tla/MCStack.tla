------------------------------ MODULE MCStack ------------------------------
(* StackMem on small blocks.  300 does not fit a byte (its low byte is 44),  *)
(* -1 and 1 do.                                                              *)
EXTENDS StackMem, Words

MCValue == {-1, 1, 44, 300}
MCWild  == {44}
=============================================================================
