-------------------------- MODULE MCSymmetricHeap --------------------------
(* Two PEs whose regions of four words lie at different addresses.         *)
EXTENDS SymmetricHeap

MCBase == [p \in PEs |-> 64 * (p + 1)]
MCSizes == {8, 16}
=============================================================================
