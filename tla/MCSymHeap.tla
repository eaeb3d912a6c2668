----------------------------- MODULE MCSymHeap -----------------------------
(* A heap of five words, asked for 38 bytes so that with_size rounds up,   *)
(* in an address space of 128.                                             *)
EXTENDS SymHeap

MCSizes == {0, 1, 8, 9, 24, 121}
MCForeign == {8, 56, 58}
=============================================================================
