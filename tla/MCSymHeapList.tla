--------------------------- MODULE MCSymHeapList ---------------------------
(* A heap of five words, asked for 38 bytes so that with_size rounds up.   *)
EXTENDS SymHeapList

MCSizes == {0, 1, 9, 24, 121}
MCForeign == {8, 56}
=============================================================================
