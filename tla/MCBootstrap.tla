---------------------------- MODULE MCBootstrap ----------------------------
(* Three PEs; the size a PE reads may be zero, too small, right or too     *)
(* large, and PE 1 may publish a malformed rkey.                           *)
EXTENDS Bootstrap

MCSizes == {0, 2, 3, 4}
MCAllFaults == Calls
=============================================================================
