------------------------------- MODULE MCRma -------------------------------
(* Two PEs with two words each, at overlapping bases of a 5-bit address    *)
(* space, words of 3 bits, and programs that provoke each hazard.          *)
EXTENDS Examples

MCBase == [p \in PEs |-> IF p = 0 THEN 4 ELSE 6]
MCAllFaults == {"post", "request", "flush", "fence", "ucc", "disconnect", "local"}

Solo(first, second) == [p \in PEs |-> IF p = 0 THEN Thread(first, 0) ELSE Thread(second, 0)]

(* Data, quiet, barrier against barrier, get.                              *)
MCPublish ==
  { Solo(<<PutCall(1, 0, <<3, 4>>), q, BarrierCall, FinalizeCall>>,
         <<BarrierCall, GetCall(1, 0, 2), FinalizeCall>>) : q \in {QuietCall, QuietPeCall(1)} }

(* Data, fence, flag against waiting for the flag, then reading the data.  *)
MCFlag == { Solo(<<PutCall(1, 0, <<3>>), FenceCall, PutCall(1, 2, <<5>>)>>,
                 <<AwaitCall(1, 2, 5), GetCall(1, 0, 1)>>) }

(* Two PEs update PE 1's word with each pair of atomics, as signed or      *)
(* unsigned; then PE 0 reads it.                                           *)
Amo(op, amo, args, signed) ==
  [BlankCall EXCEPT !.op = op, !.pe = 1, !.len = 1, !.amo = amo, !.args = args, !.signed = signed]

MCAmos == { Amo(op, "add", <<x>>, TRUE) : op \in {"atomic", "fetch"}, x \in {-3} }
          \cup { Amo("fetch", "xor", <<6>>, FALSE), Amo("atomic", "xor", <<3>>, FALSE),
                 Amo("fetch", "swap", <<-1>>, TRUE), Amo("atomic", "swap", <<2>>, TRUE),
                 Amo("atomic", "and", <<5>>, FALSE), Amo("atomic", "or", <<-2>>, TRUE),
                 Amo("fetch", "cswap", <<-3, 1>>, TRUE), Amo("atomic", "cswap", <<0, 7>>, FALSE) }

MCAtomics ==
  { Solo(<<a, QuietCall, [GetCall(1, 0, 1) EXCEPT !.signed = TRUE]>>, <<b, Amo("fetch", "add", <<2>>, TRUE)>>) :
      a, b \in MCAmos }

(* Writes to both endpoints, then quiet, while the peer finalizes.         *)
MCFinalizeRace ==
  { Solo(<<PutCall(1, 0, <<3>>), PutCall(0, 2, <<4>>), QuietCall, FinalizeCall, QuietCall>>,
         <<LocalCall, FinalizeCall>>) }

(* A thread in a barrier keeps the other thread of its PE from setting the *)
(* flag that the peer awaits before it joins.                              *)
MCTwoThreads ==
  { [p \in PEs |-> IF p = 0 THEN [t \in Threads |-> IF t = 1 THEN [calls |-> <<BarrierCall>>, cleanup |-> 0]
                                   ELSE [calls |-> <<PutCall(1, 0, <<1>>), QuietPeCall(1)>>, cleanup |-> 0]]
                   ELSE Thread(<<AwaitCall(1, 0, 1), BarrierCall>>, 0)] }

(* Calls that are refused, empty, or beyond the heap, and the last word of *)
(* the heap.                                                               *)
MCUsage ==
  { Solo(<<c, GetCall(0, 0, 1)>>, <<PutCall(0, 0, <<1>>), QuietPeCall(2)>>) :
      c \in { PutCall(2, 0, <<1>>), PutCall(1, 26, <<1>>), GetCall(0, 26, 3), PutCall(1, 24, <<1, 2>>),
              GetCall(1, 0, 16), PutCall(1, 0, <<>>), GetCall(2, 0, 0), PutCall(0, 4, <<1>>),
              PutCall(0, 2, <<1>>) } }

MCPrograms == {PingPutGet, BarrierExample} \cup MCPublish \cup MCFlag \cup MCAtomics
              \cup MCFinalizeRace \cup MCTwoThreads \cup MCUsage
=============================================================================
