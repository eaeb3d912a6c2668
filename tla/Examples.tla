------------------------------ MODULE Examples ------------------------------
(***************************************************************************)
(* The programs of examples/ping_put_get.rs and examples/barrier.rs, as    *)
(* programs of Rma.  init has returned Ok on every PE.                     *)
(***************************************************************************)
EXTENDS Rma

BlankCall == [op |-> "local", pe |-> 0, offset |-> 0, len |-> 0, amo |-> "add",
              args |-> <<>>, signed |-> FALSE]

LocalCall == BlankCall
FenceCall == [BlankCall EXCEPT !.op = "fence"]
BarrierCall == [BlankCall EXCEPT !.op = "barrier"]
FinalizeCall == [BlankCall EXCEPT !.op = "finalize"]
QuietCall == [BlankCall EXCEPT !.op = "quiet"]
QuietPeCall(pe) == [BlankCall EXCEPT !.op = "quiet_pe", !.pe = pe]
PutCall(pe, offset, values) ==
  [BlankCall EXCEPT !.op = "put", !.pe = pe, !.offset = offset, !.len = Len(values), !.args = values]
GetCall(pe, offset, len) ==
  [BlankCall EXCEPT !.op = "get", !.pe = pe, !.offset = offset, !.len = len]
AwaitCall(pe, offset, value) ==
  [BlankCall EXCEPT !.op = "await", !.pe = pe, !.offset = offset, !.len = 1, !.args = <<value>>]

(* One thread; the others do nothing.                                      *)
Thread(calls, cleanup) ==
  [t \in Threads |-> IF t = 1 THEN [calls |-> calls, cleanup |-> cleanup]
                              ELSE [calls |-> <<>>, cleanup |-> 0]]

(* ping_put_get's run and main: my_pe, n_pes, and with any other number of *)
(* PEs nothing more; malloc (the first block, offset 0) and heap_base; PE  *)
(* 0 puts, fences and completes, PE 1 gets its own word until it sees the  *)
(* value or 30 seconds have passed; free.  main finalizes in any case.     *)
VALUE == SignBit + 1

PingPutGet ==
  [p \in PEs |->
    Thread((IF N # 2 THEN <<LocalCall, LocalCall>>
            ELSE <<LocalCall, LocalCall, LocalCall, LocalCall>>
                 \o (IF p = 0 THEN <<PutCall(1, 0, <<VALUE>>), FenceCall, QuietPeCall(1)>>
                              ELSE <<AwaitCall(p, 0, VALUE)>>)
                 \o <<LocalCall>>) \o <<FinalizeCall>>, 1)]

(* barrier's run: an error of the barrier returns without finalizing.      *)
BarrierExample ==
  [p \in PEs |-> Thread(<<LocalCall, LocalCall, BarrierCall, FinalizeCall>>, 0)]

=============================================================================
