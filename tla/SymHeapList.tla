---------------------------- MODULE SymHeapList ----------------------------
(***************************************************************************)
(* SymHeap on the Vec of the code (HeapList).  The specification is shown  *)
(* to implement SymHeap, where the list is the set of its blocks.          *)
(***************************************************************************)
EXTENDS HeapList

vars == <<list, allocations, owned, stale, ret>>

Init ==
  /\ list = <<[start |-> 0, len |-> Capacity]>>
  /\ allocations = [p \in {} |-> 0]
  /\ owned = {}
  /\ stale = {}
  /\ ret = [op |-> "none", arg |-> 0, ptr |-> 0, res |-> "ok"]

----------------------------------------------------------------------------

Malloc(size) ==
  LET requested == RoundUp(size)
      index     == Position(list, requested)
      ptr       == LocalBase + list[index].start
  IN  \/ /\ size = 0 \/ size + (ALIGNMENT - 1) > UsizeMax
         /\ ret' = [op |-> "malloc", arg |-> size, ptr |-> 0,
                    res |-> IF size = 0 THEN "zero" ELSE "overflow"]
         /\ UNCHANGED <<list, allocations, owned, stale>>
      \/ /\ size > 0 /\ size + (ALIGNMENT - 1) <= UsizeMax
         /\ index = 0
         /\ ret' = [op |-> "malloc", arg |-> size, ptr |-> 0, res |-> "exhausted"]
         /\ UNCHANGED <<list, allocations, owned, stale>>
      \/ /\ size > 0 /\ size + (ALIGNMENT - 1) <= UsizeMax
         /\ index # 0
         /\ list' = CarveAt(list, index, requested)
         /\ allocations' = InsertKey(allocations, ptr, requested)
         /\ owned' = owned \cup {ptr}
         /\ ret' = [op |-> "malloc", arg |-> size, ptr |-> ptr, res |-> "ok"]
         /\ UNCHANGED stale

Free(ptr) ==
  LET known == ptr \in DOMAIN allocations
      valid == known /\ Set!ValidRange(ptr, allocations[ptr])
  IN  /\ allocations' = RemoveKey(allocations, ptr)
      /\ list' = IF valid
                 THEN Release(list, [start |-> ptr - LocalBase, len |-> allocations[ptr]])
                 ELSE list
      /\ ret' = [op |-> "free", arg |-> 0, ptr |-> ptr,
                 res |-> IF valid THEN "ok" ELSE "invalid"]

(* The caller frees a pointer it owns, a stale copy or a foreign pointer.  *)
CallFree(ptr) ==
  \/ /\ ptr \in owned
     /\ Free(ptr)
     /\ owned' = owned \ {ptr}
     /\ stale' = stale \cup {ptr}
  \/ /\ ptr \in stale \cup ForeignPtrs
     /\ Free(ptr)
     /\ UNCHANGED <<owned, stale>>

Next ==
  \/ \E size \in Sizes : Malloc(size)
  \/ \E ptr \in owned \cup stale \cup ForeignPtrs : CallFree(ptr)

Spec == Init /\ [][Next]_vars

=============================================================================
