------------------------------ MODULE SymHeap ------------------------------
(***************************************************************************)
(* One PE's symmetric heap (SymHeap, src/symheap.rs): a region of Capacity *)
(* bytes at LocalBase, the free list as a set of blocks, and the map from  *)
(* the address of each live allocation to its length.  Every call runs     *)
(* under the lifecycle mutex (or SymAlloc's own), so a call is one step.   *)
(***************************************************************************)
EXTENDS HeapState

VARIABLE free  \* the free list

vars == <<free, allocations, owned, stale, ret>>

Init ==
  /\ free = {[start |-> 0, len |-> Capacity]}
  /\ allocations = [p \in {} |-> 0]
  /\ owned = {}
  /\ stale = {}
  /\ ret = [op |-> "none", arg |-> 0, ptr |-> 0, res |-> "ok"]

----------------------------------------------------------------------------

MallocRejected(size) ==
  /\ size = 0 \/ size + (ALIGNMENT - 1) > UsizeMax
  /\ ret' = [op |-> "malloc", arg |-> size, ptr |-> 0,
             res |-> IF size = 0 THEN "zero" ELSE "overflow"]
  /\ UNCHANGED <<free, allocations, owned, stale>>

MallocExhausted(size) ==
  /\ size > 0 /\ size + (ALIGNMENT - 1) <= UsizeMax
  /\ \A b \in free : b.len < RoundUp(size)
  /\ ret' = [op |-> "malloc", arg |-> size, ptr |-> 0, res |-> "exhausted"]
  /\ UNCHANGED <<free, allocations, owned, stale>>

MallocOk(size) ==
  /\ size > 0 /\ size + (ALIGNMENT - 1) <= UsizeMax
  /\ \E block \in free :
       LET ptr == LocalBase + block.start
       IN  /\ IsFirstFit(free, RoundUp(size), block)
           /\ free' = Carve(free, block, RoundUp(size))
           /\ allocations' = InsertKey(allocations, ptr, RoundUp(size))
           /\ owned' = owned \cup {ptr}
           /\ ret' = [op |-> "malloc", arg |-> size, ptr |-> ptr, res |-> "ok"]
           /\ UNCHANGED stale

Malloc(size) == MallocRejected(size) \/ MallocExhausted(size) \/ MallocOk(size)

(* The bounds and alignment checks of free, made after the entry has been  *)
(* removed from the map.                                                   *)
ValidRange_OffByOne(ptr, len) ==  \* mutant: rejects the allocation at the end
  /\ ptr >= LocalBase
  /\ (ptr - LocalBase) + len < Capacity
  /\ (ptr - LocalBase) % ALIGNMENT = 0

ValidRange(ptr, len) ==
  /\ ptr >= LocalBase
  /\ (ptr - LocalBase) + len <= Capacity
  /\ (ptr - LocalBase) % ALIGNMENT = 0

FreeUnknown(ptr) ==
  /\ ptr \notin DOMAIN allocations
  /\ ret' = [op |-> "free", arg |-> 0, ptr |-> ptr, res |-> "invalid"]
  /\ UNCHANGED <<free, allocations>>

FreeLive(ptr) ==
  /\ ptr \in DOMAIN allocations
  /\ allocations' = RemoveKey(allocations, ptr)
  /\ LET len == allocations[ptr] IN
       IF ValidRange(ptr, len)
       THEN /\ free' = Coalesce(free \cup {[start |-> ptr - LocalBase, len |-> len]})
            /\ ret' = [op |-> "free", arg |-> 0, ptr |-> ptr, res |-> "ok"]
       ELSE /\ free' = free
            /\ ret' = [op |-> "free", arg |-> 0, ptr |-> ptr, res |-> "invalid"]

Free(ptr) == FreeUnknown(ptr) \/ FreeLive(ptr)

(* The owner frees its pointer and may keep a copy of it.                  *)
FreeOwned(ptr) ==
  /\ ptr \in owned
  /\ Free(ptr)
  /\ owned' = owned \ {ptr}
  /\ stale' = stale \cup {ptr}

(* A caller frees through a copy whose allocation it has already freed.    *)
FreeStale(ptr) ==
  /\ ptr \in stale
  /\ Free(ptr)
  /\ UNCHANGED <<owned, stale>>

(* A caller passes a pointer of another heap.                              *)
FreeForeign(ptr) ==
  /\ Free(ptr)
  /\ UNCHANGED <<owned, stale>>

Next ==
  \/ \E size \in Sizes : Malloc(size)
  \/ \E ptr \in owned : FreeOwned(ptr)
  \/ \E ptr \in stale : FreeStale(ptr)
  \/ \E ptr \in ForeignPtrs : FreeForeign(ptr)

Spec == Init /\ [][Next]_vars

----------------------------------------------------------------------------

(* The live allocations as blocks of the region.                           *)
Allocated == { [start |-> p - LocalBase, len |-> allocations[p]] :
                 p \in DOMAIN allocations }

(* The addresses of the region's words.                                    *)
RegionPtr == { p \in LocalBase .. LocalBase + Capacity - 1 :
                 (p - LocalBase) % ALIGNMENT = 0 }

(* Every value stays in its type: the blocks of the free list and of the   *)
(* map are aligned nonempty ranges inside the region, and the pointers in  *)
(* SymHeap's map and in the caller's hands are addresses of its words.     *)
TypeOK ==
  /\ free \subseteq Block
  /\ DOMAIN allocations \subseteq RegionPtr
  /\ allocations \in [DOMAIN allocations -> Nat]
  /\ \A b \in free \cup Allocated : WellPlaced(Capacity, b)
  /\ owned \subseteq RegionPtr
  /\ stale \subseteq RegionPtr
  /\ ret \in Result

(* HeapPartition: however mallocs and frees (also of stale and foreign     *)
(* pointers) are interleaved, the free list and the live allocations tile  *)
(* the region: no two overlap, none sticks out, and no byte is lost, so no *)
(* two allocations share memory and free never leaks (SymHeap::malloc and  *)
(* SymHeap::free).                                                         *)
HeapPartition == Tiling(Capacity, free, Allocated)

(* The inductive strengthening: first fit and the merging pass keep the    *)
(* tiling only because no two free blocks abut.                            *)
HeapInv == TypeOK /\ HeapPartition /\ NoneAbut(free)

(* FreeIsGaps: the free list is a function of the live allocations alone,  *)
(* whatever the history of calls: exactly the maximal gaps between them.   *)
(* Two PEs with the same live allocations therefore allocate next at the   *)
(* same offset, which is what makes the heap symmetric.                    *)
FreeIsGaps == free = Gaps(Capacity, Allocated)

(* MallocIsLowestFit: malloc answers from the live allocations alone.  It  *)
(* returns the lowest aligned offset where the rounded size fits, and it   *)
(* says "symmetric heap exhausted" only when the size fits nowhere.        *)
MallocIsLowestFit ==
  [][ (ret'.op = "malloc" /\ ret'.res \in {"ok", "exhausted"}) =>
        LET fits == FitsAt(Capacity, Allocated, RoundUp(ret'.arg)) IN
          IF ret'.res = "ok"
          THEN /\ ret'.ptr - LocalBase \in fits
               /\ \A s \in fits : ret'.ptr - LocalBase <= s
          ELSE fits = {} ]_vars

(* OwnedIsAllocated: a pointer that its owner has not freed denotes a live *)
(* allocation, so nobody else can be handed its bytes, unless somebody     *)
(* keeps a stale copy of the same address: no free of another pointer can  *)
(* take the memory away (SymHeap::free).                                   *)
OwnedIsAllocated == owned \ stale \subseteq DOMAIN allocations

(* DoubleFreeIsError: freeing through a copy of a pointer that was already *)
(* freed is an error, as the comment on SymHeap::free says of double frees *)
(* ("double/foreign frees are errors", src/symheap.rs:171).                *)
DoubleFreeIsError ==
  [][ \A p \in stale : FreeStale(p) => ret'.res = "invalid" ]_vars

=============================================================================
