----------------------------- MODULE HeapState -----------------------------
(***************************************************************************)
(* The parameters of one PE's symmetric heap and all of its state but the  *)
(* free list: the allocation map of SymHeap (src/symheap.rs), what its     *)
(* callers hold, and the last result.  SymHeap adds the free list as a set *)
(* of blocks, HeapList as the Vec of the code.                             *)
(*                                                                         *)
(* owned and stale describe the caller, not the crate: SymPtr is Copy, so  *)
(* a copy of a pointer survives the free of its allocation.                *)
(***************************************************************************)
EXTENDS HeapTiling

CONSTANTS
  HeapSize,    \* bytes asked of with_size (SHMEM_SYMMETRIC_SIZE)
  LocalBase,   \* address of the region
  UsizeMax,    \* usize::MAX
  Sizes,       \* the sizes callers ask malloc for
  ForeignPtrs  \* pointers of other heaps that callers may pass to free

Capacity == CapacityOf(HeapSize)

(* with_size returned Ok: its checks held, and the allocator placed the    *)
(* region of u64 words at a nonzero aligned address inside the address     *)
(* space, apart from every other heap.                                     *)
ASSUME HeapAssumption ==
  /\ UsizeMax \in Nat /\ UsizeMax % ALIGNMENT = ALIGNMENT - 1
  /\ HeapSize \in Nat /\ HeapSize >= ALIGNMENT
  /\ HeapSize + (ALIGNMENT - 1) <= UsizeMax
  /\ LocalBase \in Nat \ {0} /\ LocalBase % ALIGNMENT = 0
  /\ LocalBase + Capacity <= UsizeMax
  /\ Sizes \subseteq 0 .. UsizeMax
  /\ ForeignPtrs \subseteq Nat
  /\ \A p \in ForeignPtrs : p < LocalBase \/ p >= LocalBase + Capacity

VARIABLES
  allocations,  \* address of a live allocation -> its length
  owned,        \* pointers returned by malloc and not yet freed by their owner
  stale,        \* pointers of which the caller keeps a copy it already freed
  ret           \* the last call and its result

Result == [op : {"none", "malloc", "free"}, arg : Nat, ptr : Nat,
           res : {"ok", "zero", "overflow", "exhausted", "invalid"}]

=============================================================================
