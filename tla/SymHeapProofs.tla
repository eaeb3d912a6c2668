--------------------------- MODULE SymHeapProofs ---------------------------
(***************************************************************************)
(* Proofs about one PE's symmetric heap, for every heap size, base address *)
(* and set of request sizes: first with the free list as a set of blocks   *)
(* (SymHeap), then as the sorted Vec of the code (SymHeapList).            *)
(***************************************************************************)
EXTENDS SymHeap, HeapList, HeapTilingProofs, SequenceTheorems, WellFoundedInduction

(* The region is a nonempty whole number of words.                         *)
LEMMA CapacityFacts ==
  /\ Capacity \in Nat
  /\ Capacity >= ALIGNMENT
  /\ Capacity % ALIGNMENT = 0
  BY HeapAssumption, CapacityOfFacts DEF Capacity

----------------------------------------------------------------------------

(* The block of the live allocation at address p.                          *)
BlockAt(p) == [start |-> p - LocalBase, len |-> allocations[p]]

(* The part of TypeOK the tiling lemmas need of the map.                   *)
MapOK ==
  /\ DOMAIN allocations \subseteq LocalBase .. (LocalBase + Capacity - 1)
  /\ allocations \in [DOMAIN allocations -> Nat]

(* Allocated holds the blocks of the live allocations and nothing else.    *)
LEMMA AllocatedFacts ==
  ASSUME MapOK
  PROVE  /\ Allocated \in SUBSET Block
         /\ \A p \in DOMAIN allocations : BlockAt(p) \in Allocated
         /\ \A b \in Allocated : \E p \in DOMAIN allocations : b = BlockAt(p)
  BY HeapAssumption, CapacityFacts DEF MapOK, Allocated, Block, BlockAt

(* What the invariant says in terms of the tiling lemmas.                  *)
LEMMA InvTiling ==
  ASSUME HeapInv
  PROVE  /\ Capacity \in Nat /\ free \in SUBSET Block /\ Allocated \in SUBSET Block
         /\ Tiling(Capacity, free, Allocated) /\ NoneAbut(free) /\ MapOK
  <1>1. MapOK /\ free \in SUBSET Block
    BY DEF HeapInv, TypeOK, MapOK, RegionPtr
  <1> QED
    BY <1>1, CapacityFacts, AllocatedFacts DEF HeapInv, HeapPartition

(* The addresses of well-placed blocks are those of the region's words.    *)
LEMMA OffsetIsRegionPtr ==
  ASSUME NEW p \in LocalBase .. (LocalBase + Capacity - 1),
         (p - LocalBase) % ALIGNMENT = 0
  PROVE  p \in RegionPtr
  BY DEF RegionPtr

(* Type correctness of the next state follows from its tiling.             *)
LEMMA TilingIsTyped ==
  ASSUME MapOK', free' \in SUBSET Block, Tiling(Capacity, free', Allocated'),
         owned' \subseteq RegionPtr, stale' \subseteq RegionPtr, ret' \in Result
  PROVE  TypeOK'
  <1>1. \A b \in free' \cup Allocated' : WellPlaced(Capacity, b)
    BY DEF Tiling
  <1>2. ASSUME NEW p \in DOMAIN allocations'  PROVE p \in RegionPtr
    <2>1. [start |-> p - LocalBase, len |-> allocations'[p]] \in Allocated'
      BY DEF Allocated
    <2>2. (p - LocalBase) % ALIGNMENT = 0
      BY <1>1, <2>1 DEF WellPlaced
    <2>3. p \in LocalBase .. (LocalBase + Capacity - 1)
      BY DEF MapOK
    <2> QED
      BY <2>2, <2>3, OffsetIsRegionPtr
  <1> QED
    BY <1>1, <1>2 DEF TypeOK, MapOK

(* A call that touches neither the list nor the map keeps the tiling.      *)
LEMMA QuietCall ==
  ASSUME HeapInv, UNCHANGED <<free, allocations>>, TypeOK'
  PROVE  HeapInv'
  <1>1. Allocated' = Allocated
    BY DEF Allocated
  <1> QED
    BY <1>1 DEF HeapInv, HeapPartition

(* malloc carves n bytes off a block of the free blocks F: they are apart  *)
(* from every live allocation, so their address is new to the map, and the *)
(* remaining blocks tile the region together with one allocation more.     *)
LEMMA MallocTiles ==
  ASSUME MapOK, NEW F \in SUBSET Block,
         Tiling(Capacity, F, Allocated), NoneAbut(F),
         NEW block \in F, NEW n \in Nat, n > 0, n % ALIGNMENT = 0, n <= block.len,
         allocations' = InsertKey(allocations, LocalBase + block.start, n)
  PROVE  /\ MapOK'
         /\ Carve(F, block, n) \in SUBSET Block
         /\ Tiling(Capacity, Carve(F, block, n), Allocated')
         /\ NoneAbut(Carve(F, block, n))
  <1> DEFINE ptr == LocalBase + block.start
             a   == [start |-> block.start, len |-> n]
  <1>1. block \in Block /\ WellPlaced(Capacity, block)
    BY DEF Tiling
  <1>2. /\ Carve(F, block, n) \in SUBSET Block
        /\ Tiling(Capacity, Carve(F, block, n), Allocated \cup {a})
        /\ NoneAbut(Carve(F, block, n))
    BY AllocatedFacts, CapacityFacts, CarveTiles
  <1>3. ptr \in LocalBase .. (LocalBase + Capacity - 1)
    BY <1>1, HeapAssumption, CapacityFacts DEF WellPlaced, EndOf, Block
  <1>4. ptr \notin DOMAIN allocations
    <2> SUFFICES ASSUME ptr \in DOMAIN allocations  PROVE FALSE
      OBVIOUS
    <2>1. BlockAt(ptr) \in Allocated /\ BlockAt(ptr) \in Block
      BY AllocatedFacts
    <2>2. BlockAt(ptr).start = block.start
      BY <1>1, HeapAssumption DEF BlockAt, Block
    <2>3. Apart(block, BlockAt(ptr)) /\ BlockAt(ptr).len > 0
      BY <2>1 DEF Tiling, WellPlaced
    <2> QED
      BY <1>1, <2>1, <2>2, <2>3 DEF Apart, EndOf, Block, WellPlaced
  <1>5. /\ DOMAIN allocations' = DOMAIN allocations \cup {ptr}
        /\ \A p \in DOMAIN allocations : allocations'[p] = allocations[p]
        /\ allocations'[ptr] = n
        /\ allocations' \in [DOMAIN allocations' -> Nat]
    BY <1>4 DEF InsertKey, MapOK
  <1>6. Allocated' = Allocated \cup {a}
    <2>1. ptr - LocalBase = block.start
      BY <1>1, HeapAssumption DEF Block
    <2> QED
      BY <1>4, <1>5, <2>1 DEF Allocated
  <1>7. MapOK'
    BY <1>3, <1>5 DEF MapOK
  <1> QED
    BY <1>2, <1>6, <1>7

(* free of a live allocation: its range passes the checks, and the map     *)
(* holds every other allocation as before.                                 *)
LEMMA FreeTiles ==
  ASSUME MapOK, NEW F \in SUBSET Block, Tiling(Capacity, F, Allocated),
         NEW ptr \in DOMAIN allocations,
         allocations' = RemoveKey(allocations, ptr)
  PROVE  /\ BlockAt(ptr) \in Allocated
         /\ ValidRange(ptr, allocations[ptr])
         /\ MapOK'
         /\ Allocated' = Allocated \ {BlockAt(ptr)}
  <1> DEFINE a == BlockAt(ptr)
  <1>1. a \in Allocated /\ a \in Block /\ WellPlaced(Capacity, a)
    BY AllocatedFacts DEF Tiling
  <1>2. ValidRange(ptr, allocations[ptr])
    BY <1>1, HeapAssumption, CapacityFacts
    DEF MapOK, ValidRange, WellPlaced, BlockAt, EndOf
  <1>3. /\ DOMAIN allocations' = DOMAIN allocations \ {ptr}
        /\ \A p \in DOMAIN allocations' : allocations'[p] = allocations[p]
        /\ allocations' \in [DOMAIN allocations' -> Nat]
    BY DEF RemoveKey, MapOK
  <1>4. \A p \in DOMAIN allocations : p # ptr => BlockAt(p) # a
    BY HeapAssumption DEF MapOK, BlockAt
  <1>5. Allocated' = Allocated \ {a}
    BY <1>3, <1>4 DEF Allocated, BlockAt
  <1>6. MapOK'
    BY <1>3 DEF MapOK
  <1> QED
    BY <1>1, <1>2, <1>5, <1>6

(* A successful malloc keeps the invariant.                                *)
LEMMA MallocOkKeepsInv ==
  ASSUME HeapInv, NEW size \in Sizes, MallocOk(size)
  PROVE  HeapInv'
  <1> DEFINE n == RoundUp(size)
  <1>1. size \in Nat /\ size > 0
    BY HeapAssumption DEF MallocOk
  <1>2. n \in Nat /\ n > 0 /\ n % ALIGNMENT = 0
    BY <1>1, RoundUpFacts
  <1> HIDE DEF n
  <1>3. PICK block \in free :
          /\ IsFirstFit(free, n, block)
          /\ free' = Carve(free, block, n)
          /\ allocations' = InsertKey(allocations, LocalBase + block.start, n)
          /\ owned' = owned \cup {LocalBase + block.start}
          /\ ret' = [op |-> "malloc", arg |-> size,
                     ptr |-> LocalBase + block.start, res |-> "ok"]
          /\ UNCHANGED stale
    BY DEF MallocOk, n
  <1>4. block \in Block /\ n <= block.len
    BY <1>2, <1>3, InvTiling DEF IsFirstFit, Block
  <1>5. /\ MapOK' /\ free' \in SUBSET Block
        /\ Tiling(Capacity, free', Allocated') /\ NoneAbut(free')
    BY <1>2, <1>3, <1>4, InvTiling, MallocTiles
  <1>6. TypeOK'
    <2>1. ret' \in Result
      BY <1>1, <1>3, <1>4, HeapAssumption DEF Result, Block
    <2>2. LocalBase + block.start \in RegionPtr
      <3>1. WellPlaced(Capacity, block)
        BY InvTiling DEF Tiling
      <3>2. /\ LocalBase + block.start \in LocalBase .. (LocalBase + Capacity - 1)
            /\ (LocalBase + block.start) - LocalBase = block.start
        BY <1>4, <3>1, HeapAssumption, CapacityFacts DEF WellPlaced, EndOf, Block
      <3> QED
        BY <3>1, <3>2, OffsetIsRegionPtr DEF WellPlaced
    <2>3. owned' \subseteq RegionPtr /\ stale' \subseteq RegionPtr
      BY <1>3, <2>2 DEF HeapInv, TypeOK
    <2> QED
      BY <1>5, <2>1, <2>3, TilingIsTyped
  <1> QED
    BY <1>5, <1>6 DEF HeapInv, HeapPartition

(* free of a live allocation keeps the invariant: its bytes go back to the *)
(* list.                                                                   *)
LEMMA FreeLiveKeepsInv ==
  ASSUME HeapInv, NEW ptr \in Nat, FreeLive(ptr),
         owned' \subseteq RegionPtr, stale' \subseteq RegionPtr
  PROVE  HeapInv'
  <1> DEFINE a == BlockAt(ptr)
  <1>1. ptr \in DOMAIN allocations /\ allocations' = RemoveKey(allocations, ptr)
    BY DEF FreeLive
  <1>2. /\ a \in Allocated /\ ValidRange(ptr, allocations[ptr])
        /\ MapOK' /\ Allocated' = Allocated \ {a}
    BY <1>1, InvTiling, FreeTiles
  <1>3. /\ free' = Coalesce(free \cup {a})
        /\ ret' = [op |-> "free", arg |-> 0, ptr |-> ptr, res |-> "ok"]
    BY <1>2 DEF FreeLive, BlockAt
  <1>4. /\ free' \in SUBSET Block
        /\ Tiling(Capacity, free', Allocated \ {a})
        /\ NoneAbut(free')
    BY <1>2, <1>3, InvTiling, ReleaseTiles
  <1>5. TypeOK'
    <2>1. ret' \in Result
      BY <1>3 DEF Result
    <2> QED
      BY <1>2, <1>4, <2>1, TilingIsTyped
  <1> QED
    BY <1>2, <1>4, <1>5 DEF HeapInv, HeapPartition

(* free(ptr), whoever calls it, keeps the invariant.                       *)
LEMMA FreeKeepsInv ==
  ASSUME HeapInv, NEW ptr \in Nat, Free(ptr),
         owned' \subseteq RegionPtr, stale' \subseteq RegionPtr
  PROVE  HeapInv'
  <1>1. CASE FreeUnknown(ptr)
    <2>1. TypeOK'
      BY <1>1 DEF FreeUnknown, HeapInv, TypeOK, Allocated, Result
    <2> QED
      BY <1>1, <2>1, QuietCall DEF FreeUnknown
  <1>2. CASE FreeLive(ptr)
    BY <1>2, FreeLiveKeepsInv
  <1> QED
    BY <1>1, <1>2 DEF Free

(* The fresh heap of with_size: one free block covers the region.          *)
LEMMA InitInv == Init => HeapInv
  <1> SUFFICES ASSUME Init  PROVE HeapInv
    OBVIOUS
  <1>1. Allocated = {}
    BY DEF Init, Allocated
  <1>2. TypeOK
    <2>1. \A b \in free : WellPlaced(Capacity, b)
      BY CapacityFacts, FreshTiles DEF Init, Tiling
    <2> QED
      BY <1>1, <2>1, CapacityFacts DEF Init, TypeOK, Result, Block
  <1> QED
    BY <1>1, <1>2, CapacityFacts, FreshTiles DEF Init, HeapInv, HeapPartition

LEMMA NextInv == HeapInv /\ [Next]_vars => HeapInv'
  <1> SUFFICES ASSUME HeapInv, [Next]_vars  PROVE HeapInv'
    OBVIOUS
  <1>1. ASSUME NEW size \in Sizes, MallocRejected(size)
        PROVE  HeapInv'
    <2>1. TypeOK'
      BY <1>1, HeapAssumption DEF MallocRejected, HeapInv, TypeOK, Allocated, Result
    <2> QED
      BY <1>1, <2>1, QuietCall DEF MallocRejected
  <1>2. ASSUME NEW size \in Sizes, MallocExhausted(size)
        PROVE  HeapInv'
    <2>1. TypeOK'
      BY <1>2, HeapAssumption DEF MallocExhausted, HeapInv, TypeOK, Allocated, Result
    <2> QED
      BY <1>2, <2>1, QuietCall DEF MallocExhausted
  <1>3. ASSUME NEW ptr \in owned, FreeOwned(ptr)
        PROVE  HeapInv'
    <2>1. ptr \in Nat /\ owned' \subseteq RegionPtr /\ stale' \subseteq RegionPtr
      BY <1>3, HeapAssumption DEF FreeOwned, HeapInv, TypeOK, RegionPtr
    <2> QED
      BY <1>3, <2>1, FreeKeepsInv DEF FreeOwned
  <1>4. ASSUME NEW ptr \in stale, FreeStale(ptr)
        PROVE  HeapInv'
    <2>1. ptr \in Nat /\ owned' \subseteq RegionPtr /\ stale' \subseteq RegionPtr
      BY <1>4, HeapAssumption DEF FreeStale, HeapInv, TypeOK, RegionPtr
    <2> QED
      BY <1>4, <2>1, FreeKeepsInv DEF FreeStale
  <1>5. ASSUME NEW ptr \in ForeignPtrs, FreeForeign(ptr)
        PROVE  HeapInv'
    BY <1>5, FreeKeepsInv, HeapAssumption DEF FreeForeign, HeapInv, TypeOK
  <1>6. CASE UNCHANGED vars
    <2>1. TypeOK'
      BY <1>6 DEF vars, HeapInv, TypeOK, Allocated
    <2> QED
      BY <1>6, <2>1, QuietCall DEF vars
  <1> QED
    BY <1>1, <1>2, <1>3, <1>4, <1>5, <1>6, MallocOkKeepsInv DEF Next, Malloc

(* HeapInv is an invariant of the heap for every size, base and caller.    *)
THEOREM HeapInvariant == Spec => []HeapInv
  BY InitInv, NextInv, PTL DEF Spec

(* Type correctness of SymHeap's state and of every result.                *)
THEOREM TypeCorrect == Spec => []TypeOK
  <1>1. HeapInv => TypeOK
    BY DEF HeapInv
  <1> QED
    BY <1>1, HeapInvariant, PTL

(* SymHeap::malloc and SymHeap::free never overlap two ranges and never    *)
(* lose a byte, also under double and foreign frees.                       *)
THEOREM Partition == Spec => []HeapPartition
  <1>1. HeapInv => HeapPartition
    BY DEF HeapInv
  <1> QED
    BY <1>1, HeapInvariant, PTL

----------------------------------------------------------------------------

(* After any history of calls, SymHeap's free list is determined by the    *)
(* live allocations: it is their complement in maximal blocks.             *)
THEOREM GapsAreFree == Spec => []FreeIsGaps
  <1>1. HeapInv => FreeIsGaps
    BY InvTiling, FreeListIsGaps DEF FreeIsGaps
  <1> QED
    BY <1>1, HeapInvariant, PTL

(* What malloc answers is determined by the live allocations: the lowest   *)
(* offset that fits, or exhaustion only when the size fits nowhere.        *)
THEOREM LowestFit == Spec => MallocIsLowestFit
  <1> DEFINE Answer ==
        (ret'.op = "malloc" /\ ret'.res \in {"ok", "exhausted"}) =>
          LET fits == FitsAt(Capacity, Allocated, RoundUp(ret'.arg)) IN
            IF ret'.res = "ok"
            THEN /\ ret'.ptr - LocalBase \in fits
                 /\ \A s \in fits : ret'.ptr - LocalBase <= s
            ELSE fits = {}
  <1>1. HeapInv /\ [Next]_vars => [Answer]_vars
    <2> SUFFICES ASSUME HeapInv, Next, ret'.op = "malloc",
                        ret'.res \in {"ok", "exhausted"}
                 PROVE  Answer
      OBVIOUS
    <2>1. PICK size \in Sizes : MallocExhausted(size) \/ MallocOk(size)
      <3>1. ASSUME NEW ptr, Free(ptr)  PROVE ret'.op = "free"
        <4>1. CASE FreeUnknown(ptr)
          BY <4>1 DEF FreeUnknown
        <4>2. CASE FreeLive(ptr)
          BY <4>2 DEF FreeLive
        <4> QED  BY <3>1, <4>1, <4>2 DEF Free
      <3>2. ASSUME NEW size \in Sizes, MallocRejected(size)
            PROVE  ret'.res \in {"zero", "overflow"}
        BY <3>2 DEF MallocRejected
      <3>3. ~ \E ptr : FreeOwned(ptr) \/ FreeStale(ptr) \/ FreeForeign(ptr)
        BY <3>1 DEF FreeOwned, FreeStale, FreeForeign
      <3>4. ~ \E size \in Sizes : MallocRejected(size)
        BY <3>2
      <3> QED  BY <3>3, <3>4 DEF Next, Malloc
    <2> DEFINE n == RoundUp(size)
    <2>2. n \in Nat /\ n > 0 /\ ret'.arg = size
      BY <2>1, RoundUpFacts, HeapAssumption DEF MallocExhausted, MallocOk
    <2> HIDE DEF n
    <2>3. CASE MallocExhausted(size)
      <3>1. \A b \in free : b.len < n
        BY <2>3 DEF MallocExhausted, n
      <3>2. FitsAt(Capacity, Allocated, n) = {}
        BY <2>2, <3>1, InvTiling, NoneLongEnough
      <3>3. ret'.res = "exhausted"
        BY <2>3 DEF MallocExhausted
      <3> QED
        BY <2>2, <3>2, <3>3 DEF n
    <2>4. CASE MallocOk(size)
      <3>1. PICK block \in free :
              /\ IsFirstFit(free, n, block)
              /\ ret'.ptr = LocalBase + block.start
              /\ ret'.res = "ok"
        BY <2>4 DEF MallocOk, n
      <3>2. ret'.ptr - LocalBase = block.start
        BY <3>1, InvTiling, HeapAssumption DEF Block
      <3>3. /\ block.start \in FitsAt(Capacity, Allocated, n)
            /\ \A s \in FitsAt(Capacity, Allocated, n) : block.start <= s
        BY <2>2, <3>1, InvTiling, FirstFitIsLowest
      <3> QED
        BY <2>2, <3>1, <3>2, <3>3 DEF n
    <2> QED
      BY <2>1, <2>3, <2>4
  <1> QED
    BY <1>1, HeapInvariant, PTL DEF Spec, MallocIsLowestFit

----------------------------------------------------------------------------

(* SymHeap::free never takes an allocation away from an owner whose        *)
(* address nobody holds a stale copy of: its pointer stays live.           *)
THEOREM OwnersKeepTheirMemory == Spec => []OwnedIsAllocated
  <1>1. Init => OwnedIsAllocated
    BY DEF Init, OwnedIsAllocated
  <1>2. HeapInv /\ OwnedIsAllocated /\ [Next]_vars => OwnedIsAllocated'
    <2> SUFFICES ASSUME HeapInv, OwnedIsAllocated, [Next]_vars
                 PROVE  OwnedIsAllocated'
      OBVIOUS
    <2> USE DEF OwnedIsAllocated
    <2>1. ASSUME NEW ptr, Free(ptr)
          PROVE  DOMAIN allocations' = DOMAIN allocations \ {ptr}
      <3>1. CASE FreeUnknown(ptr)
        BY <3>1 DEF FreeUnknown
      <3>2. CASE FreeLive(ptr)
        BY <3>2 DEF FreeLive, RemoveKey
      <3> QED  BY <2>1, <3>1, <3>2 DEF Free
    <2>2. ASSUME NEW size \in Sizes, Malloc(size)
          PROVE  OwnedIsAllocated'
      <3>1. CASE MallocRejected(size)
        BY <3>1 DEF MallocRejected
      <3>2. CASE MallocExhausted(size)
        BY <3>2 DEF MallocExhausted
      <3>3. CASE MallocOk(size)
        BY <3>3 DEF MallocOk, InsertKey
      <3> QED  BY <2>2, <3>1, <3>2, <3>3 DEF Malloc
    <2>3. ASSUME NEW ptr \in owned, FreeOwned(ptr)
          PROVE  OwnedIsAllocated'
      BY <2>1, <2>3 DEF FreeOwned
    <2>4. ASSUME NEW ptr \in ForeignPtrs, FreeForeign(ptr)
          PROVE  OwnedIsAllocated'
      <3>1. ptr \notin DOMAIN allocations
        BY HeapAssumption, CapacityFacts DEF HeapInv, TypeOK, RegionPtr
      <3> QED  BY <2>1, <2>4, <3>1 DEF FreeForeign
    <2>5. ASSUME NEW ptr \in stale, FreeStale(ptr)
          PROVE  OwnedIsAllocated'
      BY <2>1, <2>5 DEF FreeStale
    <2>6. CASE UNCHANGED vars
      BY <2>6 DEF vars
    <2> QED  BY <2>2, <2>3, <2>4, <2>5, <2>6 DEF Next
  <1> QED
    BY <1>1, <1>2, HeapInvariant, PTL DEF Spec

----------------------------------------------------------------------------

(* Every live allocation has an owner: malloc hands an address out when it *)
(* enters it into the map, and only a free takes it out again.             *)
LiveIsOwned == DOMAIN allocations \subseteq owned

(* FreedTwiceIsError: SymHeap::free refuses a second free of the same      *)
(* pointer as long as malloc has not handed its address out again.  This   *)
(* is what is left of DoubleFreeIsError, and with the counterexample to it *)
(* shows that a reissued address is the only way a double free succeeds.   *)
FreedTwiceIsError ==
  [][ \A p \in stale \ owned :
        FreeStale(p) => ret'.res = "invalid" /\ UNCHANGED <<free, allocations>> ]_vars

(* A free through a stale copy changes nothing and is an error unless the  *)
(* same address has been allocated again since.                            *)
THEOREM DoubleFreeCaught == Spec => FreedTwiceIsError
  <1>1. Init => LiveIsOwned
    BY DEF Init, LiveIsOwned
  <1>2. LiveIsOwned /\ [Next]_vars => LiveIsOwned'
    <2> SUFFICES ASSUME LiveIsOwned, [Next]_vars
                 PROVE  LiveIsOwned'
      OBVIOUS
    <2> USE DEF LiveIsOwned
    <2>1. ASSUME NEW ptr, Free(ptr)
          PROVE  DOMAIN allocations' = DOMAIN allocations \ {ptr}
      <3>1. CASE FreeUnknown(ptr)
        BY <3>1 DEF FreeUnknown
      <3>2. CASE FreeLive(ptr)
        BY <3>2 DEF FreeLive, RemoveKey
      <3> QED  BY <2>1, <3>1, <3>2 DEF Free
    <2>2. ASSUME NEW size \in Sizes, Malloc(size)
          PROVE  LiveIsOwned'
      <3>1. CASE MallocRejected(size)
        BY <3>1 DEF MallocRejected
      <3>2. CASE MallocExhausted(size)
        BY <3>2 DEF MallocExhausted
      <3>3. CASE MallocOk(size)
        BY <3>3 DEF MallocOk, InsertKey
      <3> QED  BY <2>2, <3>1, <3>2, <3>3 DEF Malloc
    <2>3. ASSUME NEW ptr, FreeOwned(ptr)  PROVE LiveIsOwned'
      BY <2>1, <2>3 DEF FreeOwned
    <2>4. ASSUME NEW ptr, FreeForeign(ptr) \/ FreeStale(ptr)  PROVE LiveIsOwned'
      BY <2>1, <2>4 DEF FreeForeign, FreeStale
    <2>5. CASE UNCHANGED vars
      BY <2>5 DEF vars
    <2> QED  BY <2>2, <2>3, <2>4, <2>5 DEF Next
  <1>3. ASSUME LiveIsOwned, NEW p \in stale \ owned, FreeStale(p)
        PROVE  ret'.res = "invalid" /\ UNCHANGED <<free, allocations>>
    <2>1. FreeUnknown(p)
      BY <1>3 DEF FreeStale, Free, FreeLive, LiveIsOwned
    <2> QED
      BY <2>1 DEF FreeUnknown
  <1>4. LiveIsOwned =>
          [\A p \in stale \ owned :
             FreeStale(p) => ret'.res = "invalid" /\ UNCHANGED <<free, allocations>>]_vars
    BY <1>3
  <1> QED
    BY <1>1, <1>2, <1>4, PTL DEF Spec, FreedTwiceIsError

----------------------------------------------------------------------------
(***************************************************************************)
(* The heap as the code holds it, with the free list in a Vec (module      *)
(* SymHeapList).                                                           *)
(***************************************************************************)

List == INSTANCE SymHeapList

(* Every nonempty set of naturals has a least element: the induction       *)
(* principle of the lemmas below, as a fact about sets.                    *)
LEMMA LeastNatural ==
  ASSUME NEW T \in SUBSET Nat, T # {}
  PROVE  \E x \in T : \A y \in T : x <= y
  <1> DEFINE R == {ss \in Nat \X Nat : ss[1] < ss[2]}
  <1>1. IsWellFoundedOn(R, Nat)
    BY NatLessThanWellFounded DEF OpToRel
  <1>2. PICK x \in T : \A y \in T : ~ (<<y, x>> \in R)
    <2> HIDE DEF R
    <2> QED
      BY <1>1, WFMin
  <1>3. ASSUME NEW y \in T, y < x  PROVE <<y, x>> \in R
    <2>1. <<y, x>> \in Nat \X Nat /\ <<y, x>>[1] < <<y, x>>[2]
      BY <1>3
    <2> QED
      BY <2>1
  <1> HIDE DEF R
  <1>4. \A y \in T : ~ (y < x)
    BY <1>2, <1>3
  <1>5. \A y \in T : x <= y
    BY <1>4
  <1> QED
    BY <1>5

(* Induction up to n, over the set of numbers that have a property.        *)
LEMMA BoundedInduction ==
  ASSUME NEW n \in Nat, NEW T, 0 \in T,
         \A i \in 0 .. n - 1 : i \in T => i + 1 \in T
  PROVE  \A i \in 0 .. n : i \in T
  <1> SUFFICES ASSUME {i \in 0 .. n : i \notin T} # {}  PROVE FALSE
    OBVIOUS
  <1> DEFINE C == {i \in 0 .. n : i \notin T}
  <1>1. C \in SUBSET Nat
    OBVIOUS
  <1>2. PICK x \in C : \A y \in C : x <= y
    BY <1>1, LeastNatural
  <1>3. x \in 0 .. n /\ x # 0 /\ x \notin T
    OBVIOUS
  <1>4. x - 1 \in 0 .. n - 1 /\ ~ (x <= x - 1) /\ (x - 1) + 1 = x
    BY <1>3
  <1>5. x - 1 \in T
    BY <1>2, <1>4
  <1> QED
    BY <1>3, <1>4, <1>5

----------------------------------------------------------------------------

(* The list holds nonempty blocks, each ending before the next begins.     *)
Ordered(s) ==
  /\ s \in Seq(Block)
  /\ \A i \in 1 .. Len(s) : s[i].len > 0
  /\ \A i, j \in 1 .. Len(s) : i < j => EndOf(s[i]) < s[j].start

(* ToSet, by index.                                                        *)
LEMMA ListToSet ==
  ASSUME NEW s \in Seq(Block)
  PROVE  /\ ToSet(s) \in SUBSET Block
         /\ \A b : b \in ToSet(s) <=> \E i \in 1 .. Len(s) : b = s[i]
  <1>1. DOMAIN s = 1 .. Len(s) /\ \A i \in 1 .. Len(s) : s[i] \in Block
    OBVIOUS
  <1> QED
    BY <1>1 DEF ToSet

(* What an ordered list says of its blocks.                                *)
LEMMA OrderedFacts ==
  ASSUME NEW s, Ordered(s)
  PROVE  /\ s \in Seq(Block) /\ Len(s) \in Nat
         /\ \A i \in 1 .. Len(s) :
              /\ s[i] \in Block /\ s[i].start \in Nat /\ s[i].len \in Nat
              /\ s[i].len > 0 /\ EndOf(s[i]) \in Nat /\ s[i].start < EndOf(s[i])
         /\ \A i, j \in 1 .. Len(s) : i < j => EndOf(s[i]) < s[j].start
         /\ \A i, j \in 1 .. Len(s) : s[i] = s[j] => i = j
  <1>1. s \in Seq(Block) /\ Len(s) \in Nat /\ \A i \in 1 .. Len(s) : s[i] \in Block
    BY DEF Ordered
  <1>2. ASSUME NEW i \in 1 .. Len(s)
        PROVE  /\ s[i].start \in Nat /\ s[i].len \in Nat /\ s[i].len > 0
               /\ EndOf(s[i]) \in Nat /\ s[i].start < EndOf(s[i])
    BY <1>1 DEF Ordered, Block, EndOf
  <1>3. \A i, j \in 1 .. Len(s) : i < j => EndOf(s[i]) < s[j].start
    BY DEF Ordered
  <1>4. ASSUME NEW i \in 1 .. Len(s), NEW j \in 1 .. Len(s), s[i] = s[j]
        PROVE  i = j
    <2>1. ~ (EndOf(s[i]) < s[j].start) /\ ~ (EndOf(s[j]) < s[i].start)
      BY <1>2, <1>4
    <2>2. ~ (i < j) /\ ~ (j < i)
      BY <1>3, <2>1
    <2> QED
      BY <1>1, <2>2
  <1> QED
    BY <1>1, <1>2, <1>3, <1>4

(* Position is the first fit of the set of blocks.                         *)
LEMMA PositionIsFirstFit ==
  ASSUME NEW s, Ordered(s), NEW n \in Nat
  PROVE  LET k == Position(s, n)
         IN  \/ /\ k = 0
                /\ \A b \in ToSet(s) : b.len < n
             \/ /\ k \in 1 .. Len(s)
                /\ s[k] \in ToSet(s)
                /\ IsFirstFit(ToSet(s), n, s[k])
  <1> DEFINE I == { i \in 1 .. Len(s) : s[i].len >= n }
             k == Position(s, n)
  <1>0. s \in Seq(Block) /\ Len(s) \in Nat /\ \A i \in 1 .. Len(s) : s[i] \in Block
    BY DEF Ordered
  <1>1. k = IF I # {} THEN Min(I) ELSE 0
    BY DEF Position, SelectInSeq
  <1>2. CASE I = {}
    <2>1. k = 0
      BY <1>1, <1>2
    <2>2. \A i \in 1 .. Len(s) : s[i].len < n
      <3> TAKE i \in 1 .. Len(s)
      <3>1. ~ (s[i].len >= n) /\ s[i].len \in Nat
        BY <1>0, <1>2, BlockFacts
      <3> QED
        BY <3>1
    <2>3. \A b \in ToSet(s) : b.len < n
      BY <1>0, <2>2, ListToSet
    <2> QED
      BY <2>1, <2>3
  <1>3. CASE I # {}
    <2>0. I \in SUBSET Nat
      BY <1>0
    <2> HIDE DEF I
    <2>1. PICK x \in I : \A y \in I : x <= y
      BY <1>3, <2>0, LeastNatural
    <2>2. k \in I /\ \A y \in I : k <= y
      BY <1>1, <1>3, <2>1 DEF Min
    <2> HIDE DEF k
    <2>3. k \in 1 .. Len(s) /\ s[k].len >= n
      BY <2>2 DEF I
    <2>4. s[k] \in ToSet(s)
      BY <1>0, <2>3, ListToSet
    <2>5. ASSUME NEW c \in ToSet(s), c.len >= n
          PROVE  s[k].start <= c.start
      <3>1. PICK j \in 1 .. Len(s) : c = s[j]
        BY <1>0, ListToSet
      <3>2. k <= j
        BY <2>2, <2>5, <3>1 DEF I
      <3>3. k = j \/ EndOf(s[k]) < s[j].start
        BY <2>3, <3>2 DEF Ordered
      <3>4. s[k] \in Block /\ s[j] \in Block
        BY <1>0, <2>3
      <3> QED
        BY <3>1, <3>3, <3>4, BlockFacts
    <2> QED
      BY <2>3, <2>4, <2>5 DEF IsFirstFit, k
  <1> QED
    BY <1>2, <1>3

(* Carving in place is carving the set, and keeps the list ordered.        *)
LEMMA CarveAtIsCarve ==
  ASSUME NEW s, Ordered(s), NEW k \in 1 .. Len(s), NEW n \in Nat,
         n > 0, n <= s[k].len
  PROVE  /\ Ordered(CarveAt(s, k, n))
         /\ ToSet(CarveAt(s, k, n)) = Carve(ToSet(s), s[k], n)
  <1> DEFINE t == CarveAt(s, k, n)
             tail == [start |-> s[k].start + n, len |-> s[k].len - n]
  <1>0. s \in Seq(Block) /\ Len(s) \in Nat /\ \A i \in 1 .. Len(s) : s[i] \in Block
    BY DEF Ordered
  <1>1. \A i, j \in 1 .. Len(s) : i # j => s[i] # s[j]
    BY OrderedFacts
  <1>2. CASE s[k].len = n
    <2>1. t = SubSeq(s, 1, k - 1) \o SubSeq(s, k + 1, Len(s))
      BY <1>2 DEF CarveAt, RemoveAt
    <2>2. /\ t \in Seq(Block) /\ Len(t) = Len(s) - 1
          /\ \A i \in 1 .. Len(t) : t[i] = IF i < k THEN s[i] ELSE s[i + 1]
      <3> DEFINE u == SubSeq(s, 1, k - 1)
                 v == SubSeq(s, k + 1, Len(s))
      <3>1. u \in Seq(Block) /\ Len(u) = k - 1 /\ \A i \in 1 .. k - 1 : u[i] = s[i]
        BY <1>0, SubSeqProperties
      <3>2. /\ v \in Seq(Block) /\ Len(v) = Len(s) - k
            /\ \A i \in 1 .. Len(s) - k : v[i] = s[k + i]
        <4>1. \A i \in k + 1 .. Len(s) : s[i] \in Block
          BY <1>0
        <4>2. /\ v \in Seq(Block)
              /\ Len(v) = IF k + 1 <= Len(s) THEN Len(s) - (k + 1) + 1 ELSE 0
              /\ \A i \in 1 .. Len(s) - (k + 1) + 1 : v[i] = s[(k + 1) + i - 1]
          BY <1>0, <4>1, SubSeqProperties
        <4> HIDE DEF v
        <4> QED
          BY <1>0, <4>2
      <3> HIDE DEF u, v
      <3>3. t = u \o v
        BY <2>1 DEF u, v
      <3> HIDE DEF t
      <3>4. /\ t \in Seq(Block) /\ Len(t) = Len(u) + Len(v)
            /\ \A i \in 1 .. Len(u) + Len(v) :
                 t[i] = IF i <= Len(u) THEN u[i] ELSE v[i - Len(u)]
        BY <3>1, <3>2, <3>3, ConcatProperties
      <3>5. Len(t) = Len(s) - 1
        BY <1>0, <3>1, <3>2, <3>4
      <3>6. ASSUME NEW i \in 1 .. Len(t)
            PROVE  t[i] = IF i < k THEN s[i] ELSE s[i + 1]
        <4>1. CASE i < k
          BY <1>0, <3>1, <3>2, <3>4, <3>5, <4>1
        <4>2. CASE ~ (i < k)
          <5>1. i - (k - 1) \in 1 .. Len(s) - k /\ k + (i - (k - 1)) = i + 1
            BY <1>0, <3>5, <4>2
          <5>2. t[i] = v[i - (k - 1)]
            BY <1>0, <3>1, <3>2, <3>4, <3>5, <4>2
          <5>3. v[i - (k - 1)] = s[k + (i - (k - 1))]
            BY <3>2, <5>1
          <5> QED
            BY <4>2, <5>1, <5>2, <5>3
        <4> QED
          BY <4>1, <4>2
      <3> QED
        BY <3>4, <3>5, <3>6
    <2> HIDE DEF t
    <2>3. Ordered(t)
      <3>1. \A i \in 1 .. Len(t) : t[i].len > 0
        BY <1>0, <2>2 DEF Ordered
      <3>2. ASSUME NEW i \in 1 .. Len(t), NEW j \in 1 .. Len(t), i < j
            PROVE  EndOf(t[i]) < t[j].start
        <4> DEFINE x == IF i < k THEN i ELSE i + 1
                   y == IF j < k THEN j ELSE j + 1
        <4>1. x \in 1 .. Len(s) /\ y \in 1 .. Len(s) /\ x < y
          BY <1>0, <2>2, <3>2
        <4>2. t[i] = s[x] /\ t[j] = s[y]
          BY <2>2
        <4> HIDE DEF x, y
        <4> QED
          BY <4>1, <4>2 DEF Ordered
      <3> QED
        BY <2>2, <3>1, <3>2 DEF Ordered
    <2>4. ASSUME NEW b  PROVE b \in ToSet(t) <=> b \in ToSet(s) \ {s[k]}
      <3>1. ASSUME NEW i \in 1 .. Len(t), b = t[i]
            PROVE  \E j \in 1 .. Len(s) : b = s[j] /\ j # k
        <4>1. CASE i < k
          <5>1. i \in 1 .. Len(s) /\ i # k /\ t[i] = s[i]
            BY <1>0, <2>2, <4>1
          <5> QED
            BY <3>1, <5>1
        <4>2. CASE ~ (i < k)
          <5>1. i + 1 \in 1 .. Len(s) /\ i + 1 # k /\ t[i] = s[i + 1]
            BY <1>0, <2>2, <4>2
          <5> QED
            BY <3>1, <5>1
        <4> QED
          BY <4>1, <4>2
      <3>2. ASSUME NEW j \in 1 .. Len(s), b = s[j], j # k
            PROVE  \E i \in 1 .. Len(t) : b = t[i]
        <4>1. CASE j < k
          <5>1. j \in 1 .. Len(t) /\ t[j] = s[j]
            BY <1>0, <2>2, <4>1
          <5> QED
            BY <3>2, <5>1
        <4>2. CASE j > k
          <5>1. j - 1 \in 1 .. Len(t) /\ t[j - 1] = s[j]
            BY <1>0, <2>2, <4>2
          <5> QED
            BY <3>2, <5>1
        <4> QED
          BY <3>2, <4>1, <4>2
      <3> QED
        BY <1>0, <1>1, <2>2, <3>1, <3>2, ListToSet
    <2>5. Carve(ToSet(s), s[k], n) = ToSet(s) \ {s[k]}
      BY <1>2 DEF Carve
    <2> QED
      BY <2>3, <2>4, <2>5 DEF t
  <1>3. CASE s[k].len # n
    <2>0. tail \in Block /\ tail.len > 0 /\ EndOf(tail) = EndOf(s[k])
          /\ tail.start \in Nat /\ tail.start > s[k].start
      <3>1. s[k].start \in Nat /\ s[k].len \in Nat
        BY <1>0 DEF Block
      <3>2. s[k].start + n \in Nat /\ s[k].len - n \in Nat /\ s[k].len - n > 0
            /\ (s[k].start + n) + (s[k].len - n) = s[k].start + s[k].len
        BY <1>3, <3>1
      <3>3. tail.start = s[k].start + n /\ tail.len = s[k].len - n
        OBVIOUS
      <3> QED
        BY <3>1, <3>2, <3>3 DEF Block, EndOf
    <2>1. t = [s EXCEPT ![k] = tail]
      BY <1>3 DEF CarveAt, ReplaceAt
    <2> HIDE DEF tail
    <2>2. /\ t \in Seq(Block) /\ Len(t) = Len(s)
          /\ \A i \in 1 .. Len(s) : t[i] = IF i = k THEN tail ELSE s[i]
      BY <1>0, <2>0, <2>1
    <2> HIDE DEF t
    <2>3. Ordered(t)
      <3>1. \A i \in 1 .. Len(t) : t[i].len > 0
        BY <1>0, <2>0, <2>2 DEF Ordered
      <3>2. ASSUME NEW i \in 1 .. Len(t), NEW j \in 1 .. Len(t), i < j
            PROVE  EndOf(t[i]) < t[j].start
        <4>1. EndOf(s[i]) < s[j].start
          BY <2>2, <3>2 DEF Ordered
        <4>2. EndOf(t[i]) = EndOf(s[i])
          BY <2>0, <2>2
        <4>3. t[j].start >= s[j].start
          <5>1. CASE j = k
            <6>1. t[j] = tail /\ s[j].start = s[k].start
              BY <2>2, <5>1
            <6>2. s[k].start \in Nat
              BY OrderedFacts
            <6> QED
              BY <2>0, <6>1, <6>2
          <5>2. CASE j # k
            BY <2>2, <5>2, OrderedFacts
          <5> QED
            BY <5>1, <5>2
        <4>4. t[j] \in Block /\ t[j].start \in Nat
          BY <2>2, BlockFacts
        <4> QED
          BY <2>2, <4>1, <4>2, <4>3, <4>4, OrderedFacts
      <3> QED
        BY <2>2, <3>1, <3>2 DEF Ordered
    <2>4. ASSUME NEW b
          PROVE  b \in ToSet(t) <=> b \in (ToSet(s) \ {s[k]}) \cup {tail}
      BY <1>0, <1>1, <2>2, ListToSet
    <2>5. Carve(ToSet(s), s[k], n) = (ToSet(s) \ {s[k]}) \cup {tail}
      BY <1>3 DEF Carve, tail
    <2> QED
      BY <2>3, <2>4, <2>5 DEF t
  <1> QED
    BY <1>2, <1>3

(* sort_by_key after the push: the released block takes its place among    *)
(* the blocks of the ordered list, and the starts increase strictly.       *)
LEMMA SortInserts ==
  ASSUME NEW s, Ordered(s), NEW b \in Block, b.len > 0,
         \A i \in 1 .. Len(s) : Apart(s[i], b)
  PROVE  LET t == SortByStart(Append(s, b))
         IN  /\ t \in Seq(Block)
             /\ ToSet(t) = ToSet(s) \cup {b}
             /\ \A i, j \in 1 .. Len(t) : i < j => t[i].start < t[j].start
  <1> DEFINE n == Len(s)
             u == Append(s, b)
             D == 1 .. n + 1
             Sorts(q) == \A i, j \in D : i < j =>
                           \/ u[q[i]].start < u[q[j]].start
                           \/ u[q[i]].start = u[q[j]].start /\ q[i] < q[j]
             order == CHOOSE q \in Bijection(D, D) : Sorts(q)
             t == SortByStart(u)
  <1>1. n \in Nat /\ b.start \in Nat /\ EndOf(b) \in Nat /\ b.start < EndOf(b)
    BY OrderedFacts, BlockFacts
  <1>2. /\ u \in Seq(Block) /\ Len(u) = n + 1 /\ DOMAIN u = D
        /\ \A i \in 1 .. n : u[i] = s[i]
        /\ u[n + 1] = b
    BY OrderedFacts
  <1>3. t = [i \in D |-> u[order[i]]]
    BY <1>2 DEF SortByStart
  <1> HIDE DEF t, u
  <1>4. \A i \in 1 .. n : s[i].start < b.start \/ b.start < s[i].start
    BY <1>1, OrderedFacts DEF Apart
  <1>5. \A i, j \in 1 .. n : i < j => s[i].start < s[j].start
    BY OrderedFacts
  <1>6. PICK m \in D : /\ \A i \in 1 .. n : i < m => s[i].start < b.start
                       /\ \A i \in 1 .. n : m <= i => b.start < s[i].start
    <2> DEFINE K == {i \in 1 .. n : b.start < s[i].start} \cup {n + 1}
    <2>1. K \in SUBSET Nat /\ K # {} /\ K \subseteq D
      BY <1>1
    <2>2. PICK m \in K : \A i \in K : m <= i
      <3> HIDE DEF K
      <3> QED
        BY <2>1, LeastNatural
    <2>3. m \in D
      BY <2>1, <2>2
    <2>4. ASSUME NEW i \in 1 .. n, i < m  PROVE s[i].start < b.start
      <3>1. i \notin K
        BY <1>1, <2>2, <2>3, <2>4
      <3> QED
        BY <1>4, <3>1
    <2>5. ASSUME NEW i \in 1 .. n, m <= i  PROVE b.start < s[i].start
      <3>1. m \in 1 .. n /\ b.start < s[m].start
        BY <1>1, <2>3, <2>5
      <3>2. m = i \/ s[m].start < s[i].start
        BY <1>5, <2>5, <3>1
      <3> QED
        BY <1>1, <3>1, <3>2, OrderedFacts
    <2> QED
      BY <2>3, <2>4, <2>5
  <1> DEFINE q == [i \in D |-> IF i < m THEN i ELSE IF i = m THEN n + 1 ELSE i - 1]
  <1>7. q \in Bijection(D, D)
    <2>1. q \in [D -> D]
      BY <1>1
    <2>2. \A i, j \in D : q[i] = q[j] => i = j
      BY <1>1
    <2>3. \A k \in D : \E i \in D : q[i] = k
      <3> TAKE k \in D
      <3>1. CASE k < m
        BY <1>1, <3>1
      <3>2. CASE k = n + 1
        BY <1>1, <3>2
      <3>3. CASE k >= m /\ k # n + 1
        <4>1. k + 1 \in D /\ q[k + 1] = k
          BY <1>1, <3>3
        <4> QED
          BY <4>1
      <3> QED
        BY <1>1, <3>1, <3>2, <3>3
    <2> HIDE DEF q
    <2> QED
      BY <2>1, <2>2, <2>3 DEF Bijection, Injection, Surjection, IsInjective
  <1>8. Sorts(q)
    <2> SUFFICES ASSUME NEW i \in D, NEW j \in D, i < j
                 PROVE  u[q[i]].start < u[q[j]].start
      OBVIOUS
    <2> DEFINE at(k) == IF k < m THEN s[k].start
                        ELSE IF k = m THEN b.start ELSE s[k - 1].start
    <2>1. ASSUME NEW k \in D  PROVE u[q[k]].start = at(k)
      <3>1. CASE k < m
        <4>1. q[k] = k /\ k \in 1 .. n /\ at(k) = s[k].start
          BY <1>1, <3>1
        <4> QED
          BY <1>2, <4>1
      <3>2. CASE k = m
        <4>1. q[k] = n + 1 /\ at(k) = b.start
          BY <1>1, <3>2
        <4> QED
          BY <1>2, <4>1
      <3>3. CASE k > m
        <4>1. q[k] = k - 1 /\ k - 1 \in 1 .. n /\ at(k) = s[k - 1].start
          BY <1>1, <3>3
        <4> QED
          BY <1>2, <4>1
      <3> QED
        BY <1>1, <3>1, <3>2, <3>3
    <2>2. at(i) < at(j)
      <3>1. CASE j < m
        BY <1>1, <1>5, <3>1
      <3>2. CASE j = m
        BY <1>1, <1>6, <3>2
      <3>3. CASE j > m /\ i = m
        BY <1>1, <1>6, <3>3
      <3>4. CASE j > m /\ i > m
        BY <1>1, <1>5, <3>4
      <3>5. CASE j > m /\ i < m
        <4>1. i \in 1 .. n /\ j - 1 \in 1 .. n /\ i < j - 1
          BY <1>1, <3>5
        <4> QED
          BY <1>5, <3>5, <4>1
      <3> QED
        BY <1>1, <3>1, <3>2, <3>3, <3>4, <3>5
    <2> QED
      BY <2>1, <2>2
  <1>9. order \in Bijection(D, D) /\ Sorts(order)
    <2> HIDE DEF q, Sorts
    <2> QED
      BY <1>7, <1>8
  <1> HIDE DEF order
  <1>10. /\ order \in [D -> D]
         /\ \A i, j \in D : order[i] = order[j] => i = j
         /\ \A k \in D : \E i \in D : order[i] = k
    BY <1>9 DEF Bijection, Injection, Surjection, IsInjective
  <1>11. t \in Seq(Block) /\ Len(t) = n + 1 /\ \A i \in D : t[i] = u[order[i]]
    <2>1. \A i \in D : u[order[i]] \in Block
      BY <1>2, <1>10
    <2> QED
      BY <1>1, <1>3, <2>1
  <1>12. ToSet(t) = ToSet(s) \cup {b}
    <2>1. ASSUME NEW c
          PROVE  (\E i \in D : c = t[i]) <=> (\E k \in D : c = u[k])
      <3> HIDE DEF D
      <3> QED
        BY <1>10, <1>11
    <2>2. ASSUME NEW c
          PROVE  (\E k \in D : c = u[k]) <=> (c = b \/ \E k \in 1 .. n : c = s[k])
      BY <1>1, <1>2
    <2>3. ASSUME NEW c
          PROVE  /\ c \in ToSet(t) <=> \E i \in D : c = t[i]
                 /\ c \in ToSet(s) <=> \E k \in 1 .. n : c = s[k]
      BY <1>11, ListToSet, OrderedFacts
    <2> QED
      BY <2>1, <2>2, <2>3
  <1>13. ASSUME NEW i \in D, NEW j \in D, i < j
         PROVE  t[i].start < t[j].start
    <2>1. \A k, l \in D : u[k].start = u[l].start => k = l
      <3>1. \A k \in D : u[k].start \in Nat
        BY <1>2, BlockFacts
      <3>2. \A k \in D : k \in 1 .. n \/ k = n + 1
        BY <1>1
      <3>3. \A k, l \in 1 .. n : s[k].start = s[l].start => k = l
        <4> SUFFICES ASSUME NEW k \in 1 .. n, NEW l \in 1 .. n,
                            s[k].start = s[l].start, k # l
                     PROVE  FALSE
          OBVIOUS
        <4>1. s[k].start \in Nat
          BY OrderedFacts
        <4>2. k < l \/ l < k
          BY <1>1
        <4> QED
          BY <1>5, <4>1, <4>2
      <3>4. \A k \in 1 .. n : s[k].start # b.start
        BY <1>1, <1>4, OrderedFacts
      <3> QED
        BY <1>2, <3>2, <3>3, <3>4
    <2>2. order[i] # order[j] /\ order[i] \in D /\ order[j] \in D
      <3>1. i # j
        BY <1>1, <1>13
      <3> HIDE DEF D
      <3> QED
        BY <1>10, <3>1
    <2>3. u[order[i]].start # u[order[j]].start
      BY <2>1, <2>2
    <2> QED
      BY <1>9, <1>11, <1>13, <2>3
  <1> QED
    BY <1>11, <1>12, <1>13 DEF t, u


----------------------------------------------------------------------------

(* The fold of the drain loop, one iteration at a time.                    *)
LEMMA DrainSteps ==
  ASSUME NEW t \in Seq(Block)
  PROVE  \E m : /\ m[0] = <<>>
                /\ \A i \in 1 .. Len(t) : m[i] = MergeNext(m[i - 1], t[i])
                /\ FoldLeft(MergeNext, <<>>, t) = m[Len(t)]
  <1> DEFINE n == Len(t)
             Step(g, S) == IF S = {} THEN <<>>
                           ELSE MergeNext(g[S \ {Max(S)}], t[Max(S)])
             Folds(g, k) == g = [S \in SUBSET (1 .. k) |-> Step(g, S)]
             T == {k \in Nat : \E g : Folds(g, k)}
             iter == CHOOSE g : Folds(g, n)
  <1>1. n \in Nat /\ DOMAIN t = 1 .. n
    OBVIOUS
  <1>2. FoldLeft(MergeNext, <<>>, t) = iter[1 .. n]
    BY <1>1 DEF FoldLeft, MapThenFoldSet
  <1>3. \A k \in Nat \ {0} : \A S \in SUBSET (1 .. k) : k \in S => Max(S) = k
    <2> TAKE k \in Nat \ {0}
    <2> TAKE S \in SUBSET (1 .. k)
    <2> HAVE k \in S
    <2>1. \A y \in S : k >= y
      OBVIOUS
    <2>2. \A x \in S : (\A y \in S : x >= y) => x = k
      BY <2>1
    <2> QED
      BY <2>1, <2>2 DEF Max
  <1>4. 0 \in T
    <2> DEFINE g == [S \in SUBSET (1 .. 0) |-> <<>>]
    <2>1. \A S \in SUBSET (1 .. 0) : S = {}
      OBVIOUS
    <2>2. Folds(g, 0)
      BY <2>1
    <2> HIDE DEF g, Folds
    <2> QED
      BY <2>2
  <1>5. ASSUME NEW k \in 0 .. n - 1, k \in T  PROVE k + 1 \in T
    <2>1. PICK g : Folds(g, k)
      BY <1>5
    <2> DEFINE h == [S \in SUBSET (1 .. k + 1) |->
                       IF k + 1 \in S THEN MergeNext(g[S \ {k + 1}], t[k + 1])
                       ELSE g[S]]
    <2>2. ASSUME NEW S \in SUBSET (1 .. k + 1)  PROVE h[S] = Step(h, S)
      <3>1. CASE k + 1 \in S
        <4>1. Max(S) = k + 1
          BY <1>1, <1>3, <3>1
        <4>2. /\ S \ {k + 1} \in SUBSET (1 .. k + 1)
              /\ k + 1 \notin S \ {k + 1}
          OBVIOUS
        <4>3. h[S \ {k + 1}] = g[S \ {k + 1}]
          BY <4>2
        <4>4. h[S] = MergeNext(g[S \ {k + 1}], t[k + 1])
          BY <3>1
        <4> HIDE DEF h
        <4> QED
          BY <3>1, <4>1, <4>3, <4>4
      <3>2. CASE k + 1 \notin S
        <4>1. S \in SUBSET (1 .. k)
          BY <3>2
        <4>2. h[S] = g[S] /\ g[S] = Step(g, S)
          BY <2>1, <3>2, <4>1
        <4>3. \A x : /\ S \ {x} \in SUBSET (1 .. k + 1)
                     /\ k + 1 \notin S \ {x}
          BY <3>2
        <4>4. \A x : h[S \ {x}] = g[S \ {x}]
          BY <4>3
        <4> HIDE DEF h
        <4> QED
          BY <4>2, <4>4
      <3> QED
        BY <3>1, <3>2
    <2>3. Folds(h, k + 1)
      <3>1. h = [S \in SUBSET (1 .. k + 1) |-> h[S]]
        OBVIOUS
      <3> HIDE DEF h, Step
      <3> QED
        BY <2>2, <3>1
    <2> HIDE DEF h, Folds
    <2> QED
      BY <1>1, <2>3
  <1>6. Folds(iter, n)
    <2>1. n \in T
      <3> HIDE DEF T, n
      <3>1. \A i \in 0 .. n - 1 : i \in T => i + 1 \in T
        BY <1>5
      <3>2. \A i \in 0 .. n : i \in T
        BY <1>1, <1>4, <3>1, BoundedInduction
      <3> QED
        BY <1>1, <3>2
    <2> HIDE DEF Folds
    <2> QED
      BY <2>1
  <1> HIDE DEF iter
  <1> DEFINE m == [i \in 0 .. n |-> iter[1 .. i]]
  <1>7. m[0] = <<>>
    <2>1. m[0] = iter[{}] /\ {} \in SUBSET (1 .. n)
      BY <1>1
    <2> QED
      BY <1>6, <2>1
  <1>8. ASSUME NEW i \in 1 .. n  PROVE m[i] = MergeNext(m[i - 1], t[i])
    <2>0. i \in Nat /\ i <= n /\ i >= 1
      BY <1>1
    <2>1. 1 .. i \in SUBSET (1 .. n) /\ 1 .. i # {} /\ i \in 1 .. i
      <3> HIDE DEF n, m
      <3>1. i \in 1 .. i
        BY <2>0
      <3>2. \A x \in 1 .. i : x \in 1 .. n
        BY <1>1, <2>0
      <3> QED
        BY <3>1, <3>2
    <2>2. Max(1 .. i) = i
      BY <1>1, <1>3, <2>1
    <2>3. (1 .. i) \ {i} = 1 .. i - 1
      BY <1>1
    <2>4. m[i] = iter[1 .. i] /\ m[i - 1] = iter[1 .. i - 1]
      BY <1>1
    <2>5. iter[1 .. i] = Step(iter, 1 .. i)
      BY <1>6, <2>1
    <2> QED
      BY <2>1, <2>2, <2>3, <2>4, <2>5
  <1>9. m[n] = iter[1 .. n]
    BY <1>1
  <1> HIDE DEF m
  <1> QED
    BY <1>2, <1>7, <1>8, <1>9


(* One iteration: the merged prefix M stays ordered and before the blocks  *)
(* still to drain, R, and the two keep tiling the region with A.           *)
LEMMA MergeNextKeeps ==
  ASSUME NEW cap \in Nat, NEW A \in SUBSET Block, NEW R \in SUBSET Block,
         NEW M, Ordered(M), NEW b \in Block, b.len > 0,
         \A k \in 1 .. Len(M) : EndOf(M[k]) <= b.start,
         \A x \in R : EndOf(b) <= x.start,
         Tiling(cap, ToSet(M) \cup {b} \cup R, A)
  PROVE  LET N == MergeNext(M, b)
         IN  /\ Ordered(N)
             /\ \A k \in 1 .. Len(N) : \A x \in R : EndOf(N[k]) <= x.start
             /\ Tiling(cap, ToSet(N) \cup R, A)
  <1> DEFINE N == MergeNext(M, b)
             n == Len(M)
             F == ToSet(M) \cup {b} \cup R
  <1>1. /\ M \in Seq(Block) /\ n \in Nat
        /\ b.start \in Nat /\ b.len \in Nat /\ EndOf(b) \in Nat
        /\ EndOf(b) = b.start + b.len /\ b.start < EndOf(b)
        /\ \A x \in R : x.start \in Nat
    BY OrderedFacts, BlockFacts
  <1>2. F \in SUBSET Block /\ \A c : c \in ToSet(M) <=> \E k \in 1 .. n : c = M[k]
    BY <1>1, ListToSet
  <1>3. CASE n > 0 /\ EndOf(M[n]) = b.start
    <2> DEFINE l == M[n]
               d == [start |-> l.start, len |-> l.len + b.len]
    <2>1. n \in 1 .. n /\ l \in Block /\ l.start \in Nat /\ l.len \in Nat
          /\ l.len > 0 /\ EndOf(l) \in Nat /\ EndOf(l) = b.start
      BY <1>1, <1>3, OrderedFacts
    <2>2. d = [l EXCEPT !.len = @ + b.len]
      BY <2>1 DEF Block
    <2>3. N = [M EXCEPT ![n] = d]
      <3>1. M # <<>> /\ Last(M) = l /\ EndOf(l) = b.start
        BY <1>1, <1>3 DEF Last, EndOf
      <3>2. N = ReplaceAt(M, n, [l EXCEPT !.len = @ + b.len])
        BY <3>1 DEF MergeNext
      <3> QED
        BY <2>2, <3>2 DEF ReplaceAt
    <2>4. d \in Block /\ d.start = l.start /\ d.len > 0 /\ EndOf(d) = EndOf(b)
      BY <1>1, <2>1 DEF Block, EndOf
    <2>5. Tiling(cap, (F \ {l, b}) \cup {d}, A)
      <3>1. l \in F /\ b \in F /\ EndOf(l) = b.start
        BY <1>2, <1>3, <2>1
      <3>2. Tiling(cap, F, A)
        OBVIOUS
      <3> HIDE DEF F, l
      <3> QED
        BY <1>2, <3>1, <3>2, MergeTiles
    <2> HIDE DEF N, d
    <2>6. /\ N \in Seq(Block) /\ Len(N) = n
          /\ \A k \in 1 .. n : N[k] = IF k = n THEN d ELSE M[k]
      BY <1>1, <2>1, <2>3, <2>4, ExceptSeq
    <2>7. Ordered(N)
      <3>1. \A k \in 1 .. Len(N) : N[k].len > 0
        BY <2>4, <2>6, OrderedFacts
      <3>2. ASSUME NEW i \in 1 .. Len(N), NEW j \in 1 .. Len(N), i < j
            PROVE  EndOf(N[i]) < N[j].start
        <4>1. EndOf(M[i]) < M[j].start /\ N[i] = M[i]
          BY <1>1, <2>6, <3>2, OrderedFacts
        <4>2. N[j].start = M[j].start
          BY <2>4, <2>6
        <4> QED
          BY <4>1, <4>2
      <3> QED
        BY <2>6, <3>1, <3>2 DEF Ordered
    <2>8. ASSUME NEW k \in 1 .. Len(N), NEW x \in R
          PROVE  EndOf(N[k]) <= x.start
      <3>1. CASE k = n
        BY <2>4, <2>6, <3>1
      <3>2. CASE k # n
        <4>1. N[k] = M[k] /\ EndOf(M[k]) <= b.start /\ EndOf(M[k]) \in Nat
          BY <2>6, <3>2, OrderedFacts
        <4>2. EndOf(b) <= x.start
          OBVIOUS
        <4> QED
          BY <1>1, <4>1, <4>2
      <3> QED
        BY <3>1, <3>2
    <2>9. ToSet(N) \cup R = (F \ {l, b}) \cup {d}
      <3>1. \A k \in 1 .. n : M[k] = l <=> k = n
        BY <2>1, OrderedFacts
      <3>2. \A k \in 1 .. n : M[k] # b
        <4> TAKE k \in 1 .. n
        <4>1. M[k].start < EndOf(M[k]) /\ EndOf(M[k]) <= b.start
              /\ EndOf(M[k]) \in Nat /\ M[k].start \in Nat
          BY OrderedFacts
        <4> QED
          BY <1>1, <4>1
      <3>3. \A x \in R : x # l /\ x # b
        <4> TAKE x \in R
        <4>1. EndOf(b) <= x.start /\ l.start < EndOf(l)
          BY <2>1, OrderedFacts
        <4> QED
          BY <1>1, <2>1, <4>1
      <3>4. \A c : c \in ToSet(N) <=> \E k \in 1 .. n : c = N[k]
        BY <2>6, ListToSet
      <3>5. ASSUME NEW c
            PROVE  c \in ToSet(N) <=> c = d \/ (c # l /\ c \in ToSet(M))
        <4> HIDE DEF l
        <4> QED
          BY <1>2, <2>1, <2>6, <3>1, <3>4
      <3>6. b \notin ToSet(M)
        BY <1>2, <3>2
      <3> HIDE DEF l
      <3> QED
        BY <3>3, <3>5, <3>6
    <2> QED
      BY <2>5, <2>7, <2>8, <2>9 DEF N
  <1>4. CASE ~ (n > 0 /\ EndOf(M[n]) = b.start)
    <2>1. N = Append(M, b)
      <3>1. M # <<>> => n > 0
        BY <1>1
      <3>2. ~ (M # <<>> /\ EndOf(Last(M)) = b.start)
        BY <1>4, <3>1 DEF Last, EndOf
      <3> QED
        BY <3>2 DEF MergeNext
    <2> HIDE DEF N
    <2>2. /\ N \in Seq(Block) /\ Len(N) = n + 1
          /\ \A k \in 1 .. n : N[k] = M[k]
          /\ N[n + 1] = b
      BY <1>1, <2>1
    <2>3. \A k \in 1 .. n + 1 : k \in 1 .. n \/ k = n + 1
      BY <1>1
    <2>4. ASSUME NEW k \in 1 .. n  PROVE EndOf(M[k]) < b.start
      <3>1. n \in 1 .. n /\ EndOf(M[n]) < b.start
        <4>1. n \in 1 .. n
          BY <1>1
        <4>2. EndOf(M[n]) <= b.start /\ EndOf(M[n]) # b.start /\ EndOf(M[n]) \in Nat
          BY <1>1, <1>4, <4>1, OrderedFacts
        <4> QED
          BY <1>1, <4>1, <4>2
      <3>2. k = n \/ (EndOf(M[k]) < M[n].start /\ M[n].start < EndOf(M[n]))
        BY <1>1, <3>1, OrderedFacts
      <3> QED
        BY <1>1, <3>1, <3>2, OrderedFacts
    <2>5. Ordered(N)
      <3>1. \A k \in 1 .. Len(N) : N[k].len > 0
        BY <2>2, <2>3, OrderedFacts
      <3>2. ASSUME NEW i \in 1 .. Len(N), NEW j \in 1 .. Len(N), i < j
            PROVE  EndOf(N[i]) < N[j].start
        <4>1. i \in 1 .. n
          BY <1>1, <2>2, <3>2
        <4>2. CASE j = n + 1
          BY <2>2, <2>4, <4>1, <4>2
        <4>3. CASE j \in 1 .. n
          BY <2>2, <3>2, <4>1, <4>3, OrderedFacts
        <4> QED
          BY <2>2, <2>3, <4>2, <4>3
      <3> QED
        BY <2>2, <3>1, <3>2 DEF Ordered
    <2>6. ASSUME NEW k \in 1 .. Len(N), NEW x \in R
          PROVE  EndOf(N[k]) <= x.start
      <3>1. EndOf(b) <= x.start /\ x.start \in Nat
        BY <1>1
      <3>2. CASE k = n + 1
        BY <2>2, <3>1, <3>2
      <3>3. CASE k \in 1 .. n
        <4>1. N[k] = M[k] /\ EndOf(M[k]) < b.start /\ EndOf(M[k]) \in Nat
          BY <2>2, <2>4, <3>3, OrderedFacts
        <4> QED
          BY <1>1, <3>1, <4>1
      <3> QED
        BY <2>2, <2>3, <3>2, <3>3
    <2>7. ToSet(N) = ToSet(M) \cup {b}
      <3>1. \A c : c \in ToSet(N) <=> \E k \in 1 .. n + 1 : c = N[k]
        BY <2>2, ListToSet
      <3>2. n + 1 \in 1 .. n + 1 /\ \A k \in 1 .. n : k \in 1 .. n + 1
        BY <1>1
      <3>3. ASSUME NEW c
            PROVE  c \in ToSet(N) <=> c = b \/ c \in ToSet(M)
        BY <1>2, <2>2, <2>3, <3>1, <3>2
      <3> QED
        BY <3>3
    <2> QED
      BY <2>5, <2>6, <2>7 DEF N
  <1> QED
    BY <1>3, <1>4

(* The whole drain loop over a sorted list: the result is ordered, so no   *)
(* two of its blocks abut, and it covers the same bytes.                   *)
LEMMA DrainTiles ==
  ASSUME NEW cap \in Nat, NEW A \in SUBSET Block, NEW t \in Seq(Block),
         \A i, j \in 1 .. Len(t) : i < j => t[i].start < t[j].start,
         Tiling(cap, ToSet(t), A)
  PROVE  LET r == FoldLeft(MergeNext, <<>>, t)
         IN  Ordered(r) /\ Tiling(cap, ToSet(r), A)
  <1> DEFINE n == Len(t)
             Rest(i) == { t[j] : j \in i + 1 .. n }
             Drained(M, i) ==
               /\ Ordered(M)
               /\ \A k \in 1 .. Len(M) : \A x \in Rest(i) : EndOf(M[k]) <= x.start
               /\ Tiling(cap, ToSet(M) \cup Rest(i), A)
  <1>1. PICK m : /\ m[0] = <<>>
                 /\ \A i \in 1 .. n : m[i] = MergeNext(m[i - 1], t[i])
                 /\ FoldLeft(MergeNext, <<>>, t) = m[n]
    BY DrainSteps
  <1>2. n \in Nat /\ \A i \in 1 .. n : t[i] \in Block
    OBVIOUS
  <1>3. \A i \in 1 .. n : t[i] \in ToSet(t)
    BY ListToSet
  <1>4. \A i \in 1 .. n : /\ t[i].len \in Nat /\ t[i].len > 0
                         /\ t[i].start \in Nat /\ EndOf(t[i]) \in Nat
    BY <1>2, <1>3, BlockFacts DEF Tiling, WellPlaced
  <1>5. ASSUME NEW i \in 1 .. n, NEW j \in 1 .. n, i < j
        PROVE  EndOf(t[i]) <= t[j].start
    <2>1. t[i].start < t[j].start /\ t[i] # t[j]
      BY <1>4, <1>5
    <2>2. Apart(t[i], t[j])
      BY <1>3, <2>1 DEF Tiling
    <2>3. EndOf(t[j]) = t[j].start + t[j].len
      BY <1>2, BlockFacts
    <2> QED
      BY <1>4, <2>1, <2>2, <2>3 DEF Apart
  <1>6. Drained(m[0], 0)
    <2>1. Ordered(<<>>) /\ Len(<<>>) = 0
      BY DEF Ordered
    <2>2. ToSet(<<>>) = {}
      BY DEF ToSet
    <2>3. Rest(0) = ToSet(t)
      BY DEF ToSet
    <2>4. /\ \A k \in 1 .. Len(<<>>) : \A x \in Rest(0) : EndOf(<<>>[k]) <= x.start
          /\ ToSet(<<>>) \cup Rest(0) = ToSet(t)
      BY <2>1, <2>2, <2>3
    <2>5. Drained(<<>>, 0)
      <3> HIDE DEF Rest
      <3> QED
        BY <2>1, <2>4
    <2> QED
      BY <1>1, <2>5
  <1>7. ASSUME NEW i \in 0 .. n - 1, Drained(m[i], i)
        PROVE  Drained(m[i + 1], i + 1)
    <2> DEFINE b == t[i + 1]
               R == Rest(i + 1)
               M == m[i]
    <2>1. /\ i + 1 \in 1 .. n /\ (i + 1) - 1 = i
          /\ \A j \in (i + 1) + 1 .. n : j \in 1 .. n /\ i + 1 < j
      BY <1>2
    <2>2. m[i + 1] = MergeNext(M, b)
      BY <1>1, <2>1
    <2>3. Rest(i) = {b} \cup R
      BY <1>2
    <2>4. R \in SUBSET Block
      BY <1>2, <2>1
    <2>5. \A x \in R : EndOf(b) <= x.start
      BY <1>5, <2>1
    <2>6. b \in Block /\ b.len > 0
      BY <1>2, <1>4, <2>1
    <2>7. Ordered(M) /\ \A k \in 1 .. Len(M) : EndOf(M[k]) <= b.start
      BY <1>7, <2>3
    <2>8. Tiling(cap, ToSet(M) \cup {b} \cup R, A)
      <3>1. ToSet(M) \cup {b} \cup R = ToSet(M) \cup Rest(i)
        BY <2>3
      <3> QED
        BY <1>7, <3>1
    <2> HIDE DEF M, b, R
    <2>9. /\ Ordered(MergeNext(M, b))
          /\ \A k \in 1 .. Len(MergeNext(M, b)) :
               \A x \in R : EndOf(MergeNext(M, b)[k]) <= x.start
          /\ Tiling(cap, ToSet(MergeNext(M, b)) \cup R, A)
      BY <2>4, <2>5, <2>6, <2>7, <2>8, MergeNextKeeps
    <2> QED
      BY <2>2, <2>9 DEF R
  <1>8. Drained(m[n], n)
    <2> DEFINE T == { i \in Nat : Drained(m[i], i) }
    <2>1. 0 \in T
      BY <1>6
    <2>2. \A i \in 0 .. n - 1 : i \in T => i + 1 \in T
      <3> HIDE DEF Drained
      <3> QED
        BY <1>2, <1>7
    <2>3. \A i \in 0 .. n : i \in T
      <3> HIDE DEF T, n
      <3> QED
        BY <1>2, <2>1, <2>2, BoundedInduction
    <2> HIDE DEF Drained
    <2> QED
      BY <1>2, <2>3
  <1>9. Rest(n) = {}
    BY <1>2
  <1> QED
    BY <1>1, <1>8, <1>9


(* No two blocks of an ordered list abut.                                  *)
LEMMA OrderedNoneAbut ==
  ASSUME NEW s, Ordered(s)
  PROVE  ToSet(s) \in SUBSET Block /\ NoneAbut(ToSet(s))
  <1>1. s \in Seq(Block) /\ ToSet(s) \in SUBSET Block
    BY OrderedFacts, ListToSet
  <1>2. ASSUME NEW b \in ToSet(s), NEW c \in ToSet(s)
        PROVE  EndOf(b) # c.start
    <2>1. PICK i \in 1 .. Len(s) : b = s[i]
      BY <1>1, ListToSet
    <2>2. PICK j \in 1 .. Len(s) : c = s[j]
      BY <1>1, ListToSet
    <2>3. CASE i < j
      BY <2>1, <2>2, <2>3, OrderedFacts
    <2>4. CASE i >= j
      <3>1. i = j \/ EndOf(s[j]) < s[i].start
        BY <2>4, OrderedFacts
      <3>2. /\ s[j].start < EndOf(s[j]) /\ s[i].start < EndOf(s[i])
            /\ s[j].start \in Nat /\ EndOf(s[j]) \in Nat
            /\ s[i].start \in Nat /\ EndOf(s[i]) \in Nat
        BY OrderedFacts
      <3> QED
        BY <2>1, <2>2, <3>1, <3>2
    <2> QED
      BY <2>3, <2>4, OrderedFacts
  <1> QED
    BY <1>1, <1>2 DEF NoneAbut

(* push, sort and drain are Coalesce of the set, and order the list: both  *)
(* results tile the region with the remaining allocations and have no two  *)
(* abutting blocks, which leaves them no choice.                           *)
LEMMA ReleaseIsCoalesce ==
  ASSUME NEW cap \in Nat, NEW s, Ordered(s), NEW A \in SUBSET Block,
         Tiling(cap, ToSet(s), A), NEW a \in A
  PROVE  /\ Ordered(Release(s, a))
         /\ ToSet(Release(s, a)) = Coalesce(ToSet(s) \cup {a})
  <1> DEFINE F == ToSet(s)
             t == SortByStart(Append(s, a))
             r == Release(s, a)
  <1>1. F \in SUBSET Block /\ NoneAbut(F) /\ Tiling(cap, F, A)
    BY OrderedNoneAbut
  <1>2. a \in Block /\ a.len > 0
    BY DEF Tiling, WellPlaced
  <1>3. \A i \in 1 .. Len(s) : Apart(s[i], a)
    BY ListToSet, OrderedFacts DEF Tiling
  <1>4. /\ t \in Seq(Block)
        /\ ToSet(t) = F \cup {a}
        /\ \A i, j \in 1 .. Len(t) : i < j => t[i].start < t[j].start
    BY <1>2, <1>3, SortInserts
  <1>5. Tiling(cap, F \cup {a}, A \ {a})
    <2>1. \A b \in F : Apart(a, b) /\ Apart(b, a)
      BY DEF Tiling, Apart
    <2>2. (F \cup {a}) \cup (A \ {a}) = F \cup A
      OBVIOUS
    <2> HIDE DEF F
    <2> QED
      BY <1>1, <2>1, <2>2 DEF Tiling
  <1>6. r = FoldLeft(MergeNext, <<>>, t)
    BY DEF Release
  <1> HIDE DEF t, r, F
  <1>7. Ordered(r) /\ Tiling(cap, ToSet(r), A \ {a})
    <2>1. Tiling(cap, ToSet(t), A \ {a}) /\ A \ {a} \in SUBSET Block
      BY <1>4, <1>5
    <2> QED
      BY <1>4, <1>6, <2>1, DrainTiles
  <1>8. ToSet(r) = Gaps(cap, A \ {a})
    <2>1. ToSet(r) \in SUBSET Block /\ NoneAbut(ToSet(r)) /\ A \ {a} \in SUBSET Block
      BY <1>7, OrderedNoneAbut
    <2> QED
      BY <1>7, <2>1, FreeListIsGaps
  <1>9. Coalesce(F \cup {a}) = Gaps(cap, A \ {a})
    <2>1. /\ Coalesce(F \cup {a}) \in SUBSET Block /\ NoneAbut(Coalesce(F \cup {a}))
          /\ Tiling(cap, Coalesce(F \cup {a}), A \ {a}) /\ A \ {a} \in SUBSET Block
      BY <1>1, ReleaseTiles
    <2> QED
      BY <2>1, FreeListIsGaps
  <1> QED
    BY <1>7, <1>8, <1>9 DEF r, F

----------------------------------------------------------------------------

(* The inductive invariant of the Vec-based heap.                          *)
ListInv ==
  /\ Ordered(list)
  /\ MapOK
  /\ Tiling(Capacity, ToSet(list), Allocated)

(* SymHeapList and the heap it refines compute with the same operators.    *)
LEMMA SameOperators ==
  /\ Set!Capacity = Capacity /\ List!Capacity = Capacity
  /\ List!ALIGNMENT = ALIGNMENT /\ Set!ALIGNMENT = ALIGNMENT
  /\ \A size : List!RoundUp(size) = RoundUp(size) /\ Set!RoundUp(size) = RoundUp(size)
  /\ \A F, n, b : Set!IsFirstFit(F, n, b) <=> IsFirstFit(F, n, b)
  /\ \A F, n, b : Set!Carve(F, b, n) = Carve(F, b, n)
  /\ \A F : Set!Coalesce(F) = Coalesce(F)
  /\ \A f, k, v : List!InsertKey(f, k, v) = InsertKey(f, k, v)
  /\ \A f, k, v : Set!InsertKey(f, k, v) = InsertKey(f, k, v)
  /\ \A f, k : List!RemoveKey(f, k) = RemoveKey(f, k)
  /\ \A f, k : Set!RemoveKey(f, k) = RemoveKey(f, k)
  /\ \A p, n : Set!ValidRange(p, n) <=> ValidRange(p, n)
  /\ \A p, n : List!Set!ValidRange(p, n) <=> ValidRange(p, n)
  <1>1. List!ALIGNMENT = ALIGNMENT /\ Set!ALIGNMENT = ALIGNMENT /\ List!Set!ALIGNMENT = ALIGNMENT
    BY DEF List!ALIGNMENT, Set!ALIGNMENT, List!Set!ALIGNMENT, ALIGNMENT
  <1>2. Set!Capacity = Capacity /\ List!Capacity = Capacity /\ List!Set!Capacity = Capacity
    BY <1>1 DEF Set!Capacity, Set!CapacityOf, List!Capacity, List!CapacityOf,
                List!Set!Capacity, List!Set!CapacityOf, Capacity, CapacityOf
  <1>3. \A size : List!RoundUp(size) = RoundUp(size) /\ Set!RoundUp(size) = RoundUp(size)
    BY <1>1 DEF List!RoundUp, Set!RoundUp, RoundUp
  <1>4. \A F, n, b : Set!IsFirstFit(F, n, b) <=> IsFirstFit(F, n, b)
    BY DEF Set!IsFirstFit, IsFirstFit
  <1>5. \A F, n, b : Set!Carve(F, b, n) = Carve(F, b, n)
    BY DEF Set!Carve, Carve
  <1>6. \A F : Set!Coalesce(F) = Coalesce(F)
    BY DEF Set!Coalesce, Set!IsRun, Set!EndOf, Coalesce, IsRun, EndOf
  <1>7. \A f, k, v : /\ List!InsertKey(f, k, v) = InsertKey(f, k, v)
                     /\ Set!InsertKey(f, k, v) = InsertKey(f, k, v)
    BY DEF List!InsertKey, Set!InsertKey, InsertKey
  <1>8. \A f, k : /\ List!RemoveKey(f, k) = RemoveKey(f, k)
                  /\ Set!RemoveKey(f, k) = RemoveKey(f, k)
    BY DEF List!RemoveKey, Set!RemoveKey, RemoveKey
  <1>9. \A p, n : /\ Set!ValidRange(p, n) <=> ValidRange(p, n)
                  /\ List!Set!ValidRange(p, n) <=> ValidRange(p, n)
    BY <1>1, <1>2 DEF Set!ValidRange, List!Set!ValidRange, ValidRange
  <1> QED
    BY <1>1, <1>2, <1>3, <1>4, <1>5, <1>6, <1>7, <1>8, <1>9

(* Both search, carve, sort and merge the same way.                        *)
LEMMA SameListOperators ==
  /\ \A s, n : List!Position(s, n) = Position(s, n)
  /\ \A s, k, n : List!CarveAt(s, k, n) = CarveAt(s, k, n)
  /\ \A s, b : List!Release(s, b) = Release(s, b)
  <1>1. \A s, n : List!Position(s, n) = Position(s, n)
    BY DEF List!Position, Position, List!SelectInSeq, SelectInSeq, List!Min, Min
  <1>2. \A s, k, n : List!CarveAt(s, k, n) = CarveAt(s, k, n)
    BY DEF List!CarveAt, CarveAt, List!RemoveAt, RemoveAt, List!ReplaceAt, ReplaceAt
  <1>3. \A s, b : List!Release(s, b) = Release(s, b)
    BY DEF List!Release, Release, List!FoldLeft, FoldLeft, List!MapThenFoldSet, MapThenFoldSet,
           List!MergeNext, MergeNext, List!EndOf, EndOf, List!Last, Last, List!ReplaceAt, ReplaceAt,
           List!SortByStart, SortByStart, List!Bijection, Bijection, List!Injection, Injection,
           List!Surjection, Surjection, List!IsInjective, IsInjective, List!Max, Max
  <1> QED
    BY <1>1, <1>2, <1>3

(* malloc on the Vec is malloc on its set, and keeps the invariant.        *)
LEMMA ListMalloc ==
  ASSUME ListInv, NEW size \in Sizes, List!Malloc(size)
  PROVE  ListInv' /\ Set!Malloc(size)
  <1> DEFINE n == RoundUp(size)
             k == Position(list, n)
             F == ToSet(list)
             p == LocalBase + list[k].start
  <1>1. CASE /\ size = 0 \/ size + (ALIGNMENT - 1) > UsizeMax
             /\ ret' = [op |-> "malloc", arg |-> size, ptr |-> 0,
                        res |-> IF size = 0 THEN "zero" ELSE "overflow"]
             /\ UNCHANGED <<list, allocations, owned, stale>>
    <2>1. Set!MallocRejected(size)
      BY <1>1, SameOperators DEF Set!MallocRejected
    <2> QED
      BY <1>1, <2>1 DEF ListInv, MapOK, Allocated, Set!Malloc
  <1>2. CASE /\ size > 0 /\ size + (ALIGNMENT - 1) <= UsizeMax
             /\ k = 0
             /\ ret' = [op |-> "malloc", arg |-> size, ptr |-> 0, res |-> "exhausted"]
             /\ UNCHANGED <<list, allocations, owned, stale>>
    <2>1. n \in Nat /\ Ordered(list)
      BY <1>2, HeapAssumption, RoundUpFacts DEF ListInv
    <2>2. \A b \in F : b.len < n
      BY <1>2, <2>1, PositionIsFirstFit
    <2>3. Set!MallocExhausted(size)
      BY <1>2, <2>2, SameOperators DEF Set!MallocExhausted
    <2> QED
      BY <1>2, <2>3 DEF ListInv, MapOK, Allocated, Set!Malloc
  <1>3. CASE /\ size > 0 /\ size + (ALIGNMENT - 1) <= UsizeMax
             /\ k # 0
             /\ list' = CarveAt(list, k, n)
             /\ allocations' = InsertKey(allocations, p, n)
             /\ owned' = owned \cup {p}
             /\ ret' = [op |-> "malloc", arg |-> size, ptr |-> p, res |-> "ok"]
             /\ UNCHANGED stale
    <2>1. n \in Nat /\ n > 0 /\ n % ALIGNMENT = 0
      BY <1>3, HeapAssumption, RoundUpFacts
    <2>2. Ordered(list) /\ MapOK /\ Tiling(Capacity, F, Allocated)
      BY DEF ListInv
    <2>3. k \in 1 .. Len(list) /\ list[k] \in F /\ IsFirstFit(F, n, list[k])
      BY <1>3, <2>1, <2>2, PositionIsFirstFit
    <2> HIDE DEF k, n
    <2>4. n <= list[k].len
      BY <2>1, <2>2, <2>3, OrderedFacts DEF IsFirstFit
    <2>5. Ordered(list') /\ ToSet(list') = Carve(F, list[k], n)
      BY <1>3, <2>1, <2>2, <2>3, <2>4, CarveAtIsCarve
    <2>6. F \in SUBSET Block /\ NoneAbut(F)
      BY <2>2, OrderedNoneAbut
    <2>7. MapOK' /\ Tiling(Capacity, Carve(F, list[k], n), Allocated')
      <3> HIDE DEF F
      <3> QED
        BY <1>3, <2>1, <2>2, <2>3, <2>4, <2>6, MallocTiles
    <2>8. ListInv'
      BY <2>5, <2>7 DEF ListInv
    <2>9. Set!MallocOk(size)
      BY <1>3, <2>3, <2>5, SameOperators DEF Set!MallocOk, n
    <2> QED
      BY <2>8, <2>9 DEF Set!Malloc
  <1> QED
    BY <1>1, <1>2, <1>3, SameOperators, SameListOperators DEF List!Malloc

(* free on the Vec is free on its set, and keeps the invariant.            *)
LEMMA ListFree ==
  ASSUME ListInv, NEW ptr, List!Free(ptr)
  PROVE  ListInv' /\ Set!Free(ptr)
  <1> DEFINE F == ToSet(list)
             a == BlockAt(ptr)
  <1>0. Ordered(list) /\ MapOK /\ Tiling(Capacity, F, Allocated)
    BY DEF ListInv
  <1>1. CASE ptr \notin DOMAIN allocations
    <2>1. /\ allocations' = RemoveKey(allocations, ptr)
          /\ list' = list
          /\ ret' = [op |-> "free", arg |-> 0, ptr |-> ptr, res |-> "invalid"]
      BY <1>1, SameOperators DEF List!Free
    <2>2. allocations' = allocations
      BY <1>0, <1>1, <2>1 DEF RemoveKey, MapOK
    <2>3. Set!FreeUnknown(ptr)
      BY <1>1, <2>1, <2>2 DEF Set!FreeUnknown
    <2> QED
      BY <2>1, <2>2, <2>3 DEF ListInv, MapOK, Allocated, Set!Free
  <1>2. CASE ptr \in DOMAIN allocations
    <2>1. allocations' = RemoveKey(allocations, ptr)
      BY SameOperators DEF List!Free
    <2>2. F \in SUBSET Block
      BY <1>0, OrderedNoneAbut
    <2>3. /\ a \in Allocated /\ ValidRange(ptr, allocations[ptr])
          /\ MapOK' /\ Allocated' = Allocated \ {a}
      <3> HIDE DEF F
      <3> QED
        BY <1>0, <1>2, <2>1, <2>2, FreeTiles
    <2>4. /\ list' = Release(list, a)
          /\ ret' = [op |-> "free", arg |-> 0, ptr |-> ptr, res |-> "ok"]
      BY <1>2, <2>3, SameOperators, SameListOperators DEF List!Free, BlockAt
    <2>5. Ordered(list') /\ ToSet(list') = Coalesce(F \cup {a})
      BY <1>0, <2>3, <2>4, AllocatedFacts, CapacityFacts, ReleaseIsCoalesce
    <2>6. Tiling(Capacity, Coalesce(F \cup {a}), Allocated \ {a})
      BY <1>0, <2>3, AllocatedFacts, CapacityFacts, OrderedNoneAbut, ReleaseTiles
    <2>7. ListInv'
      BY <2>3, <2>5, <2>6 DEF ListInv
    <2>8. Set!FreeLive(ptr)
      BY <1>2, <2>1, <2>3, <2>4, <2>5, SameOperators DEF Set!FreeLive, BlockAt
    <2> QED
      BY <2>7, <2>8 DEF Set!Free
  <1> QED
    BY <1>1, <1>2

LEMMA ListInit == List!Init => ListInv /\ Set!Init
  <1> SUFFICES ASSUME List!Init  PROVE ListInv /\ Set!Init
    OBVIOUS
  <1> DEFINE b == [start |-> 0, len |-> Capacity]
  <1>1. list = <<b>> /\ allocations = [p \in {} |-> 0]
    BY SameOperators DEF List!Init
  <1>2. b \in Block /\ Tiling(Capacity, {b}, {}) /\ b.len > 0
    BY CapacityFacts, FreshTiles DEF ALIGNMENT
  <1>3. ToSet(list) = {b}
    BY <1>1 DEF ToSet
  <1>4. Ordered(list)
    <2> HIDE DEF b
    <2> QED
      BY <1>1, <1>2 DEF Ordered
  <1>5. Allocated = {} /\ MapOK
    BY <1>1 DEF Allocated, MapOK
  <1>6. Set!Init
    BY <1>3, SameOperators DEF List!Init, Set!Init
  <1> QED
    BY <1>2, <1>3, <1>4, <1>5, <1>6 DEF ListInv

LEMMA ListNext ==
  ListInv /\ [List!Next]_List!vars => ListInv' /\ [Set!Next]_Set!vars
  <1> SUFFICES ASSUME ListInv, [List!Next]_List!vars
               PROVE  ListInv' /\ [Set!Next]_Set!vars
    OBVIOUS
  <1>1. ASSUME NEW size \in Sizes, List!Malloc(size)
        PROVE  ListInv' /\ Set!Next
    BY <1>1, ListMalloc DEF Set!Next
  <1>2. ASSUME NEW ptr, ptr \in owned, List!Free(ptr),
               owned' = owned \ {ptr}, stale' = stale \cup {ptr}
        PROVE  ListInv' /\ Set!Next
    BY <1>2, ListFree DEF Set!Next, Set!FreeOwned
  <1>3. ASSUME NEW ptr, ptr \in stale \cup ForeignPtrs, List!Free(ptr),
               UNCHANGED <<owned, stale>>
        PROVE  ListInv' /\ Set!Next
    BY <1>3, ListFree DEF Set!Next, Set!FreeStale, Set!FreeForeign
  <1>4. CASE UNCHANGED List!vars
    BY <1>4 DEF List!vars, Set!vars, ListInv, MapOK, Allocated
  <1> QED
    BY <1>1, <1>2, <1>3, <1>4 DEF List!Next, List!CallFree

(* The Vec-based heap keeps its inductive invariant.                       *)
THEOREM ListInvariant == List!Spec => []ListInv
  BY ListInit, ListNext, PTL DEF List!Spec

(* The Vec stays strictly sorted without abutting blocks.                  *)
THEOREM ListStaysSorted == List!Spec => []ListSorted
  <1>1. ListInv => ListSorted
    <2> SUFFICES ASSUME Ordered(list), NEW i \in 1 .. Len(list) - 1
                 PROVE  EndOf(list[i]) < list[i + 1].start
      BY DEF ListInv, ListSorted
    <2>1. i \in 1 .. Len(list) /\ i + 1 \in 1 .. Len(list) /\ i < i + 1
      BY OrderedFacts
    <2> QED
      BY <2>1, OrderedFacts
  <1> QED
    BY <1>1, ListInvariant, PTL

(* Every malloc and free on the Vec is one of SymHeap on its set.          *)
THEOREM ListImplementsSet == List!Spec => ImplementsSymHeap
  BY ListInit, ListNext, ListInvariant, PTL
  DEF List!Spec, ImplementsSymHeap, Set!Spec

(* The blocks in the Vec and the live allocations tile the region, and the *)
(* Vec holds exactly the maximal gaps between them: two PEs whose live     *)
(* allocations agree hold the same free blocks.                            *)
THEOREM ListIsTheGaps == List!Spec => [](Set!HeapPartition /\ Set!FreeIsGaps)
  <1>1. ListInv => Set!HeapPartition /\ Set!FreeIsGaps
    <2> SUFFICES ASSUME ListInv
                 PROVE  Set!HeapPartition /\ Set!FreeIsGaps
      OBVIOUS
    <2> DEFINE F == ToSet(list)
    <2>1. Ordered(list) /\ MapOK /\ Tiling(Capacity, F, Allocated)
      BY DEF ListInv
    <2>2. F \in SUBSET Block /\ NoneAbut(F)
      BY <2>1, OrderedNoneAbut
    <2>3. Allocated \in SUBSET Block
      BY <2>1, AllocatedFacts
    <2>4. F = Gaps(Capacity, Allocated)
      <3> HIDE DEF F
      <3> QED
        BY <2>1, <2>2, <2>3, CapacityFacts, FreeListIsGaps
    <2>5. Set!Allocated = Allocated
      BY DEF Set!Allocated, Allocated
    <2>6. Set!Tiling(Capacity, F, Allocated) <=> Tiling(Capacity, F, Allocated)
      BY SameOperators DEF Set!Tiling, Tiling, Set!WellPlaced, WellPlaced,
                           Set!Apart, Apart, Set!EndOf, EndOf
    <2>7. Set!Gaps(Capacity, Allocated) = Gaps(Capacity, Allocated)
      BY DEF Set!Gaps, Gaps, Set!EndOf, EndOf
    <2> QED
      BY <2>1, <2>4, <2>5, <2>6, <2>7, SameOperators
      DEF Set!HeapPartition, Set!FreeIsGaps
  <1> QED
    BY <1>1, ListInvariant, PTL

=============================================================================
