--------------------------- MODULE SymmetricHeap ---------------------------
(***************************************************************************)
(* The heaps of all PEs of a job together.  Every PE runs the same program *)
(* of malloc and free calls (src/symheap.rs), each at its own pace and     *)
(* with no synchronization, on a region at an address of its own; between  *)
(* two mallocs it may free a group of objects in an order of its own.      *)
(* Nothing but the determinism of the allocator makes the heap symmetric:  *)
(* an RMA call translates the local pointer of an object to a peer's       *)
(* address by its offset alone (SymPtr::to_remote_addr).                   *)
(*                                                                         *)
(* Assumption: all PEs read the same SHMEM_SYMMETRIC_SIZE.  Each process   *)
(* reads it from its own environment and nothing compares the values.      *)
(***************************************************************************)
EXTENDS HeapOps, Sequences

CONSTANTS
  N,          \* PEs
  Base,       \* PE -> address of its region
  HeapSize,   \* bytes of every heap: SHMEM_SYMMETRIC_SIZE, the same for all
  UsizeMax,   \* usize::MAX
  Sizes,      \* sizes the program asks for
  MaxOps      \* bound: calls of the program

PEs == 0 .. N - 1

ASSUME SymmetricAssumption ==
  /\ N \in Nat \ {0}
  /\ Base \in [PEs -> Nat \ {0}]
  /\ \A p \in PEs : Base[p] % ALIGNMENT = 0
  /\ HeapSize \in Nat /\ HeapSize >= ALIGNMENT
  /\ UsizeMax \in Nat
  /\ \A p \in PEs : Base[p] + CapacityOf(HeapSize) <= UsizeMax
  /\ Sizes \subseteq Nat \ {0}
  /\ MaxOps \in Nat

VARIABLES
  program,  \* the calls made so far by the PE that is furthest
  done,     \* PE -> calls of the program it has completed
  pending,  \* PE -> objects of the current group it has still to free
  free,     \* PE -> free list
  allocs,   \* PE -> address -> length
  ptr       \* PE -> object -> the SymPtr malloc returned, or Null

vars == <<program, done, pending, free, allocs, ptr>>

(* malloc returned an error.                                               *)
Null == 0

(* An object is known by the position of its malloc in the program.        *)
Objects == { i \in 1 .. Len(program) : program[i].op = "malloc" }
Unfreed == Objects \ UNION { program[i].objects : i \in (1 .. Len(program)) \ Objects }

Init ==
  /\ program = <<>>
  /\ done = [p \in PEs |-> 0]
  /\ pending = [p \in PEs |-> {}]
  /\ free = [p \in PEs |-> {[start |-> 0, len |-> CapacityOf(HeapSize)]}]
  /\ allocs = [p \in PEs |-> [a \in {} |-> 0]]
  /\ ptr = [p \in PEs |-> [o \in {} |-> Null]]

----------------------------------------------------------------------------

(* The program goes on with a malloc, or with a group of frees.            *)
ProgramCall ==
  /\ Len(program) < MaxOps
  /\ \E p \in PEs : done[p] = Len(program)
  /\ \/ \E size \in Sizes :
          program' = Append(program, [op |-> "malloc", size |-> size, objects |-> {}])
     \/ \E group \in (SUBSET Unfreed) \ {{}} :
          program' = Append(program, [op |-> "free", size |-> 0, objects |-> group])
  /\ UNCHANGED <<done, pending, free, allocs, ptr>>

Call(p) == program[done[p] + 1]

(* SymHeap::malloc on PE p: exhausted, or first fit.                       *)
Malloc(p) ==
  LET requested == RoundUp(Call(p).size)
      object    == done[p] + 1
  IN  /\ done[p] < Len(program)
      /\ Call(p).op = "malloc"
      /\ \/ /\ \A b \in free[p] : b.len < requested
            /\ ptr' = [ptr EXCEPT ![p] = InsertKey(@, object, Null)]
            /\ UNCHANGED <<free, allocs>>
         \/ \E block \in free[p] :
              /\ IsFirstFit(free[p], requested, block)
              /\ free' = [free EXCEPT ![p] = Carve(@, block, requested)]
              /\ allocs' = [allocs EXCEPT ![p] = InsertKey(@, Base[p] + block.start, requested)]
              /\ ptr' = [ptr EXCEPT ![p] = InsertKey(@, object, Base[p] + block.start)]
      /\ done' = [done EXCEPT ![p] = @ + 1]
      /\ UNCHANGED <<program, pending>>

(* The program turns to a group of frees; objects it never got are skipped. *)
BeginFrees(p) ==
  /\ done[p] < Len(program)
  /\ Call(p).op = "free"
  /\ pending' = [pending EXCEPT ![p] = { o \in Call(p).objects : ptr[p][o] # Null }]
  /\ done' = [done EXCEPT ![p] = @ + 1]
  /\ UNCHANGED <<program, free, allocs, ptr>>

(* SymHeap::free of one object of the group.                               *)
FreeObject_MergesNextOnly(p, o) ==  \* mutant: merges with the block after it only
  LET address == ptr[p][o]
      start   == address - Base[p]
      len     == allocs[p][address]
      after   == { b \in free[p] : b.start = start + len }
  IN  /\ o \in pending[p]
      /\ pending' = [pending EXCEPT ![p] = @ \ {o}]
      /\ allocs' = [allocs EXCEPT ![p] = RemoveKey(@, address)]
      /\ free' = [free EXCEPT ![p] = (@ \ after) \cup
                    IF after = {}
                    THEN {[start |-> start, len |-> len]}
                    ELSE { [start |-> start, len |-> len + b.len] : b \in after }]
      /\ UNCHANGED <<program, done, ptr>>

FreeObject(p, o) ==
  LET address == ptr[p][o]
      block   == [start |-> address - Base[p], len |-> allocs[p][address]]
  IN  /\ o \in pending[p]
      /\ pending' = [pending EXCEPT ![p] = @ \ {o}]
      /\ allocs' = [allocs EXCEPT ![p] = RemoveKey(@, address)]
      /\ free' = [free EXCEPT ![p] = Coalesce(@ \cup {block})]
      /\ UNCHANGED <<program, done, ptr>>

PEStep(p) ==
  \/ \E o \in pending[p] : FreeObject(p, o)
  \/ pending[p] = {} /\ (Malloc(p) \/ BeginFrees(p))

Next == ProgramCall \/ \E p \in PEs : PEStep(p)

Spec == Init /\ [][Next]_vars

----------------------------------------------------------------------------

(* SymPtr::offset_from and SymPtr::to_remote_addr: checked subtraction and *)
(* addition, UsageError when they do not fit.                              *)
UsageError == -1

OffsetFrom(pointer, localBase) ==
  IF pointer < localBase THEN UsageError ELSE pointer - localBase

ToRemoteAddr(pointer, localBase, peerBase) ==
  LET offset == OffsetFrom(pointer, localBase)
  IN  IF offset = UsageError \/ peerBase + offset > UsizeMax
      THEN UsageError
      ELSE peerBase + offset

(* RemoteAddressIsPeers: the address that a PE computes for an object on a *)
(* peer is the address the peer's own malloc returned for it, however far  *)
(* apart the two are in the program and in whatever order each freed what  *)
(* came before; and malloc fails on one PE exactly when it fails on all.   *)
RemoteAddressIsPeers ==
  \A p, q \in PEs : \A o \in DOMAIN ptr[p] \cap DOMAIN ptr[q] :
    IF ptr[p][o] = Null \/ ptr[q][o] = Null
    THEN ptr[p][o] = ptr[q][o]
    ELSE ToRemoteAddr(ptr[p][o], Base[p], Base[q]) = ptr[q][o]

(* HeapsConverge: two PEs that have completed the same calls have the same *)
(* free list, block for block, whatever the order of their frees.          *)
HeapsConverge ==
  \A p, q \in PEs :
    (done[p] = done[q] /\ pending[p] = {} /\ pending[q] = {}) => free[p] = free[q]

=============================================================================
