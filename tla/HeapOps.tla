------------------------------ MODULE HeapOps ------------------------------
(***************************************************************************)
(* The arithmetic of the symmetric-heap allocator (src/symheap.rs): size   *)
(* rounding, first fit over the free list, carving a block, and the        *)
(* coalescing pass of SymHeap::free.                                       *)
(*                                                                         *)
(* The free list is a set of blocks here.  The code keeps it a Vec sorted  *)
(* by start, so the list is determined by its set and "the first block     *)
(* that fits" is the fitting block with the lowest start.  SymHeapList     *)
(* keeps the Vec itself and is shown to implement this view.               *)
(***************************************************************************)
EXTENDS Integers

(* const ALIGNMENT, also size_of::<u64>(), the word of the backing region. *)
ALIGNMENT == 8

Block == [start : Nat, len : Nat]

EndOf(b) == b.start + b.len

(* with_size: the requested bytes rounded up to whole u64 words.           *)
CapacityOf(size) == ((size + (ALIGNMENT - 1)) \div ALIGNMENT) * ALIGNMENT

(* malloc: (size + 7) & !7.                                                *)
RoundUp(size) == LET padded == size + (ALIGNMENT - 1)
                 IN  padded - (padded % ALIGNMENT)

(* free.iter().position(|b| b.len >= requested) on the sorted list.        *)
IsFirstFit_BestFit(F, requested, b) ==   \* mutant: smallest block instead of first
  /\ b \in F
  /\ b.len >= requested
  /\ \A c \in F : c.len >= requested => b.len <= c.len

IsFirstFit_AnyLength(F, requested, b) == \* mutant: the length is not checked
  /\ b \in F
  /\ requested > 0
  /\ \A c \in F : b.start <= c.start

IsFirstFit(F, requested, b) ==
  /\ b \in F
  /\ b.len >= requested
  /\ \A c \in F : c.len >= requested => b.start <= c.start

(* The chosen block disappears when it fits exactly, otherwise its tail    *)
(* stays on the list.                                                      *)
Carve(F, b, requested) ==
  (F \ {b}) \cup
    IF b.len = requested
    THEN {}
    ELSE {[start |-> b.start + requested, len |-> b.len - requested]}

(* first .. last is a maximal run of blocks of F that abut one another.    *)
IsRun(F, first, last) ==
  /\ first.start <= last.start
  /\ \A c \in F : EndOf(c) # first.start
  /\ \A c \in F : c.start # EndOf(last)
  /\ \A c \in F : first.start <= c.start /\ c.start < last.start
                    => \E d \in F : d.start = EndOf(c)

(* The drain loop of SymHeap::free: every maximal run becomes one block.   *)
Coalesce_Nothing(F) == F                 \* mutant: blocks are never merged

Coalesce(F) ==
  { [start |-> run[1].start, len |-> EndOf(run[2]) - run[1].start] :
      run \in { r \in F \X F : IsRun(F, r[1], r[2]) } }

(* BTreeMap::insert and BTreeMap::remove.                                  *)
InsertKey(map, key, value) ==
  [k \in DOMAIN map \cup {key} |-> IF k = key THEN value ELSE map[k]]

RemoveKey_SplitOff(map, key) ==             \* mutant: split_off instead of remove
  [k \in { k \in DOMAIN map : k < key } |-> map[k]]

RemoveKey(map, key) == [k \in DOMAIN map \ {key} |-> map[k]]

=============================================================================
