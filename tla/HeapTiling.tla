----------------------------- MODULE HeapTiling -----------------------------
(***************************************************************************)
(* What it means for a free list and a set of live allocations to share a  *)
(* region of cap bytes out between them: the vocabulary in which the       *)
(* properties of the allocator are stated, for one heap and for the heaps  *)
(* of all PEs.                                                             *)
(***************************************************************************)
EXTENDS HeapOps

Apart(b, c) == EndOf(b) <= c.start \/ EndOf(c) <= b.start

(* Every block is a nonempty, aligned part of the region.                  *)
WellPlaced(cap, b) ==
  /\ b.len > 0
  /\ EndOf(b) <= cap
  /\ b.start % ALIGNMENT = 0
  /\ b.len % ALIGNMENT = 0

(* The blocks of F and A tile the region.                                  *)
Tiling(cap, F, A) ==
  /\ \A b \in F \cup A : WellPlaced(cap, b)
  /\ \A b \in F, c \in A : Apart(b, c)
  /\ \A b, c \in F : b # c => Apart(b, c)
  /\ \A b, c \in A : b # c => Apart(b, c)
  /\ \A x \in 0 .. cap - 1 : \E b \in F \cup A : b.start <= x /\ x < EndOf(b)

(* No two blocks of F abut: what the merging pass of SymHeap::free leaves. *)
NoneAbut(F) == \A b, c \in F : EndOf(b) # c.start

(* The maximal ranges of the region that touch no block of A.              *)
Gaps(cap, A) ==
  LET starts == {0} \cup { EndOf(a) : a \in A }
      ends   == {cap} \cup { a.start : a \in A }
  IN  { [start |-> r[1], len |-> r[2] - r[1]] :
          r \in { q \in starts \X ends :
                  /\ q[1] < q[2]
                  /\ \A a \in A : EndOf(a) <= q[1] \/ q[2] <= a.start } }

(* The aligned offsets at which n bytes fit between the blocks of A.       *)
FitsAt(cap, A, n) ==
  { s \in 0 .. cap - n :
      s % ALIGNMENT = 0 /\ \A a \in A : EndOf(a) <= s \/ s + n <= a.start }

=============================================================================
