----------------------------- MODULE HeapList ------------------------------
(***************************************************************************)
(* The free list of a symmetric heap as the code holds it: a Vec<Block>,   *)
(* searched front to back by malloc, edited in place, and rebuilt by free  *)
(* with a push, a sort and a merging pass (src/symheap.rs).                *)
(***************************************************************************)
EXTENDS HeapState, SequencesExt

VARIABLE list  \* the free list

(* iter().position(|b| b.len >= requested); 0 stands for None.             *)
Position_Last(s, requested) ==           \* mutant: searches back to front
  SelectLastInSeq(s, LAMBDA b : b.len >= requested)

Position(s, requested) == SelectInSeq(s, LAMBDA b : b.len >= requested)

(* free.remove(index) or free[index] = the tail of the block.              *)
CarveAt(s, index, requested) ==
  IF s[index].len = requested
  THEN RemoveAt(s, index)
  ELSE ReplaceAt(s, index, [start |-> s[index].start + requested,
                            len   |-> s[index].len - requested])

(* sort_by_key(|b| b.start), a stable sort: the permutation that puts the  *)
(* blocks in the order of their starts, equal ones as they were.           *)
SortByStart(s) ==
  LET order == CHOOSE q \in Bijection(DOMAIN s, DOMAIN s) :
                 \A i, j \in DOMAIN s : i < j =>
                   \/ s[q[i]].start < s[q[j]].start
                   \/ s[q[i]].start = s[q[j]].start /\ q[i] < q[j]
  IN  [i \in DOMAIN s |-> s[order[i]]]

(* One iteration of the drain loop: extend the last merged block when the  *)
(* next one begins at its end, push it otherwise.                          *)
MergeNext(merged, block) ==
  IF merged # <<>> /\ EndOf(Last(merged)) = block.start
  THEN ReplaceAt(merged, Len(merged), [Last(merged) EXCEPT !.len = @ + block.len])
  ELSE Append(merged, block)

(* push, sort_by_key(start), then the drain loop.                          *)
Release_Unsorted(s, block) ==            \* mutant: the sort is forgotten
  FoldLeft(MergeNext, <<>>, Append(s, block))

Release(s, block) == FoldLeft(MergeNext, <<>>, SortByStart(Append(s, block)))

----------------------------------------------------------------------------

(* The heap seen through the set of blocks of its list.                    *)
Set == INSTANCE SymHeap WITH free <- ToSet(list)

(* ListSorted: the free list stays strictly sorted by start with no two    *)
(* blocks abutting, although malloc edits it in place and only free sorts  *)
(* it; the in-order merge of SymHeap::free relies on it.                   *)
ListSorted ==
  \A i \in 1 .. Len(list) - 1 : EndOf(list[i]) < list[i + 1].start

(* ImplementsSymHeap: every malloc and free of the Vec-based heap is one   *)
(* of SymHeap, with the same result.                                       *)
ImplementsSymHeap == Set!Spec

=============================================================================
