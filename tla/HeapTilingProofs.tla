-------------------------- MODULE HeapTilingProofs --------------------------
(***************************************************************************)
(* Lemmas about tilings of a region of any size: carving a free block for  *)
(* an allocation and merging a freed one keep them, the free list is       *)
(* determined by the live allocations, and first fit is the lowest fit.    *)
(***************************************************************************)
EXTENDS HeapTiling, TLAPS

(* with_size: the region is a nonempty whole number of words.              *)
LEMMA CapacityOfFacts ==
  ASSUME NEW size \in Nat, size >= ALIGNMENT
  PROVE  /\ CapacityOf(size) \in Nat
         /\ CapacityOf(size) >= ALIGNMENT
         /\ CapacityOf(size) % ALIGNMENT = 0
  BY DEF CapacityOf, ALIGNMENT

(* malloc's rounding: at least the size, nonzero, a multiple of eight.     *)
LEMMA RoundUpFacts ==
  ASSUME NEW size \in Nat, size > 0
  PROVE  /\ RoundUp(size) \in Nat
         /\ RoundUp(size) >= size
         /\ RoundUp(size) % ALIGNMENT = 0
  BY DEF RoundUp, ALIGNMENT

(* Sums and differences of aligned numbers are aligned.                    *)
LEMMA AlignedArithmetic ==
  ASSUME NEW x \in Nat, NEW y \in Nat,
         x % ALIGNMENT = 0, y % ALIGNMENT = 0
  PROVE  /\ (x + y) % ALIGNMENT = 0
         /\ x <= y => (y - x) % ALIGNMENT = 0
  BY DEF ALIGNMENT

(* The fresh heap: one free block covers the region.                       *)
LEMMA FreshTiles ==
  ASSUME NEW cap \in Nat, cap >= ALIGNMENT, cap % ALIGNMENT = 0
  PROVE  LET b == [start |-> 0, len |-> cap]
         IN  b \in Block /\ Tiling(cap, {b}, {}) /\ NoneAbut({b})
  <1> DEFINE b == [start |-> 0, len |-> cap]
  <1>1. b \in Block /\ WellPlaced(cap, b) /\ EndOf(b) # b.start
    BY DEF Block, WellPlaced, EndOf, ALIGNMENT
  <1>2. \A x \in 0 .. cap - 1 : b.start <= x /\ x < EndOf(b)
    BY DEF EndOf
  <1> QED
    BY <1>1, <1>2 DEF Tiling, NoneAbut

(* Carving the front of a free block for an allocation keeps the tiling.   *)
LEMMA CarveTiles ==
  ASSUME NEW cap \in Nat, NEW F \in SUBSET Block, NEW A \in SUBSET Block,
         Tiling(cap, F, A), NoneAbut(F),
         NEW b \in F, NEW n \in Nat, n > 0, n <= b.len, n % ALIGNMENT = 0
  PROVE  LET a == [start |-> b.start, len |-> n]
         IN  /\ Carve(F, b, n) \in SUBSET Block
             /\ a \in Block
             /\ Tiling(cap, Carve(F, b, n), A \cup {a})
             /\ NoneAbut(Carve(F, b, n))
  <1> DEFINE a == [start |-> b.start, len |-> n]
             t == [start |-> b.start + n, len |-> b.len - n]
             G == Carve(F, b, n)
  <1> USE DEF Block, EndOf, Apart, WellPlaced, ALIGNMENT
  <1>1. a \in Block /\ (b.len # n => t \in Block)
    OBVIOUS
  <1>2. \A c \in G : (c \in F /\ c # b) \/ (b.len # n /\ c = t)
    BY DEF Carve
  <1>3. \A c \in F : c # b => c \in G
    BY DEF Carve
  <1>4. b.len # n => t \in G
    BY DEF Carve
  <1>5. G \in SUBSET Block
    BY <1>1, <1>2
  <1>6. WellPlaced(cap, a) /\ (b.len # n => WellPlaced(cap, t))
    <2>1. b.start % ALIGNMENT = 0 /\ b.len % ALIGNMENT = 0 /\ EndOf(b) <= cap
      BY DEF Tiling
    <2>2. (b.start + n) % ALIGNMENT = 0 /\ (b.len - n) % ALIGNMENT = 0
      BY <2>1, AlignedArithmetic
    <2> QED
      BY <2>1, <2>2
  <1>7. \A c \in G \cup (A \cup {a}) : WellPlaced(cap, c)
    BY <1>2, <1>6 DEF Tiling
  <1>8. \A c \in G, d \in A \cup {a} : Apart(c, d)
    BY <1>1, <1>2 DEF Tiling
  <1>9. \A c, d \in G : c # d => Apart(c, d)
    BY <1>1, <1>2 DEF Tiling
  <1>10. \A c, d \in A \cup {a} : c # d => Apart(c, d)
    BY <1>1 DEF Tiling
  <1>11. \A x \in 0 .. cap - 1 :
           \E c \in G \cup (A \cup {a}) : c.start <= x /\ x < EndOf(c)
    <2> TAKE x \in 0 .. cap - 1
    <2>1. PICK c \in F \cup A : c.start <= x /\ x < EndOf(c)
      BY DEF Tiling
    <2>2. CASE c # b
      BY <2>1, <2>2, <1>3
    <2>3. CASE c = b
      <3>1. CASE x < b.start + n
        <4>1. a.start <= x /\ x < EndOf(a)
          BY <2>1, <2>3, <3>1
        <4> QED  BY <4>1
      <3>2. CASE x >= b.start + n
        <4>1. b.len # n /\ t.start <= x /\ x < EndOf(t)
          BY <2>1, <2>3, <3>2
        <4> QED  BY <4>1, <1>4
      <3> QED  BY <3>1, <3>2
    <2> QED  BY <2>2, <2>3
  <1>12. NoneAbut(G)
    <2>1. /\ \A c \in F : c.start \in Nat /\ c.len \in Nat /\ c.len > 0
          /\ \A c, d \in F : c # d => Apart(c, d)
      BY DEF Tiling
    <2>2. \A c, d \in F : c.start + c.len # d.start
      BY DEF NoneAbut
    <2> QED
      BY <1>2, <2>1, <2>2 DEF NoneAbut
  <1> QED
    BY <1>1, <1>5, <1>7, <1>8, <1>9, <1>10, <1>11, <1>12 DEF Tiling

(* Freeing the allocation a: the runs of the free list together with a     *)
(* have at most three blocks, because no two blocks of F abut before.      *)
LEMMA RunsAreShort ==
  ASSUME NEW cap \in Nat, NEW F \in SUBSET Block, NEW A \in SUBSET Block,
         Tiling(cap, F, A), NoneAbut(F), NEW a \in A,
         NEW f \in F \cup {a}, NEW l \in F \cup {a}, IsRun(F \cup {a}, f, l)
  PROVE  \/ f = l
         \/ EndOf(f) = l.start
         \/ EndOf(f) = a.start /\ EndOf(a) = l.start
  <1> DEFINE G == F \cup {a}
  <1> USE DEF Block, EndOf
  <1>1. \A c \in G : c \in Block /\ c.len > 0
    BY DEF Tiling, WellPlaced
  <1>2. \A c, d \in G : c # d => Apart(c, d)
    BY DEF Tiling, Apart
  <1>3. \A c, d \in G : EndOf(c) = d.start => c = a \/ d = a
    BY DEF NoneAbut
  <1>4. \A c \in G : f.start <= c.start /\ c.start < l.start
                      => \E d \in G : d.start = EndOf(c)
    BY DEF IsRun
  <1> HIDE DEF G
  <1>5. f \in G /\ l \in G /\ a \in G /\ f.start <= l.start
    BY DEF G, IsRun
  <1>6. SUFFICES ASSUME f # l  PROVE EndOf(f) = l.start \/ (EndOf(f) = a.start /\ EndOf(a) = l.start)
    OBVIOUS
  <1>7. f.start < l.start /\ EndOf(f) <= l.start
    BY <1>1, <1>2, <1>5, <1>6 DEF Apart
  <1>8. PICK d \in G : d.start = EndOf(f)
    BY <1>4, <1>5, <1>7
  <1>9. SUFFICES ASSUME d # l  PROVE EndOf(f) = a.start /\ EndOf(a) = l.start
    BY <1>8
  <1>10. d.start < l.start
    BY <1>1, <1>2, <1>5, <1>7, <1>8, <1>9 DEF Apart
  <1>11. PICK e \in G : e.start = EndOf(d)
    BY <1>1, <1>4, <1>5, <1>8, <1>10
  <1>12. d = a
    BY <1>1, <1>3, <1>5, <1>8, <1>11
  <1>13. e = l
    <2>1. SUFFICES ASSUME e # l  PROVE FALSE
      OBVIOUS
    <2>2. e.start < l.start
      BY <1>1, <1>2, <1>5, <1>9, <1>10, <1>11, <2>1 DEF Apart
    <2>3. PICK g \in G : g.start = EndOf(e)
      BY <1>1, <1>4, <1>5, <1>8, <1>11, <2>2
    <2> QED
      BY <1>1, <1>3, <1>5, <1>11, <1>12, <2>3
  <1> QED
    BY <1>8, <1>11, <1>12, <1>13

(* The merging pass after a free keeps the tiling and leaves no two free   *)
(* blocks abutting.                                                        *)
LEMMA ReleaseTiles ==
  ASSUME NEW cap \in Nat, NEW F \in SUBSET Block, NEW A \in SUBSET Block,
         Tiling(cap, F, A), NoneAbut(F), NEW a \in A
  PROVE  /\ Coalesce(F \cup {a}) \in SUBSET Block
         /\ Tiling(cap, Coalesce(F \cup {a}), A \ {a})
         /\ NoneAbut(Coalesce(F \cup {a}))
  <1> DEFINE G == F \cup {a}
             M(f, l) == [start |-> f.start, len |-> EndOf(l) - f.start]
             C == Coalesce(G)
             B == A \ {a}
  <1> USE DEF Block, EndOf
  <1>1. \A c \in G \cup B : c \in Block /\ c.len > 0 /\ EndOf(c) <= cap
    BY DEF Tiling, WellPlaced
  <1>2. \A c, d \in G \cup B : c # d => Apart(c, d)
    BY DEF Tiling, Apart
  <1>3. \A c \in G : c.start % ALIGNMENT = 0 /\ c.len % ALIGNMENT = 0
    BY DEF Tiling, WellPlaced
  <1>4. \A c, d \in G : EndOf(c) = d.start => c = a \/ d = a
    BY DEF NoneAbut
  <1>5. \A m : m \in C <=> \E f, l \in G : IsRun(G, f, l) /\ m = M(f, l)
    <2> DEFINE R == { r \in G \X G : IsRun(G, r[1], r[2]) }
               N(r) == [start |-> r[1].start, len |-> EndOf(r[2]) - r[1].start]
    <2> HIDE DEF G
    <2>1. C = { N(r) : r \in R }
      BY DEF Coalesce
    <2>2. ASSUME NEW m \in C
          PROVE  \E f, l \in G : IsRun(G, f, l) /\ m = M(f, l)
      <3>1. PICK r \in R : m = N(r)
        BY <2>1, <2>2
      <3>2. r[1] \in G /\ r[2] \in G /\ IsRun(G, r[1], r[2])
        OBVIOUS
      <3>3. m = M(r[1], r[2])
        BY <3>1
      <3> QED  BY <3>2, <3>3
    <2>3. ASSUME NEW f \in G, NEW l \in G, IsRun(G, f, l)
          PROVE  M(f, l) \in C
      <3>1. <<f, l>> \in R
        BY <2>3
      <3>2. M(f, l) = N(<<f, l>>)
        OBVIOUS
      <3> QED  BY <2>1, <3>1, <3>2
    <2> QED  BY <2>2, <2>3
  <1>6. \A f, l \in G : IsRun(G, f, l) =>
          \/ f = l
          \/ EndOf(f) = l.start
          \/ EndOf(f) = a.start /\ EndOf(a) = l.start
    BY RunsAreShort
  <1>7. \A f, l \in G : IsRun(G, f, l) =>
          /\ f.start <= l.start
          /\ \A c \in G : EndOf(c) # f.start /\ c.start # EndOf(l)
          /\ \A c \in G : f.start <= c.start /\ c.start < l.start
                           => \E d \in G : d.start = EndOf(c)
    BY DEF IsRun
  <1>8. a \in G /\ B \cap G = {}
    <2>1. a \notin B  OBVIOUS
    <2>2. \A c \in F : c \notin A
      BY DEF Tiling, WellPlaced, Apart
    <2> QED  BY <2>1, <2>2
  <1>9. \A x \in 0 .. cap - 1 : \E c \in G \cup B : c.start <= x /\ x < EndOf(c)
    <2>1. G \cup B = F \cup A
      OBVIOUS
    <2> QED  BY <2>1 DEF Tiling
  <1> HIDE DEF G, B, C
  \* a merged block is a nonempty part of the region
  <1>10. ASSUME NEW f \in G, NEW l \in G, IsRun(G, f, l)
         PROVE  /\ M(f, l) \in Block
                /\ M(f, l).len > 0
                /\ EndOf(M(f, l)) = EndOf(l)
                /\ EndOf(f) <= EndOf(l)
    BY <1>1, <1>2, <1>7, <1>10 DEF Apart
  <1>11. ASSUME NEW f \in G, NEW l \in G, IsRun(G, f, l)
         PROVE  WellPlaced(cap, M(f, l))
    <2>1. EndOf(l) % ALIGNMENT = 0
      BY <1>1, <1>3, AlignedArithmetic
    <2>2. (EndOf(l) - f.start) % ALIGNMENT = 0
      BY <1>1, <1>3, <1>10, <1>11, <2>1, AlignedArithmetic
    <2> QED
      BY <1>1, <1>3, <1>10, <1>11, <2>2 DEF WellPlaced
  \* a block inside a merged block is one of the run's blocks
  <1>12. ASSUME NEW f \in G, NEW l \in G, IsRun(G, f, l), NEW c \in G \cup B
         PROVE  c = f \/ c = l \/ (c = a /\ EndOf(f) = a.start) \/ Apart(c, M(f, l))
    BY <1>1, <1>2, <1>6, <1>8, <1>10, <1>12 DEF Apart
  <1>13. \A b \in C, c \in B : Apart(b, c)
    <2>1. SUFFICES ASSUME NEW f \in G, NEW l \in G, IsRun(G, f, l), NEW c \in B
                   PROVE  Apart(M(f, l), c)
      BY <1>5
    <2>2. Apart(c, M(f, l))
      BY <1>8, <1>12, <2>1
    <2> QED  BY <2>2 DEF Apart
  \* of two runs, the one that begins first ends before the other begins
  <1>14. ASSUME NEW f \in G, NEW l \in G, IsRun(G, f, l),
                NEW g \in G, NEW k \in G, IsRun(G, g, k),
                f.start < g.start
         PROVE  EndOf(l) <= g.start
    <2>1. g # f /\ ~ (g = a /\ EndOf(f) = a.start)
      BY <1>1, <1>7, <1>14
    <2>2. g # l
      BY <1>1, <1>6, <1>7, <1>8, <1>14
    <2>3. Apart(g, M(f, l))
      BY <1>12, <1>14, <2>1, <2>2
    <2> QED
      BY <1>1, <1>10, <1>14, <2>3 DEF Apart
  <1>15. ASSUME NEW f \in G, NEW l \in G, IsRun(G, f, l),
                NEW g \in G, NEW k \in G, IsRun(G, g, k),
                f.start = g.start
         PROVE  M(f, l) = M(g, k)
    <2>1. f = g
      BY <1>1, <1>2, <1>15 DEF Apart
    <2>2. ~ (l.start < k.start) /\ ~ (k.start < l.start)
      BY <1>1, <1>7, <1>15, <2>1
    <2>3. l = k
      BY <1>1, <1>2, <2>2 DEF Apart
    <2> QED  BY <2>1, <2>3
  <1>16. \A b, c \in C : b # c => Apart(b, c)
    <2>1. SUFFICES ASSUME NEW f \in G, NEW l \in G, IsRun(G, f, l),
                          NEW g \in G, NEW k \in G, IsRun(G, g, k),
                          M(f, l) # M(g, k)
                   PROVE  Apart(M(f, l), M(g, k))
      BY <1>5
    <2>2. f.start # g.start
      BY <1>15, <2>1
    <2>3. CASE f.start < g.start
      BY <1>10, <1>14, <2>1, <2>3 DEF Apart
    <2>4. CASE g.start < f.start
      BY <1>10, <1>14, <2>1, <2>4 DEF Apart
    <2> QED  BY <1>1, <2>2, <2>3, <2>4
  \* every block belongs to a run
  <1>17. ASSUME NEW c \in G
         PROVE  \E f, l \in G : IsRun(G, f, l) /\ f.start <= c.start /\ EndOf(c) <= EndOf(l)
    <2>1. CASE c # a /\ EndOf(c) # a.start /\ EndOf(a) # c.start
      <3>1. IsRun(G, c, c)
        BY <1>1, <1>4, <2>1 DEF IsRun
      <3> QED  BY <1>1, <3>1
    <2>2. CASE ~ (c # a /\ EndOf(c) # a.start /\ EndOf(a) # c.start)
      <3>1. PICK f \in G : \/ EndOf(f) = a.start
                           \/ f = a /\ \A d \in G : EndOf(d) # a.start
        BY <1>8
      <3>2. PICK l \in G : \/ l.start = EndOf(a)
                           \/ l = a /\ \A d \in G : d.start # EndOf(a)
        BY <1>8
      <3>3. f.start <= a.start /\ a.start <= l.start
        BY <1>1, <1>8, <3>1, <3>2
      <3>4. \A d \in G : EndOf(d) # f.start
        BY <1>1, <1>4, <1>8, <3>1
      <3>5. \A d \in G : d.start # EndOf(l)
        BY <1>1, <1>4, <1>8, <3>2
      <3>6. ASSUME NEW d \in G, f.start <= d.start, d.start < l.start
            PROVE  \E e \in G : e.start = EndOf(d)
        <4>1. d = f \/ d = a
          BY <1>1, <1>2, <1>8, <3>1, <3>2, <3>6 DEF Apart
        <4> QED
          BY <1>1, <1>8, <3>1, <3>2, <3>6, <4>1
      <3>7. IsRun(G, f, l)
        BY <1>1, <1>8, <3>3, <3>4, <3>5, <3>6 DEF IsRun
      <3>8. f.start <= c.start /\ EndOf(c) <= EndOf(l)
        BY <1>1, <1>2, <1>8, <2>2, <3>1, <3>2 DEF Apart
      <3> QED  BY <3>7, <3>8
    <2> QED  BY <2>1, <2>2
  <1>18. \A x \in 0 .. cap - 1 :
           \E b \in C \cup B : b.start <= x /\ x < EndOf(b)
    <2> TAKE x \in 0 .. cap - 1
    <2>1. PICK c \in G \cup B : c.start <= x /\ x < EndOf(c)
      BY <1>9
    <2>2. CASE c \in B
      BY <2>1, <2>2
    <2>3. CASE c \in G
      <3>1. PICK f \in G, l \in G :
              IsRun(G, f, l) /\ f.start <= c.start /\ EndOf(c) <= EndOf(l)
        BY <1>17, <2>3
      <3>2. M(f, l).start <= x /\ x < EndOf(M(f, l))
        BY <1>1, <1>10, <2>1, <3>1
      <3> QED  BY <1>5, <3>1, <3>2
    <2> QED  BY <2>2, <2>3
  <1>19. NoneAbut(C)
    <2>1. SUFFICES ASSUME NEW f \in G, NEW l \in G, IsRun(G, f, l),
                          NEW g \in G, NEW k \in G, IsRun(G, g, k)
                   PROVE  EndOf(M(f, l)) # M(g, k).start
      BY <1>5 DEF NoneAbut
    <2> QED
      BY <1>7, <1>10, <2>1
  <1>20. C \in SUBSET Block
    BY <1>5, <1>10
  <1>21. \A b \in C \cup B : WellPlaced(cap, b)
    BY <1>5, <1>11 DEF B, Tiling
  <1>22. \A b, c \in B : b # c => Apart(b, c)
    BY <1>2
  <1> QED
    BY <1>13, <1>16, <1>18, <1>19, <1>20, <1>21, <1>22 DEF Tiling, C, G, B

----------------------------------------------------------------------------

(* The facts about a tiling that the arguments below share.                *)
LEMMA TilingFacts ==
  ASSUME NEW cap \in Nat, NEW F \in SUBSET Block, NEW A \in SUBSET Block,
         Tiling(cap, F, A), NoneAbut(F)
  PROVE  /\ \A b \in F \cup A :
              /\ b.start \in Nat /\ b.len \in Nat /\ b.len > 0
              /\ EndOf(b) \in Nat /\ EndOf(b) <= cap /\ b.start < EndOf(b)
              /\ b.start % ALIGNMENT = 0
         /\ \A b \in F, a \in A : Apart(b, a)
         /\ \A b, c \in F : b # c => Apart(b, c)
         /\ \A b, c \in F : EndOf(b) # c.start
         /\ \A x \in 0 .. cap - 1 :
              \E b \in F \cup A : b.start <= x /\ x < EndOf(b)
  <1>1. \A b \in F \cup A :
          /\ b.start \in Nat /\ b.len \in Nat /\ b.len > 0
          /\ EndOf(b) \in Nat /\ EndOf(b) <= cap /\ b.start < EndOf(b)
          /\ b.start % ALIGNMENT = 0
    BY DEF Tiling, WellPlaced, EndOf, Block
  <1> QED
    BY <1>1 DEF Tiling, NoneAbut

(* A range clear of the live allocations lies inside one free block: the   *)
(* byte after a free block that ends early would belong to a free block    *)
(* abutting it.                                                            *)
LEMMA ClearRangeIsFree ==
  ASSUME NEW cap \in Nat, NEW F \in SUBSET Block, NEW A \in SUBSET Block,
         Tiling(cap, F, A), NoneAbut(F),
         NEW s \in Nat, NEW e \in Nat, s < e, e <= cap,
         \A a \in A : EndOf(a) <= s \/ e <= a.start
  PROVE  \E c \in F : c.start <= s /\ e <= EndOf(c)
  <1> USE TilingFacts
  <1>1. PICK c \in F \cup A : c.start <= s /\ s < EndOf(c)
    OBVIOUS
  <1>2. c \in F
    BY <1>1
  <1>3. SUFFICES ASSUME EndOf(c) < e  PROVE FALSE
    BY <1>1, <1>2
  <1>4. PICK d \in F \cup A : d.start <= EndOf(c) /\ EndOf(c) < EndOf(d)
    BY <1>2, <1>3
  <1>5. d \in F
    BY <1>1, <1>2, <1>3, <1>4
  <1>6. d # c
    BY <1>4, <1>5
  <1> QED
    BY <1>2, <1>4, <1>5, <1>6 DEF Apart

(* The free list is the set of maximal gaps between live allocations.      *)
LEMMA FreeListIsGaps ==
  ASSUME NEW cap \in Nat, NEW F \in SUBSET Block, NEW A \in SUBSET Block,
         Tiling(cap, F, A), NoneAbut(F)
  PROVE  F = Gaps(cap, A)
  <1>0. \A s, e \in Nat :
          (s < e /\ e <= cap /\ \A a \in A : EndOf(a) <= s \/ e <= a.start)
            => \E c \in F : c.start <= s /\ e <= EndOf(c)
    BY ClearRangeIsFree
  <1> USE TilingFacts
  <1> DEFINE S == {0} \cup { EndOf(a) : a \in A }
             E == {cap} \cup { a.start : a \in A }
             Clear(s, e) == /\ s < e
                            /\ \A a \in A : EndOf(a) <= s \/ e <= a.start
             Gap(s, e) == [start |-> s, len |-> e - s]
             Q == { q \in S \X E : Clear(q[1], q[2]) }
  <1>1. Gaps(cap, A) = { Gap(r[1], r[2]) : r \in Q }
    BY DEF Gaps
  <1>2. ASSUME NEW b \in F
        PROVE  /\ b.start \in S /\ EndOf(b) \in E
               /\ Clear(b.start, EndOf(b))
               /\ b = Gap(b.start, EndOf(b))
    <2>1. b.start \in S
      <3>1. SUFFICES ASSUME b.start > 0
                     PROVE  \E a \in A : b.start = EndOf(a)
        OBVIOUS
      <3>2. PICK d \in F \cup A : d.start <= b.start - 1 /\ b.start - 1 < EndOf(d)
        BY <3>1
      <3>3. EndOf(d) = b.start
        BY <3>2 DEF Apart
      <3> QED  BY <3>3
    <2>2. EndOf(b) \in E
      <3>1. SUFFICES ASSUME EndOf(b) < cap
                     PROVE  \E a \in A : EndOf(b) = a.start
        OBVIOUS
      <3>2. PICK d \in F \cup A : d.start <= EndOf(b) /\ EndOf(b) < EndOf(d)
        BY <3>1
      <3>3. d.start = EndOf(b)
        BY <3>2 DEF Apart
      <3> QED  BY <3>3
    <2>3. Clear(b.start, EndOf(b))
      BY DEF Apart
    <2>4. b = Gap(b.start, EndOf(b))
      <3>1. b \in Block
        OBVIOUS
      <3> QED  BY <3>1 DEF Block, EndOf
    <2> QED  BY <2>1, <2>2, <2>3, <2>4
  <1>3. ASSUME NEW s \in S, NEW e \in E, Clear(s, e)
        PROVE  Gap(s, e) \in F
    <2>1. s \in Nat /\ e \in Nat /\ s < e /\ e <= cap
      BY <1>3
    <2>2. PICK c \in F : c.start <= s /\ e <= EndOf(c)
      <3>1. \A a \in A : EndOf(a) <= s \/ e <= a.start
        BY <1>3
      <3> QED  BY <1>0, <2>1, <3>1
    <2>3. c.start = s
      <3>1. CASE s = 0
        BY <2>2, <3>1
      <3>2. CASE \E a \in A : s = EndOf(a)
        BY <2>1, <2>2, <3>2 DEF Apart
      <3> QED  BY <3>1, <3>2
    <2>4. EndOf(c) = e
      <3>1. CASE e = cap
        BY <2>2, <3>1
      <3>2. CASE \E a \in A : e = a.start
        BY <2>1, <2>2, <3>2 DEF Apart
      <3> QED  BY <3>1, <3>2
    <2>5. c = Gap(s, e)
      BY <1>2, <2>3, <2>4
    <2> QED  BY <2>5
  <1> HIDE DEF S, E, Clear
  <1>4. \A b \in F : b \in Gaps(cap, A)
    <2> TAKE b \in F
    <2>1. <<b.start, EndOf(b)>> \in Q
      BY <1>2
    <2>2. b = Gap(<<b.start, EndOf(b)>>[1], <<b.start, EndOf(b)>>[2])
      BY <1>2
    <2> QED  BY <1>1, <2>1, <2>2
  <1>5. \A g \in Gaps(cap, A) : g \in F
    <2> TAKE g \in Gaps(cap, A)
    <2>1. PICK r \in Q : g = Gap(r[1], r[2])
      BY <1>1
    <2>2. r[1] \in S /\ r[2] \in E /\ Clear(r[1], r[2])
      OBVIOUS
    <2> QED  BY <1>3, <2>1, <2>2
  <1> QED  BY <1>4, <1>5

(* The offsets at which n bytes fit are covered by free blocks.            *)
LEMMA FitIsInsideFree ==
  ASSUME NEW cap \in Nat, NEW F \in SUBSET Block, NEW A \in SUBSET Block,
         Tiling(cap, F, A), NoneAbut(F),
         NEW n \in Nat, n > 0, NEW s \in FitsAt(cap, A, n)
  PROVE  s \in Nat /\ \E c \in F : c.start <= s /\ c.len >= n
  <1>1. /\ s \in Nat /\ s + n \in Nat /\ s < s + n /\ s + n <= cap
        /\ \A a \in A : EndOf(a) <= s \/ s + n <= a.start
    BY DEF FitsAt
  <1>2. PICK c \in F : c.start <= s /\ s + n <= EndOf(c)
    BY <1>1, ClearRangeIsFree
  <1> QED
    BY <1>1, <1>2, TilingFacts DEF EndOf

(* First fit over the free list is the lowest fit between the allocations. *)
LEMMA FirstFitIsLowest ==
  ASSUME NEW cap \in Nat, NEW F \in SUBSET Block, NEW A \in SUBSET Block,
         Tiling(cap, F, A), NoneAbut(F),
         NEW n \in Nat, n > 0, NEW b \in F, IsFirstFit(F, n, b)
  PROVE  b.start \in FitsAt(cap, A, n) /\ \A s \in FitsAt(cap, A, n) : b.start <= s
  <1>1. b.len >= n /\ \A c \in F : c.len >= n => b.start <= c.start
    BY DEF IsFirstFit
  <1>2. b.start \in FitsAt(cap, A, n)
    BY <1>1, TilingFacts DEF FitsAt, Apart, EndOf
  <1>3. \A s \in FitsAt(cap, A, n) : b.start <= s
    BY <1>1, FitIsInsideFree, TilingFacts
  <1> QED
    BY <1>2, <1>3

(* When no free block is long enough, the size fits nowhere.               *)
LEMMA NoneLongEnough ==
  ASSUME NEW cap \in Nat, NEW F \in SUBSET Block, NEW A \in SUBSET Block,
         Tiling(cap, F, A), NoneAbut(F),
         NEW n \in Nat, n > 0, \A b \in F : b.len < n
  PROVE  FitsAt(cap, A, n) = {}
  BY FitIsInsideFree, TilingFacts

(* What the provers need to know of a block.                               *)
LEMMA BlockFacts ==
  ASSUME NEW b \in Block
  PROVE  b.start \in Nat /\ b.len \in Nat /\ EndOf(b) = b.start + b.len
         /\ EndOf(b) \in Nat /\ b = [start |-> b.start, len |-> b.len]
  BY DEF Block, EndOf

(* Two abutting free blocks may be made one.                               *)
LEMMA MergeTiles ==
  ASSUME NEW cap \in Nat, NEW F \in SUBSET Block, NEW A \in SUBSET Block,
         Tiling(cap, F, A), NEW b \in F, NEW c \in F, EndOf(b) = c.start
  PROVE  LET d == [start |-> b.start, len |-> b.len + c.len]
         IN  d \in Block /\ Tiling(cap, (F \ {b, c}) \cup {d}, A)
  <1> DEFINE d == [start |-> b.start, len |-> b.len + c.len]
             G == (F \ {b, c}) \cup {d}
  <1>1. \A x \in F \cup A : /\ x \in Block /\ x.start \in Nat /\ x.len \in Nat
                            /\ x.len > 0 /\ EndOf(x) = x.start + x.len
                            /\ EndOf(x) <= cap
                            /\ x.start % ALIGNMENT = 0 /\ x.len % ALIGNMENT = 0
    BY BlockFacts DEF Tiling, WellPlaced
  <1>2. /\ d \in Block /\ d.start = b.start /\ d.len = b.len + c.len
        /\ EndOf(d) = EndOf(c) /\ d.start \in Nat /\ EndOf(d) \in Nat
    BY <1>1 DEF Block, EndOf
  <1>3. WellPlaced(cap, d)
    <2>1. d.len % ALIGNMENT = 0
      BY <1>1, <1>2, AlignedArithmetic
    <2> QED
      BY <1>1, <1>2, <2>1 DEF WellPlaced
  <1>4. b # c
    BY <1>1
  <1>5. ASSUME NEW x \in F \cup A, x # b, x # c
        PROVE  Apart(d, x) /\ Apart(x, d)
    <2>1. Apart(b, x) /\ Apart(c, x)
      BY <1>5 DEF Tiling
    <2> QED
      BY <1>1, <1>2, <2>1 DEF Apart
  <1> HIDE DEF d
  <1>6. \A x \in G \cup A : WellPlaced(cap, x)
    BY <1>3 DEF Tiling
  <1>7. \A x \in G, y \in A : Apart(x, y)
    <2>1. \A y \in A : y # b /\ y # c
      <3>1. \A y \in A : Apart(b, y) /\ Apart(c, y)
        BY DEF Tiling
      <3> QED
        BY <1>1, <3>1 DEF Apart
    <2> QED
      BY <1>5, <2>1 DEF Tiling
  <1>8. \A x, y \in G : x # y => Apart(x, y)
    BY <1>5 DEF Tiling
  <1>9. \A x, y \in A : x # y => Apart(x, y)
    BY DEF Tiling
  <1>10. ASSUME NEW z \in 0 .. cap - 1
         PROVE  \E x \in G \cup A : x.start <= z /\ z < EndOf(x)
    <2>1. PICK x \in F \cup A : x.start <= z /\ z < EndOf(x)
      BY DEF Tiling
    <2>2. CASE x = b \/ x = c
      <3>1. d.start <= z /\ z < EndOf(d)
        BY <1>1, <1>2, <2>1, <2>2
      <3> QED
        BY <3>1
    <2> QED
      BY <2>1, <2>2
  <1> QED
    BY <1>2, <1>6, <1>7, <1>8, <1>9, <1>10 DEF Tiling, d

=============================================================================
