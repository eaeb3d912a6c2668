------------------------ MODULE SymmetricHeapProofs ------------------------
(***************************************************************************)
(* Proofs that the heaps of all PEs are symmetric, for any number of PEs,  *)
(* any bases, heap size and request sizes and any program: an allocation   *)
(* is determined by the program before it, not by how a PE got there.      *)
(***************************************************************************)
EXTENDS SymmetricHeap, HeapTilingProofs

Cap == CapacityOf(HeapSize)

(* The objects the first i calls have allocated and not freed.             *)
Live(i) ==
  { o \in 1 .. i : /\ program[o].op = "malloc"
                   /\ \A j \in 1 .. i : program[j].op = "free" => o \notin program[j].objects }

(* The program asks for sizes of Sizes, and frees what is live.            *)
Program ==
  \A i \in 1 .. Len(program) :
    \/ program[i].op = "malloc" /\ program[i].size \in Sizes
    \/ program[i].op = "free" /\ program[i].objects \subseteq Live(i - 1)

(* The range of object o on PE p.                                          *)
Extent(p, o) == [start |-> ptr[p][o] - Base[p], len |-> RoundUp(program[o].size)]

(* The objects that PE p's heap holds: the live ones and those of the      *)
(* present group that it has still to free.                                *)
Held(p) == { o \in Live(done[p]) \cup pending[p] : ptr[p][o] # Null }
Allocated(p) == { Extent(p, o) : o \in Held(p) }

(* The ranges on PE p of the objects that were live before object o.       *)
Before(p, o) == { Extent(p, x) : x \in { y \in Live(o - 1) : ptr[p][y] # Null } }

(* What PE p was given for object o is the lowest fit among those.         *)
LowestFit(p, o) ==
  LET fits == FitsAt(Cap, Before(p, o), RoundUp(program[o].size))
  IN  IF ptr[p][o] = Null
      THEN fits = {}
      ELSE ptr[p][o] - Base[p] \in fits /\ \A s \in fits : ptr[p][o] - Base[p] <= s

ProgramCalls == [op : {"malloc", "free"}, size : Nat, objects : SUBSET Nat]

Types ==
  /\ program \in Seq(ProgramCalls)
  /\ done \in [PEs -> Nat]
  /\ \A p \in PEs : done[p] <= Len(program)
  /\ free \in [PEs -> SUBSET Block]
  /\ DOMAIN allocs = PEs /\ DOMAIN ptr = PEs /\ DOMAIN pending = PEs
  /\ \A p \in PEs : /\ DOMAIN ptr[p] = { o \in 1 .. done[p] : program[o].op = "malloc" }
                    /\ \A o \in DOMAIN ptr[p] : \/ ptr[p][o] = Null
                                                \/ ptr[p][o] \in Base[p] .. Base[p] + Cap

(* PE p's heap: the free list and the held objects tile the region.        *)
HeapInv(p) ==
  /\ \A o \in pending[p] : o \in DOMAIN ptr[p] /\ ptr[p][o] # Null /\ o \notin Live(done[p])
  /\ \A o \in Held(p) : /\ ptr[p][o] \in DOMAIN allocs[p]
                        /\ allocs[p][ptr[p][o]] = RoundUp(program[o].size)
  /\ \A o, x \in Held(p) : o # x => ptr[p][o] # ptr[p][x]
  /\ Tiling(Cap, free[p], Allocated(p)) /\ NoneAbut(free[p])

(* The same offset, or no object, on both PEs.                             *)
Same(p, q, o) ==
  IF ptr[p][o] = Null \/ ptr[q][o] = Null
  THEN ptr[p][o] = ptr[q][o]
  ELSE ptr[p][o] - Base[p] = ptr[q][o] - Base[q]

(* The inductive invariant.                                                *)
SymInv ==
  /\ Types /\ Program
  /\ \A p \in PEs : HeapInv(p)
  /\ \A p \in PEs : \A o \in DOMAIN ptr[p] : LowestFit(p, o)
  /\ \A p, q \in PEs : \A o \in DOMAIN ptr[p] \cap DOMAIN ptr[q] : Same(p, q, o)

LEMMA Constants ==
  /\ Cap \in Nat /\ Cap >= ALIGNMENT /\ Cap % ALIGNMENT = 0
  /\ \A p \in PEs : Base[p] \in Nat /\ Base[p] > 0 /\ Base[p] + Cap <= UsizeMax
  /\ UsizeMax \in Nat /\ Sizes \subseteq Nat \ {0}
  BY SymmetricAssumption, CapacityOfFacts DEF Cap

LEMMA ProgramFacts ==
  ASSUME SymInv
  PROVE  /\ Len(program) \in Nat /\ DOMAIN program = 1 .. Len(program)
         /\ program \in Seq(ProgramCalls)
         /\ \A i \in 1 .. Len(program) : program[i].op \in {"malloc", "free"}
         /\ \A i \in 1 .. Len(program) :
              program[i].op = "malloc" =>
                /\ RoundUp(program[i].size) \in Nat
                /\ RoundUp(program[i].size) > 0
                /\ RoundUp(program[i].size) % ALIGNMENT = 0
  <1>1. program \in Seq(ProgramCalls)
    BY DEF SymInv, Types
  <1>2. Len(program) \in Nat /\ DOMAIN program = 1 .. Len(program)
    BY <1>1
  <1>3. \A i \in 1 .. Len(program) : program[i].op \in {"malloc", "free"}
    BY DEF SymInv, Program
  <1>4. ASSUME NEW i \in 1 .. Len(program), program[i].op = "malloc"
        PROVE  /\ RoundUp(program[i].size) \in Nat /\ RoundUp(program[i].size) > 0
               /\ RoundUp(program[i].size) % ALIGNMENT = 0
    <2>1. program[i].size \in Sizes
      BY <1>4 DEF SymInv, Program
    <2>2. \A size \in Sizes : size \in Nat /\ size > 0
      BY Constants
    <2> QED
      BY <2>1, <2>2, RoundUpFacts
  <1> QED
    BY <1>1, <1>2, <1>3, <1>4

LEMMA PeFacts ==
  ASSUME SymInv, NEW p \in PEs
  PROVE  /\ done[p] \in Nat /\ done[p] <= Len(program)
         /\ free[p] \in SUBSET Block
         /\ DOMAIN done = PEs /\ DOMAIN free = PEs
         /\ DOMAIN allocs = PEs /\ DOMAIN ptr = PEs /\ DOMAIN pending = PEs
         /\ DOMAIN ptr[p] = { o \in 1 .. done[p] : program[o].op = "malloc" }
         /\ \A o \in DOMAIN ptr[p] : \/ ptr[p][o] = Null
                                     \/ ptr[p][o] \in Base[p] .. Base[p] + Cap
         /\ HeapInv(p)
  BY DEF SymInv, Types

(* What is live is live on every PE that has got as far.                   *)
LEMMA LiveHasPtr ==
  ASSUME SymInv, NEW p \in PEs, NEW i \in Nat, i <= done[p]
  PROVE  Live(i) \subseteq DOMAIN ptr[p]
  BY PeFacts DEF Live

LEMMA HeldHasPtr ==
  ASSUME SymInv, NEW p \in PEs
  PROVE  Held(p) \subseteq DOMAIN ptr[p]
  BY PeFacts, LiveHasPtr DEF Held, HeapInv

LEMMA ExtentFacts ==
  ASSUME SymInv, NEW p \in PEs, NEW o \in DOMAIN ptr[p], ptr[p][o] # Null
  PROVE  /\ Extent(p, o) \in Block /\ ptr[p][o] \in Nat
         /\ Extent(p, o).start + Base[p] = ptr[p][o]
  <1>1. o \in 1 .. Len(program) /\ program[o].op = "malloc"
    BY PeFacts, ProgramFacts
  <1>2. RoundUp(program[o].size) \in Nat
    BY <1>1, ProgramFacts
  <1>3. ptr[p][o] \in Base[p] .. Base[p] + Cap
    BY PeFacts
  <1> QED
    BY <1>2, <1>3, Constants DEF Extent, Block

LEMMA TilingOf ==
  ASSUME SymInv, NEW p \in PEs
  PROVE  /\ Cap \in Nat /\ free[p] \in SUBSET Block /\ Allocated(p) \in SUBSET Block
         /\ Tiling(Cap, free[p], Allocated(p)) /\ NoneAbut(free[p])
  <1>1. Allocated(p) \in SUBSET Block
    BY HeldHasPtr, ExtentFacts DEF Allocated, Held
  <1> QED
    BY <1>1, PeFacts, Constants DEF HeapInv

(* How a call changes what is live.                                        *)
LEMMA LiveStep ==
  ASSUME SymInv, NEW i \in 1 .. Len(program)
  PROVE  /\ program[i].op = "malloc" => Live(i) = Live(i - 1) \cup {i} /\ i \notin Live(i - 1)
         /\ program[i].op = "free" => Live(i) = Live(i - 1) \ program[i].objects
  <1>1. Len(program) \in Nat /\ i \in Nat /\ i >= 1 /\ i <= Len(program)
    BY ProgramFacts
  <1>2. 1 .. i = (1 .. i - 1) \cup {i} /\ i \notin 1 .. i - 1
    BY <1>1
  <1>3. CASE program[i].op = "malloc"
    <2>1. \A j \in 1 .. i : program[j].op = "free" => i \notin program[j].objects
      <3>1. ASSUME NEW j \in 1 .. i, program[j].op = "free", i \in program[j].objects
            PROVE  FALSE
        <4>1. j \in 1 .. Len(program) /\ j <= i
          BY <1>1
        <4>2. i \in Live(j - 1)
          BY <3>1, <4>1 DEF SymInv, Program
        <4> QED
          BY <1>1, <4>1, <4>2 DEF Live
      <3> QED
        BY <3>1
    <2> QED
      BY <1>2, <1>3, <2>1 DEF Live
  <1>4. CASE program[i].op = "free"
    BY <1>2, <1>4 DEF Live
  <1> QED
    BY <1>3, <1>4

LEMMA InitInv == Init => SymInv
  <1> SUFFICES ASSUME Init  PROVE SymInv
    OBVIOUS
  <1> USE DEF Init
  <1>1. Len(program) = 0 /\ program \in Seq(ProgramCalls)
    OBVIOUS
  <1>2. /\ [start |-> 0, len |-> Cap] \in Block
        /\ Tiling(Cap, {[start |-> 0, len |-> Cap]}, {})
        /\ NoneAbut({[start |-> 0, len |-> Cap]})
    BY Constants, FreshTiles
  <1>3. Types
    BY <1>1, <1>2 DEF Types, Cap
  <1>4. ASSUME NEW p \in PEs  PROVE HeapInv(p)
    <2>1. Held(p) = {}
      BY DEF Held, Live
    <2>2. Allocated(p) = {}
      BY <2>1 DEF Allocated
    <2> QED
      BY <1>2, <2>1, <2>2 DEF HeapInv, Cap
  <1> QED
    BY <1>1, <1>3, <1>4 DEF SymInv, Program

----------------------------------------------------------------------------

(* The program and the pointers given out are only ever added to.          *)
Grows ==
  /\ Len(program') \in Nat /\ Len(program) <= Len(program')
  /\ \A i \in 1 .. Len(program) : program'[i] = program[i]
  /\ \A p \in PEs : \A o \in DOMAIN ptr[p] : ptr'[p][o] = ptr[p][o]

LEMMA LiveStays ==
  ASSUME SymInv, Grows, NEW i \in Nat, i <= Len(program)
  PROVE  Live(i)' = Live(i)
  <1>1. Len(program) \in Nat
    BY ProgramFacts
  <1>2. \A j \in 1 .. i : program'[j] = program[j]
    BY <1>1 DEF Grows
  <1> QED
    BY <1>2 DEF Live

LEMMA ExtentStays ==
  ASSUME SymInv, Grows, NEW p \in PEs, NEW o \in DOMAIN ptr[p]
  PROVE  Extent(p, o)' = Extent(p, o) /\ ptr'[p][o] = ptr[p][o]
  <1>1. o \in 1 .. Len(program)
    BY PeFacts, ProgramFacts
  <1> QED
    BY <1>1 DEF Grows, Extent

(* What was live before an object stays where it was.                      *)
LEMMA BeforeStays ==
  ASSUME SymInv, Grows, NEW p \in PEs, NEW o \in 1 .. Len(program), o <= done[p] + 1
  PROVE  Before(p, o)' = Before(p, o)
  <1>1. o - 1 \in Nat /\ o - 1 <= done[p] /\ o - 1 <= Len(program)
    BY PeFacts, ProgramFacts
  <1>2. Live(o - 1)' = Live(o - 1) /\ Live(o - 1) \subseteq DOMAIN ptr[p]
    BY <1>1, LiveStays, LiveHasPtr
  <1> QED
    BY <1>2, ExtentStays DEF Before

LEMMA FitStays ==
  ASSUME SymInv, Grows, NEW p \in PEs, NEW o \in DOMAIN ptr[p]
  PROVE  LowestFit(p, o)'
  <1>1. o \in 1 .. Len(program) /\ o <= done[p] + 1
    BY PeFacts, ProgramFacts
  <1>2. Before(p, o)' = Before(p, o) /\ ptr'[p][o] = ptr[p][o] /\ program'[o] = program[o]
    BY <1>1, BeforeStays DEF Grows
  <1>3. LowestFit(p, o)
    BY DEF SymInv
  <1>4. Cap' = Cap /\ Base' = Base
    BY DEF Cap
  <1> QED
    BY <1>2, <1>3, <1>4 DEF LowestFit

(* A PE whose own state does not change keeps its heap.                    *)
LEMMA HeapStays ==
  ASSUME SymInv, Grows, NEW p \in PEs, ptr'[p] = ptr[p], done'[p] = done[p],
         pending'[p] = pending[p], free'[p] = free[p], allocs'[p] = allocs[p]
  PROVE  HeapInv(p)'
  <1>1. Live(done[p])' = Live(done[p])
    BY PeFacts, LiveStays
  <1>2. Held(p)' = Held(p)
    BY <1>1 DEF Held
  <1>3. \A o \in Held(p) : Extent(p, o)' = Extent(p, o) /\ program'[o] = program[o]
    <2>1. \A o \in DOMAIN ptr[p] : o \in 1 .. Len(program)
      BY PeFacts, ProgramFacts
    <2> QED
      BY <2>1, HeldHasPtr, ExtentStays DEF Grows
  <1>4. Allocated(p)' = Allocated(p)
    BY <1>2, <1>3 DEF Allocated
  <1>5. Cap' = Cap
    BY DEF Cap
  <1> QED
    BY <1>1, <1>2, <1>3, <1>4, <1>5, PeFacts DEF HeapInv

(* Two PEs that were given the lowest fit agree, if they agree on what was *)
(* live before.                                                            *)
LEMMA Agreement ==
  ASSUME SymInv, Grows, NEW p \in PEs, NEW q \in PEs, NEW o \in 1 .. Len(program),
         o <= done[p] + 1, o <= done[q] + 1, LowestFit(p, o)', LowestFit(q, o)',
         ptr'[p][o] = Null \/ ptr'[p][o] \in Nat, ptr'[q][o] = Null \/ ptr'[q][o] \in Nat
  PROVE  Same(p, q, o)'
  <1>1. Before(p, o)' = Before(q, o)'
    <2>1. /\ o - 1 \in Nat /\ o - 1 <= done[p] /\ o - 1 <= done[q]
      BY PeFacts, ProgramFacts
    <2>2. Live(o - 1) \subseteq DOMAIN ptr[p] \cap DOMAIN ptr[q]
      BY <2>1, LiveHasPtr
    <2>3. \A x \in Live(o - 1) : Same(p, q, x)
      BY <2>2 DEF SymInv
    <2>4. \A x \in Live(o - 1) : ptr[p][x] = Null <=> ptr[q][x] = Null
      BY <2>3 DEF Same
    <2>5. \A x \in Live(o - 1) : ptr[p][x] # Null => Extent(p, x) = Extent(q, x)
      BY <2>3, <2>4 DEF Same, Extent
    <2>6. Before(p, o) = Before(q, o)
      BY <2>4, <2>5 DEF Before
    <2> QED
      BY <2>6, BeforeStays
  <1> DEFINE fits == FitsAt(Cap, Before(p, o), RoundUp(program[o].size))'
  <1>2. /\ ptr'[p][o] = Null => fits = {}
        /\ ptr'[q][o] = Null => fits = {}
        /\ ptr'[p][o] # Null => ptr'[p][o] - Base[p] \in fits /\ \A s \in fits : ptr'[p][o] - Base[p] <= s
        /\ ptr'[q][o] # Null => ptr'[q][o] - Base[q] \in fits /\ \A s \in fits : ptr'[q][o] - Base[q] <= s
    BY <1>1 DEF LowestFit
  <1> HIDE DEF fits
  <1>3. CASE ptr'[p][o] = Null \/ ptr'[q][o] = Null
    BY <1>2, <1>3 DEF Same
  <1>4. CASE ptr'[p][o] # Null /\ ptr'[q][o] # Null
    <2>1. /\ ptr'[p][o] - Base[p] <= ptr'[q][o] - Base[q]
          /\ ptr'[q][o] - Base[q] <= ptr'[p][o] - Base[p]
      BY <1>2, <1>4
    <2>2. ptr'[p][o] - Base[p] \in Int /\ ptr'[q][o] - Base[q] \in Int
      <3>1. Base[p] \in Nat /\ Base[q] \in Nat
        BY Constants
      <3>2. ptr'[p][o] \in Nat /\ ptr'[q][o] \in Nat
        BY <1>4
      <3> QED
        BY <3>1, <3>2
    <2> QED
      BY <1>4, <2>1, <2>2 DEF Same
  <1> QED
    BY <1>3, <1>4

(* A step of PE p: what is left to show.                                   *)
LEMMA OnePe ==
  ASSUME SymInv, Grows, UNCHANGED program, NEW p \in PEs, Types', HeapInv(p)',
         \A q \in PEs : q # p => /\ ptr'[q] = ptr[q] /\ done'[q] = done[q]
                                 /\ pending'[q] = pending[q]
                                 /\ free'[q] = free[q] /\ allocs'[q] = allocs[q],
         \A o \in DOMAIN ptr'[p] : o \in DOMAIN ptr[p] \/ (o = done[p] + 1 /\ LowestFit(p, o)')
  PROVE  SymInv'
  <1>1. Program'
    <2>1. ASSUME NEW i \in 1 .. Len(program)  PROVE Live(i - 1)' = Live(i - 1)
      BY ProgramFacts, LiveStays
    <2> QED
      BY <2>1 DEF SymInv, Program
  <1>2. ASSUME NEW q \in PEs  PROVE HeapInv(q)'
    BY HeapStays
  <1>3. ASSUME NEW q \in PEs, NEW o \in DOMAIN ptr'[q]  PROVE LowestFit(q, o)'
    BY FitStays
  <1>4. ASSUME NEW q \in PEs, NEW o \in DOMAIN ptr'[q]
        PROVE  /\ o \in 1 .. Len(program) /\ o <= done[q] + 1
               /\ ptr'[q][o] = Null \/ ptr'[q][o] \in Nat
    <2>1. o \in 1 .. done'[q] /\ done'[q] \in Nat /\ done'[q] <= Len(program)
      BY DEF Types
    <2>2. o \in 1 .. Len(program)
      BY <2>1, ProgramFacts
    <2>3. o <= done[q] + 1
      <3>1. CASE o \in DOMAIN ptr[q]
        BY <3>1, PeFacts
      <3>2. CASE o \notin DOMAIN ptr[q]
        BY <2>1, <3>2, PeFacts
      <3> QED
        BY <3>1, <3>2
    <2>4. ptr'[q][o] = Null \/ ptr'[q][o] \in Base[q] .. Base[q] + Cap
      BY DEF Types, Cap
    <2> QED
      BY <2>2, <2>3, <2>4, Constants
  <1>5. ASSUME NEW q \in PEs, NEW r \in PEs, NEW o \in DOMAIN ptr'[q] \cap DOMAIN ptr'[r]
        PROVE  Same(q, r, o)'
    BY <1>3, <1>4, Agreement
  <1> QED
    BY <1>1, <1>2, <1>3, <1>5 DEF SymInv

----------------------------------------------------------------------------

LEMMA ProgramCallKeeps ==
  ASSUME SymInv, ProgramCall
  PROVE  SymInv'
  <1> DEFINE n == Len(program)
  <1>1. UNCHANGED <<done, pending, free, allocs, ptr>>
    BY DEF ProgramCall
  <1>2. PICK c \in ProgramCalls :
          /\ program' = Append(program, c)
          /\ \/ c.op = "malloc" /\ c.size \in Sizes
             \/ c.op = "free" /\ c.objects \subseteq Live(n)
    <2>1. CASE \E size \in Sizes :
                 program' = Append(program, [op |-> "malloc", size |-> size, objects |-> {}])
      <3>1. PICK size \in Sizes :
              program' = Append(program, [op |-> "malloc", size |-> size, objects |-> {}])
        BY <2>1
      <3>2. [op |-> "malloc", size |-> size, objects |-> {}] \in ProgramCalls
        BY Constants DEF ProgramCalls
      <3> QED
        BY <3>1, <3>2
    <2>2. CASE \E group \in (SUBSET Unfreed) \ {{}} :
                 program' = Append(program, [op |-> "free", size |-> 0, objects |-> group])
      <3>1. PICK group \in SUBSET Unfreed :
              program' = Append(program, [op |-> "free", size |-> 0, objects |-> group])
        BY <2>2
      <3>2. Unfreed \subseteq Live(n)
        BY DEF Unfreed, Objects, Live
      <3>3. Live(n) \subseteq Nat
        BY ProgramFacts DEF Live
      <3>4. [op |-> "free", size |-> 0, objects |-> group] \in ProgramCalls
        BY <3>2, <3>3 DEF ProgramCalls
      <3> QED
        BY <3>1, <3>2, <3>4
    <2> QED
      BY <2>1, <2>2 DEF ProgramCall
  <1>3. /\ program' \in Seq(ProgramCalls) /\ Len(program') = n + 1
        /\ program'[n + 1] = c /\ \A i \in 1 .. n : program'[i] = program[i]
    BY <1>2, ProgramFacts
  <1>4. n \in Nat /\ Len(program') \in Nat /\ n <= Len(program')
    BY <1>3, ProgramFacts
  <1>5. Grows
    BY <1>1, <1>3, <1>4 DEF Grows
  <1>6. Program'
    <2> SUFFICES ASSUME NEW i \in 1 .. n + 1
                 PROVE  \/ program'[i].op = "malloc" /\ program'[i].size \in Sizes
                        \/ program'[i].op = "free" /\ program'[i].objects \subseteq Live(i - 1)'
      BY <1>3 DEF Program
    <2>1. i - 1 \in Nat /\ i - 1 <= n
      BY <1>4
    <2>2. Live(i - 1)' = Live(i - 1)
      BY <1>5, <2>1, LiveStays
    <2>3. CASE i = n + 1
      <3>1. Live(i - 1) = Live(n)
        BY <1>4, <2>3
      <3> QED
        BY <1>2, <1>3, <2>2, <2>3, <3>1
    <2>4. CASE i # n + 1
      <3>1. i \in 1 .. n
        BY <1>4, <2>4
      <3> QED
        BY <1>3, <2>2, <3>1 DEF SymInv, Program
    <2> QED
      BY <2>3, <2>4
  <1>7. Types'
    <2>1. ASSUME NEW p \in PEs
          PROVE  /\ done[p] <= Len(program')
                 /\ DOMAIN ptr[p] = { o \in 1 .. done[p] : program'[o].op = "malloc" }
      <3>1. done[p] \in Nat /\ done[p] <= n
        BY PeFacts
      <3>2. \A o \in 1 .. done[p] : program'[o] = program[o]
        BY <1>3, <1>4, <3>1
      <3> QED
        BY <1>3, <1>4, <3>1, <3>2, PeFacts
    <2>2. Cap' = Cap /\ ProgramCalls' = ProgramCalls
      BY DEF Cap, ProgramCalls
    <2> QED
      BY <1>1, <1>3, <2>1, <2>2 DEF SymInv, Types
  <1>8. ASSUME NEW p \in PEs  PROVE HeapInv(p)'
    BY <1>1, <1>5, HeapStays
  <1>9. ASSUME NEW p \in PEs, NEW o \in DOMAIN ptr[p]  PROVE LowestFit(p, o)'
    BY <1>5, FitStays
  <1>10. ASSUME NEW p \in PEs, NEW q \in PEs, NEW o \in DOMAIN ptr[p] \cap DOMAIN ptr[q]
         PROVE  Same(p, q, o)'
    BY <1>1 DEF SymInv, Same
  <1> QED
    BY <1>1, <1>6, <1>7, <1>8, <1>9, <1>10 DEF SymInv

(* PE p turns to a group of frees: it holds the same objects as before.    *)
LEMMA BeginFreesKeeps ==
  ASSUME SymInv, NEW p \in PEs, pending[p] = {}, BeginFrees(p)
  PROVE  SymInv'
  <1>1. UNCHANGED <<program, free, allocs, ptr>>
    BY DEF BeginFrees
  <1>2. PICK i \in 1 .. Len(program) : i = done[p] + 1
    BY PeFacts, ProgramFacts DEF BeginFrees
  <1>3. i \in Nat /\ i - 1 = done[p] /\ Len(program) \in Nat /\ i <= Len(program)
    BY <1>2, PeFacts, ProgramFacts
  <1>4. program[i].op = "free" /\ program[i].objects \subseteq Live(i - 1)
    BY <1>2 DEF BeginFrees, Call, SymInv, Program
  <1>5. /\ pending'[p] = { o \in program[i].objects : ptr[p][o] # Null }
        /\ DOMAIN pending' = PEs /\ \A q \in PEs : q # p => pending'[q] = pending[q]
    BY <1>2, PeFacts DEF BeginFrees, Call
  <1>6. /\ done' \in [PEs -> Nat] /\ done'[p] = i /\ \A q \in PEs : q # p => done'[q] = done[q]
    <2>1. done \in [PEs -> Nat]
      BY DEF SymInv, Types
    <2> QED
      BY <1>2, <1>3, <2>1 DEF BeginFrees
  <1>7. Grows
    BY <1>1, <1>3 DEF Grows
  <1>8. Live(i - 1) \subseteq DOMAIN ptr[p]
    BY <1>3, LiveHasPtr, PeFacts
  <1>9. Live(i) = Live(i - 1) \ program[i].objects
    BY <1>4, LiveStep
  <1>10. Live(i)' = Live(i)
    BY <1>3, <1>7, LiveStays
  <1>11. Held(p)' = Held(p)
    <2>1. Held(p) = { o \in Live(i - 1) : ptr[p][o] # Null }
      BY <1>3 DEF Held
    <2>2. Held(p)' = { o \in Live(i) \cup pending'[p] : ptr[p][o] # Null }
      BY <1>1, <1>6, <1>10 DEF Held
    <2> QED
      BY <1>4, <1>5, <1>9, <2>1, <2>2
  <1>12. Allocated(p)' = Allocated(p)
    BY <1>1, <1>11 DEF Allocated, Extent
  <1>13. HeapInv(p)'
    <2>1. \A o \in pending'[p] : /\ o \in DOMAIN ptr[p] /\ ptr[p][o] # Null
                                 /\ o \notin Live(i)
      BY <1>4, <1>5, <1>8, <1>9
    <2>2. Cap' = Cap
      BY DEF Cap
    <2> QED
      BY <1>1, <1>6, <1>10, <1>11, <1>12, <2>1, <2>2, PeFacts DEF HeapInv
  <1>14. Types'
    <2>1. DOMAIN ptr[p] = { o \in 1 .. done'[p] : program[o].op = "malloc" }
      <3>1. 1 .. i = (1 .. done[p]) \cup {i}
        BY <1>3, PeFacts
      <3> QED
        BY <1>4, <1>6, <3>1, PeFacts
    <2>2. Cap' = Cap /\ ProgramCalls' = ProgramCalls
      BY DEF Cap, ProgramCalls
    <2>3. \A q \in PEs : done'[q] <= Len(program)
      BY <1>3, <1>6, PeFacts
    <2> QED
      BY <1>1, <1>5, <1>6, <2>1, <2>2, <2>3 DEF SymInv, Types
  <1> QED
    BY <1>1, <1>5, <1>6, <1>7, <1>13, <1>14, OnePe

(* PE p frees one object of the group.                                     *)
LEMMA FreeObjectKeeps ==
  ASSUME SymInv, NEW p \in PEs, NEW o \in pending[p], FreeObject(p, o)
  PROVE  SymInv'
  <1>1. UNCHANGED <<program, done, ptr>>
    BY DEF FreeObject
  <1>2. /\ o \in DOMAIN ptr[p] /\ ptr[p][o] # Null /\ o \notin Live(done[p])
        /\ o \in Held(p)
    BY PeFacts DEF HeapInv, Held
  <1>3. /\ allocs[p][ptr[p][o]] = RoundUp(program[o].size)
        /\ Extent(p, o) \in Allocated(p)
    BY <1>2, PeFacts DEF HeapInv, Allocated
  <1>4. /\ pending'[p] = pending[p] \ {o}
        /\ DOMAIN pending' = PEs /\ \A q \in PEs : q # p => pending'[q] = pending[q]
    BY PeFacts DEF FreeObject
  <1>5. /\ allocs'[p] = RemoveKey(allocs[p], ptr[p][o])
        /\ DOMAIN allocs' = PEs /\ \A q \in PEs : q # p => allocs'[q] = allocs[q]
    BY PeFacts DEF FreeObject
  <1>6. /\ free'[p] = Coalesce(free[p] \cup {Extent(p, o)})
        /\ DOMAIN free' = PEs /\ \A q \in PEs : q # p => free'[q] = free[q]
    BY <1>3, PeFacts DEF FreeObject, Extent
  <1>7. /\ free'[p] \in SUBSET Block
        /\ Tiling(Cap, free'[p], Allocated(p) \ {Extent(p, o)}) /\ NoneAbut(free'[p])
    BY <1>3, <1>6, TilingOf, ReleaseTiles
  <1>8. Grows
    BY <1>1, ProgramFacts DEF Grows
  <1>9. Live(done[p])' = Live(done[p])
    BY <1>1 DEF Live
  <1>10. Held(p)' = Held(p) \ {o}
    BY <1>1, <1>2, <1>4, <1>9 DEF Held
  <1>11. \A x \in Held(p) : x # o => ptr[p][x] # ptr[p][o] /\ Extent(p, x) # Extent(p, o)
    <2>1. ASSUME NEW x \in Held(p), x # o  PROVE ptr[p][x] # ptr[p][o]
      BY <1>2, <2>1, PeFacts DEF HeapInv
    <2>2. ASSUME NEW x \in Held(p), x # o  PROVE Extent(p, x) # Extent(p, o)
      <3>1. x \in DOMAIN ptr[p] /\ ptr[p][x] # Null
        BY HeldHasPtr DEF Held
      <3>2. /\ Extent(p, x).start + Base[p] = ptr[p][x]
            /\ Extent(p, o).start + Base[p] = ptr[p][o]
        BY <1>2, <3>1, ExtentFacts
      <3> QED
        BY <2>1, <2>2, <3>2
    <2> QED
      BY <2>1, <2>2
  <1>12. Allocated(p)' = Allocated(p) \ {Extent(p, o)}
    <2>1. \A x : Extent(p, x)' = Extent(p, x)
      BY <1>1 DEF Extent
    <2> QED
      BY <1>10, <1>11, <2>1 DEF Allocated
  <1>13. HeapInv(p)'
    <2>1. \A x \in Held(p)' : /\ ptr[p][x] \in DOMAIN allocs'[p]
                              /\ allocs'[p][ptr[p][x]] = RoundUp(program[x].size)
      BY <1>5, <1>10, <1>11, PeFacts DEF HeapInv, RemoveKey
    <2>2. \A x, y \in Held(p)' : x # y => ptr[p][x] # ptr[p][y]
      BY <1>10, PeFacts DEF HeapInv
    <2>3. \A x \in pending'[p] : x \in DOMAIN ptr[p] /\ ptr[p][x] # Null /\ x \notin Live(done[p])
      BY <1>4, PeFacts DEF HeapInv
    <2>4. Cap' = Cap
      BY DEF Cap
    <2> QED
      BY <1>1, <1>7, <1>9, <1>12, <2>1, <2>2, <2>3, <2>4 DEF HeapInv
  <1>14. Types'
    <2>1. free' \in [PEs -> SUBSET Block]
      <3>1. free \in [PEs -> SUBSET Block]
        BY DEF SymInv, Types
      <3> QED
        BY <1>6, <1>7, <3>1 DEF FreeObject
    <2>2. Cap' = Cap /\ ProgramCalls' = ProgramCalls
      BY DEF Cap, ProgramCalls
    <2> QED
      BY <1>1, <1>4, <1>5, <2>1, <2>2 DEF SymInv, Types
  <1> QED
    BY <1>1, <1>4, <1>5, <1>6, <1>8, <1>13, <1>14, OnePe

(* PE p calls malloc, the o-th call of the program, and is given v.        *)
Given(p, o, v) ==
  /\ pending[p] = {} /\ o = done[p] + 1 /\ program[o].op = "malloc"
  /\ v = Null \/ v \in Base[p] .. Base[p] + Cap
  /\ done' = [done EXCEPT ![p] = @ + 1]
  /\ ptr' = [ptr EXCEPT ![p] = InsertKey(@, o, v)]
  /\ UNCHANGED <<program, pending>>

LEMMA GivenFacts ==
  ASSUME SymInv, NEW p \in PEs, NEW o \in 1 .. Len(program), NEW v, Given(p, o, v)
  PROVE  /\ done' \in [PEs -> Nat] /\ done'[p] = o /\ \A q \in PEs : q # p => done'[q] = done[q]
         /\ DOMAIN ptr' = PEs /\ \A q \in PEs : q # p => ptr'[q] = ptr[q]
         /\ DOMAIN ptr'[p] = DOMAIN ptr[p] \cup {o} /\ o \notin DOMAIN ptr[p]
         /\ ptr'[p][o] = v /\ \A x \in DOMAIN ptr[p] : ptr'[p][x] = ptr[p][x]
         /\ Grows
  <1>1. done \in [PEs -> Nat] /\ done[p] \in Nat
    BY PeFacts DEF SymInv, Types
  <1>2. /\ done' \in [PEs -> Nat] /\ done'[p] = o /\ \A q \in PEs : q # p => done'[q] = done[q]
    BY <1>1 DEF Given
  <1>3. /\ DOMAIN ptr' = PEs /\ \A q \in PEs : q # p => ptr'[q] = ptr[q]
        /\ ptr'[p] = InsertKey(ptr[p], o, v)
    BY PeFacts DEF Given
  <1>4. o \notin DOMAIN ptr[p]
    BY <1>1, PeFacts DEF Given
  <1>5. /\ DOMAIN ptr'[p] = DOMAIN ptr[p] \cup {o}
        /\ ptr'[p][o] = v /\ \A x \in DOMAIN ptr[p] : ptr'[p][x] = ptr[p][x]
    BY <1>3, <1>4 DEF InsertKey
  <1>6. Grows
    BY <1>3, <1>5, ProgramFacts DEF Grows, Given
  <1> QED
    BY <1>2, <1>3, <1>4, <1>5, <1>6

LEMMA GivenTypes ==
  ASSUME SymInv, NEW p \in PEs, NEW o \in 1 .. Len(program), NEW v, Given(p, o, v),
         free' \in [PEs -> SUBSET Block], DOMAIN allocs' = PEs
  PROVE  Types'
  <1>1. UNCHANGED <<program, pending>> /\ program[o].op = "malloc"
        /\ (v = Null \/ v \in Base[p] .. Base[p] + Cap) /\ o = done[p] + 1
    BY DEF Given
  <1>2. Cap' = Cap /\ ProgramCalls' = ProgramCalls
    BY DEF Cap, ProgramCalls
  <1>3. \A q \in PEs : done'[q] <= Len(program)
    <2>1. \A q \in PEs : done'[q] = o \/ done'[q] = done[q]
      BY GivenFacts
    <2>2. o <= Len(program)
      BY ProgramFacts
    <2> QED
      BY <2>1, <2>2, PeFacts
  <1>4. ASSUME NEW q \in PEs
        PROVE  /\ DOMAIN ptr'[q] = { x \in 1 .. done'[q] : program[x].op = "malloc" }
               /\ \A x \in DOMAIN ptr'[q] : \/ ptr'[q][x] = Null
                                            \/ ptr'[q][x] \in Base[q] .. Base[q] + Cap
    <2>1. CASE q # p
      BY <2>1, GivenFacts, PeFacts
    <2>2. CASE q = p
      <3>1. 1 .. o = (1 .. done[p]) \cup {o}
        BY <1>1, PeFacts
      <3>2. DOMAIN ptr'[p] = { x \in 1 .. done'[p] : program[x].op = "malloc" }
        BY <1>1, <3>1, GivenFacts, PeFacts
      <3>3. \A x \in DOMAIN ptr'[p] : \/ ptr'[p][x] = Null
                                      \/ ptr'[p][x] \in Base[p] .. Base[p] + Cap
        BY <1>1, GivenFacts, PeFacts
      <3> QED
        BY <2>2, <3>2, <3>3
    <2> QED
      BY <2>1, <2>2
  <1> QED
    BY <1>1, <1>2, <1>3, <1>4, GivenFacts DEF SymInv, Types

(* The objects PE p holds before the call are those live before it.        *)
LEMMA GivenHeld ==
  ASSUME SymInv, NEW p \in PEs, NEW o \in 1 .. Len(program), NEW v, Given(p, o, v)
  PROVE  /\ Before(p, o)' = Allocated(p)
         /\ o \notin Held(p)
         /\ Held(p)' = IF v = Null THEN Held(p) ELSE Held(p) \cup {o}
         /\ \A x \in Held(p) : Extent(p, x)' = Extent(p, x) /\ ptr'[p][x] = ptr[p][x]
  <1>1. /\ done[p] \in Nat /\ o - 1 = done[p] /\ o <= done[p] + 1 /\ o \in Nat
        /\ o <= Len(program) /\ pending[p] = {} /\ pending'[p] = {} /\ program[o].op = "malloc"
    BY PeFacts, ProgramFacts DEF Given
  <1>2. Held(p) = { x \in Live(o - 1) : ptr[p][x] # Null }
    BY <1>1 DEF Held
  <1>3. Before(p, o) = Allocated(p)
    BY <1>2 DEF Before, Allocated
  <1>4. Before(p, o)' = Before(p, o)
    BY <1>1, GivenFacts, BeforeStays
  <1>5. Live(o) = Live(o - 1) \cup {o} /\ o \notin Live(o - 1)
    BY <1>1, LiveStep
  <1>6. Live(o)' = Live(o)
    BY <1>1, GivenFacts, LiveStays
  <1>7. Held(p)' = { x \in Live(o) : ptr'[p][x] # Null }
    BY <1>1, <1>6, GivenFacts DEF Held
  <1>8. \A x \in Live(o - 1) : ptr'[p][x] = ptr[p][x]
    BY <1>1, GivenFacts, LiveHasPtr
  <1>9. Held(p)' = IF v = Null THEN Held(p) ELSE Held(p) \cup {o}
    BY <1>2, <1>5, <1>7, <1>8, GivenFacts
  <1>10. \A x \in Held(p) : Extent(p, x)' = Extent(p, x) /\ ptr'[p][x] = ptr[p][x]
    BY GivenFacts, HeldHasPtr, ExtentStays
  <1> QED
    BY <1>2, <1>3, <1>4, <1>5, <1>9, <1>10

LEMMA MallocKeeps ==
  ASSUME SymInv, NEW p \in PEs, pending[p] = {}, Malloc(p)
  PROVE  SymInv'
  <1>1. PICK o \in 1 .. Len(program) : o = done[p] + 1
    BY PeFacts, ProgramFacts DEF Malloc
  <1>2. PICK n \in Nat : n = RoundUp(program[o].size) /\ n > 0 /\ n % ALIGNMENT = 0
    BY <1>1, ProgramFacts DEF Malloc, Call
  <1>3. program'[o] = program[o] /\ Cap' = Cap /\ Base' = Base
    BY DEF Malloc, Cap
  <1>4. CASE /\ \A b \in free[p] : b.len < n
             /\ ptr' = [ptr EXCEPT ![p] = InsertKey(@, o, Null)]
             /\ UNCHANGED <<free, allocs>>
    <2>1. Given(p, o, Null)
      BY <1>1, <1>4 DEF Given, Malloc, Call
    <2>2. /\ Before(p, o)' = Allocated(p) /\ Held(p)' = Held(p)
          /\ \A x \in Held(p) : Extent(p, x)' = Extent(p, x) /\ ptr'[p][x] = ptr[p][x]
      BY <2>1, GivenHeld
    <2>3. Allocated(p)' = Allocated(p)
      BY <2>2 DEF Allocated
    <2>4. HeapInv(p)'
      <3>1. pending'[p] = {} /\ program' = program
        BY <2>1 DEF Given
      <3> QED
        BY <1>3, <1>4, <2>2, <2>3, <3>1, PeFacts DEF HeapInv
    <2>5. LowestFit(p, o)'
      <3>1. FitsAt(Cap, Allocated(p), n) = {}
        BY <1>2, <1>4, TilingOf, NoneLongEnough
      <3>2. ptr'[p][o] = Null
        BY <2>1, GivenFacts
      <3> QED
        BY <1>2, <1>3, <2>2, <3>1, <3>2 DEF LowestFit
    <2>6. Types'
      BY <1>4, <2>1, GivenTypes DEF SymInv, Types
    <2>7. UNCHANGED <<program, pending>>
      BY <2>1 DEF Given
    <2> QED
      BY <1>1, <1>4, <2>1, <2>4, <2>5, <2>6, <2>7, GivenFacts, OnePe
  <1>5. ASSUME NEW block \in free[p], IsFirstFit(free[p], n, block),
               free' = [free EXCEPT ![p] = Carve(@, block, n)],
               allocs' = [allocs EXCEPT ![p] = InsertKey(@, Base[p] + block.start, n)],
               ptr' = [ptr EXCEPT ![p] = InsertKey(@, o, Base[p] + block.start)]
        PROVE  SymInv'
    <2>1. PICK v \in Nat : v = Base[p] + block.start /\ v # Null
                           /\ v \in Base[p] .. Base[p] + Cap /\ v - Base[p] = block.start
      <3>1. block.start \in Nat /\ block.len \in Nat /\ block.start + block.len <= Cap
        BY TilingOf DEF Tiling, WellPlaced, EndOf, Block
      <3>2. Base[p] \in Nat /\ Base[p] > 0 /\ Cap \in Nat
        BY Constants
      <3>3. \A b, x, l, c \in Nat : (b > 0 /\ x + l <= c) =>
              b + x \in Nat /\ b + x # 0 /\ b + x \in b .. b + c /\ (b + x) - b = x
        OBVIOUS
      <3> QED
        BY <3>1, <3>2, <3>3 DEF Null
    <2>2. Given(p, o, v)
      BY <1>1, <1>5, <2>1 DEF Given, Malloc, Call
    <2>3. /\ Before(p, o)' = Allocated(p) /\ Held(p)' = Held(p) \cup {o} /\ o \notin Held(p)
          /\ \A x \in Held(p) : Extent(p, x)' = Extent(p, x) /\ ptr'[p][x] = ptr[p][x]
      BY <2>1, <2>2, GivenHeld
    <2>4. ptr'[p][o] = v
      BY <2>2, GivenFacts
    <2>5. Extent(p, o)' = [start |-> block.start, len |-> n]
      BY <1>2, <1>3, <2>1, <2>4 DEF Extent
    <2>6. Allocated(p)' = Allocated(p) \cup {[start |-> block.start, len |-> n]}
      BY <2>3, <2>5 DEF Allocated
    <2>7. block.len >= n /\ n <= block.len
      BY TilingOf, <1>2, <1>5 DEF IsFirstFit, Block
    <2>8. /\ Carve(free[p], block, n) \in SUBSET Block
          /\ Tiling(Cap, Carve(free[p], block, n), Allocated(p)')
          /\ NoneAbut(Carve(free[p], block, n))
      <3>1. /\ Carve(free[p], block, n) \in SUBSET Block
            /\ Tiling(Cap, Carve(free[p], block, n),
                      Allocated(p) \cup {[start |-> block.start, len |-> n]})
            /\ NoneAbut(Carve(free[p], block, n))
        BY <1>2, <2>7, TilingOf, CarveTiles
      <3> QED
        BY <2>6, <3>1
    <2>9. /\ free' \in [PEs -> SUBSET Block] /\ free'[p] = Carve(free[p], block, n)
          /\ \A q \in PEs : q # p => free'[q] = free[q]
      <3>1. free \in [PEs -> SUBSET Block]
        BY DEF SymInv, Types
      <3> QED
        BY <1>5, <2>8, <3>1
    <2>10. /\ DOMAIN allocs' = PEs /\ allocs'[p] = InsertKey(allocs[p], v, n)
           /\ \A q \in PEs : q # p => allocs'[q] = allocs[q]
      BY <1>5, <2>1, PeFacts
    \* the block is free, so no held object lies at its address
    <2>11. \A x \in Held(p) : ptr[p][x] # v
      <3>1. SUFFICES ASSUME NEW x \in Held(p), ptr[p][x] = v  PROVE FALSE
        OBVIOUS
      <3>2. Extent(p, x) \in Allocated(p) /\ Extent(p, x) \in Block
        BY TilingOf DEF Allocated
      <3>3. Extent(p, x).start = block.start
        BY <2>1, <3>1 DEF Extent
      <3>4. Apart(block, Extent(p, x)) /\ block.len > 0 /\ Extent(p, x).len > 0 /\ block \in Block
        BY <3>2, TilingOf DEF Tiling, WellPlaced
      <3> QED
        BY <3>2, <3>3, <3>4 DEF Apart, EndOf, Block
    <2>12. HeapInv(p)'
      <3>1. pending'[p] = {} /\ program' = program
        BY <2>2 DEF Given
      <3>2. ASSUME NEW x \in Held(p)'
            PROVE  /\ ptr'[p][x] \in DOMAIN allocs'[p]
                   /\ allocs'[p][ptr'[p][x]] = RoundUp(program[x].size)
        <4>1. CASE x = o
          BY <1>2, <2>4, <2>10, <4>1 DEF InsertKey
        <4>2. CASE x \in Held(p)
          BY <2>3, <2>10, <2>11, <4>2, PeFacts DEF HeapInv, InsertKey
        <4> QED
          BY <2>3, <4>1, <4>2
      <3>3. \A x, y \in Held(p)' : x # y => ptr'[p][x] # ptr'[p][y]
        BY <2>3, <2>4, <2>11, PeFacts DEF HeapInv
      <3> QED
        BY <1>3, <2>8, <2>9, <3>1, <3>2, <3>3 DEF HeapInv
    <2>13. LowestFit(p, o)'
      <3>1. /\ block.start \in FitsAt(Cap, Allocated(p), n)
            /\ \A s \in FitsAt(Cap, Allocated(p), n) : block.start <= s
        BY <1>2, <1>5, TilingOf, FirstFitIsLowest
      <3> QED
        BY <1>2, <1>3, <2>1, <2>3, <2>4, <3>1 DEF LowestFit
    <2>14. Types'
      BY <2>2, <2>9, <2>10, GivenTypes
    <2>15. UNCHANGED <<program, pending>>
      BY <2>2 DEF Given
    <2> QED
      BY <1>1, <2>2, <2>9, <2>10, <2>12, <2>13, <2>14, <2>15, GivenFacts, OnePe
  <1> QED
    BY <1>1, <1>2, <1>4, <1>5 DEF Malloc, Call

LEMMA NextInv == SymInv /\ [Next]_vars => SymInv'
  <1> SUFFICES ASSUME SymInv, [Next]_vars  PROVE SymInv'
    OBVIOUS
  <1>1. CASE UNCHANGED vars
    <2>1. Grows /\ UNCHANGED <<program, done, pending, free, allocs, ptr>>
      BY <1>1, ProgramFacts DEF vars, Grows
    <2>2. Types'
      BY <2>1 DEF SymInv, Types, Cap, ProgramCalls
    <2>3. ASSUME NEW p \in PEs  PROVE SymInv'
      BY <2>1, <2>2, HeapStays, OnePe
    <2>4. 0 \in PEs
      BY SymmetricAssumption DEF PEs
    <2> QED
      BY <2>3, <2>4
  <1>2. CASE ProgramCall
    BY <1>2, ProgramCallKeeps
  <1>3. ASSUME NEW p \in PEs, PEStep(p)  PROVE SymInv'
    BY <1>3, FreeObjectKeeps, MallocKeeps, BeginFreesKeeps DEF PEStep
  <1> QED
    BY <1>1, <1>2, <1>3 DEF Next

----------------------------------------------------------------------------

(* The invariant holds throughout every execution.                         *)
THEOREM SymInvariant == Spec => []SymInv
  BY InitInv, NextInv, PTL DEF Spec

(* The address that a PE computes for an object on a peer is the address   *)
(* the peer's own malloc returned, and malloc fails on one PE exactly when *)
(* it fails on all.                                                        *)
THEOREM RemoteAddresses == Spec => []RemoteAddressIsPeers
  <1>1. ASSUME SymInv, NEW p \in PEs, NEW q \in PEs,
               NEW o \in DOMAIN ptr[p] \cap DOMAIN ptr[q],
               ptr[p][o] # Null, ptr[q][o] # Null
        PROVE  ToRemoteAddr(ptr[p][o], Base[p], Base[q]) = ptr[q][o]
    <2>1. /\ ptr[p][o] \in Base[p] .. Base[p] + Cap
          /\ ptr[q][o] \in Base[q] .. Base[q] + Cap
      BY <1>1, PeFacts
    <2>2. ptr[p][o] - Base[p] = ptr[q][o] - Base[q]
      BY <1>1 DEF SymInv, Same
    <2> QED
      BY <2>1, <2>2, Constants DEF ToRemoteAddr, OffsetFrom, UsageError
  <1>2. SymInv => RemoteAddressIsPeers
    BY <1>1 DEF SymInv, Same, RemoteAddressIsPeers
  <1> QED
    BY <1>2, SymInvariant, PTL

(* Two PEs that have completed the same calls have the same free list,     *)
(* whatever the order of their frees.                                      *)
THEOREM SameFreeLists == Spec => []HeapsConverge
  <1>1. ASSUME SymInv, NEW p \in PEs, NEW q \in PEs,
               done[p] = done[q], pending[p] = {}, pending[q] = {}
        PROVE  free[p] = free[q]
    <2>1. Live(done[p]) \subseteq DOMAIN ptr[p] \cap DOMAIN ptr[q]
      BY <1>1, PeFacts, LiveHasPtr
    <2>2. \A o \in Live(done[p]) : Same(p, q, o)
      BY <1>1, <2>1 DEF SymInv
    <2>3. Held(p) = Held(q)
      BY <1>1, <2>2 DEF Held, Same
    <2>4. \A o \in Held(p) : Extent(p, o) = Extent(q, o)
      BY <1>1, <2>2, <2>3 DEF Held, Same, Extent
    <2>5. Allocated(p) = Allocated(q)
      BY <2>3, <2>4 DEF Allocated
    <2> QED
      BY <1>1, <2>5, TilingOf, FreeListIsGaps
  <1>2. SymInv => HeapsConverge
    BY <1>1 DEF HeapsConverge
  <1> QED
    BY <1>2, SymInvariant, PTL
=============================================================================
