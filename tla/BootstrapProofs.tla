-------------------------- MODULE BootstrapProofs --------------------------
(***************************************************************************)
(* Proofs about the bootstrap of a job, for any number of PEs, any job     *)
(* sizes the PEs may have read, any malformed rkeys and any failing calls. *)
(***************************************************************************)
EXTENDS Bootstrap, TLAPS

(* The pairs of PE p under the keys of K, with the values handshake puts.  *)
Pairs(p, K) == [key \in K |-> Value(p, key)]

(* The keys a PE has put and not yet committed.                            *)
StagedKeys(label) ==
  IF label = "rkey" THEN {"shmem.worker.addr"}
  ELSE IF label = "base" THEN {"shmem.worker.addr", "shmem.heap.rkey"}
  ELSE IF label = "commit" THEN KeySet
  ELSE {}

Unpublished == {"start", "address", "rkey", "base", "commit"}
InFenceOrPast == {"fence", "peers", "ready"}

(* What p has put, committed and entered at each place of handshake.       *)
Publishing(p) ==
  /\ pc[p] # "failed" => staged[p] = Pairs(p, StagedKeys(pc[p]))
  /\ pc[p] \in Unpublished => store[p] = Pairs(p, {})
  /\ pc[p] \in InFenceOrPast \cup {"enter"} => store[p] = Pairs(p, KeySet)
  /\ DOMAIN staged[p] \subseteq KeySet /\ DOMAIN store[p] \subseteq KeySet
  /\ pc[p] # "failed" => fences[p] = (IF pc[p] \in InFenceOrPast THEN 1 ELSE 0)
  /\ fences[p] = 1 => store[p] = Pairs(p, KeySet)

(* The connections p has made: one for every rank below the loop's.        *)
Connected(p) ==
  /\ rank[p] <= size[p]
  /\ pc[p] \notin {"peers", "ready", "failed"} => rank[p] = 0
  /\ pc[p] # "failed" => peers[p] = [pe \in 0 .. rank[p] - 1 |-> Metadata(pe)]
  /\ pc[p] = "failed" => peers[p] = Empty
  /\ pc[p] = "ready" => rank[p] = size[p]

Types ==
  /\ DOMAIN staged = PEs /\ DOMAIN store = PEs /\ DOMAIN peers = PEs
  /\ fences \in [PEs -> 0 .. 1]
  /\ rank \in [PEs -> Nat]
  /\ size \in [PEs -> Sizes]
  /\ pc \in [PEs -> Labels]
  /\ short \subseteq PEs
  /\ faulted \subseteq PEs
  /\ gone \cup silent = { p \in PEs : pc[p] = "failed" }
  /\ gone \cap silent = {}

(* A PE leaves the fence without an error only when every PE has entered.  *)
AllEntered ==
  \A p, q \in PEs : pc[p] \in {"peers", "ready"} => fences[q] = 1

(* The inductive invariant.                                                *)
BootInv ==
  /\ Types
  /\ \A p \in PEs : Publishing(p) /\ Connected(p)
  /\ AllEntered
  /\ FailureHasCause

(* Putting one more pair, and committing what has been put.                *)
LEMMA PairFacts ==
  ASSUME NEW p
  PROVE  /\ Empty = Pairs(p, {})
         /\ Metadata(p) = Pairs(p, KeySet)
         /\ Update(Pairs(p, {}), Pairs(p, KeySet)) = Pairs(p, KeySet)
         /\ \A K, key : Update(Pairs(p, K), Single(key, Value(p, key))) = Pairs(p, K \cup {key})
         /\ \A K : DOMAIN Pairs(p, K) = K
  <1>1. Empty = Pairs(p, {}) /\ Metadata(p) = Pairs(p, KeySet) /\ \A K : DOMAIN Pairs(p, K) = K
    BY DEF Empty, Pairs, Metadata
  <1>2. Update(Pairs(p, {}), Pairs(p, KeySet)) = Pairs(p, KeySet)
    BY DEF Pairs, Update
  <1>3. ASSUME NEW K, NEW key
        PROVE  Update(Pairs(p, K), Single(key, Value(p, key))) = Pairs(p, K \cup {key})
    BY DEF Pairs, Update, Single
  <1> QED
    BY <1>1, <1>2, <1>3

LEMMA InitInv == Init => BootInv
  <1> SUFFICES ASSUME Init  PROVE BootInv
    OBVIOUS
  <1>1. Types
    BY BootstrapAssumption DEF Init, PmixInit, Types, Labels
  <1>2. ASSUME NEW p \in PEs  PROVE Publishing(p)
    BY PairFacts DEF Init, PmixInit, Publishing, StagedKeys, Unpublished, InFenceOrPast
  <1>3. ASSUME NEW p \in PEs  PROVE Connected(p)
    <2>1. size[p] \in Nat
      BY BootstrapAssumption DEF Init
    <2>2. Empty = [pe \in 0 .. 0 - 1 |-> Metadata(pe)]
      BY DEF Empty
    <2> QED
      BY <2>1, <2>2 DEF Init, Connected
  <1> QED
    BY <1>1, <1>2, <1>3 DEF Init, BootInv, AllEntered, FailureHasCause

(* A step of p leaves what the other PEs hold alone.                       *)
LEMMA OthersKeep ==
  ASSUME BootInv, NEW p \in PEs, Step(p), NEW q \in PEs, q # p
  PROVE  /\ Publishing(q)' /\ Connected(q)'
         /\ pc'[q] = pc[q] /\ fences'[q] = fences[q]
  <1>1. /\ pc'[q] = pc[q] /\ staged'[q] = staged[q] /\ store'[q] = store[q]
        /\ fences'[q] = fences[q] /\ rank'[q] = rank[q] /\ peers'[q] = peers[q]
        /\ size' = size
    BY DEF BootInv, Types, Step, NeverStarts, Start, PutAddress, PutRkey, PutBase, PutKey,
           CommitPuts, CallFence, LeaveFence, ConnectPeer, Finish, Fault, Fail,
           FailSilently, Leave, Goto, Put, Commit, EnterFence, pmix
  <1> QED
    BY <1>1 DEF BootInv, Publishing, Connected

(* A step that is not a failure: what is left to show concerns p alone.    *)
LEMMA MoveKeeps ==
  ASSUME BootInv, NEW p \in PEs, Step(p), Types', pc[p] # "failed", pc'[p] # "failed",
         Publishing(p)', Connected(p)', UNCHANGED <<size, short, faulted>>,
         fences'[p] >= fences[p],
         pc'[p] \in {"peers", "ready"} => \A q \in PEs : fences'[q] = 1
  PROVE  BootInv'
  <1>1. \A q \in PEs : Publishing(q)' /\ Connected(q)'
    BY OthersKeep
  <1>2. \A q \in PEs : q # p => pc'[q] = pc[q] /\ fences'[q] = fences[q]
    BY OthersKeep
  <1>3. AllEntered'
    BY <1>2 DEF AllEntered, BootInv, Types
  <1>4. \A q \in PEs : Cause(q)' <=> Cause(q)
    BY DEF Cause
  <1>5. FailureHasCause'
    BY <1>2, <1>4 DEF FailureHasCause, BootInv
  <1> QED
    BY <1>1, <1>3, <1>5 DEF BootInv

(* A failure: p drops its connections and leaves or falls silent, and it   *)
(* has a cause of its own or another PE with a cause kept out of the fence.*)
LEMMA FailKeeps ==
  ASSUME BootInv, NEW p \in PEs, Step(p), Fail(p) \/ FailSilently(p), pc[p] # "failed",
         DOMAIN peers' = PEs, peers'[p] = Empty, UNCHANGED <<size, short, rank>>,
         faulted \subseteq faulted', faulted' \subseteq PEs,
         Cause(p)' \/ \E q \in PEs : pc[q] = "failed" /\ fences[q] = 0 /\ Cause(q)
  PROVE  BootInv'
  <1>1. /\ pc' = [pc EXCEPT ![p] = "failed"]
        /\ \/ gone' = gone \cup {p} /\ silent' = silent
           \/ gone' = gone /\ silent' = silent \cup {p}
        /\ UNCHANGED <<staged, store, fences>>
    BY DEF Fail, FailSilently, Goto, Leave, pmix
  <1>2. Types'
    <2>1. p \notin gone /\ p \notin silent
      BY DEF BootInv, Types
    <2>2. { q \in PEs : pc'[q] = "failed" } = { q \in PEs : pc[q] = "failed" } \cup {p}
      BY <1>1 DEF BootInv, Types
    <2>3. /\ gone' \cup silent' = { q \in PEs : pc'[q] = "failed" }
          /\ gone' \cap silent' = {}
      BY <1>1, <2>1, <2>2 DEF BootInv, Types
    <2> QED
      BY <1>1, <2>3 DEF BootInv, Types, Labels
  <1>3. Publishing(p)' /\ Connected(p)'
    BY <1>1 DEF BootInv, Types, Publishing, Connected, Unpublished, InFenceOrPast
  <1>4. \A q \in PEs : Publishing(q)' /\ Connected(q)'
    BY <1>3, OthersKeep
  <1>5. AllEntered'
    BY <1>1 DEF AllEntered, BootInv, Types
  <1>6. \A q \in PEs : Cause(q) => Cause(q)'
    BY DEF Cause
  <1>7. \A q \in PEs : pc'[q] = "failed" <=> q = p \/ pc[q] = "failed"
    BY <1>1 DEF BootInv, Types
  <1>8. FailureHasCause'
    <2> SUFFICES ASSUME NEW q \in PEs, pc'[q] = "failed"
                 PROVE  Cause(q)' \/ \E r \in PEs : pc'[r] = "failed" /\ fences'[r] = 0 /\ Cause(r)'
      BY DEF FailureHasCause
    <2>1. CASE q = p
      BY <2>1, <1>1, <1>6, <1>7
    <2>2. CASE q # p
      BY <2>2, <1>1, <1>6, <1>7 DEF FailureHasCause, BootInv
    <2> QED
      BY <2>1, <2>2
  <1> QED
    BY <1>2, <1>4, <1>5, <1>8 DEF BootInv

(* A native call fails outside the loop.                                   *)
LEMMA FaultKeeps ==
  ASSUME BootInv, NEW p \in PEs, Step(p), Fail(p) \/ FailSilently(p),
         faulted' = faulted \cup {p}, pc[p] \notin {"peers", "failed"},
         UNCHANGED <<size, short, rank, peers>>
  PROVE  BootInv'
  <1>1. faulted' = faulted \cup {p} /\ (Fail(p) \/ FailSilently(p))
    OBVIOUS
  <1>2. Cause(p)'
    BY <1>1 DEF Cause
  <1>3. CASE pc[p] = "ready"
    BY <1>3, <1>1 DEF Step, NeverStarts, Start, PutAddress, PutRkey, PutBase, PutKey, CommitPuts,
           CallFence, LeaveFence, ConnectPeer, Finish
  <1>4. CASE pc[p] # "ready"
    <2>1. rank[p] = 0 /\ peers[p] = [pe \in 0 .. 0 - 1 |-> Metadata(pe)]
      BY <1>4 DEF BootInv, Connected
    <2>2. peers'[p] = Empty
      BY <2>1 DEF Empty
    <2>3. DOMAIN peers' = PEs /\ faulted' \subseteq PEs
      BY <1>1 DEF BootInv, Types
    <2> QED
      BY <1>1, <1>2, <2>2, <2>3, FailKeeps
  <1> QED
    BY <1>3, <1>4

----------------------------------------------------------------------------

(* The sizes PEs read are numbers, and so are the ranks they reach.        *)
LEMMA SizeIsNat ==
  ASSUME BootInv, NEW p \in PEs
  PROVE  size[p] \in Nat /\ rank[p] \in Nat /\ fences[p] \in {0, 1} /\ pc[p] \in Labels
  <1>1. size[p] \in Sizes /\ rank[p] \in Nat /\ fences[p] \in 0 .. 1 /\ pc[p] \in Labels
    BY DEF BootInv, Types
  <1>2. size[p] \in Nat
    BY <1>1, BootstrapAssumption
  <1> QED
    BY <1>1, <1>2

LEMMA NeverStartsKeeps ==
  ASSUME BootInv, NEW p \in PEs, NeverStarts(p)
  PROVE  BootInv'
  BY FaultKeeps DEF Step, NeverStarts

LEMMA StartKeeps ==
  ASSUME BootInv, NEW p \in PEs, Start(p)
  PROVE  BootInv'
  <1>1. Step(p) /\ pc[p] = "start" /\ UNCHANGED <<size, short, rank, peers>>
    BY DEF Step, Start
  <1>2. CASE Fault(p, "init")
    BY <1>1, <1>2, FaultKeeps DEF Fault
  <1>3. CASE size[p] = 0 /\ Fail(p) /\ UNCHANGED faulted
    <2> rank[p] = 0 /\ peers[p] = [pe \in 0 .. 0 - 1 |-> Metadata(pe)]
      BY <1>1 DEF BootInv, Connected
    <2>1. peers'[p] = Empty
      BY <1>1 DEF Empty
    <2>2. Cause(p)' /\ DOMAIN peers' = PEs /\ faulted' \subseteq PEs
      BY <1>1, <1>3 DEF Cause, BootInv, Types
    <2> QED
      BY <1>1, <1>3, <2>1, <2>2, FailKeeps
  <1>4. CASE size[p] > 0 /\ Goto(p, "address") /\ UNCHANGED <<pmix, faulted, silent>>
    <2>1. pc' = [pc EXCEPT ![p] = "address"] /\ UNCHANGED <<staged, store, fences, gone, silent>>
      BY <1>4 DEF Goto, pmix
    <2>2. Types' /\ pc'[p] = "address"
      BY <1>1, <1>4, <2>1 DEF BootInv, Types, Labels
    <2>3. Publishing(p)'
      BY <1>1, <2>1, <2>2 DEF BootInv, Types, Publishing, StagedKeys, Unpublished, InFenceOrPast
    <2>4. Connected(p)'
      BY <1>1, <2>2 DEF BootInv, Connected
    <2> QED
      BY <1>1, <1>4, <2>1, <2>2, <2>3, <2>4, SizeIsNat, MoveKeeps
  <1> QED
    BY <1>2, <1>3, <1>4 DEF Start

(* One put: the key joins the staged ones.                                 *)
LEMMA PutKeyKeeps ==
  ASSUME BootInv, NEW p \in PEs, Step(p), NEW at \in {"address", "rkey", "base"}, NEW key \in KeySet,
         NEW next \in {"rkey", "base", "commit"}, PutKey(p, at, key, next),
         StagedKeys(next) = StagedKeys(at) \cup {key}
  PROVE  BootInv'
  <1>1. pc[p] = at /\ UNCHANGED <<size, short, rank, peers>>
    BY DEF PutKey
  <1>2. CASE Fault(p, "put")
    BY <1>1, <1>2, FaultKeeps DEF Fault
  <1>3. CASE Put(p, key, Value(p, key)) /\ Goto(p, next) /\ UNCHANGED <<faulted, silent>>
    <2>1. /\ staged' = [staged EXCEPT ![p] = Update(staged[p], Single(key, Value(p, key)))]
          /\ pc' = [pc EXCEPT ![p] = next]
          /\ UNCHANGED <<store, fences, gone, silent>>
      BY <1>3 DEF Put, Goto
    <2>2. Types' /\ pc'[p] = next
      BY <1>1, <1>3, <2>1 DEF BootInv, Types, Labels
    <2>3. staged[p] = Pairs(p, StagedKeys(at))
      BY <1>1 DEF BootInv, Publishing
    <2>4. staged'[p] = Update(staged[p], Single(key, Value(p, key)))
      BY <2>1 DEF BootInv, Types
    <2>5. staged'[p] = Pairs(p, StagedKeys(next))
      BY <2>3, <2>4, PairFacts
    <2>6. StagedKeys(next) \subseteq KeySet
      BY DEF StagedKeys, KeySet
    <2>7. Publishing(p)'
      <3>1. DOMAIN staged'[p] \subseteq KeySet
        BY <2>5, <2>6, PairFacts
      <3> QED
        BY <1>1, <2>1, <2>2, <2>5, <3>1 DEF BootInv, Publishing, Unpublished, InFenceOrPast
    <2>8. Connected(p)'
      BY <1>1, <2>2 DEF BootInv, Connected
    <2> QED
      BY <1>1, <1>3, <2>1, <2>2, <2>7, <2>8, SizeIsNat, MoveKeeps
  <1> QED
    BY <1>2, <1>3 DEF PutKey

LEMMA CommitKeeps ==
  ASSUME BootInv, NEW p \in PEs, CommitPuts(p)
  PROVE  BootInv'
  <1>1. Step(p) /\ pc[p] = "commit" /\ UNCHANGED <<size, short, rank, peers>>
    BY DEF CommitPuts, Step
  <1>2. CASE Fault(p, "commit")
    BY <1>1, <1>2, FaultKeeps DEF Fault
  <1>3. CASE Commit(p) /\ Goto(p, "enter") /\ UNCHANGED <<faulted, silent>>
    <2>1. /\ store' = [store EXCEPT ![p] = Update(store[p], staged[p])]
          /\ staged' = [staged EXCEPT ![p] = Empty]
          /\ pc' = [pc EXCEPT ![p] = "enter"]
          /\ UNCHANGED <<fences, gone, silent>>
      BY <1>3 DEF Commit, Goto
    <2>2. Types' /\ pc'[p] = "enter"
      BY <1>1, <1>3, <2>1 DEF BootInv, Types, Labels
    <2>3. staged[p] = Pairs(p, KeySet) /\ store[p] = Pairs(p, {})
      BY <1>1 DEF BootInv, Publishing, StagedKeys, Unpublished
    <2>4. store'[p] = Update(store[p], staged[p]) /\ staged'[p] = Pairs(p, {})
      BY <2>1, PairFacts DEF BootInv, Types
    <2>5. store'[p] = Pairs(p, KeySet)
      BY <2>3, <2>4, PairFacts
    <2>6. fences'[p] = 0
      BY <1>1, <2>1 DEF BootInv, Publishing, InFenceOrPast
    <2>7. Publishing(p)'
      BY <2>2, <2>4, <2>5, <2>6, PairFacts DEF Publishing, Unpublished, InFenceOrPast, StagedKeys
    <2>8. Connected(p)'
      BY <1>1, <2>2 DEF BootInv, Connected
    <2> QED
      BY <1>1, <1>3, <2>1, <2>2, <2>7, <2>8, SizeIsNat, MoveKeeps
  <1> QED
    BY <1>2, <1>3 DEF CommitPuts

LEMMA CallFenceKeeps ==
  ASSUME BootInv, NEW p \in PEs, CallFence(p)
  PROVE  BootInv'
  <1>1. Step(p) /\ pc[p] = "enter" /\ UNCHANGED <<size, short, rank, peers>>
    BY DEF CallFence, Step
  <1>2. CASE Fault(p, "fence")
    BY <1>1, <1>2, FaultKeeps DEF Fault
  <1>3. CASE EnterFence(p) /\ Goto(p, "fence") /\ UNCHANGED <<faulted, silent>>
    <2>1. /\ fences' = [fences EXCEPT ![p] = fences[p] + 1]
          /\ pc' = [pc EXCEPT ![p] = "fence"]
          /\ UNCHANGED <<staged, store, gone, silent>>
      BY <1>3 DEF EnterFence, Goto
    <2>2. fences[p] = 0
      BY <1>1 DEF BootInv, Publishing, InFenceOrPast
    <2>3. fences'[p] = 1 /\ pc'[p] = "fence"
      BY <2>1, <2>2 DEF BootInv, Types
    <2>4. Types'
      BY <1>1, <1>3, <2>1, <2>2 DEF BootInv, Types, Labels
    <2>5. Publishing(p)'
      BY <1>1, <2>1, <2>3 DEF BootInv, Publishing, Unpublished, InFenceOrPast, StagedKeys
    <2>6. Connected(p)'
      BY <1>1, <2>3 DEF BootInv, Connected
    <2> QED
      BY <1>1, <1>3, <2>2, <2>3, <2>4, <2>5, <2>6, MoveKeeps
  <1> QED
    BY <1>2, <1>3 DEF CallFence

(* p leaves the fence: everyone has entered it, or a PE is gone that will  *)
(* never enter it and whose failure has a cause.                           *)
LEMMA LeaveFenceKeeps ==
  ASSUME BootInv, NEW p \in PEs, LeaveFence(p)
  PROVE  BootInv'
  <1>1. /\ Step(p) /\ pc[p] = "fence"
        /\ UNCHANGED <<size, short, rank, peers, faulted>>
    BY DEF LeaveFence, Step
  <1>2. fences[p] = 1
    BY <1>1 DEF BootInv, Publishing, InFenceOrPast
  <1>3. CASE FenceDone(p) /\ Goto(p, "peers") /\ UNCHANGED <<pmix, silent>>
    <2>1. /\ pc' = [pc EXCEPT ![p] = "peers"]
          /\ UNCHANGED <<staged, store, fences, gone, silent>>
      BY <1>3 DEF Goto, pmix
    <2>2. Types' /\ pc'[p] = "peers"
      BY <1>1, <2>1 DEF BootInv, Types, Labels
    <2>3. \A q \in PEs : fences'[q] = 1
      BY <1>2, <1>3, <2>1, SizeIsNat DEF FenceDone
    <2>4. Publishing(p)'
      BY <1>1, <2>1, <2>2 DEF BootInv, Publishing, Unpublished, InFenceOrPast, StagedKeys
    <2>5. Connected(p)'
      BY <1>1, <2>2 DEF BootInv, Connected
    <2> QED
      BY <1>1, <2>1, <2>2, <2>3, <2>4, <2>5, SizeIsNat, MoveKeeps
  <1>4. CASE FenceBroken(p) /\ Fail(p)
    <2>1. PICK q \in gone : fences[q] < fences[p]
      BY <1>4 DEF FenceBroken
    <2>2. q \in PEs /\ pc[q] = "failed" /\ fences[q] = 0
      BY <1>2, <2>1, SizeIsNat DEF BootInv, Types
    <2>3. \E r \in PEs : pc[r] = "failed" /\ fences[r] = 0 /\ Cause(r)
      BY <2>2 DEF BootInv, FailureHasCause
    <2> rank[p] = 0 /\ peers[p] = [pe \in 0 .. 0 - 1 |-> Metadata(pe)]
      BY <1>1 DEF BootInv, Connected
    <2>4. peers'[p] = Empty
      BY <1>1 DEF Empty
    <2>5. DOMAIN peers' = PEs /\ faulted' \subseteq PEs
      BY <1>1 DEF BootInv, Types
    <2> QED
      BY <1>1, <1>4, <2>3, <2>4, <2>5, FailKeeps
  <1> QED
    BY <1>3, <1>4 DEF LeaveFence

(* In the loop every rank of the job can be read: a rank without metadata  *)
(* is no PE of the job.                                                    *)
LEMMA PeersHavePublished ==
  ASSUME BootInv, NEW p \in PEs, pc[p] = "peers", NEW q \in PEs
  PROVE  store[q] = Metadata(q)
  <1>1. fences[q] = 1
    BY DEF BootInv, AllEntered
  <1> QED
    BY <1>1, PairFacts DEF BootInv, Publishing

LEMMA ConnectPeerKeeps ==
  ASSUME BootInv, NEW p \in PEs, ConnectPeer(p)
  PROVE  BootInv'
  <1> DEFINE pe    == rank[p]
             found == \A key \in KeySet : Has(pe, key)
  <1>1. /\ Step(p) /\ pc[p] = "peers" /\ rank[p] < size[p]
        /\ UNCHANGED <<size, short>>
    BY DEF ConnectPeer, Step
  <1>2. size[p] \in Nat /\ rank[p] \in Nat
    BY SizeIsNat
  <1>3. peers[p] = [q \in 0 .. pe - 1 |-> Metadata(q)]
    BY <1>1 DEF BootInv, Connected
  <1>4. CASE /\ found /\ pe \notin short
             /\ peers' = [peers EXCEPT ![p] =
                            Update(peers[p], Single(pe, [key \in KeySet |-> store[pe][key]]))]
             /\ rank' = [rank EXCEPT ![p] = rank[p] + 1]
             /\ UNCHANGED <<pmix, pc, faulted, silent>>
    <2>1. UNCHANGED <<staged, store, fences, gone, silent, pc, faulted>>
      BY <1>4 DEF pmix
    <2>2. pe \in PEs
      BY <1>4 DEF Has, KeySet
    <2>3. [key \in KeySet |-> store[pe][key]] = Metadata(pe)
      BY <1>1, <2>2, PeersHavePublished DEF Metadata
    <2>4. peers'[p] = Update(peers[p], Single(pe, Metadata(pe))) /\ rank'[p] = pe + 1
      BY <1>4, <2>3 DEF BootInv, Types
    <2>5. peers'[p] = [q \in 0 .. (pe + 1) - 1 |-> Metadata(q)]
      <3>1. (0 .. pe - 1) \cup {pe} = 0 .. (pe + 1) - 1
        BY <1>2
      <3>2. Update(peers[p], Single(pe, Metadata(pe)))
              = [q \in (0 .. pe - 1) \cup {pe} |-> Metadata(q)]
        BY <1>3 DEF Update, Single
      <3> QED
        BY <2>4, <3>1, <3>2
    <2>6. Connected(p)'
      BY <1>1, <1>2, <2>1, <2>4, <2>5 DEF Connected
    <2>7. Types'
      BY <1>1, <1>2, <1>4, <2>1 DEF BootInv, Types
    <2>8. Publishing(p)'
      BY <2>1 DEF BootInv, Publishing
    <2>9. \A q \in PEs : fences'[q] = 1
      BY <1>1, <2>1 DEF BootInv, AllEntered
    <2> QED
      BY <1>1, <2>1, <2>6, <2>7, <2>8, <2>9, SizeIsNat, MoveKeeps
  <1>5. CASE /\ \/ (~ found \/ pe \in short) /\ Fail(p) /\ UNCHANGED faulted
                \/ Fault(p, "peer")
             /\ peers' = [peers EXCEPT ![p] = Empty]
             /\ UNCHANGED rank
    <2>1. DOMAIN peers' = PEs /\ peers'[p] = Empty
      BY <1>5 DEF BootInv, Types
    <2>2. ASSUME ~ found  PROVE size[p] > N
      <3>1. pe \notin PEs
        BY <1>1, <2>2, PeersHavePublished DEF Has, Metadata
      <3> QED
        BY <1>1, <1>2, <3>1, JobAssumption DEF PEs
    <2>3. CASE (~ found \/ pe \in short) /\ Fail(p) /\ UNCHANGED faulted
      <3>1. Cause(p)'
        BY <1>1, <2>2, <2>3 DEF Cause
      <3>2. faulted' \subseteq PEs
        BY <2>3 DEF BootInv, Types
      <3> QED
        BY <1>1, <1>5, <2>1, <2>3, <3>1, <3>2, FailKeeps
    <2>4. CASE Fault(p, "peer")
      <3>1. Cause(p)' /\ faulted \subseteq faulted' /\ faulted' \subseteq PEs /\ Fail(p)
        BY <2>4 DEF Fault, Cause, BootInv, Types
      <3> QED
        BY <1>1, <1>5, <2>1, <3>1, FailKeeps
    <2> QED
      BY <1>5, <2>3, <2>4
  <1> QED
    BY <1>4, <1>5 DEF ConnectPeer, PeerProc

LEMMA FinishKeeps ==
  ASSUME BootInv, NEW p \in PEs, Finish(p)
  PROVE  BootInv'
  <1>1. /\ Step(p) /\ pc[p] = "peers" /\ rank[p] = size[p]
        /\ pc' = [pc EXCEPT ![p] = "ready"]
        /\ UNCHANGED <<staged, store, fences, gone, silent, size, short, rank, peers, faulted>>
    BY DEF Finish, Step, Goto, pmix
  <1>2. Types' /\ pc'[p] = "ready"
    BY <1>1 DEF BootInv, Types, Labels
  <1>3. Publishing(p)'
    BY <1>1, <1>2 DEF BootInv, Publishing, Unpublished, InFenceOrPast, StagedKeys
  <1>4. Connected(p)'
    BY <1>1, <1>2 DEF BootInv, Connected
  <1>5. \A q \in PEs : fences'[q] = 1
    BY <1>1 DEF BootInv, AllEntered
  <1> QED
    BY <1>1, <1>2, <1>3, <1>4, <1>5, SizeIsNat, MoveKeeps

LEMMA NextInv == BootInv /\ [Next]_vars => BootInv'
  <1> SUFFICES ASSUME BootInv, [Next]_vars  PROVE BootInv'
    OBVIOUS
  <1>1. CASE UNCHANGED vars
    BY <1>1 DEF vars, pmix, BootInv, Types, Publishing, Connected, AllEntered,
                FailureHasCause, Cause
  <1>2. ASSUME NEW p \in PEs, Step(p)  PROVE BootInv'
    <2>1. CASE PutAddress(p)
      BY <1>2, <2>1, PutKeyKeeps DEF PutAddress, StagedKeys, KeySet
    <2>2. CASE PutRkey(p)
      BY <1>2, <2>2, PutKeyKeeps DEF PutRkey, StagedKeys, KeySet
    <2>3. CASE PutBase(p)
      BY <1>2, <2>3, PutKeyKeeps DEF PutBase, StagedKeys, KeySet
    <2> QED
      BY <1>2, <2>1, <2>2, <2>3, NeverStartsKeeps, StartKeeps, CommitKeeps, CallFenceKeeps, LeaveFenceKeeps,
         ConnectPeerKeeps, FinishKeeps DEF Step
  <1> QED
    BY <1>1, <1>2 DEF Next

----------------------------------------------------------------------------

(* The inductive invariant of the bootstrap (handshake and init): what     *)
(* each PE has put, committed and connected at each place, and that nobody *)
(* is past the fence unless everybody has entered it.                      *)
THEOREM BootInvariant == Spec => []BootInv
  BY InitInv, NextInv, PTL DEF Spec

(* Type correctness of the bootstrap's state.                              *)
THEOREM TypeCorrect == Spec => []TypeOK
  <1>1. BootInv => TypeOK
    <2> SUFFICES ASSUME BootInv  PROVE TypeOK
      OBVIOUS
    <2>1. ASSUME NEW p \in PEs
          PROVE  /\ rank[p] \in 0 .. size[p]
                 /\ DOMAIN peers[p] \subseteq 0 .. size[p] - 1
      <3>1. rank[p] \in Nat /\ size[p] \in Nat /\ rank[p] <= size[p]
        BY SizeIsNat DEF BootInv, Connected
      <3>2. DOMAIN peers[p] \in {{}, 0 .. rank[p] - 1}
        BY DEF BootInv, Connected, Empty
      <3> QED
        BY <3>1, <3>2
    <2> QED
      BY <2>1 DEF BootInv, Types, TypeOK, Publishing
  <1> QED
    BY <1>1, BootInvariant, PTL

(* A PE whose handshake succeeded holds exactly what every rank below its  *)
(* job size published.                                                     *)
THEOREM ViewsArePublished == Spec => []ViewIsPublished
  <1>1. BootInv => ViewIsPublished
    BY DEF BootInv, Connected, ViewIsPublished
  <1> QED
    BY <1>1, BootInvariant, PTL

(* No PE becomes ready unless every PE of the job reached the fence with   *)
(* its metadata committed.                                                 *)
THEOREM ReadyMeansAllPublished == Spec => []ReadyAfterAllPublished
  <1>1. BootInv => ReadyAfterAllPublished
    BY PairFacts DEF BootInv, AllEntered, Publishing, ReadyAfterAllPublished
  <1> QED
    BY <1>1, BootInvariant, PTL

(* handshake fails only for a reason of the PE's own, or because a PE with *)
(* such a reason failed before it entered the fence.                       *)
THEOREM FailuresHaveCauses == Spec => []FailureHasCause
  <1>1. BootInv => FailureHasCause
    BY DEF BootInv
  <1> QED
    BY <1>1, BootInvariant, PTL
----------------------------------------------------------------------------
(***************************************************************************)
(* Why a PE's init ends: the parts of OnlySilentPEsStrand that are safety  *)
(* properties.                                                             *)
(***************************************************************************)

(* FenceWaitsForSilentOnly: when every PE still running waits in the       *)
(* fence, each of them can leave it, because everybody has entered or a PE *)
(* that failed before entering has disconnected, or it is stranded: the    *)
(* PEs it lacks failed without disconnecting.  PEs never wait for each     *)
(* other, whatever the faults, the sizes and the malformed rkeys.          *)
FenceWaitsForSilentOnly ==
  (\A q \in PEs : pc[q] \in {"fence", "ready", "failed"}) =>
     \A p \in PEs : pc[p] = "fence" => FenceDone(p) \/ FenceBroken(p) \/ Stranded(p)

(* In the fence of handshake a PE waits in vain only for PEs that failed   *)
(* and whose init left them connected.                                     *)
THEOREM OnlySilenceHoldsTheFence == Spec => []FenceWaitsForSilentOnly
  <1>1. BootInv => FenceWaitsForSilentOnly
    <2> SUFFICES ASSUME BootInv, \A q \in PEs : pc[q] \in {"fence", "ready", "failed"},
                        NEW p \in PEs, pc[p] = "fence", ~ FenceDone(p), ~ FenceBroken(p)
                 PROVE  Stranded(p)
      BY DEF FenceWaitsForSilentOnly
    <2>1. fences \in [PEs -> 0 .. 1] /\ fences[p] = 1
      BY DEF BootInv, Types, Publishing, InFenceOrPast
    <2>2. \E q \in PEs : fences[q] < fences[p]
      BY <2>1 DEF FenceDone
    <2>3. ASSUME NEW q \in PEs, fences[q] < fences[p]  PROVE q \in silent
      <3>1. fences[q] = 0
        BY <2>1, <2>3
      <3>2. pc[q] = "failed"
        BY <3>1 DEF BootInv, Publishing, InFenceOrPast
      <3>3. q \in gone \cup silent
        BY <3>2 DEF BootInv, Types
      <3>4. q \notin gone
        BY <2>3 DEF FenceBroken
      <3> QED
        BY <3>3, <3>4
    <2> QED
      BY <2>2, <2>3 DEF Stranded
  <1> QED
    BY <1>1, BootInvariant, PTL

(* FenceAlwaysEnds: no PE is left waiting in the fence when nobody can     *)
(* enter it any more.                                                      *)
FenceAlwaysEnds ==
  (\A q \in PEs : pc[q] \in {"fence", "ready", "failed"}) =>
     \A p \in PEs : pc[p] = "fence" => FenceDone(p) \/ FenceBroken(p)

(* init's error path is enough when the PEs reach it: if no PE fails to    *)
(* connect, none panics and no disconnect fails, then a PE that fails      *)
(* before the fence never holds the others in it.                          *)
THEOREM NoDeadlockWhenFailuresDisconnect ==
  ASSUME Faults \cap {"connect", "panic", "disconnect"} = {}
  PROVE  Spec => []FenceAlwaysEnds
  <1> DEFINE NoneSilent == silent = {}
  <1>1. Init => NoneSilent
    BY DEF Init
  <1>2. NoneSilent /\ [Next]_vars => NoneSilent'
    <2> SUFFICES ASSUME silent = {}, [Next]_vars  PROVE silent' = {}
      OBVIOUS
    <2>1. ASSUME NEW p \in PEs, Fail(p)  PROVE silent' = silent
      BY <2>1 DEF Fail
    <2>2. ASSUME NEW p \in PEs, Step(p)  PROVE silent' = silent
      <3> USE <2>1 DEF Fault
      <3>1. CASE NeverStarts(p)
        BY <3>1 DEF NeverStarts
      <3>2. CASE Start(p)
        BY <3>2 DEF Start
      <3>3. CASE PutAddress(p) \/ PutRkey(p) \/ PutBase(p)
        BY <3>3 DEF PutAddress, PutRkey, PutBase, PutKey
      <3>4. CASE CommitPuts(p)
        BY <3>4 DEF CommitPuts
      <3>5. CASE CallFence(p) \/ LeaveFence(p)
        BY <3>5 DEF CallFence, LeaveFence
      <3>6. CASE ConnectPeer(p)
        BY <3>6 DEF ConnectPeer
      <3>7. CASE Finish(p)
        BY <3>7 DEF Finish
      <3> QED
        BY <2>2, <3>1, <3>2, <3>3, <3>4, <3>5, <3>6, <3>7 DEF Step
    <2> QED
      BY <2>2 DEF Next, vars
  <1>3. NoneSilent /\ FenceWaitsForSilentOnly => FenceAlwaysEnds
    BY DEF FenceWaitsForSilentOnly, FenceAlwaysEnds, Stranded
  <1> HIDE DEF NoneSilent
  <1> QED
    BY <1>1, <1>2, <1>3, OnlySilenceHoldsTheFence, PTL DEF Spec

(* A bound on the steps a PE has left in init and handshake.               *)
StepsAt(label) ==
  CASE label = "start"   -> 8
    [] label = "address" -> 7
    [] label = "rkey"    -> 6
    [] label = "base"    -> 5
    [] label = "commit"  -> 4
    [] label = "enter"   -> 3
    [] label = "fence"   -> 2
    [] OTHER             -> 1

StepsLeft(p) ==
  IF pc[p] \in {"ready", "failed"} THEN 0
  ELSE StepsAt(pc[p]) + (size[p] - rank[p])

(* HandshakeWindsDown: every step of a PE leaves it strictly fewer steps   *)
(* to take, never fewer than none, and no other PE gives it more: the      *)
(* connection loop and the stages before it end, for every job size.       *)
HandshakeWindsDown ==
  [][ \A p \in PEs : /\ StepsLeft(p) \in Nat
                     /\ StepsLeft(p)' <= StepsLeft(p)
                     /\ Step(p) => StepsLeft(p)' < StepsLeft(p) ]_vars

LEMMA StepsLeftIsNat ==
  ASSUME BootInv, NEW p \in PEs
  PROVE  /\ size[p] - rank[p] \in Nat /\ StepsLeft(p) \in Nat
         /\ pc[p] \notin {"ready", "failed"} => StepsLeft(p) >= 1
  <1>1. rank[p] \in Nat /\ size[p] \in Nat /\ rank[p] <= size[p] /\ pc[p] \in Labels
    BY SizeIsNat DEF BootInv, Types, Connected
  <1>2. size[p] - rank[p] \in Nat
    BY <1>1
  <1>3. CASE pc[p] \in {"ready", "failed"}
    BY <1>2, <1>3 DEF StepsLeft
  <1>4. CASE pc[p] \notin {"ready", "failed"}
    <2>1. StepsAt(pc[p]) \in 1 .. 8
      BY <1>1, <1>4 DEF StepsAt, Labels
    <2>2. StepsLeft(p) = StepsAt(pc[p]) + (size[p] - rank[p])
      BY <1>4 DEF StepsLeft
    <2> QED
      BY <1>2, <2>1, <2>2
  <1> QED
    BY <1>2, <1>3, <1>4

(* A step ends the handshake, moves on to the next place, or connects one  *)
(* more rank.                                                              *)
LEMMA StepMoves ==
  ASSUME BootInv, NEW p \in PEs, Step(p)
  PROVE  /\ pc[p] \notin {"ready", "failed"} /\ size' = size
         /\ \A q \in PEs : q # p => pc'[q] = pc[q] /\ rank'[q] = rank[q]
         /\ \/ pc'[p] \in {"ready", "failed"}
            \/ /\ rank'[p] = rank[p]
               /\ <<pc[p], pc'[p]>> \in
                    {<<"start", "address">>, <<"address", "rkey">>, <<"rkey", "base">>,
                     <<"base", "commit">>, <<"commit", "enter">>, <<"enter", "fence">>,
                     <<"fence", "peers">>}
            \/ pc[p] = "peers" /\ pc'[p] = "peers" /\ rank'[p] = rank[p] + 1
  <1>0. DOMAIN pc = PEs /\ DOMAIN rank = PEs
    BY DEF BootInv, Types
  <1> USE <1>0 DEF Goto, Fault, Fail, FailSilently
  <1>1. CASE NeverStarts(p) \/ Start(p)
    BY <1>1 DEF NeverStarts, Start
  <1>2. CASE PutAddress(p)
    BY <1>2 DEF PutAddress, PutKey
  <1>3. CASE PutRkey(p)
    BY <1>3 DEF PutRkey, PutKey
  <1>4. CASE PutBase(p)
    BY <1>4 DEF PutBase, PutKey
  <1>5. CASE CommitPuts(p)
    BY <1>5 DEF CommitPuts
  <1>6. CASE CallFence(p)
    BY <1>6 DEF CallFence
  <1>7. CASE LeaveFence(p)
    BY <1>7 DEF LeaveFence
  <1>8. CASE ConnectPeer(p)
    BY <1>8 DEF ConnectPeer
  <1>9. CASE Finish(p)
    BY <1>9 DEF Finish
  <1> QED
    BY <1>1, <1>2, <1>3, <1>4, <1>5, <1>6, <1>7, <1>8, <1>9 DEF Step

LEMMA StepLowers ==
  ASSUME BootInv, NEW p \in PEs, Step(p)
  PROVE  /\ StepsLeft(p)' < StepsLeft(p)
         /\ \A q \in PEs : q # p => StepsLeft(q)' = StepsLeft(q)
  <1>1. /\ pc[p] \notin {"ready", "failed"} /\ size' = size
        /\ \A q \in PEs : q # p => pc'[q] = pc[q] /\ rank'[q] = rank[q]
    BY StepMoves
  <1>2. ASSUME NEW q \in PEs, q # p  PROVE StepsLeft(q)' = StepsLeft(q)
    <2>1. pc'[q] = pc[q] /\ rank'[q] = rank[q] /\ size'[q] = size[q]
      BY <1>1, <1>2
    <2> QED
      BY <2>1 DEF StepsLeft, StepsAt
  <1>3. rank[p] \in Nat /\ size[p] \in Nat
    BY SizeIsNat DEF BootInv, Types
  <1>4. StepsLeft(p) = StepsAt(pc[p]) + (size[p] - rank[p])
    BY <1>1 DEF StepsLeft
  <1>5. CASE pc'[p] \in {"ready", "failed"}
    <2>1. StepsLeft(p)' = 0
      BY <1>5 DEF StepsLeft
    <2>2. StepsLeft(p) \in Nat /\ StepsLeft(p) >= 1
      BY <1>1, StepsLeftIsNat
    <2> QED
      BY <1>2, <2>1, <2>2
  <1>6. CASE /\ rank'[p] = rank[p]
             /\ <<pc[p], pc'[p]>> \in
                  {<<"start", "address">>, <<"address", "rkey">>, <<"rkey", "base">>,
                   <<"base", "commit">>, <<"commit", "enter">>, <<"enter", "fence">>,
                   <<"fence", "peers">>}
    <2>1. StepsAt(pc[p]) = StepsAt(pc'[p]) + 1 /\ StepsAt(pc'[p]) \in 1 .. 7
      BY <1>6 DEF StepsAt
    <2>2. StepsLeft(p)' = StepsAt(pc'[p]) + (size[p] - rank[p])
      BY <1>1, <1>6 DEF StepsLeft, StepsAt
    <2> QED
      BY <1>2, <1>3, <1>4, <2>1, <2>2
  <1>7. CASE pc[p] = "peers" /\ pc'[p] = "peers" /\ rank'[p] = rank[p] + 1
    <2>1. StepsLeft(p) = 1 + (size[p] - rank[p])
      BY <1>4, <1>7 DEF StepsAt
    <2>2. StepsLeft(p)' = 1 + (size[p] - (rank[p] + 1))
      BY <1>1, <1>7 DEF StepsLeft, StepsAt
    <2> QED
      BY <1>2, <1>3, <2>1, <2>2
  <1> QED
    BY <1>5, <1>6, <1>7, StepMoves

(* A PE takes at most size + 8 steps in init and handshake, whatever the   *)
(* others do.                                                              *)
THEOREM HandshakeIsFinite == Spec => HandshakeWindsDown
  <1>1. BootInv /\ [Next]_vars
          => [\A p \in PEs : /\ StepsLeft(p) \in Nat
                             /\ StepsLeft(p)' <= StepsLeft(p)
                             /\ Step(p) => StepsLeft(p)' < StepsLeft(p)]_vars
    <2> SUFFICES ASSUME BootInv, Next, NEW p \in PEs
                 PROVE  /\ StepsLeft(p) \in Nat
                        /\ StepsLeft(p)' <= StepsLeft(p)
                        /\ Step(p) => StepsLeft(p)' < StepsLeft(p)
      OBVIOUS
    <2>1. StepsLeft(p) \in Nat
      BY StepsLeftIsNat
    <2>2. PICK q \in PEs : Step(q)
      BY DEF Next
    <2>3. StepsLeft(p)' < StepsLeft(p) \/ StepsLeft(p)' = StepsLeft(p)
      BY <2>2, StepLowers
    <2>4. StepsLeft(p)' \in Int
      <3>1. BootInv'
        BY NextInv
      <3>2. /\ rank'[p] \in Nat /\ size'[p] \in Nat /\ pc'[p] \in Labels
        BY <3>1, BootstrapAssumption DEF BootInv, Types
      <3>3. StepsAt(pc'[p]) \in Int \/ pc'[p] \in {"ready", "failed"}
        BY <3>2 DEF StepsAt, Labels
      <3>4. CASE pc'[p] \in {"ready", "failed"}
        BY <3>4 DEF StepsLeft
      <3>5. CASE pc'[p] \notin {"ready", "failed"}
        <4>1. StepsLeft(p)' = StepsAt(pc'[p]) + (size'[p] - rank'[p])
          BY <3>5 DEF StepsLeft, StepsAt
        <4> QED
          BY <3>2, <3>3, <3>5, <4>1
      <3> QED
        BY <3>4, <3>5
    <2>5. StepsLeft(p)' <= StepsLeft(p)
      BY <2>1, <2>3, <2>4
    <2> QED
      BY <2>1, <2>5, StepLowers
  <1> QED
    BY <1>1, BootInvariant, PTL DEF Spec, HandshakeWindsDown

=============================================================================
