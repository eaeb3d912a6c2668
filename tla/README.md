# A TLA+ verification project for openshmem-rs

`openshmem` is a Rust crate that offers an OpenSHMEM-like API (a partitioned
global address space) on top of three native libraries: PMIx starts a job of
processes (PEs) and lets them exchange data, UCX moves bytes between them, and
UCC runs collectives. This directory holds TLA+ modules translated from the
crate's source, TLC configurations that check them on small instances, and
proofs, checked by TLAPS, of what matters most. All paths below are relative to
the repository; `src/symheap.rs` is in the crate's `src` directory.

## 1. Inventory

| Part | Source | State | Operations | Hard behaviour | What makes it correct |
|---|---|---|---|---|---|
| Symmetric heap | `symheap.rs` | free list (`Vec<Block>`), `allocations` map, base and capacity of the region | `with_size`, `malloc`, `free` | long call sequences, rounding and limits, stale copies of `SymPtr` | allocations never overlap, no byte is lost, the answer of `malloc` depends on the live allocations alone |
| Symmetry across PEs | `symheap.rs` (`SymPtr`) | one heap per PE, at different addresses | `malloc`/`free` on every PE, `to_remote_addr` | PEs run at different speeds and nothing synchronizes them | an object is at the same offset everywhere |
| Lifecycle | `init.rs` | `OnceLock<Mutex<Option<ShmemState>>>`, native handles, the PMIx session | `init`, `finalize`, `with_state`, `with_state_mut`, `my_pe`, `n_pes` | threads racing, failure of any stage, panics that poison the mutex, drop order | all or nothing, one disconnect per session, handles die before their transport |
| Bootstrap | `bootstrap.rs`, `init.rs` | PMIx key-value store, one `PeerConnection` per rank | `handshake` | puts racing gets, PEs that fail before or after the fence, wrong job sizes | a ready PE knows exactly what its peers published; only a PE that fails without disconnecting can hold the others |
| Out-of-band allgather | `coll.rs` | one PMIx key per PE, boxed request | `allgather`, `req_test`, `req_free` | consecutive rounds reuse the key, PEs that fail between or in rounds | each round delivers that round's blocks, and callbacks return |
| Collectives | `coll.rs` | UCC operations, `CollectiveRequest` | `barrier`, `broadcast`, `collect`, `reduce`, their `_nb` forms, `test`, `wait`, `result` | operations completing out of order, failing finalization, PEs that give up | Ok means synchronized and delivered; calls end |
| RMA, atomics, ordering | `rma.rs` | UCX worker, endpoints, rkeys; symmetric heaps as remote memory | `put*`, `get*`, `atomic_*`, `fence`, `quiet*` | local against remote completion, reordering between fences, one endpoint of several failing, a mutex held while waiting, targets that finalize or do not progress | heaps and replies are those of one history of calls; `quiet` completes, `fence` orders, a barrier publishes; only a hopeless call blocks |
| Typed data | `rma.rs` | none | bit patterns of signed and unsigned words, lengths | sign and wrap-around, overflow | part of the RMA properties |
| Errors | `error.rs` | none | conversion and wording | none | not modelled: no state or control |

How they interact: `init`, `finalize` and every operation on the state enter
through the lifecycle mutex; `test`, `wait` and `result` of a `CollectiveRequest`
run outside it, on the operation and the context they hold. `init`
creates the transport, the heap, then runs the bootstrap exchange with all
other PEs, installs the state and creates the UCC team, which calls back into
the out-of-band allgather. Heap offsets and the peer bases from the bootstrap
give the remote addresses of RMA, whose waits, like those of blocking
collectives, hold the mutex of the PE. `PROJECT.json` lists the hazards found, each
at its line, with the properties that watch it.

## 2. Modules

| Module | Models | Notes |
|---|---|---|
| `HeapOps` | the allocator's arithmetic: rounding, first fit, carving, coalescing | operators only; the free list is the set of its blocks |
| `HeapState` | parameters and state of one heap, all but the free list, with its callers | `owned` and `stale` describe the callers: `SymPtr` is `Copy`, so a copy of a pointer survives its free |
| `SymHeap` | one heap, its free list as a set of blocks | extends `HeapState` |
| `HeapList` | the free list as the code's `Vec`: position, remove, push, sort, drain | extends `HeapState` |
| `SymHeapList` | the same heap on that `Vec` | shown to implement `SymHeap` with `free <- ToSet(list)` |
| `HeapTiling` | what it means for free blocks and allocations to share a region out: tilings, gaps, fits | the vocabulary of the allocator's properties, models no code |
| `HeapTilingProofs` | lemmas about carving, releasing, gaps and lowest fits in a tiling | used for one heap and for all |
| `SymHeapProofs` | theorems about `SymHeap` and `SymHeapList`, the refinement between them among them | |
| `SymmetricHeap` | all PEs' heaps, one program, no synchronization | composes `HeapOps` N times |
| `SymmetricHeapProofs` | theorems about `SymmetricHeap` | |
| `Lifecycle` | the global state, its mutex, `init`, `finalize` and the operations that run under it, by several threads | one step per stage of `init`, one per dropped handle |
| `LifecycleProofs` | theorems about `Lifecycle` | |
| `Pmix` | PMIx as the crate uses it (external) | put, commit, fence, get, disconnect |
| `Bootstrap` | `handshake` on all PEs over `Pmix` | |
| `BootstrapProofs` | theorems about `Bootstrap` | |
| `Allgather` | what an out-of-band allgather promises (external interface of UCC) | abstract; `Drift` says how many rounds too new a block may be |
| `OobAllgather` | the callbacks of `coll.rs` over `Pmix` | shown to implement `Allgather` with `Drift <- 1` |
| `OobAllgatherProofs` | theorems about `OobAllgather`, its refinement of `Allgather` among them | |
| `Collectives` | the collectives and `CollectiveRequest` over a UCC team (external) | |
| `CollectivesProofs` | theorems about `Collectives` | |
| `Words` | `AtomicValue::bits`/`from_bits`, the conversions of `Pod` on integers, and UCX's atomics on words (external) | a word has `2 * SignBit` values |
| `Rma` | puts, gets, atomics, `fence`, `quiet*`, `barrier` and `finalize` of all PEs, several threads each, under each PE's lifecycle mutex | UCX's delivery is external; composes the address translation, the mutex and the barrier |
| `Examples` | the programs of `examples/ping_put_get.rs` and `examples/barrier.rs` | as programs of `Rma` |
| `RmaProofs` | theorems about `Rma`: completion, ordering, publication, the history of memory and of replies | |
| `MC*` | constants of the runs | |

Definitions whose name has an underscore and a comment "mutant" are wrong
variants of the definition below them. Each property of a passing run is
violated when one of them takes that definition's place; they are used nowhere
else.

### Correspondence with the code

* **SymHeap.** A call is one step, since `with_state_mut` (or `SymAlloc`'s
  mutex) encloses it. `MallocRejected`, `MallocExhausted` and `MallocOk` are the
  three returns of `malloc`; `FreeUnknown` and `FreeLive` those of `free`, which
  removes the map entry *before* the range check, as the code does. In
  `HeapList`, `Position`, `CarveAt`, `SortByStart` and `MergeNext` are the
  `Vec` operations of `malloc` and `free`; `SortByStart` states what a stable
  sort by `start` yields, and the drain loop is a fold. Addresses
  and lengths are integers up to `UsizeMax`, so the overflow checks are real.
  `HeapAssumption` says that `with_size` returned `Ok` and that the region lies
  in the address space.
* **Lifecycle.** `Call` enters the API, `LockState` is `lock_state`. `Connect`,
  `NewTransport`, `NewHeap`, `JobSize`, `Handshake`, `NewRuntime` are the stages
  of `init`; each may fail when it is in `Faults`. Errors go through
  `Disconnect` and `Drop`, which drops the handles one at a time in the order of
  `ShmemState`'s fields. `RequireRankPanics`, `NewHeapPanics` and the panic of
  `Operate` poison the mutex. `Handshake`, `NewRuntime` and `Operate` stand for
  code that waits for other PEs with the mutex held (`WaitsForPeers`); they need
  not return. A job's second `init` after `finalize` is allowed, as the code
  allows it.
* **Bootstrap.** The steps of `handshake` one by one; a failure takes `init`'s
  error path (`Fail`), which disconnects and ignores a disconnect that fails.
  `NeverStarts` is a failure without any disconnect: `connect_new` fails, or
  `init` panics. `size` is what the PE read from PMIx or `PMIX_SIZE` and may be
  wrong. `faulted` and `silent` (the PEs that failed and did not disconnect) are
  history variables.
* **OobAllgather.** One action per native call of `allgather`; UCC frees a
  request before it starts the next round. `Size[p]` is the size that PE `p`'s
  `init` determined, up to which it collects; it may be smaller than the job.
  `GiveUp` is a failure of `Runtime::new` outside the callback (or of `handshake`
  after its fence), `Disconnect` what `init` does then, `silent` as above.
  `round` counts calls, `fences` is the number of fences entered.
* **Collectives.** All PEs run one script of calls. `Call` posts, `Wait` is an
  iteration of `fn wait`, `Test` and `Result` are the methods of
  `CollectiveRequest`. `context.progress()` may complete any operation of the
  PE. Data is the tuple of ranks whose contributions a buffer holds.
  `unfinalized` is a history variable.
* **Rma.** Every thread of every PE has a script of API calls. `Enters` takes
  the lifecycle mutex, and what the code does up to its wait is one step:
  `Transfer` covers `putmem`, `getmem` and the two families of atomics, which
  check the peer and the address (`Rejected`, in the order of
  `peer_and_address`), return at once for an empty transfer, and post. A
  transfer is a set of elements (`flight`), each with the address the code
  computed and the number of worker fences before it. `RequestDone`,
  `RequestDoneLocally` and `RequestFails` are the outcomes of `wait_request` and
  `complete_fetch`; a put or a non-fetching atomic may complete while its
  elements are still in flight, a get or a fetch may not. `Quiet` enters the
  loop over `state.peers` (a `BTreeMap`, so in rank order), `Flush` and
  `FlushFails` are its iterations. `Barrier` and `WaitBarrier` are
  `coll::barrier`, which holds the mutex and drives UCC only. `Deliver` is UCX:
  it carries out one element, never before one that the same PE posted to the
  same target before an earlier fence, and only while the target drives its
  worker if there is no hardware support (`offloaded`). `await` stands for the
  reader's loop of the example: a call to `get`, repeated until it sees a value
  or its deadline passes. `log` is a history variable: the elements carried
  out, in order (the gets of an `await` are left out of it, so that the loop has
  finitely many states).

## 3. Runs

| Run | Bounds | Shows |
|---|---|---|
| `symheap` | 5 words, 7-bit addresses, sizes 0, 1, 8, 9, 24 and one that overflows, 3 foreign pointers; no bound on the number of calls | `HeapPartition`, `FreeIsGaps`, `OwnedIsAllocated`, `MallocIsLowestFit` |
| `symheap_list` | the same heap | the `Vec` stays sorted without abutting blocks, and implements the set view |
| `symmetric_heap` | 2 PEs, 4 words, programs of 6 calls | `RemoteAddressIsPeers`, `HeapsConverge` |
| `lifecycle` | 2 threads, 6 calls, every fault and panic | `AllOrNothing`, `OperationsSeeWholeState`, `SessionsAccounted`, `HandlesBeforeTransport`, `OnlyPeersBlockCalls` |
| `bootstrap` | 3 PEs, sizes 0, 2, 3, 4 in any combination, a malformed rkey, every fault | `ViewIsPublished`, `ReadyAfterAllPublished`, `FailureHasCause`, `OnlySilentPEsStrand` |
| `oob_allgather` | 3 PEs, one of which takes the job to be of 2, rounds of 4, 8, 8 and 0 bytes, every fault | `ImplementsDriftingAllgather`, `OnlySilentPEsHoldRounds` |
| `collectives` | 2 PEs, every script of two out of 12 calls, every fault | `OkMeansEveryoneCalled`, `FinalizedOkMeansDelivered`, `BlockingCallsReturn`, `PolledRequestsComplete` |
| `rma` | 2 PEs, 1 or 2 threads, 2 words of 3 bits per heap at overlapping addresses of a 5-bit address space, 116 programs, with and without hardware RMA, every fault | `QuietCompletes`, `FenceOrders`, `HeapIsCallHistory`, `RepliesAreHistory`, `BarrierPublishes`, `OnlyHopelessCallsBlock` |

Why the bounds are enough: five words admit three separate allocations with
gaps on both sides of each, so both neighbours, one neighbour and no neighbour
are coalesced, and the proofs cover all sizes. Six API calls let two threads
overlap `init`, an operation and `finalize` and start again. Three PEs separate
the PE that fails, one that waits for it and a third that is already past the
fence. Rounds of 8 and 8 bytes let a block be mistaken for the next round's;
4 and 8 make the length check fail. Two scripted calls put a blocking call
behind an outstanding request and two requests side by side. In `rma`, each
group of programs provokes one hazard: the two examples; data, `quiet`, barrier,
get; data, fence, flag; every pair of ten atomics on one word, signed and
unsigned, with a third and a get after them; writes to both endpoints racing the
peer's `finalize`; a thread in a barrier that keeps another thread of its PE
from setting the flag the peer awaits before it joins; offsets and lengths that
overflow, end just past the heap or are empty. Words of 3 bits have negative
values that wrap, and the overlapping heaps make a wrong base visible as a wrong
word rather than as an error. Other programs, more PEs and more threads are
covered by the proofs, which exist for every invariant of the passing runs, for
the action property of the allocator and for both refinements (see section 5).

`OnlyHopelessCallsBlock` is where the mutex, the collectives and RMA meet. The
run shows the exceptions it names to be the only ones: a peer that stays away
from the barrier (also because the awaited flag is stuck behind the mutex of the
PE in the barrier), a target that has finalized or an address it does not
register, and, without hardware RMA, a target that makes no more RMA calls.

`CHECK_DEADLOCK FALSE` stands where the program may stop calling, or where all
PEs have ended. The heap has no such end and is checked for deadlock.

### What the violations show

| Run | Says | Does |
|---|---|---|
| `symheap_double_free` | "double/foreign frees are errors" (`symheap.rs:171`) | malloc, free, malloc at the same address, free of a copy of the first pointer: returns Ok and frees the second owner's memory |
| `lifecycle_disconnect_fails` | finalization is idempotent and disconnects before the state is cleared (`init.rs:177`) | `state.take()` comes first; after a failed disconnect the next `finalize` returns Ok with the session open |
| `oob_two_rounds` | the "required out-of-band allgather" (`coll.rs:2`) | a fast PE overwrites its block for round 2 before a slow one has read that of round 1; the slow one reports success |
| `collectives_finalize` | completed bytes are copied back (`docs/DESIGN.md:56`) | `test` takes the op out, `finalize()` fails, the next `test` returns `Ok(true)` without a copy |

## 4. Fairness

* `Lifecycle`: weak fairness of each thread's steps, except those that wait for
  other PEs (`WaitsForPeers`: the handshake, the runtime, an operation), of which
  nothing is assumed. Native calls on the process's own resources return, and a
  thread gets a free mutex; since the number of calls is bounded, nobody is
  overtaken for ever (`std::sync::Mutex` promises no more than that).
* `Bootstrap`, `OobAllgather`: weak fairness of each PE's steps. A fence ends
  once everybody has entered it, or fails once a PE that has not entered it has
  disconnected; a PE whose fence does neither stays in it. That a disconnect
  breaks the fence is an assumption on PMIx; `OnlySilentPEsStrand` and
  `OnlySilentPEsHoldRounds` rest on it.
* `Collectives`: each PE goes on with its script, runs its wait loop, and keeps
  testing its requests, as `CollectiveRequest::wait` does. A progress call that
  can complete something does so eventually. `Result` needs no fairness.
* `Rma`: weak fairness of each thread's next call and of the wait loops
  (`RequestDone`, `Flush`, `WaitBarrier`), which poll. Strong fairness of
  `Deliver` per pair of PEs: a target that calls RMA again and again handles
  each message some time. Completing a put before it has landed, and every
  failure, is possible but never due. Scripts are finite, so no thread is
  overtaken for ever, except behind an `await` loop, which reacquires the mutex
  each time.

## 5. Proofs

Every theorem holds for all values of the constants that satisfy the named
assumptions of the module it is about. Each module of proofs states one
inductive invariant, or several that build on each other, proves it preserved
action by action, and derives the properties from it. Apart from
`HistoriesOK`, which quantifies over all functions, TLC has checked the
inductive invariants on the instances of the runs.

### The heap

`HeapTilingProofs` has no specification of its own: its lemmas say what carving
and releasing a block do to a tiling (`CarveTiles`, `ReleaseTiles`), that the
free blocks of a tiling without abutting blocks are exactly the maximal gaps
between the allocations, and that the first block that fits is the lowest
offset that fits.

`SymHeapProofs` proves, for every heap size, base address, address width and
set of callers under `HeapAssumption`:

* `HeapInvariant`: `HeapInv == TypeOK /\ HeapPartition /\ NoneAbut(free)` is
  inductive. `NoneAbut` is needed because the tiling alone does not say what the
  merging pass yields: `Coalesce` glues *maximal runs*, and since the list it
  starts from has no abutting blocks and one block was added, a run has at most
  three blocks.
* From it: `TypeCorrect` (blocks and allocations are nonempty aligned ranges
  inside the region, callers' pointers addresses in it), `Partition`, `GapsAreFree` (the free list is exactly
  the maximal gaps), `LowestFit` (an action property), `OwnersKeepTheirMemory`.
* `DoubleFreeCaught` delimits the finding of `symheap_double_free`: a free
  through a stale copy is an error and changes nothing, unless `malloc` has
  handed the same address out since.

The second half of the module is about `SymHeapList`, the heap on the code's
`Vec`. `ListInvariant` shows `ListInv` inductive: the list is strictly sorted
with a gap between any two blocks (`Ordered`), and its blocks tile the region
together with the allocations. `ListStaysSorted` follows at once.
`ListImplementsSet` is the refinement: the block that `position` finds is the
lowest that fits, because the list is sorted; editing it in place is `Carve`; and
`push`, `sort_by_key` and the drain loop are `Coalesce` (`ReleaseIsCoalesce`).
The last rests on three facts. The sort exists, permutes and orders. Each
iteration of the loop keeps the merged prefix ordered and covering the same
bytes. And two lists of blocks without abutting neighbours that tile the same
region around the same allocations have the same blocks, since both are its
maximal gaps; so nothing has to be said about which blocks were glued.
`ListIsTheGaps` carries `HeapPartition` and `FreeIsGaps` over to the list.

The loop needs an induction over the list. The library's induction theorems take
an operator and cannot be used here, but its statement that every nonempty
subset of a well-founded set has a minimal element (`WFMin`) takes a set: with
`NatLessThanWellFounded` it gives `LeastNatural`, and an argument by the least
counterexample `BoundedInduction`. The fold itself is expanded by its definition.

`SymmetricHeapProofs` proves `RemoteAddresses` and `SameFreeLists` for any
number of PEs, any bases and any program. PEs are never at the same place, so
their heaps cannot be compared directly. `SymInv` compares instead what the
program says: each PE's region is tiled by its free list and the objects it
holds, and every object is at the lowest fit among the objects that were live
*in the program* before it. Two PEs that have made the same call then had the
same choice, by induction on the calls (as an invariant over steps), and two
PEs that have made the same calls have the same gaps.

### The lifecycle

`LifecycleProofs` proves, for every set of threads and faults and for both
builds of the crate: `LifecycleInvariant` (one holder of the mutex at most; the
place of the holder in `init` or `finalize` determines which handles and
sessions exist; outside, all or nothing), and from it `TypeCorrect`,
`WholeStateInOperations`, `NothingHalfBuilt`, `NoSessionForgotten` and
`HandlesDropFirst`. `OperationsSeeWholeState` and `AllOrNothing` are not
inductive: they hold between steps only because of what is true inside them.

`FinalizeOkMeansReleased` says what Ok from `finalize` does guarantee: no state,
no handle, and no open session but those whose disconnect failed in an earlier
call or was skipped by a panic. `FinalizeDisconnectsWithoutFaults` is the
property that `lifecycle_disconnect_fails` violates, for a process in which
`disconnect` does not fail and `init` does not panic: these faults are all that
the violation needs.

`NoLostMutex` is the safety half of `OnlyPeersBlockCalls`: if all threads in a
call wait for the mutex, it is free, so no return, error path or panic keeps it.

### Bootstrap, allgather and collectives

`BootstrapProofs`: `BootInv` says what a PE has staged, committed and entered at
each place of `handshake` (`Publishing`), that it has connected to exactly the
ranks below its loop variable with their metadata (`Connected`), and that a PE
past the fence has seen everybody enter it (`AllEntered`). From it
`TypeCorrect`, `ViewsArePublished`, `ReadyMeansAllPublished` and
`FailuresHaveCauses`, for any number of PEs, reported sizes and faults.
Two theorems are the safety half of `OnlySilentPEsStrand`.
`OnlySilenceHoldsTheFence`: when all running PEs are in the fence, each can leave
it or lacks only PEs that failed without disconnecting. `HandshakeIsFinite`: a PE
takes at most its job size plus 8 steps, the wait in the fence being one.
`NoDeadlockWhenFailuresDisconnect` says what `init`'s error path is good for: if
no PE fails to connect, none panics and no disconnect fails, nobody is held.

`OobAllgatherProofs`: `OobInv` relates rounds, fences and outcomes at each place
of the callback (`Label`), bounds the round of the bytes a PE has committed by
its own round and by one more than anybody's fence (`Stored`), and says that
nobody is more than one fence ahead (`Fenced`), for any sizes the PEs collect up
to. It yields `TypeCorrect` and
`Refinement`: step by step, the callbacks implement the allgather whose blocks
may be one round too new. Two corollaries put this in plain terms:
`BlocksDriftByOne` (a delivered block is its owner's for this round or the
next), and `OneRoundIsExact` (a team made with a single allgather gets exact
blocks; the run `oob_two_rounds` shows that two rounds do not). The safety half
of `OnlySilentPEsHoldRounds` is `CallbackIsFinite` (a round takes PE p at most
Size[p] + 5 steps) and `OnlySilenceHoldsTheFence`: among PEs in fences of two
rounds, one in the earlier round can go on, one that failed has broken the fence
it missed or is silent (`GoneAreFailed`), and nobody waits for anything else.
`NoDeadlockWhenFailuresDisconnect`: if no disconnect fails, somebody can always
leave.

`CollectivesProofs`: `CollInv` says, call by call, that a request is closed and
a caller told Ok only when UCC has shown the operation as done, which takes the
posts of all its participants, and that the user's buffer then holds the
result unless finalization failed. From it `TypeCorrect`, `OkSynchronizes` and
`OkDelivers`, for any script, number of PEs and faults.
`OkDeliversUnlessFinalizeFails` is the property that `collectives_finalize`
violates, for a UCC whose `finalize()` does not fail. `NoCollectiveDeadlock` is
the safety half of `BlockingCallsReturn`: while no call has failed, PEs in
blocking calls do not all wait for each other. The PE furthest behind in the
script (`FurthestBehind`) has what it needs, because a PE that is past a call and
has not failed has posted it (`PostedInv`).

### RMA

`RmaProofs` proves, for every set of programs, any number of PEs and threads,
every heap layout and every fault: `RmaInvariant`, and from it `TypeCorrect`,
`QuietIsCompletion` and `FenceIsOrdering`. Neither of the last two is inductive.

* For `fence`: `EpochsOK` (what has landed at a PE has an epoch no later than
  what the same origin still has in flight to it; UCX's rule for a single step
  makes it inductive), `FencedOK` (a successful fence puts what its thread has
  posted so far into a past epoch) and `BetweenOK` (so elements on two sides of
  a fence have different epochs). `EpochsOK` and `BetweenOK` contradict each
  other for an element that would be overtaken.
* For `quiet`: `PostedOK` (a write that waits has all its elements in flight or
  landed), `IssuedOK` (so has a write that returned Ok, as long as its PE is up:
  a failing request loses only its own elements) and `FlushedOK` (while a quiet
  runs, what it covers and is in flight goes to an endpoint that is still left).
  When the last flush is done, what was issued and is not in flight has landed.
  `AnswersOK` says that later calls have no answer yet, `RunningOK` that the
  holder of the mutex is in a call that waits and its PE is up.

The proof first reduces the 19 actions to seven shapes of a step (`NextShape`),
and then shows each part of the invariant preserved, shape by shape. Three more
invariants are proved on top of it:

* `BarrierInv`, for `BarrierIsPublication`: nobody has returned from a barrier
  that a PE has not entered (`NumbersOK`), and what a thread completed before
  the barrier it returned from (`ReturnedOK`) or waits in (`WaitingOK`) is in the
  log before every get after that barrier. When a barrier is posted nobody can
  have returned from it, so the claim starts out true; when a get lands, the
  write has landed already, by `QuietCompletes`.
* `HistoryInv`, for `HeapIsHistory`: what is in flight aims at the word its
  caller named (`AimsOK`), so that a landing element has the effect of its call
  on its cell and on no other word (`EffectStep`). `Contents` is a recursive
  function of the log; that such a function exists and is unique for every
  prefix of the log is proved as an invariant (`HistoriesOK`), true of the empty
  log and carried on by each entry. `PastIsFixed` and `NewEntry` then say how `Contents` grows.
* `ReplyInv`, for `RepliesAreTrue`: memory holds words (`WordsOK`), an element of
  a get or a fetch is in flight only while its call runs (`ReadsOK`) and never
  twice (`OnceOK`), and the reply buffer of the running call has room for its
  elements (`BuffersOK`) and holds, for each that has landed, what its cell
  contained right before (`FilledOK`). An Ok answer is decoded from that
  buffer, and two's complement preserves residues (`DecodedValue`).

These use two assumptions that the Rust types justify: a put has as many values
as elements and a compare-and-swap two operands (`Calls`), and a bitwise
operation on words yields a word (`BitwiseAssumption` of `Words`, which holds when
`SignBit` is a power of two).

`BlockingHasAReason` is the safety half of `OnlyHopelessCallsBlock`: in every
reachable state, a call that holds the mutex of its PE can complete, or an
element it waits for can land, or what it waits for cannot happen, for one of
the reasons that property names. The element that can land is one of the
earliest epoch (`EarliestElement`), which no fence holds back.

### Only model-checked

Liveness: `OnlyPeersBlockCalls`, `OnlySilentPEsStrand`,
`OnlySilentPEsHoldRounds`, `BlockingCallsReturn`, `PolledRequestsComplete` and `OnlyHopelessCallsBlock`.
They rest on fairness, and the prover reasons about neither fairness nor
`ENABLED`. The theorems above prove their safety half: nobody waits for what
cannot come, but for the reasons the property names, and, in the handshake and
the callback, every step is progress.
`PolledRequestsComplete`, about a request that its owner keeps testing, has no
such part. What these theorems and the delimiting ones state, no passing run
lists; TLC has checked it once on the instances of the runs, without the faults
that a theorem excludes.

## 6. Limits and what is not modelled

* External assumptions: a PMIx get returns what its owner committed last and
  fails when the key is absent; UCC matches operations by their order and keeps
  an unfinished one in the state that `fn wait` takes for "in progress"
  (`UCC_ERR_NO_MESSAGE`); a dropped `UccCollective` is UCC's business, so
  dropping a `CollectiveRequest` early is not modelled.
* All PEs are taken to have read the same `SHMEM_SYMMETRIC_SIZE`. Each process
  reads its own environment (`symheap.rs:102`) and nothing exchanges or compares
  the sizes; with unequal ones a `malloc` can succeed on one PE and fail on
  another, and the symmetry of the heaps is lost.
* What happens to PEs that a silent failure strands is not modelled: the launcher
  may kill the job, and a process whose `init` failed may call it again. In
  `Bootstrap` and `OobAllgather` a PE calls `init` once.
* `OobAllgather` starts where `handshake` has let every PE pass; a PE whose
  handshake failed after the fence gives up before its first round.
* `handshake` iterates to `size as u32`; job sizes above 2^32 are not modelled.
* UCX is assumed to carry out each element once and atomically, to refuse a
  range outside the registered heap (`peer_and_address` does not check the
  peer's capacity, nor that base + offset + length stays in the address space),
  to make an endpoint flush wait for everything posted on that endpoint, and to
  order a worker's transfers to one target across a worker fence. The crate's
  note that self transports cannot run atomics, and atomics whose feature flag
  the context does not request, show up as calls that fail ("post").
* Offsets are multiples of the element size; a word is the unit of memory, so
  transfers of one size over words of another are not modelled. Neither are
  byte order, floats, and `T::SIZE != size_of` in `pod_as_bytes`, which the
  sealed trait excludes.
* `getmem` of a length that cannot be allocated panics under the mutex; that is
  the panic of `Operate` in `Lifecycle`.
* Error wording and conversion, `PeerRkeys` as a lookup table, and UCX context
  and registration parameters are left out.

## 7. Status

Modelled and checked, in this order: heap and its list refinement; symmetry;
lifecycle; bootstrap; out-of-band allgather; collectives; RMA with atomics,
ordering, the blocking barrier, `finalize` and the two examples. Every invariant
that a passing run checks is proved, and so are the action property of the
allocator, both refinements (the list of the heap, the allgather) and the safety
half of the liveness properties. Three of the four findings are delimited by a
theorem that names the only circumstance in which they occur, and the fourth by
`OneRoundIsExact`. Open: the code of section 6.
