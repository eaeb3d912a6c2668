----------------------------- MODULE Bootstrap -----------------------------
(***************************************************************************)
(* The bootstrap of a job: every PE runs handshake (src/bootstrap.rs) from *)
(* init (src/init.rs).  It publishes its worker address, heap rkey and     *)
(* heap base in PMIx, fences, and then reads the three values of every     *)
(* rank below the job size it believes in, building one endpoint and one   *)
(* unpacked rkey per rank.  When a PE fails, init disconnects it, unless   *)
(* it never connected, it panics, or the disconnect fails, which init      *)
(* ignores.                                                                *)
(***************************************************************************)
EXTENDS Pmix

CONSTANTS
  Sizes,       \* job sizes a PE may read from PMIx or from PMIX_SIZE
  MayBeShort,  \* PEs whose packed rkey may be shorter than four bytes
  Faults       \* the native calls that may fail

Calls == {"connect", "panic", "init", "put", "commit", "fence", "peer", "disconnect"}

ASSUME BootstrapAssumption ==
  /\ Sizes \subseteq Nat
  /\ MayBeShort \subseteq PEs
  /\ Faults \subseteq Calls

VARIABLES
  size,    \* PE -> the job size init determined
  short,   \* the PEs whose packed rkey is too short
  pc,      \* PE -> where it is in handshake
  rank,    \* PE -> the rank its loop is at
  peers,   \* PE -> rank -> the metadata its connection was made from
  faulted, \* history: the PEs that met a failing native call
  silent   \* history: the PEs that failed and did not disconnect

vars == <<pmix, size, short, pc, rank, peers, faulted, silent>>

Labels == {"start", "address", "rkey", "base", "commit", "enter", "fence",
           "peers", "ready", "failed"}

(* WORKER_ADDR_KEY, HEAP_RKEY_KEY and HEAP_BASE_KEY.                       *)
KeySet == {"shmem.worker.addr", "shmem.heap.rkey", "shmem.heap.base"}

(* What PE p publishes under key; a value is known by its owner and key.   *)
Value(p, key) == <<p, key>>

(* The three values of p that a connection to it is made from.             *)
Metadata(p) == [key \in KeySet |-> Value(p, key)]

Init ==
  /\ PmixInit
  /\ size \in [PEs -> Sizes]
  /\ short \in SUBSET MayBeShort
  /\ pc = [p \in PEs |-> "start"]
  /\ rank = [p \in PEs |-> 0]
  /\ peers = [p \in PEs |-> Empty]
  /\ faulted = {}
  /\ silent = {}

Goto(p, label) == pc' = [pc EXCEPT ![p] = label]

(* The PE fails and PMIx does not learn of it.                             *)
FailSilently(p) ==
  /\ Goto(p, "failed")
  /\ silent' = silent \cup {p}
  /\ UNCHANGED pmix

(* init's error path: "let _ = client.disconnect(None)" ignores a failure. *)
Fail_StaysConnected(p) ==  \* mutant: init returns without disconnecting
  /\ Goto(p, "failed")
  /\ UNCHANGED <<pmix, silent>>

Fail(p) ==
  \/ Goto(p, "failed") /\ Leave(p) /\ UNCHANGED silent
  \/ "disconnect" \in Faults /\ FailSilently(p)

(* A native call fails.                                                    *)
Fault(p, native) ==
  /\ native \in Faults
  /\ faulted' = faulted \cup {p}
  /\ Fail(p)

----------------------------------------------------------------------------

(* connect_new fails and init returns at once, or require_rank or the      *)
(* heap's allocation panics and unwinding skips the disconnect.            *)
NeverStarts(p) ==
  /\ pc[p] = "start"
  /\ Faults \cap {"connect", "panic"} # {}
  /\ faulted' = faulted \cup {p}
  /\ FailSilently(p)
  /\ UNCHANGED <<size, short, rank, peers>>

(* init's other stages before handshake, then handshake's check of the     *)
(* size.                                                                   *)
Start(p) ==
  /\ pc[p] = "start"
  /\ \/ Fault(p, "init")
     \/ size[p] = 0 /\ Fail(p) /\ UNCHANGED faulted
     \/ size[p] > 0 /\ Goto(p, "address") /\ UNCHANGED <<pmix, faulted, silent>>
  /\ UNCHANGED <<size, short, rank, peers>>

(* put_bytes and put_value: one put per key.                               *)
PutKey(p, at, key, next) ==
  /\ pc[p] = at
  /\ \/ Put(p, key, Value(p, key)) /\ Goto(p, next) /\ UNCHANGED <<faulted, silent>>
     \/ Fault(p, "put")
  /\ UNCHANGED <<size, short, rank, peers>>

PutAddress(p) == PutKey(p, "address", "shmem.worker.addr", "rkey")
PutRkey(p) == PutKey(p, "rkey", "shmem.heap.rkey", "base")
PutBase_WrongKey(p) ==  \* mutant: the put key differs from the get key
  PutKey(p, "base", "shmem.heap.addr", "commit")

PutBase(p) == PutKey(p, "base", "shmem.heap.base", "commit")

CommitPuts(p) ==
  /\ pc[p] = "commit"
  /\ \/ Commit(p) /\ Goto(p, "enter") /\ UNCHANGED <<faulted, silent>>
     \/ Fault(p, "commit")
  /\ UNCHANGED <<size, short, rank, peers>>

(* pmix::fence: the call may fail at once; otherwise it blocks.            *)
CallFence_Skipped(p) ==  \* mutant: the fence is left out
  /\ pc[p] = "enter"
  /\ \/ Goto(p, "peers") /\ UNCHANGED <<pmix, faulted, silent>>
     \/ Fault(p, "fence")
  /\ UNCHANGED <<size, short, rank, peers>>

CallFence(p) ==
  /\ pc[p] = "enter"
  /\ \/ EnterFence(p) /\ Goto(p, "fence") /\ UNCHANGED <<faulted, silent>>
     \/ Fault(p, "fence")
  /\ UNCHANGED <<size, short, rank, peers>>

LeaveFence(p) ==
  /\ pc[p] = "fence"
  /\ \/ FenceDone(p) /\ Goto(p, "peers") /\ UNCHANGED <<pmix, silent>>
     \/ FenceBroken(p) /\ Fail(p)
  /\ UNCHANGED <<size, short, rank, peers, faulted>>

(* The process whose keys the loop body reads.                             *)
PeerProc_Self(p) == p          \* mutant: reads its own entries for every rank

PeerProc(p) == rank[p]

(* One iteration of the loop: three gets, the completeness check, an       *)
(* endpoint, an unpacked rkey, and the entry in both maps.  The keys of a  *)
(* PE never change after its commit, so the gets are one step.             *)
ConnectPeer(p) ==
  /\ pc[p] = "peers"
  /\ rank[p] < size[p]
  /\ LET pe    == PeerProc(p)
         found == \A key \in KeySet : Has(pe, key)
     IN  \/ /\ found /\ pe \notin short
            /\ peers' = [peers EXCEPT ![p] =
                           Update(@, Single(rank[p], [key \in KeySet |-> store[pe][key]]))]
            /\ rank' = [rank EXCEPT ![p] = @ + 1]
            /\ UNCHANGED <<pmix, pc, faulted, silent>>
         \/ /\ \/ (~ found \/ pe \in short) /\ Fail(p) /\ UNCHANGED faulted
               \/ Fault(p, "peer")
            /\ peers' = [peers EXCEPT ![p] = Empty]
            /\ UNCHANGED rank
  /\ UNCHANGED <<size, short>>

(* The loop is done: handshake returns and init installs the state.        *)
Finish(p) ==
  /\ pc[p] = "peers"
  /\ rank[p] = size[p]
  /\ Goto(p, "ready")
  /\ UNCHANGED <<pmix, size, short, rank, peers, faulted, silent>>

Step(p) ==
  \/ NeverStarts(p) \/ Start(p)
  \/ PutAddress(p) \/ PutRkey(p) \/ PutBase(p) \/ CommitPuts(p)
  \/ CallFence(p) \/ LeaveFence(p)
  \/ ConnectPeer(p) \/ Finish(p)

Next == \E p \in PEs : Step(p)

Spec == Init /\ [][Next]_vars

(* A PE that can take a step takes it: native calls return, and a fence    *)
(* ends once it is complete or broken, and not otherwise.                  *)
FairSpec == Spec /\ \A p \in PEs : WF_vars(Step(p))

----------------------------------------------------------------------------

(* Every variable stays in its type.                                       *)
TypeOK ==
  /\ fences \in [PEs -> 0 .. 1]
  /\ gone \subseteq PEs
  /\ size \in [PEs -> Sizes]
  /\ short \subseteq PEs
  /\ faulted \subseteq PEs
  /\ silent \subseteq PEs \ gone
  /\ pc \in [PEs -> Labels]
  /\ \A p \in PEs :
       /\ DOMAIN staged[p] \subseteq KeySet /\ DOMAIN store[p] \subseteq KeySet
       /\ rank[p] \in 0 .. size[p]
       /\ DOMAIN peers[p] \subseteq 0 .. size[p] - 1

(* ViewIsPublished: a PE whose handshake succeeded holds, for every rank   *)
(* below its job size, exactly the address, rkey and heap base that rank   *)
(* published, so any two PEs address the same heap of a third.             *)
ViewIsPublished ==
  \A p \in PEs : pc[p] = "ready" =>
    peers[p] = [pe \in 0 .. size[p] - 1 |-> Metadata(pe)]

(* ReadyAfterAllPublished: no PE becomes ready unless every PE of the job  *)
(* reached the fence with its metadata committed; a PE that fails earlier  *)
(* takes the whole job down with it.                                       *)
ReadyAfterAllPublished ==
  \A p, q \in PEs : pc[p] = "ready" => fences[q] = 1 /\ DOMAIN store[q] = KeySet

(* The fence p is in lacks only PEs that failed without disconnecting.     *)
Stranded(p) ==
  LET missing == { q \in PEs : fences[q] < fences[p] } IN
    pc[p] = "fence" /\ missing # {} /\ missing \subseteq silent

(* OnlySilentPEsStrand: every PE's init ends, also when others fail before *)
(* the fence, because a failed init disconnects and that breaks the fence; *)
(* a PE stays in the fence for ever only if each PE it lacks failed        *)
(* without disconnecting (init.rs:80, a panic, or an ignored disconnect).  *)
OnlySilentPEsStrand ==
  <>[](\A p \in PEs : pc[p] \in {"ready", "failed"} \/ Stranded(p))

(* p has a reason of its own to fail: a native call failed, the size it    *)
(* determined is zero or names ranks that do not exist, or a rank it must  *)
(* connect to published a malformed rkey.                                  *)
Cause(p) ==
  \/ p \in faulted
  \/ size[p] = 0 \/ size[p] > N
  \/ \E q \in short : q < size[p]

(* FailureHasCause: handshake fails only for a reason of the PE's own, or  *)
(* because a PE with such a reason failed before it entered the fence: no  *)
(* race between one PE's puts and another's gets makes it fail, and a PE   *)
(* that fails after the fence takes nobody with it.                        *)
FailureHasCause ==
  \A p \in PEs : pc[p] = "failed" =>
    Cause(p) \/ \E q \in PEs : pc[q] = "failed" /\ fences[q] = 0 /\ Cause(q)

=============================================================================
