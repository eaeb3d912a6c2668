----------------------------- MODULE Lifecycle -----------------------------
(***************************************************************************)
(* The process lifecycle (src/init.rs): the global                         *)
(* OnceLock<Mutex<Option<ShmemState>>>, init with its stages and failure   *)
(* paths, finalize, and the API calls that run an operation inside         *)
(* with_state or with_state_mut while the mutex is held.  The methods of a *)
(* CollectiveRequest (test, wait, result) take no lock and do not reach    *)
(* the state; Collectives models them.                                     *)
(*                                                                         *)
(* Threads of one process interleave between the steps below.  PMIx, UCX   *)
(* and UCC are external: a native call succeeds, or fails when its stage   *)
(* is in Faults.                                                           *)
(***************************************************************************)
EXTENDS Integers, Sequences

CONSTANTS
  Threads,      \* threads of the process
  Collectives,  \* is the crate built with the feature "collectives"?
  Faults,       \* the stages that may fail or panic
  MaxCalls      \* bound: API calls made by all threads together

Stages == {"connect", "rank panic", "transport", "heap", "heap panic", "size", "handshake",
           "runtime", "disconnect", "operation panic"}

ASSUME LifecycleAssumption ==
  /\ Collectives \in BOOLEAN
  /\ Faults \subseteq Stages
  /\ MaxCalls \in Nat

VARIABLES
  holders,    \* threads that hold the mutex
  poisoned,   \* a thread panicked while it held the mutex
  installed,  \* the Option is Some
  live,       \* native resources created and not yet dropped
  sessions,   \* PMIx connections that have not been disconnected
  leaked,     \* connections the code gave up on: disconnect failed, or a panic
  pc,         \* where each thread is
  call,       \* the API call each thread is in, or its last one
  res,        \* that call's result
  calls       \* calls made so far

vars == <<holders, poisoned, installed, live, sessions, leaked, pc, call, res, calls>>

Kinds == {"init", "finalize", "operation"}
Labels == {"idle", "lock", "init", "transport", "heap", "size", "handshake",
           "abandon", "runtime", "finalize", "operation", "operating",
           "close", "drop"}
Results == {"none", "ok", "error", "poisoned", "already", "uninitialized", "panic"}

(* The fields of ShmemState that own native handles, in declaration order, *)
(* which is the order Rust drops them in.  init's locals drop in the same  *)
(* order: heap is declared after transport, and handshake drops its own    *)
(* peers before it returns an error.                                       *)
DropOrder_TransportFirst == <<"transport", "peers", "heap", "team">>  \* mutant: fields reordered

DropOrder == <<"peers", "heap", "transport", "team">>

Resources == {"peers", "heap", "transport", "team"}
Whole == IF Collectives THEN Resources ELSE Resources \ {"team"}

Init ==
  /\ holders = {}
  /\ poisoned = FALSE
  /\ installed = FALSE
  /\ live = {}
  /\ sessions = 0
  /\ leaked = 0
  /\ pc = [t \in Threads |-> "idle"]
  /\ call = [t \in Threads |-> "operation"]
  /\ res = [t \in Threads |-> "none"]
  /\ calls = 0

Goto(t, label) == pc' = [pc EXCEPT ![t] = label]

(* The call returns: the guard is dropped and the mutex released.          *)
Return(t, result) ==
  /\ Goto(t, "idle")
  /\ res' = [res EXCEPT ![t] = result]
  /\ holders' = holders \ {t}

----------------------------------------------------------------------------

Call(t, kind) ==
  /\ pc[t] = "idle"
  /\ calls < MaxCalls
  /\ Goto(t, "lock")
  /\ call' = [call EXCEPT ![t] = kind]
  /\ res' = [res EXCEPT ![t] = "none"]
  /\ calls' = calls + 1
  /\ UNCHANGED <<holders, poisoned, installed, live, sessions, leaked>>

(* lock_state: the mutex is taken; a poisoned mutex yields an error and    *)
(* the guard inside the PoisonError is dropped with it.                    *)
LockState_NoMutex(t) ==  \* mutant: the state is reached without the mutex
  /\ pc[t] = "lock"
  /\ \/ poisoned /\ Return(t, "poisoned")
     \/ /\ ~ poisoned
        /\ holders' = holders \cup {t}
        /\ Goto(t, call[t])
        /\ UNCHANGED res
  /\ UNCHANGED <<poisoned, installed, live, sessions, leaked, call, calls>>

LockState(t) ==
  /\ pc[t] = "lock"
  /\ holders = {}
  /\ \/ poisoned /\ Return(t, "poisoned")
     \/ /\ ~ poisoned
        /\ holders' = {t}
        /\ Goto(t, call[t])
        /\ UNCHANGED res
  /\ UNCHANGED <<poisoned, installed, live, sessions, leaked, call, calls>>

(* init: refuse a second initialization, then PmixClient::connect_new.     *)
Connect(t) ==
  /\ pc[t] = "init"
  /\ \/ installed /\ Return(t, "already") /\ UNCHANGED sessions
     \/ ~ installed /\ "connect" \in Faults /\ Return(t, "error") /\ UNCHANGED sessions
     \/ /\ ~ installed
        /\ sessions' = sessions + 1
        /\ Goto(t, "transport")
        /\ UNCHANGED <<holders, res>>
  /\ UNCHANGED <<poisoned, installed, live, leaked, call, calls>>

(* A stage of init: it makes a resource and goes on, or it fails and init  *)
(* disconnects.                                                            *)
Stage(t, stage, made, next, onFailure) ==
  /\ pc[t] = stage
  /\ \/ live' = live \cup made /\ Goto(t, next) /\ UNCHANGED res
     \/ /\ stage \in Faults
        /\ Goto(t, onFailure)
        /\ res' = [res EXCEPT ![t] = "error"]
        /\ UNCHANGED live
  /\ UNCHANGED <<holders, poisoned, installed, sessions, leaked, call, calls>>

NewTransport(t) == Stage(t, "transport", {"transport"}, "heap", "close")

NewHeap(t) == Stage(t, "heap", {"heap"}, "size", "close")

(* A panic in init between its connect and its next stage: unwinding       *)
(* poisons the mutex and drops the locals, but disconnects nothing.        *)
Panics(t, stage, fault) ==
  /\ pc[t] = stage
  /\ fault \in Faults
  /\ poisoned' = TRUE
  /\ leaked' = leaked + 1
  /\ Goto(t, "drop")
  /\ res' = [res EXCEPT ![t] = "panic"]
  /\ UNCHANGED <<holders, installed, live, sessions, call, calls>>

(* client.require_rank, right after the connect, has no error to return.   *)
RequireRankPanics(t) == Panics(t, "transport", "rank panic")

(* with_size allocates vec![0_u64; words] from SHMEM_SYMMETRIC_SIZE: a     *)
(* capacity overflow panics.                                               *)
NewHeapPanics(t) == Panics(t, "heap", "heap panic")

(* The job size from PMIx or, failing that, from PMIX_SIZE.                *)
JobSize(t) == Stage(t, "size", {}, "handshake", "close")

(* handshake, and on success the installation of the state; an error may   *)
(* come after some endpoints were made.  It waits in the fence for every   *)
(* PE (Bootstrap), so it need not return.                                  *)
Handshake(t) ==
  /\ pc[t] = "handshake"
  /\ \/ /\ live' = live \cup {"peers"}
        /\ installed' = TRUE
        /\ IF Collectives
           THEN Goto(t, "runtime") /\ UNCHANGED <<holders, res>>
           ELSE Return(t, "ok")
     \/ /\ "handshake" \in Faults
        /\ live' \in {live, live \cup {"peers"}}
        /\ Goto(t, "abandon")
        /\ res' = [res EXCEPT ![t] = "error"]
        /\ UNCHANGED <<holders, installed>>
  /\ UNCHANGED <<poisoned, sessions, leaked, call, calls>>

(* handshake's own map of peers is dropped on its error return, before     *)
(* init disconnects.                                                       *)
Abandon(t) ==
  /\ pc[t] = "abandon"
  /\ live' = live \ {"peers"}
  /\ Goto(t, "close")
  /\ UNCHANGED <<holders, poisoned, installed, sessions, leaked, call, res, calls>>

(* coll::Runtime::new; on failure init takes the state out again.  Its     *)
(* out-of-band allgathers wait for every PE (OobAllgather).                *)
NewRuntime_KeepsState(t) ==  \* mutant: the failed state is not taken
  /\ pc[t] = "runtime"
  /\ \/ live' = live \cup {"team"} /\ Return(t, "ok") /\ UNCHANGED installed
     \/ /\ "runtime" \in Faults
        /\ Goto(t, "close")
        /\ res' = [res EXCEPT ![t] = "error"]
        /\ UNCHANGED <<holders, live, installed>>
  /\ UNCHANGED <<poisoned, sessions, leaked, call, calls>>

NewRuntime(t) ==
  /\ pc[t] = "runtime"
  /\ \/ live' = live \cup {"team"} /\ Return(t, "ok") /\ UNCHANGED installed
     \/ /\ "runtime" \in Faults
        /\ installed' = FALSE
        /\ Goto(t, "close")
        /\ res' = [res EXCEPT ![t] = "error"]
        /\ UNCHANGED <<holders, live>>
  /\ UNCHANGED <<poisoned, sessions, leaked, call, calls>>

(* finalize: state.take(), and nothing to do when there is no state.       *)
Take(t) ==
  /\ pc[t] = "finalize"
  /\ \/ ~ installed /\ Return(t, "ok") /\ UNCHANGED installed
     \/ /\ installed
        /\ installed' = FALSE
        /\ Goto(t, "close")
        /\ res' = [res EXCEPT ![t] = "ok"]
        /\ UNCHANGED holders
  /\ UNCHANGED <<poisoned, live, sessions, leaked, call, calls>>

(* client.disconnect: finalize reports its failure, init ignores it.       *)
Disconnect_Twice(t) ==  \* mutant: the error path and the drop both disconnect
  /\ pc[t] = "close"
  /\ sessions' = sessions - (IF res[t] = "error" THEN 2 ELSE 1)
  /\ Goto(t, "drop")
  /\ UNCHANGED <<holders, poisoned, installed, live, leaked, call, res, calls>>

Disconnect_Forgotten(t) ==  \* mutant: an error path of init skips it
  /\ pc[t] = "close"
  /\ \/ sessions' = (IF call[t] = "init" THEN sessions ELSE sessions - 1) /\ UNCHANGED <<leaked, res>>
     \/ /\ "disconnect" \in Faults
        /\ leaked' = leaked + 1
        /\ res' = [res EXCEPT ![t] = "error"]
        /\ UNCHANGED sessions
  /\ Goto(t, "drop")
  /\ UNCHANGED <<holders, poisoned, installed, live, call, calls>>

Disconnect(t) ==
  /\ pc[t] = "close"
  /\ \/ sessions' = sessions - 1 /\ UNCHANGED <<leaked, res>>
     \/ /\ "disconnect" \in Faults
        /\ leaked' = leaked + 1
        /\ res' = [res EXCEPT ![t] = "error"]
        /\ UNCHANGED sessions
  /\ Goto(t, "drop")
  /\ UNCHANGED <<holders, poisoned, installed, live, call, calls>>

(* The destructors run one handle at a time; the guard was taken first and *)
(* is dropped last.                                                        *)
Drop(t) ==
  /\ pc[t] = "drop"
  /\ \/ \E i \in 1 .. Len(DropOrder) :
          /\ DropOrder[i] \in live
          /\ \A j \in 1 .. i - 1 : DropOrder[j] \notin live
          /\ live' = live \ {DropOrder[i]}
          /\ UNCHANGED <<pc, res, holders>>
     \/ live = {} /\ Return(t, res[t]) /\ UNCHANGED live
  /\ UNCHANGED <<poisoned, installed, sessions, leaked, call, calls>>

(* with_state, with_state_mut, my_pe and n_pes.                            *)
WithState_Reenters(t) ==  \* mutant: the operation locks the state again
  /\ pc[t] = "operation"
  /\ \/ ~ installed /\ Return(t, "uninitialized")
     \/ installed /\ Goto(t, "lock") /\ UNCHANGED <<holders, res>>
  /\ UNCHANGED <<poisoned, installed, live, sessions, leaked, call, calls>>

WithState(t) ==
  /\ pc[t] = "operation"
  /\ \/ ~ installed /\ Return(t, "uninitialized")
     \/ installed /\ Goto(t, "operating") /\ UNCHANGED <<holders, res>>
  /\ UNCHANGED <<poisoned, installed, live, sessions, leaked, call, calls>>

(* The operation returns a result, or panics (getmem's vec![0; len]) and   *)
(* poisons the mutex on the way out; one that polls for remote progress    *)
(* (Collectives, Rma) may also never return.                               *)
Operate(t) ==
  /\ pc[t] = "operating"
  /\ \/ \E result \in {"ok", "error"} : Return(t, result) /\ UNCHANGED poisoned
     \/ "operation panic" \in Faults /\ Return(t, "panic") /\ poisoned' = TRUE
  /\ UNCHANGED <<installed, live, sessions, leaked, call, calls>>

Step(t) ==
  \/ LockState(t)
  \/ Connect(t) \/ RequireRankPanics(t) \/ NewTransport(t)
  \/ NewHeap(t) \/ NewHeapPanics(t) \/ JobSize(t)
  \/ Handshake(t) \/ Abandon(t) \/ NewRuntime(t)
  \/ Take(t) \/ Disconnect(t) \/ Drop(t)
  \/ WithState(t) \/ Operate(t)

(* The program may stop calling at any time.                               *)
Next == \E t \in Threads : Step(t) \/ \E kind \in Kinds : Call(t, kind)

Spec == Init /\ [][Next]_vars

(* The places at which a call waits for other PEs while it holds the       *)
(* mutex: the bootstrap fence, the fences of the out-of-band allgather and *)
(* the polling loops of collectives and RMA.                               *)
WaitsForPeers == {"handshake", "runtime", "operating"}

(* The scheduler runs every thread, a native call on this process's own    *)
(* resources returns, and a thread blocked on the mutex gets it once it    *)
(* stays free.  Nothing is assumed of a step that waits for other PEs.     *)
FairSpec ==
  /\ Spec
  /\ \A t \in Threads : WF_vars(pc[t] \notin WaitsForPeers /\ Step(t))

----------------------------------------------------------------------------

(* Every variable stays in its type.                                       *)
TypeOK ==
  /\ holders \subseteq Threads
  /\ poisoned \in BOOLEAN
  /\ installed \in BOOLEAN
  /\ live \subseteq Resources
  /\ sessions \in Nat
  /\ leaked \in Nat
  /\ pc \in [Threads -> Labels]
  /\ call \in [Threads -> Kinds]
  /\ res \in [Threads -> Results]
  /\ calls \in Nat

(* HandlesBeforeTransport: in init, in every failure path, in finalize and *)
(* while unwinding, no endpoint, rkey or heap registration is left when    *)
(* the transport that owns the UCX worker and context is gone (the drop    *)
(* order argued for in ShmemState and in the SAFETY comments).             *)
HandlesBeforeTransport ==
  live \cap {"peers", "heap"} # {} => "transport" \in live

(* OperationsSeeWholeState: while an operation runs inside with_state, the *)
(* state is installed and complete and its PMIx session is open, whatever  *)
(* init and finalize calls other threads make.                             *)
OperationsSeeWholeState ==
  \A t \in Threads :
    pc[t] = "operating" => installed /\ live = Whole /\ sessions > 0

(* AllOrNothing: whenever the mutex is free, either the state is installed *)
(* with every handle, or there is no state and no handle is left over; a   *)
(* failed or panicked init and a finalize leave nothing half built.        *)
AllOrNothing ==
  holders = {} => live = (IF installed THEN Whole ELSE {})

(* SessionsAccounted: whenever the mutex is free, the open PMIx sessions   *)
(* are the one of the installed state and those whose disconnect failed or *)
(* was skipped by a panic: no error path of init forgets to disconnect and *)
(* none disconnects twice.                                                 *)
SessionsAccounted ==
  holders = {} => sessions = leaked + (IF installed THEN 1 ELSE 0)

(* OnlyPeersBlockCalls: a thread stays in init, finalize or an operation   *)
(* for ever only when the thread that holds the mutex waits for other PEs  *)
(* for ever: no error path, panic or destructor of init and finalize keeps *)
(* the mutex or leaves a thread stuck.                                     *)
OnlyPeersBlockCalls ==
  \A t \in Threads :
    \/ []<>(pc[t] = "idle")
    \/ <>[](\E u \in holders : pc[u] \in WaitsForPeers)

(* FinalizeOkMeansDisconnected: once finalize returns Ok the process has   *)
(* no PMIx session: "The stored client is explicitly disconnected before   *)
(* the state is cleared" (src/init.rs:177).                                *)
FinalizeOkMeansDisconnected ==
  [][ \A t \in Threads :
        (call[t] = "finalize" /\ pc[t] # "idle" /\ pc'[t] = "idle" /\ res'[t] = "ok")
          => sessions' = 0 ]_vars

=============================================================================
