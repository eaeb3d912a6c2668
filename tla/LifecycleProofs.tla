-------------------------- MODULE LifecycleProofs --------------------------
(***************************************************************************)
(* Proofs about the process lifecycle, for any set of threads, any set of  *)
(* failing stages and any number of calls.                                 *)
(***************************************************************************)
EXTENDS Lifecycle, TLAPS

(* A thread between lock_state and the end of its call.                    *)
Inside(t) == pc[t] \notin {"idle", "lock"}

Mutex ==
  /\ \A t \in Threads : t \in holders <=> Inside(t)
  /\ \A t, u \in holders : t = u

(* What the mutex protects when no thread is halfway through init or       *)
(* finalize.                                                               *)
Consistent ==
  /\ live = (IF installed THEN Whole ELSE {})
  /\ sessions = leaked + (IF installed THEN 1 ELSE 0)

(* What holds at each place of a call.                                     *)
AtLabel(t) ==
  /\ pc[t] \in {"init", "finalize", "operation", "operating"} => Consistent
  /\ pc[t] = "operating" => installed
  /\ pc[t] \in {"transport", "heap", "size", "handshake", "abandon", "close"}
       => ~ installed /\ sessions = leaked + 1
  /\ pc[t] = "drop" => ~ installed /\ sessions = leaked
  /\ pc[t] = "transport" => live = {}
  /\ pc[t] = "heap" => live = {"transport"}
  /\ pc[t] \in {"size", "handshake"} => live = {"heap", "transport"}
  /\ pc[t] = "abandon" => live \ {"peers"} = {"heap", "transport"}
  /\ pc[t] = "runtime" => /\ Collectives /\ installed
                          /\ live = {"peers", "heap", "transport"}
                          /\ sessions = leaked + 1
  /\ pc[t] \in {"close", "drop"} =>
       (live \cap {"peers", "heap"} # {} => "transport" \in live)

(* The inductive invariant.                                                *)
LifecycleInv ==
  /\ TypeOK
  /\ Mutex
  /\ holders = {} => Consistent
  /\ \A t \in holders : AtLabel(t)

LEMMA InitInv == Init => LifecycleInv
  <1> SUFFICES ASSUME Init  PROVE LifecycleInv
    OBVIOUS
  <1>1. TypeOK
    BY DEF Init, TypeOK, Labels, Kinds, Results, Resources
  <1>2. Mutex
    BY DEF Init, Mutex, Inside
  <1>3. Consistent
    BY DEF Init, Consistent
  <1> QED
    BY <1>1, <1>2, <1>3 DEF Init, LifecycleInv

(* The thread that moves is alone inside: if it stays inside, only what    *)
(* holds at its new place matters.                                         *)
LEMMA StaysInside ==
  ASSUME LifecycleInv, NEW t \in Threads, Inside(t),
         NEW l \in Labels, l \notin {"idle", "lock"}, Goto(t, l),
         UNCHANGED holders, TypeOK', AtLabel(t)'
  PROVE  LifecycleInv'
  <1>1. t \in holders /\ \A u \in holders : u = t
    BY DEF LifecycleInv, Mutex
  <1>2. Inside(t)' /\ \A u \in Threads : u # t => (Inside(u)' <=> Inside(u))
    BY DEF Goto, Inside, LifecycleInv, TypeOK
  <1>3. Mutex'
    BY <1>1, <1>2 DEF Mutex, LifecycleInv
  <1> QED
    BY <1>1, <1>3 DEF LifecycleInv

(* If it returns, what the mutex protects must be consistent.              *)
LEMMA Leaves ==
  ASSUME LifecycleInv, NEW t \in Threads, Inside(t), NEW result,
         Return(t, result), TypeOK', Consistent'
  PROVE  LifecycleInv'
  <1>1. t \in holders /\ \A u \in holders : u = t
    BY DEF LifecycleInv, Mutex
  <1>2. ~ Inside(t)' /\ \A u \in Threads : u # t => (Inside(u)' <=> Inside(u))
    BY DEF Return, Goto, Inside, LifecycleInv, TypeOK
  <1>3. holders' = {}
    BY <1>1 DEF Return
  <1>4. Mutex'
    BY <1>1, <1>2, <1>3 DEF Mutex, LifecycleInv
  <1> QED
    BY <1>3, <1>4 DEF LifecycleInv

(* The facts about the moving thread that the steps below start from.      *)
LEMMA AtOwnLabel ==
  ASSUME LifecycleInv, NEW t \in Threads, Inside(t)
  PROVE  TypeOK /\ AtLabel(t)
  BY DEF LifecycleInv, Mutex

LEMMA StepInv ==
  ASSUME LifecycleInv, NEW t \in Threads, Step(t)
  PROVE  LifecycleInv'
  <1> USE LifecycleAssumption
  <1> USE DEF Labels, Kinds, Results, Resources
  <1>1. CASE LockState(t)
    <2>1. TypeOK'
      BY <1>1 DEF LockState, Return, Goto, LifecycleInv, TypeOK
    <2>2. Consistent'
      BY <1>1 DEF LockState, LifecycleInv, Consistent, Whole
    <2>3. CASE poisoned /\ Return(t, "poisoned")
      <3>1. Mutex'
        BY <1>1, <2>3 DEF LockState, Return, Goto, Mutex, Inside, LifecycleInv, TypeOK
      <3> QED
        BY <1>1, <2>1, <2>2, <2>3, <3>1 DEF LockState, Return, LifecycleInv
    <2>4. CASE holders' = {t} /\ Goto(t, call[t])
      <3>1. pc'[t] = call[t] /\ call[t] \in Kinds /\ \A u \in Threads : u # t => pc'[u] = pc[u]
        BY <2>4 DEF Goto, LifecycleInv, TypeOK
      <3>2. Mutex'
        BY <1>1, <2>4, <3>1 DEF LockState, Mutex, Inside, LifecycleInv
      <3>3. AtLabel(t)'
        BY <2>2, <3>1 DEF AtLabel
      <3> QED
        BY <2>1, <2>4, <3>2, <3>3 DEF LifecycleInv
    <2> QED
      BY <1>1, <2>3, <2>4 DEF LockState
  <1>2. ASSUME Inside(t), ~ LockState(t)
        PROVE  LifecycleInv'
    <2> USE <1>2, AtOwnLabel
    <2>1. CASE Connect(t)
      <3>1. TypeOK'
        BY <2>1 DEF Connect, Return, Goto, TypeOK
      <3>2. CASE \E r \in Results : Return(t, r) /\ UNCHANGED sessions
        <4>1. Consistent'
          BY <2>1, <3>2 DEF Connect, AtLabel, Consistent, Whole
        <4> QED  BY <3>1, <3>2, <4>1, Leaves
      <3>3. CASE ~ installed /\ sessions' = sessions + 1 /\ Goto(t, "transport") /\ UNCHANGED holders
        <4>1. AtLabel(t)'
          BY <2>1, <3>3 DEF Connect, AtLabel, Consistent, Goto, TypeOK
        <4> QED  BY <3>1, <3>3, <4>1, StaysInside
      <3> QED  BY <2>1, <3>2, <3>3 DEF Connect
    <2>2. CASE NewTransport(t)
      <3>1. TypeOK'
        BY <2>2 DEF NewTransport, Stage, Goto, TypeOK
      <3>2. AtLabel(t)'
        BY <2>2 DEF NewTransport, Stage, Goto, TypeOK, AtLabel
      <3> QED  BY <2>2, <3>1, <3>2, StaysInside DEF NewTransport, Stage
    <2>3. CASE NewHeap(t)
      <3>1. TypeOK'
        BY <2>3 DEF NewHeap, Stage, Goto, TypeOK
      <3>2. AtLabel(t)'
        BY <2>3 DEF NewHeap, Stage, Goto, TypeOK, AtLabel
      <3> QED  BY <2>3, <3>1, <3>2, StaysInside DEF NewHeap, Stage
    <2>4. CASE RequireRankPanics(t) \/ NewHeapPanics(t)
      <3>0. PICK stage \in {"transport", "heap"}, fault \in Stages : Panics(t, stage, fault)
        BY <2>4 DEF RequireRankPanics, NewHeapPanics, Stages
      <3>1. TypeOK'
        <4>1. leaked' \in Nat
          <5>1. leaked \in Nat
            BY DEF TypeOK
          <5>2. leaked' = leaked + 1
            BY <3>0 DEF Panics
          <5> QED  BY <5>1, <5>2
        <4>2. pc' \in [Threads -> Labels] /\ res' \in [Threads -> Results]
          BY <3>0 DEF Panics, Goto, TypeOK
        <4>3. poisoned' \in BOOLEAN
          BY <3>0 DEF Panics
        <4> QED  BY <3>0, <4>1, <4>2, <4>3 DEF Panics, TypeOK
      <3>2. AtLabel(t)'
        BY <3>0 DEF Panics, Goto, TypeOK, AtLabel
      <3> QED  BY <3>0, <3>1, <3>2, StaysInside DEF Panics
    <2>5. CASE JobSize(t)
      <3>1. TypeOK'
        BY <2>5 DEF JobSize, Stage, Goto, TypeOK
      <3>2. AtLabel(t)'
        BY <2>5 DEF JobSize, Stage, Goto, TypeOK, AtLabel
      <3> QED  BY <2>5, <3>1, <3>2, StaysInside DEF JobSize, Stage
    <2>6. CASE Handshake(t)
      <3>1. TypeOK'
        BY <2>6 DEF Handshake, Return, Goto, TypeOK
      <3>2. CASE /\ live' = live \cup {"peers"} /\ installed' = TRUE
                 /\ Collectives /\ Goto(t, "runtime") /\ UNCHANGED holders
        <4>1. AtLabel(t)'
          BY <2>6, <3>2 DEF Handshake, AtLabel, Goto, TypeOK
        <4> QED  BY <3>1, <3>2, <4>1, StaysInside
      <3>3. CASE /\ live' = live \cup {"peers"} /\ installed' = TRUE
                 /\ ~ Collectives /\ Return(t, "ok")
        <4>1. live' = Whole /\ sessions' = leaked' + 1
          BY <2>6, <3>3 DEF Handshake, AtLabel, Whole
        <4>2. Consistent'
          BY <3>3, <4>1 DEF Consistent, Whole
        <4> QED  BY <3>1, <3>3, <4>2, Leaves
      <3>4. CASE /\ live' \in {live, live \cup {"peers"}}
                 /\ Goto(t, "abandon") /\ UNCHANGED <<holders, installed>>
        <4>1. AtLabel(t)'
          BY <2>6, <3>4 DEF Handshake, AtLabel, Goto, TypeOK
        <4> QED  BY <3>1, <3>4, <4>1, StaysInside
      <3> QED  BY <2>6, <3>2, <3>3, <3>4 DEF Handshake
    <2>7. CASE Abandon(t)
      <3>1. TypeOK'
        BY <2>7 DEF Abandon, Goto, TypeOK
      <3>2. AtLabel(t)'
        BY <2>7 DEF Abandon, Goto, TypeOK, AtLabel
      <3> QED  BY <2>7, <3>1, <3>2, StaysInside DEF Abandon
    <2>8. CASE NewRuntime(t)
      <3>1. TypeOK'
        BY <2>8 DEF NewRuntime, Return, Goto, TypeOK
      <3>2. CASE live' = live \cup {"team"} /\ Return(t, "ok") /\ UNCHANGED installed
        <4>1. installed' = TRUE /\ live' = Whole /\ sessions' = leaked' + 1
          BY <2>8, <3>2 DEF NewRuntime, AtLabel, Whole, TypeOK
        <4>2. Consistent'
          BY <4>1 DEF Consistent, Whole
        <4> QED  BY <3>1, <3>2, <4>2, Leaves
      <3>3. CASE installed' = FALSE /\ Goto(t, "close") /\ UNCHANGED <<holders, live>>
        <4>1. AtLabel(t)'
          BY <2>8, <3>3 DEF NewRuntime, AtLabel, Goto, TypeOK
        <4> QED  BY <3>1, <3>3, <4>1, StaysInside
      <3> QED  BY <2>8, <3>2, <3>3 DEF NewRuntime
    <2>9. CASE Take(t)
      <3>1. TypeOK'
        BY <2>9 DEF Take, Return, Goto, TypeOK
      <3>2. CASE Return(t, "ok") /\ UNCHANGED installed
        <4>1. Consistent'
          BY <2>9, <3>2 DEF Take, AtLabel, Consistent, Whole
        <4> QED  BY <3>1, <3>2, <4>1, Leaves
      <3>3. CASE installed /\ installed' = FALSE /\ Goto(t, "close") /\ UNCHANGED holders
        <4>1. AtLabel(t)'
          BY <2>9, <3>3 DEF Take, AtLabel, Consistent, Whole, Goto, TypeOK
        <4> QED  BY <3>1, <3>3, <4>1, StaysInside
      <3> QED  BY <2>9, <3>2, <3>3 DEF Take
    <2>10. CASE Disconnect(t)
      <3>1. TypeOK'
        BY <2>10 DEF Disconnect, Goto, TypeOK, AtLabel
      <3>2. AtLabel(t)'
        BY <2>10 DEF Disconnect, Goto, TypeOK, AtLabel
      <3> QED  BY <2>10, <3>1, <3>2, StaysInside DEF Disconnect
    <2>11. CASE Drop(t)
      <3>1. TypeOK'
        BY <2>11 DEF Drop, Return, Goto, TypeOK
      <3>2. CASE live = {} /\ Return(t, res[t]) /\ UNCHANGED live
        <4>1. Consistent'
          <5>1. ~ installed' /\ live' = {}
            BY <2>11, <3>2 DEF Drop, AtLabel
          <5>2. sessions = leaked /\ leaked \in Nat /\ UNCHANGED <<sessions, leaked>>
            BY <2>11 DEF Drop, AtLabel, TypeOK
          <5>3. sessions' = leaked' + 0
            BY <5>2, SMT
          <5> QED  BY <5>1, <5>3 DEF Consistent
        <4> QED  BY <3>1, <3>2, <4>1, Leaves
      <3>3. CASE /\ \E i \in 1 .. Len(DropOrder) :
                      /\ \A j \in 1 .. i - 1 : DropOrder[j] \notin live
                      /\ live' = live \ {DropOrder[i]}
                 /\ UNCHANGED <<pc, res, holders>>
        <4>1. live' \cap {"peers", "heap"} # {} => "transport" \in live'
          BY <2>11, <3>3 DEF Drop, DropOrder, AtLabel
        <4>2. AtLabel(t)'
          BY <2>11, <3>3, <4>1 DEF Drop, AtLabel
        <4>3. Goto(t, "drop")
          BY <2>11, <3>3 DEF Drop, Goto, TypeOK
        <4> QED  BY <3>1, <3>3, <4>2, <4>3, StaysInside
      <3> QED  BY <2>11, <3>2, <3>3 DEF Drop
    <2>12. CASE WithState(t)
      <3>1. TypeOK'
        BY <2>12 DEF WithState, Return, Goto, TypeOK
      <3>2. Consistent'
        BY <2>12 DEF WithState, AtLabel, Consistent, Whole
      <3>3. CASE Return(t, "uninitialized")
        BY <3>1, <3>2, <3>3, Leaves
      <3>4. CASE installed /\ Goto(t, "operating") /\ UNCHANGED holders
        <4>1. AtLabel(t)'
          BY <2>12, <3>2, <3>4 DEF WithState, AtLabel, Goto, TypeOK
        <4> QED  BY <3>1, <3>4, <4>1, StaysInside
      <3> QED  BY <2>12, <3>3, <3>4 DEF WithState
    <2>13. CASE Operate(t)
      <3>1. TypeOK'
        <4>1. PICK r \in Results : Return(t, r)
          BY <2>13 DEF Operate, Results
        <4>2. /\ poisoned' \in BOOLEAN
              /\ UNCHANGED <<installed, live, sessions, leaked, call, calls>>
          BY <2>13 DEF Operate, TypeOK
        <4>3. /\ holders' \subseteq Threads /\ pc' \in [Threads -> Labels]
              /\ res' \in [Threads -> Results]
          BY <4>1 DEF Return, Goto, TypeOK, Labels
        <4> QED  BY <4>2, <4>3 DEF TypeOK
      <3>2. Consistent'
        BY <2>13 DEF Operate, AtLabel, Consistent, Whole
      <3>3. PICK r \in Results : Return(t, r)
        BY <2>13 DEF Operate
      <3> QED  BY <3>1, <3>2, <3>3, Leaves
    <2> QED
      BY <2>1, <2>2, <2>3, <2>4, <2>5, <2>6, <2>7, <2>8, <2>9, <2>10, <2>11,
         <2>12, <2>13 DEF Step
  <1>3. LockState(t) \/ Inside(t)
    BY DEF Step, LockState, Connect, NewTransport, NewHeap, Panics,
           RequireRankPanics, NewHeapPanics, JobSize,
           Stage, Handshake, Abandon, NewRuntime, Take, Disconnect, Drop, WithState,
           Operate, Inside
  <1> QED
    BY <1>1, <1>2, <1>3

LEMMA CallInv ==
  ASSUME LifecycleInv, NEW t \in Threads, NEW kind \in Kinds, Call(t, kind)
  PROVE  LifecycleInv'
  <1>1. TypeOK'
    BY DEF Call, Goto, LifecycleInv, TypeOK, Labels, Results
  <1>2. \A u \in Threads : /\ Inside(u)' <=> Inside(u)
                           /\ Inside(u) => pc'[u] = pc[u]
    BY DEF Call, Goto, Inside, LifecycleInv, TypeOK
  <1>3. UNCHANGED <<holders, installed, live, sessions, leaked>>
    BY DEF Call
  <1>4. Mutex'
    BY <1>2, <1>3 DEF Mutex, LifecycleInv
  <1>5. Consistent' <=> Consistent
    BY <1>3 DEF Consistent, Whole
  <1>6. \A u \in holders : pc'[u] = pc[u]
    BY <1>2 DEF LifecycleInv, Mutex, TypeOK
  <1>7. \A u \in holders' : AtLabel(u)'
    BY <1>3, <1>5, <1>6 DEF AtLabel, LifecycleInv
  <1> QED
    BY <1>1, <1>3, <1>4, <1>5, <1>7 DEF LifecycleInv

(* The invariant holds for any threads, faults and number of calls.        *)
THEOREM LifecycleInvariant == Spec => []LifecycleInv
  <1>1. LifecycleInv /\ [Next]_vars => LifecycleInv'
    <2>1. CASE UNCHANGED vars
      BY <2>1 DEF vars, LifecycleInv, TypeOK, Mutex, Inside, Consistent, AtLabel, Whole
    <2>2. CASE Next
      BY <2>2, StepInv, CallInv DEF Next
    <2> QED  BY <2>1, <2>2
  <1> QED
    BY <1>1, InitInv, PTL DEF Spec

(* Type correctness of the lifecycle's state.                              *)
THEOREM TypeCorrect == Spec => []TypeOK
  <1>1. LifecycleInv => TypeOK
    BY DEF LifecycleInv
  <1> QED
    BY <1>1, LifecycleInvariant, PTL

(* An operation inside with_state always runs on a whole, connected state. *)
THEOREM WholeStateInOperations == Spec => []OperationsSeeWholeState
  <1>1. LifecycleInv => OperationsSeeWholeState
    <2> SUFFICES ASSUME LifecycleInv, NEW t \in Threads, pc[t] = "operating"
                 PROVE  installed /\ live = Whole /\ sessions > 0
      BY DEF OperationsSeeWholeState
    <2>1. Inside(t)
      BY DEF Inside
    <2>2. installed /\ Consistent
      BY <2>1, AtOwnLabel DEF AtLabel
    <2>3. live = Whole /\ sessions = leaked + 1
      BY <2>2 DEF Consistent
    <2>4. leaked \in Nat
      BY DEF LifecycleInv, TypeOK
    <2>5. sessions > 0
      BY <2>3, <2>4
    <2> QED  BY <2>2, <2>3, <2>5
  <1> QED
    BY <1>1, LifecycleInvariant, PTL

(* A free mutex protects either a complete state or nothing at all.        *)
THEOREM NothingHalfBuilt == Spec => []AllOrNothing
  <1>1. LifecycleInv => AllOrNothing
    BY DEF LifecycleInv, Consistent, AllOrNothing
  <1> QED
    BY <1>1, LifecycleInvariant, PTL

(* Every connection init opens is closed, given up on, or the state's.     *)
THEOREM NoSessionForgotten == Spec => []SessionsAccounted
  <1>1. LifecycleInv => SessionsAccounted
    BY DEF LifecycleInv, Consistent, SessionsAccounted
  <1> QED
    BY <1>1, LifecycleInvariant, PTL

(* UCX handles never outlive the transport that owns their context.        *)
THEOREM HandlesDropFirst == Spec => []HandlesBeforeTransport
  <1>1. LifecycleInv => HandlesBeforeTransport
    <2> SUFFICES ASSUME LifecycleInv
                 PROVE  live \cap {"peers", "heap"} # {} => "transport" \in live
      BY DEF HandlesBeforeTransport
    <2> USE DEF Whole, Resources
    <2>1. CASE holders = {}
      BY <2>1 DEF LifecycleInv, Consistent
    <2>2. CASE holders # {}
      <3>1. PICK t \in Threads : t \in holders
        BY <2>2 DEF LifecycleInv, TypeOK
      <3>2. AtLabel(t) /\ pc[t] \in Labels /\ Inside(t)
        BY <3>1 DEF LifecycleInv, Mutex, TypeOK
      <3> QED
        BY <3>2 DEF AtLabel, Consistent, Labels, Inside
    <2> QED  BY <2>1, <2>2
  <1> QED
    BY <1>1, LifecycleInvariant, PTL

----------------------------------------------------------------------------
(***************************************************************************)
(* What finalize's Ok promises.                                            *)
(***************************************************************************)

(* A thread is where the call it made takes it.                            *)
CallAtLabel ==
  \A t \in Threads :
    /\ pc[t] \in {"init", "transport", "heap", "size", "handshake", "abandon", "runtime"}
         => call[t] = "init"
    /\ pc[t] = "finalize" => call[t] = "finalize"
    /\ pc[t] \in {"operation", "operating"} => call[t] = "operation"

(* A thread moves alone, and its call is fixed until it returns.           *)
LEMMA StepMovesOne ==
  ASSUME TypeOK, NEW t \in Threads, Step(t)
  PROVE  /\ UNCHANGED call
         /\ \A u \in Threads : u # t => pc'[u] = pc[u] /\ res'[u] = res[u]
         /\ pc'[t] \in Labels
  <1> USE DEF TypeOK, Goto, Return, Labels, Kinds
  <1>1. CASE LockState(t)
    BY <1>1 DEF LockState
  <1>2. CASE Connect(t) \/ Take(t) \/ WithState(t) \/ Operate(t)
    BY <1>2 DEF Connect, Take, WithState, Operate
  <1>3. CASE NewTransport(t) \/ NewHeap(t) \/ JobSize(t)
    BY <1>3 DEF NewTransport, NewHeap, JobSize, Stage
  <1>4. CASE RequireRankPanics(t) \/ NewHeapPanics(t) \/ Abandon(t) \/ Disconnect(t)
    BY <1>4 DEF RequireRankPanics, NewHeapPanics, Panics, Abandon, Disconnect
  <1>5. CASE Handshake(t)
    BY <1>5 DEF Handshake
  <1>6. CASE NewRuntime(t)
    BY <1>6 DEF NewRuntime
  <1>7. CASE Drop(t)
    BY <1>7 DEF Drop
  <1> QED
    BY <1>1, <1>2, <1>3, <1>4, <1>5, <1>6, <1>7 DEF Step

LEMMA CallAtLabelStep ==
  LifecycleInv /\ CallAtLabel /\ [Next]_vars => CallAtLabel'
  <1> SUFFICES ASSUME LifecycleInv, CallAtLabel, [Next]_vars
               PROVE  CallAtLabel'
    OBVIOUS
  <1>0. TypeOK
    BY DEF LifecycleInv
  <1>1. ASSUME NEW t \in Threads, Step(t)  PROVE CallAtLabel'
    <2>1. ASSUME /\ pc'[t] \in {"init", "transport", "heap", "size", "handshake",
                                "abandon", "runtime"} => call[t] = "init"
                 /\ pc'[t] = "finalize" => call[t] = "finalize"
                 /\ pc'[t] \in {"operation", "operating"} => call[t] = "operation"
          PROVE  CallAtLabel'
      BY <1>0, <1>1, <2>1, StepMovesOne DEF CallAtLabel
    <2>2. CASE LockState(t)
      <3>1. pc'[t] \in {"idle", call[t]} /\ call[t] \in Kinds
        BY <1>0, <2>2 DEF LockState, Return, Goto, TypeOK
      <3> QED
        BY <2>1, <3>1 DEF Kinds
    <2>3. CASE ~ LockState(t)
      <3>1. \/ pc'[t] \in {"idle", "close", "drop"}
            \/ /\ pc[t] \in {"init", "transport", "heap", "size", "handshake"}
               /\ pc'[t] \in {"transport", "heap", "size", "handshake", "abandon", "runtime"}
            \/ pc[t] = "operation" /\ pc'[t] = "operating"
        <4> USE <1>0 DEF TypeOK, Goto, Return
        <4>1. CASE Connect(t) \/ Take(t) \/ WithState(t) \/ Operate(t)
          BY <4>1 DEF Connect, Take, WithState, Operate
        <4>2. CASE NewTransport(t) \/ NewHeap(t) \/ JobSize(t)
          BY <4>2 DEF NewTransport, NewHeap, JobSize, Stage
        <4>3. CASE RequireRankPanics(t) \/ NewHeapPanics(t) \/ Abandon(t) \/ Disconnect(t)
          BY <4>3 DEF RequireRankPanics, NewHeapPanics, Panics, Abandon, Disconnect
        <4>4. CASE Handshake(t) \/ NewRuntime(t)
          BY <4>4 DEF Handshake, NewRuntime
        <4>5. CASE Drop(t)
          BY <4>5 DEF Drop
        <4> QED
          BY <1>1, <2>3, <4>1, <4>2, <4>3, <4>4, <4>5 DEF Step
      <3> QED
        BY <2>1, <3>1 DEF CallAtLabel
    <2> QED
      BY <2>2, <2>3
  <1>2. ASSUME NEW t \in Threads, NEW kind \in Kinds, Call(t, kind)  PROVE CallAtLabel'
    BY <1>0, <1>2 DEF Call, Goto, TypeOK, CallAtLabel
  <1>3. CASE UNCHANGED vars
    BY <1>3 DEF vars, CallAtLabel
  <1> QED
    BY <1>1, <1>2, <1>3 DEF Next

(* A call returns in this step, with this result.                          *)
Returns(t, result) == pc[t] # "idle" /\ pc'[t] = "idle" /\ res'[t] = result

(* FinalizeLeavesOnlyLeaks: when finalize returns Ok, no state is          *)
(* installed, no native handle is alive, and the only PMIx sessions still  *)
(* open are those whose disconnect failed in an earlier call or was        *)
(* skipped when init panicked.                                             *)
FinalizeLeavesOnlyLeaks ==
  [][ \A t \in Threads :
        call[t] = "finalize" /\ Returns(t, "ok")
          => ~ installed' /\ live' = {} /\ sessions' = leaked' ]_vars

LEMMA FinalizeStep ==
  ASSUME LifecycleInv, CallAtLabel, [Next]_vars, NEW t \in Threads,
         call[t] = "finalize", Returns(t, "ok")
  PROVE  ~ installed' /\ live' = {} /\ sessions' = leaked'
  <1>0. TypeOK
    BY DEF LifecycleInv
  <1>1. Step(t)
    <2>1. ASSUME NEW u \in Threads, NEW kind \in Kinds, Call(u, kind)  PROVE FALSE
      BY <1>0, <2>1 DEF Call, Goto, TypeOK, Returns
    <2>2. PICK u \in Threads : Step(u)
      BY <2>1 DEF Next, vars, Returns
    <2> QED
      BY <1>0, <2>2, StepMovesOne DEF Returns
  <1>2. pc[t] \notin {"init", "transport", "heap", "size", "handshake", "abandon",
                      "runtime", "operation", "operating"}
    BY DEF CallAtLabel
  <1>3. Take(t) \/ Drop(t)
    <2>1. ~ LockState(t)
      BY <1>0 DEF LockState, Return, Goto, TypeOK, Returns, Kinds
    <2>2. ~ Disconnect(t)
      BY <1>0 DEF Disconnect, Goto, TypeOK, Returns
    <2> QED
      BY <1>1, <1>2, <2>1, <2>2
      DEF Step, Connect, NewTransport, NewHeap, Panics,
           RequireRankPanics, NewHeapPanics, JobSize, Stage,
          Handshake, Abandon, NewRuntime, WithState, Operate
  <1>4. CASE Take(t)
    <2>1. Inside(t)
      BY <1>4 DEF Take, Inside
    <2>2. Consistent
      BY <1>4, <2>1, AtOwnLabel DEF Take, AtLabel
    <2>3. ~ installed /\ UNCHANGED <<installed, live, sessions, leaked>>
      BY <1>0, <1>4 DEF Take, Goto, TypeOK, Returns
    <2>4. live = {} /\ sessions = leaked + 0 /\ leaked \in Nat
      BY <1>0, <2>2, <2>3 DEF Consistent, TypeOK
    <2> QED
      BY <2>3, <2>4
  <1>5. CASE Drop(t)
    <2>1. Inside(t) /\ pc[t] = "drop"
      BY <1>5 DEF Drop, Inside
    <2>2. ~ installed /\ sessions = leaked
      BY <2>1, AtOwnLabel DEF AtLabel
    <2>3. live' = {} /\ UNCHANGED <<installed, sessions, leaked>>
      BY <1>5, <2>1 DEF Drop, Returns
    <2> QED
      BY <2>2, <2>3
  <1> QED
    BY <1>3, <1>4, <1>5

LEMMA InitCallAtLabel == Init => CallAtLabel
  BY DEF Init, CallAtLabel

(* What finalize's Ok means under every interleaving and every fault.      *)
THEOREM FinalizeOkMeansReleased == Spec => FinalizeLeavesOnlyLeaks
  <1>1. LifecycleInv /\ CallAtLabel /\ [Next]_vars
          => [\A t \in Threads :
                call[t] = "finalize" /\ Returns(t, "ok")
                  => ~ installed' /\ live' = {} /\ sessions' = leaked']_vars
    BY FinalizeStep
  <1> QED
    BY <1>1, LifecycleInvariant, InitCallAtLabel, CallAtLabelStep, PTL
    DEF Spec, FinalizeLeavesOnlyLeaks

(* The comment on finalize is true of every process in which no disconnect *)
(* fails and init does not panic: those are the only ways to the           *)
(* counterexample of FinalizeOkMeansDisconnected.                          *)
THEOREM FinalizeDisconnectsWithoutFaults ==
  ASSUME Faults \cap {"disconnect", "rank panic", "heap panic"} = {}
  PROVE  Spec => FinalizeOkMeansDisconnected
  <1> DEFINE NoLeak == leaked = 0
  <1>1. Init => NoLeak
    BY DEF Init
  <1>2. NoLeak /\ [Next]_vars => NoLeak'
    <2> SUFFICES ASSUME leaked = 0, [Next]_vars  PROVE leaked' = 0
      OBVIOUS
    <2>1. ASSUME NEW t \in Threads, Step(t)  PROVE leaked' = 0
      BY <2>1 DEF Step, LockState, Connect, NewTransport, NewHeap, Panics,
           RequireRankPanics, NewHeapPanics, JobSize,
           Stage, Handshake, Abandon, NewRuntime, Take, Disconnect, Drop, WithState,
           Operate
    <2>2. ASSUME NEW t \in Threads, NEW kind \in Kinds, Call(t, kind)  PROVE leaked' = 0
      BY <2>2 DEF Call
    <2> QED
      BY <2>1, <2>2 DEF Next, vars
  <1>3. LifecycleInv /\ CallAtLabel /\ NoLeak' /\ [Next]_vars
          => [\A t \in Threads :
                (call[t] = "finalize" /\ pc[t] # "idle" /\ pc'[t] = "idle" /\ res'[t] = "ok")
                  => sessions' = 0]_vars
    BY FinalizeStep DEF Returns
  <1> HIDE DEF NoLeak
  <1> QED
    BY <1>1, <1>2, <1>3, LifecycleInvariant, InitCallAtLabel, CallAtLabelStep, PTL
    DEF Spec, FinalizeOkMeansDisconnected

(* MutexIsNotLost: when every thread in a call is waiting in lock_state,   *)
(* the mutex is free and one of them can take it.  No return, error path   *)
(* or panic of init, finalize or an operation keeps the guard.             *)
MutexIsNotLost ==
  (\A t \in Threads : pc[t] \in {"idle", "lock"}) => holders = {}

(* The threads of a process never wait for a mutex that nobody will give   *)
(* back, also after panics and failed calls.                               *)
THEOREM NoLostMutex == Spec => []MutexIsNotLost
  <1>1. LifecycleInv => MutexIsNotLost
    BY DEF LifecycleInv, TypeOK, Mutex, Inside, MutexIsNotLost
  <1> QED
    BY <1>1, LifecycleInvariant, PTL

=============================================================================
