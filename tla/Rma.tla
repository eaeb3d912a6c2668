-------------------------------- MODULE Rma --------------------------------
(***************************************************************************)
(* One-sided communication (src/rma.rs) of all PEs of a job: putmem and    *)
(* getmem with their typed forms, the atomics, fence, quiet and quiet_pe,  *)
(* together with coll::barrier and init::finalize, which programs use to   *)
(* order it.  Every PE is initialized; its threads make the calls of a     *)
(* program, and each call runs under the PE's lifecycle mutex (Lifecycle). *)
(* What a thread does between taking the mutex and waiting is one step.    *)
(*                                                                         *)
(* UCX and UCC are external.  A transfer is posted element by element;     *)
(* elements reach the target in any order that worker fences allow, and    *)
(* any time before or after the local completion of a put.  Without        *)
(* hardware support the target must be driving its worker meanwhile.       *)
(***************************************************************************)
EXTENDS Words

CONSTANTS
  N,          \* PEs
  Threads,    \* threads of a PE, numbered from 1
  SIZE,       \* bytes of an element: T::SIZE
  U64Max,     \* u64::MAX
  Base,       \* PE -> address of its symmetric heap
  Capacity,   \* bytes of every heap
  Programs,   \* the programs the job may run
  Faults      \* what may fail: "post", "request", "flush", "fence", "ucc",
              \* "disconnect", "local"

PEs == 0 .. N - 1

Transfers == {"put", "get", "await", "atomic", "fetch"}
Reads == {"get", "await", "fetch"}
Quiets == {"quiet", "quiet_pe"}
Ops == Transfers \cup Quiets \cup {"fence", "barrier", "finalize", "local"}

(* An API call.  args holds a put's values or an atomic's operands, or the *)
(* value an await loop gets until it sees; len counts elements, for a put  *)
(* those of the slice it is given; compare-and-swap takes two operands.    *)
Calls ==
  { c \in [op : Ops, pe : Nat, offset : Nat, len : Nat, amo : Amos, args : Seq(Int), signed : BOOLEAN] :
      /\ c.op = "put" => Len(c.args) = c.len
      /\ c.op \in {"atomic", "fetch"} => Len(c.args) = IF c.amo = "cswap" THEN 2 ELSE 1 }

ASSUME RmaAssumption ==
  /\ N \in Nat \ {0}
  /\ Threads \subseteq Nat \ {0}
  /\ SIZE \in Nat \ {0}
  /\ U64Max \in Nat
  /\ Base \in [PEs -> Nat]
  /\ Capacity \in Nat
  (* the last "cleanup" calls of a thread are made even after an error     *)
  /\ Programs \subseteq [PEs -> [Threads -> [calls : Seq(Calls), cleanup : Nat]]]

VARIABLES
  program,    \* what the threads of each PE do
  offloaded,  \* does hardware carry out RMA without the target's help?
  up,         \* PE -> its state is installed
  running,    \* PE -> the thread that holds the mutex, or NoThread
  pos,        \* PE -> thread -> the call it makes next, or is in
  answer,     \* PE -> thread -> call -> its result
  flight,     \* elements posted and not yet carried out at their target
  epoch,      \* PE -> worker fences so far
  left,       \* PE -> endpoints that the running quiet has still to flush
  buffer,     \* PE -> element -> word in the running call's reply buffer
  ram,        \* PE -> address -> word
  entered,    \* PE -> barriers it has posted
  log         \* history: the elements carried out, in order

vars == <<program, offloaded, up, running, pos, answer, flight, epoch, left,
          buffer, ram, entered, log>>

NoThread == 0
NoAnswer == [status |-> "none", values |-> <<>>]
Region(q) == { Base[q] + SIZE * i : i \in 0 .. (Capacity \div SIZE) - 1 }

Script(p, t) == program[p][t].calls
Current(p, t) == Script(p, t)[pos[p][t]]
CallOf(e) == Script(e.pe, e.thread)[e.call]
Outstanding(p, q) == { e \in flight : e.pe = p /\ CallOf(e).pe = q }
Mine(p) == { e \in flight : e.pe = p /\ e.thread = running[p] /\ e.call = pos[p][running[p]] }

(* with_size zeroes the region; handshake connects to every rank, this one *)
(* included.                                                               *)
Init ==
  /\ program \in Programs
  /\ offloaded \in BOOLEAN
  /\ up = [p \in PEs |-> TRUE]
  /\ running = [p \in PEs |-> NoThread]
  /\ pos = [p \in PEs |-> [t \in Threads |-> 1]]
  /\ answer = [p \in PEs |-> [t \in Threads |-> [k \in 1 .. Len(Script(p, t)) |-> NoAnswer]]]
  /\ flight = {}
  /\ epoch = [p \in PEs |-> 0]
  /\ left = [p \in PEs |-> <<>>]
  /\ buffer = [p \in PEs |-> <<>>]
  /\ ram = [q \in PEs |-> [a \in Region(q) |-> 0]]
  /\ entered = [p \in PEs |-> 0]
  /\ log = <<>>

----------------------------------------------------------------------------

(* Thread t can take the mutex for a call to one of ops.                   *)
Enters(p, t, ops) ==
  /\ running[p] = NoThread
  /\ pos[p][t] <= Len(Script(p, t))
  /\ Current(p, t).op \in ops

Holds(p, t) == running' = [running EXCEPT ![p] = t]

(* The result goes to the caller, which after an error has only its        *)
(* cleanup left to do (the ? operator).                                    *)
Answer(p, t, status, values) ==
  LET script == program[p][t]
      clean  == Len(script.calls) - script.cleanup + 1
      next   == pos[p][t] + 1
  IN  /\ answer' = [answer EXCEPT ![p][t][pos[p][t]] = [status |-> status, values |-> values]]
      /\ pos' = [pos EXCEPT ![p][t] =
                   IF status = "ok" \/ next > clean THEN next ELSE clean]

Return(p, t, status, values) == Answer(p, t, status, values) /\ Holds(p, NoThread)

(* put and get compute the length in bytes before they take the mutex.     *)
LengthOverflows(c) == c.op \in {"put", "get", "await"} /\ c.len * SIZE > U64Max

TypedLengthOverflow(p, t) ==
  /\ running[p] # t
  /\ pos[p][t] <= Len(Script(p, t))
  /\ LengthOverflows(Current(p, t))
  /\ Answer(p, t, "usage", <<>>)
  /\ UNCHANGED <<program, offloaded, up, running, flight, epoch, left, buffer, ram, entered, log>>

(* with_state finds no state.                                              *)
NotInitialized(p, t) ==
  /\ Enters(p, t, Ops \ {"finalize"})
  /\ ~ LengthOverflows(Current(p, t))
  /\ ~ up[p]
  /\ Return(p, t, "uninitialized", <<>>)
  /\ UNCHANGED <<program, offloaded, up, flight, epoch, left, buffer, ram, entered, log>>

(* peer_and_address: the peer, and base + offset where offset + len is     *)
(* checked too.                                                            *)
Rejected(c) ==
  c.pe \in PEs => (\/ Base[c.pe] + c.offset > U64Max
                  \/ c.offset + c.len * SIZE > U64Max)

Address_OwnBase(p, c, i) == Base[p] + c.offset + (i - 1) * SIZE  \* mutant: not translated

Address(p, c, i) == Base[c.pe] + c.offset + (i - 1) * SIZE

(* What the reply buffer holds until UCX fills it: vec![0_u8; len], or the *)
(* operand.                                                                *)
EmptyReply(c) ==
  [i \in 1 .. c.len |-> IF c.op = "fetch" THEN Bits(c.args[1]) ELSE 0]

(* A transfer up to its wait for completion.                               *)
Transfer(p, t, ops) ==
  LET c == Current(p, t)
      elements == { [pe |-> p, thread |-> t, call |-> pos[p][t], elem |-> i,
                     addr |-> Address(p, c, i), epoch |-> epoch[p]] : i \in 1 .. c.len }
  IN  /\ Enters(p, t, ops)
      /\ up[p]
      /\ ~ LengthOverflows(c)
      /\ \/ /\ Rejected(c) /\ Return(p, t, "usage", <<>>)
            /\ UNCHANGED <<flight, buffer>>
         \/ /\ ~ Rejected(c) /\ c.len = 0 /\ Return(p, t, "ok", <<>>)
            /\ UNCHANGED <<flight, buffer>>
         \/ /\ ~ Rejected(c) /\ c.len > 0
            /\ "post" \in Faults /\ Return(p, t, "error", <<>>)
            /\ UNCHANGED <<flight, buffer>>
         \/ /\ ~ Rejected(c) /\ c.len > 0
            /\ flight' = flight \cup elements
            /\ buffer' = [buffer EXCEPT ![p] = EmptyReply(c)]
            /\ Holds(p, t)
            /\ UNCHANGED <<pos, answer>>
      /\ UNCHANGED <<program, offloaded, up, epoch, left, ram, entered, log>>

PutMem(p, t) == Transfer(p, t, {"put"})
GetMem(p, t) == Transfer(p, t, {"get", "await"})
AtomicOp(p, t) == Transfer(p, t, {"atomic"})
AtomicFetch(p, t) == Transfer(p, t, {"fetch"})

(* The running call waits in wait_request or complete_fetch, and drives    *)
(* the worker.                                                             *)
Waits(p, ops) == running[p] # NoThread /\ Current(p, running[p]).op \in ops
Progressing(p) == Waits(p, Transfers \cup Quiets)

(* UCX carries element e out at its target (external): never before an     *)
(* element to the same PE that was posted before an earlier fence.         *)
Undeliverable(e) == ~ up[CallOf(e).pe] \/ e.addr \notin Region(CallOf(e).pe)

StoredWord(c, i, old) ==
  CASE c.op = "put" -> Bits(c.args[i])
    [] c.op \in {"atomic", "fetch"} -> UcxAmo(c.amo, old, [k \in DOMAIN c.args |-> Bits(c.args[k])])
    [] c.op \in {"get", "await"} -> old

Deliver(p, q) ==
  \E e \in Outstanding(p, q) :
    /\ ~ Undeliverable(e)
    /\ \A d \in Outstanding(p, q) : d.epoch >= e.epoch
    /\ offloaded \/ Progressing(q)
    /\ flight' = flight \ {e}
    /\ ram' = [ram EXCEPT ![q][e.addr] = StoredWord(CallOf(e), e.elem, @)]
    /\ buffer' = IF CallOf(e).op \in Reads
                 THEN [buffer EXCEPT ![p][e.elem] = ram[q][e.addr]]
                 ELSE buffer
    /\ log' = IF CallOf(e).op = "await" THEN log ELSE Append(log, e)
    /\ UNCHANGED <<program, offloaded, up, running, pos, answer, epoch, left, entered>>

(* The request completes: the data of a get or the reply of a fetch is     *)
(* decoded, and an await loop gets again unless it saw its value or its    *)
(* deadline has passed.                                                    *)
Decoded(p, c) ==
  IF c.op \in Reads THEN [i \in 1 .. c.len |-> FromBits(c.signed, buffer[p][i])] ELSE <<>>

Completes(p, t, c) ==
  \/ /\ c.op # "await" \/ Decoded(p, c) = c.args
     /\ Return(p, t, "ok", Decoded(p, c))
  \/ /\ c.op = "await" /\ Decoded(p, c) # c.args
     /\ \/ Return(p, t, "timeout", <<>>)
        \/ Holds(p, NoThread) /\ UNCHANGED <<pos, answer>>

RequestDone(p) ==
  LET t == running[p]
  IN  /\ Waits(p, Transfers)
      /\ Mine(p) = {}
      /\ Completes(p, t, Current(p, t))
      /\ UNCHANGED <<program, offloaded, up, flight, epoch, left, buffer, ram, entered, log>>

(* A put or an atomic without a reply completes locally: UCX no longer     *)
(* needs the source, the target may not have been written.                 *)
LocalOps_AnyFetch == {"put", "atomic", "fetch"}  \* mutant: the reply is read at once

LocalOps == {"put", "atomic"}

RequestDoneLocally(p) ==
  LET t == running[p]
  IN  /\ Waits(p, LocalOps)
      /\ Mine(p) # {}
      /\ Return(p, t, "ok", Decoded(p, Current(p, t)))
      /\ UNCHANGED <<program, offloaded, up, flight, epoch, left, buffer, ram, entered, log>>

(* wait_request or check_finished returns an error; what was posted may    *)
(* still reach the target, but nothing is read any more.                   *)
RequestFails(p) ==
  LET t == running[p]
  IN  /\ Waits(p, Transfers)
      /\ "request" \in Faults \/ \E e \in Mine(p) : Undeliverable(e)
      /\ \E lost \in SUBSET Mine(p) :
           /\ Current(p, t).op \in Reads => lost = Mine(p)
           /\ flight' = flight \ lost
      /\ Return(p, t, "error", <<>>)
      /\ UNCHANGED <<program, offloaded, up, epoch, left, buffer, ram, entered, log>>

----------------------------------------------------------------------------

(* fence: ucp_worker_fence.                                                *)
Fence_None(p, t) ==  \* mutant: the worker is not fenced
  /\ Enters(p, t, {"fence"})
  /\ up[p]
  /\ Return(p, t, "ok", <<>>)
  /\ UNCHANGED <<program, offloaded, up, flight, epoch, left, buffer, ram, entered, log>>

Fence(p, t) ==
  /\ Enters(p, t, {"fence"})
  /\ up[p]
  /\ \/ Return(p, t, "ok", <<>>) /\ epoch' = [epoch EXCEPT ![p] = @ + 1]
     \/ "fence" \in Faults /\ Return(p, t, "error", <<>>) /\ UNCHANGED epoch
  /\ UNCHANGED <<program, offloaded, up, flight, left, buffer, ram, entered, log>>

(* quiet visits every endpoint in rank order, quiet_pe one.                *)
Endpoints_NoZero(p, c) ==  \* mutant: skips rank 0
  IF c.op = "quiet_pe" THEN <<c.pe>> ELSE [i \in 1 .. N - 1 |-> i]
Endpoints_OneMore(p, c) ==  \* mutant: goes one rank too far
  IF c.op = "quiet_pe" THEN <<c.pe>> ELSE [i \in 1 .. N + 1 |-> i - 1]

Endpoints(p, c) == IF c.op = "quiet_pe" THEN <<c.pe>> ELSE [i \in 1 .. N |-> i - 1]

Quiet(p, t) ==
  LET c == Current(p, t)
  IN  /\ Enters(p, t, Quiets)
      /\ up[p]
      /\ \/ /\ c.op = "quiet_pe" /\ c.pe \notin PEs
            /\ Return(p, t, "usage", <<>>)
            /\ UNCHANGED left
         \/ /\ c.op = "quiet_pe" => c.pe \in PEs
            /\ left' = [left EXCEPT ![p] = Endpoints(p, c)]
            /\ Holds(p, t)
            /\ UNCHANGED <<pos, answer>>
      /\ UNCHANGED <<program, offloaded, up, flight, epoch, buffer, ram, entered, log>>

(* The flush of the next endpoint completes (at once, or as a request), or *)
(* it fails and the remaining endpoints are not flushed.                   *)
FlushDone_NoRequest(p) ==  \* mutant: waits when flush returned None
  \E i \in 1 .. Len(log) : log[i].pe = p /\ Outstanding(p, Head(left[p])) = {}

FlushDone(p) == Outstanding(p, Head(left[p])) = {}

Flush(p) ==
  LET t == running[p]
  IN  /\ Waits(p, Quiets)
      /\ FlushDone(p)
      /\ left' = [left EXCEPT ![p] = Tail(@)]
      /\ IF Len(left[p]) = 1 THEN Return(p, t, "ok", <<>>)
                             ELSE UNCHANGED <<pos, answer, running>>
      /\ UNCHANGED <<program, offloaded, up, flight, epoch, buffer, ram, entered, log>>

FlushFails(p) ==
  LET t == running[p]
      q == Head(left[p])
  IN  /\ Waits(p, Quiets)
      /\ "flush" \in Faults \/ ~ up[q] \/ \E e \in Outstanding(p, q) : Undeliverable(e)
      /\ left' = [left EXCEPT ![p] = <<>>]
      /\ Return(p, t, "error", <<>>)
      /\ UNCHANGED <<program, offloaded, up, flight, epoch, buffer, ram, entered, log>>

(* coll::barrier: posted and waited for under the mutex, driving UCC only. *)
Barrier(p, t) ==
  /\ Enters(p, t, {"barrier"})
  /\ up[p]
  /\ \/ /\ entered' = [entered EXCEPT ![p] = @ + 1]
        /\ Holds(p, t)
        /\ UNCHANGED <<pos, answer>>
     \/ "ucc" \in Faults /\ Return(p, t, "error", <<>>) /\ UNCHANGED entered
  /\ UNCHANGED <<program, offloaded, up, flight, epoch, left, buffer, ram, log>>

BarrierDone_Self(p) == p \in PEs  \* mutant: returns once posted

BarrierDone(p) == \A q \in PEs : entered[q] >= entered[p]

WaitBarrier(p) ==
  /\ Waits(p, {"barrier"})
  /\ BarrierDone(p)
  /\ Return(p, running[p], "ok", <<entered[p]>>)
  /\ UNCHANGED <<program, offloaded, up, flight, epoch, left, buffer, ram, entered, log>>

BarrierFails(p) ==
  /\ Waits(p, {"barrier"})
  /\ "ucc" \in Faults
  /\ Return(p, running[p], "error", <<>>)
  /\ UNCHANGED <<program, offloaded, up, flight, epoch, left, buffer, ram, entered, log>>

(* init::finalize: the state goes, with its endpoints and the registration *)
(* of the heap.  What the PE still had in flight may be lost.              *)
Finalize(p, t) ==
  /\ Enters(p, t, {"finalize"})
  /\ up' = [up EXCEPT ![p] = FALSE]
  /\ \E lost \in SUBSET { e \in flight : e.pe = p } : flight' = flight \ lost
  /\ \/ Return(p, t, "ok", <<>>)
     \/ up[p] /\ "disconnect" \in Faults /\ Return(p, t, "error", <<>>)
  /\ UNCHANGED <<program, offloaded, epoch, left, buffer, ram, entered, log>>

(* Calls that touch the PE's own state only: my_pe, n_pes, malloc, free.   *)
Local(p, t) ==
  /\ Enters(p, t, {"local"})
  /\ up[p]
  /\ \/ Return(p, t, "ok", <<>>)
     \/ "local" \in Faults /\ Return(p, t, "error", <<>>)
  /\ UNCHANGED <<program, offloaded, up, flight, epoch, left, buffer, ram, entered, log>>

Call(p, t) ==
  \/ NotInitialized(p, t) \/ TypedLengthOverflow(p, t)
  \/ PutMem(p, t) \/ GetMem(p, t) \/ AtomicOp(p, t) \/ AtomicFetch(p, t)
  \/ Fence(p, t) \/ Quiet(p, t) \/ Barrier(p, t) \/ Finalize(p, t) \/ Local(p, t)

Next ==
  \/ \E p \in PEs :
       \/ \E t \in Threads : Call(p, t)
       \/ RequestDone(p) \/ RequestDoneLocally(p) \/ RequestFails(p)
       \/ Flush(p) \/ FlushFails(p) \/ WaitBarrier(p) \/ BarrierFails(p)
  \/ \E p, q \in PEs : Deliver(p, q)

Spec == Init /\ [][Next]_vars

(* Threads go on with their programs; a wait loop sees what has completed; *)
(* UCX carries out what its target can take often enough.                  *)
FairSpec ==
  /\ Spec
  /\ \A p \in PEs :
       /\ \A t \in Threads : WF_vars(Call(p, t))
       /\ WF_vars(RequestDone(p)) /\ WF_vars(Flush(p)) /\ WF_vars(WaitBarrier(p))
       /\ \A q \in PEs : SF_vars(Deliver(p, q))

----------------------------------------------------------------------------

(* Every variable stays in its type; a PE in quiet has an endpoint left.   *)
Elements == [pe : PEs, thread : Threads, call : Nat, elem : Nat, addr : Nat, epoch : Nat]

TypeOK ==
  /\ program \in Programs
  /\ offloaded \in BOOLEAN
  /\ up \in [PEs -> BOOLEAN]
  /\ running \in [PEs -> Threads \cup {NoThread}]
  /\ pos \in [PEs -> [Threads -> Nat]]
  /\ flight \subseteq Elements
  /\ epoch \in [PEs -> Nat]
  /\ left \in [PEs -> Seq(PEs)]
  /\ DOMAIN ram = PEs /\ \A q \in PEs : DOMAIN ram[q] = Region(q)
  /\ entered \in [PEs -> Nat]
  /\ log \in Seq(Elements)
  /\ \A p \in PEs : Waits(p, Quiets) => left[p] # <<>>

Ok(p, t, k) == answer[p][t][k].status = "ok"
Landed == { log[i] : i \in 1 .. Len(log) }

(* The peers that the call at p, t, k completes.                           *)
Covers(p, t, k, q) ==
  LET c == Script(p, t)[k]
  IN  c.op = "quiet" \/ (c.op = "quiet_pe" /\ c.pe = q)

(* QuietCompletes: once quiet or quiet_pe has returned Ok, everything its  *)
(* thread had put or updated there before has been carried out at the      *)
(* target, even if the target or the PE itself finalizes in between: "each *)
(* endpoint flush waits until prior RMA has completed remotely"            *)
(* (src/rma.rs:891).  One endpoint whose flush fails is enough for no Ok.  *)
QuietCompletes ==
  \A p \in PEs, t \in Threads : \A j \in 1 .. Len(Script(p, t)) : \A k \in 1 .. j - 1 :
    LET c == Script(p, t)[k]
    IN  (/\ Ok(p, t, j) /\ Covers(p, t, j, c.pe)
         /\ Ok(p, t, k) /\ c.op \in {"put", "atomic"})
          => \A i \in 1 .. c.len : \E e \in Landed :
               e.pe = p /\ e.thread = t /\ e.call = k /\ e.elem = i

(* FenceOrders: what a thread sent to a PE before a successful fence can   *)
(* no longer land there once something it sent after the fence has: "Order *)
(* RMA operations issued before this call before RMA operations issued     *)
(* afterward" (src/rma.rs:878).                                            *)
FenceOrders ==
  \A e \in flight, l \in Landed :
    (e.pe = l.pe /\ e.thread = l.thread /\ CallOf(e).pe = CallOf(l).pe /\ e.call < l.call)
      => ~ \E j \in e.call .. l.call :
             Ok(e.pe, e.thread, j) /\ Script(e.pe, e.thread)[j].op = "fence"

(* The word that element e concerns, as its caller names it.               *)
Cell(e) == <<CallOf(e).pe, CallOf(e).offset + (e.elem - 1) * SIZE>>

(* The effect of a call on a cell in the arithmetic of residues, whatever  *)
(* type each caller sees the cell as.                                      *)
Effect(c, i, old) ==
  LET x == [k \in DOMAIN c.args |-> c.args[k] % Modulus]
  IN  CASE c.op = "put" -> x[i]
        [] c.op = "get" -> old
        [] c.op \in {"atomic", "fetch"} -> UcxAmo(c.amo, old, x)

(* The contents of a cell after n entries of the log.                      *)
Contents(cell, n) ==
  LET c[i \in 0 .. n] ==
        IF i = 0 THEN 0
        ELSE IF Cell(log[i]) = cell THEN Effect(CallOf(log[i]), log[i].elem, c[i - 1])
                                    ELSE c[i - 1]
  IN  c[n]

(* HeapIsCallHistory: every word of every symmetric heap holds what the    *)
(* API calls that have landed there amount to, one after the other: no     *)
(* update of concurrent PEs is lost, none lands on a wrong PE or offset,   *)
(* and signed and unsigned views of a word agree.                          *)
HeapIsCallHistory ==
  \A q \in PEs, o \in { SIZE * i : i \in 0 .. (Capacity \div SIZE) - 1 } :
    ram[q][Base[q] + o] = Contents(<<q, o>>, Len(log))

(* RepliesAreHistory: what a get or a fetching atomic returned is, as a    *)
(* value of its type, what its cell held right before it took effect; no   *)
(* caller is shown a buffer before UCX has filled it.                      *)
RepliesAreHistory ==
  \A n \in 1 .. Len(log) :
    LET e == log[n]
        c == CallOf(e)
        value == answer[e.pe][e.thread][e.call].values[e.elem]
    IN  (c.op \in {"get", "fetch"} /\ Ok(e.pe, e.thread, e.call))
          => /\ value \in Values(c.signed)
             /\ (value - Contents(Cell(e), n - 1)) % Modulus = 0

(* Call k of p, t comes after barrier number n.                            *)
AfterBarrier(p, t, k, n) ==
  \E b \in 1 .. k - 1 :
    Script(p, t)[b].op = "barrier" /\ Ok(p, t, b) /\ answer[p][t][b].values[1] >= n

(* BarrierPublishes: a write that its PE completed with quiet before a     *)
(* barrier is seen by every get that any PE makes after that barrier.      *)
BarrierPublishes ==
  \A p, r \in PEs, t, s \in Threads :
    \A b \in 1 .. Len(Script(p, t)) : \A j \in 1 .. b - 1 : \A w \in 1 .. j - 1 :
      LET c == Script(p, t)[w]
      IN  (/\ Script(p, t)[b].op = "barrier" /\ Ok(p, t, b)
           /\ Ok(p, t, j) /\ Covers(p, t, j, c.pe)
           /\ c.op \in {"put", "atomic"} /\ Ok(p, t, w))
            => \A n \in 1 .. Len(log) :
                 (/\ log[n].pe = r /\ log[n].thread = s /\ CallOf(log[n]).op = "get"
                  /\ AfterBarrier(r, s, log[n].call, answer[p][t][b].values[1]))
                   => \A i \in 1 .. c.len :
                        Cell(log[n]) = <<c.pe, c.offset + (i - 1) * SIZE>>
                          => \E m \in 1 .. n - 1 :
                               log[m].pe = p /\ log[m].thread = t /\ log[m].call = w /\ log[m].elem = i

(* What the running call of p waits for cannot happen: a PE has not joined *)
(* the barrier, or something it waits for cannot be delivered, or would    *)
(* need a target that is not driving its worker.                           *)
Hopeless(p) ==
  LET c == Current(p, running[p])
      q == IF c.op \in Quiets THEN Head(left[p]) ELSE c.pe
  IN  IF c.op = "barrier"
      THEN \E r \in PEs : entered[r] < entered[p]
      ELSE \E e \in Outstanding(p, q) :
             Undeliverable(e) \/ (~ offloaded /\ ~ Progressing(q))

(* OnlyHopelessCallsBlock: a call keeps the mutex of its PE for ever, and  *)
(* with it every other thread of the PE out of the library, only when from *)
(* some time on a PE stays away from its barrier, its target is gone or is *)
(* not addressed by it, or software must carry out the transfer at a       *)
(* target that makes no more RMA calls.                                    *)
OnlyHopelessCallsBlock ==
  \A p \in PEs :
    []<>(running[p] = NoThread) \/ <>[](running[p] # NoThread /\ Hopeless(p))

=============================================================================
