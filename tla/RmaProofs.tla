----------------------------- MODULE RmaProofs -----------------------------
(***************************************************************************)
(* What quiet, fence and barriers guarantee, what memory holds and what    *)
(* gets and fetching atomics return, for every program, every number of    *)
(* PEs and threads, with and without hardware support and with every fault.*)
(*                                                                         *)
(* Every step has one of seven shapes: a call answers without the mutex    *)
(* (Refuses) or under it (Settles), posts elements (Posts), takes the      *)
(* mutex for a wait (Starts), passes an endpoint (Continues) or gives the  *)
(* mutex back for another round (Releases), or an element lands (Lands).   *)
(* NextShape derives the shapes from the actions; the parts of the         *)
(* invariant are then proved preserved shape by shape.  On top of it come  *)
(* what a step does to replies and buffers (Replies), what barriers        *)
(* publish (Barriers), what a landing element does to memory (Effects),    *)
(* memory as the history of calls (Histories) and what reads return (Reply *)
(* buffers).                                                               *)
(***************************************************************************)
EXTENDS Rma, SequenceTheorems, WellFoundedInduction, TLAPS

Known == flight \cup Landed

(* The parts of the inductive invariant beside TypeOK.                     *)
AnswersOK ==
  /\ DOMAIN answer = PEs
  /\ \A p \in PEs : DOMAIN answer[p] = Threads
  /\ \A p \in PEs, t \in Threads : DOMAIN answer[p][t] = 1 .. Len(Script(p, t))
  /\ \A p \in PEs, t \in Threads :
       /\ pos[p][t] >= 1
       /\ \A k \in 1 .. Len(Script(p, t)) : k >= pos[p][t] => ~ Ok(p, t, k)

RunsOK(p) ==
  running[p] # NoThread =>
    /\ up[p]
    /\ pos[p][running[p]] <= Len(Script(p, running[p]))
    /\ Current(p, running[p]).op \in Transfers \cup Quiets \cup {"barrier"}

RunningOK == \A p \in PEs : RunsOK(p)

ElementsOK ==
  \A e \in Known :
    /\ e.call \in 1 .. Len(Script(e.pe, e.thread))
    /\ CallOf(e).op \in Transfers
    /\ CallOf(e).pe \in PEs
    /\ e.call <= pos[e.pe][e.thread]
    /\ e.call = pos[e.pe][e.thread] => running[e.pe] = e.thread
    /\ e.epoch <= epoch[e.pe]
    /\ e \in Landed => CallOf(e).op # "await"

(* What lands was posted no later, in fences, than what is still in flight *)
(* to the same PE.                                                         *)
EpochsOK ==
  \A e \in flight, l \in Landed :
    (e.pe = l.pe /\ CallOf(e).pe = CallOf(l).pe) => l.epoch <= e.epoch

Fenced(p, t, j) == Ok(p, t, j) /\ Script(p, t)[j].op = "fence"

FencedOK ==
  \A e \in Known : \A j \in e.call .. Len(Script(e.pe, e.thread)) :
    Fenced(e.pe, e.thread, j) => e.epoch < epoch[e.pe]

BetweenOK ==
  \A e, l \in Known :
    (e.pe = l.pe /\ e.thread = l.thread)
      => \A j \in e.call .. l.call : Fenced(e.pe, e.thread, j) => e.epoch < l.epoch

Has(S, p, t, k, i) == \E e \in S : e.pe = p /\ e.thread = t /\ e.call = k /\ e.elem = i

Writes == {"put", "atomic"}

PostedOK ==
  \A p \in PEs, t \in Threads : (running[p] = t /\ Current(p, t).op \in Writes) =>
    \A i \in 1 .. Current(p, t).len : Has(Known, p, t, pos[p][t], i)

IssuedOK ==
  \A p \in PEs, t \in Threads : \A k \in 1 .. Len(Script(p, t)) :
    (Ok(p, t, k) /\ Script(p, t)[k].op \in Writes /\ up[p])
      => \A i \in 1 .. Script(p, t)[k].len : Has(Known, p, t, k, i)

FlushedOK ==
  \A p \in PEs, t \in Threads : (running[p] = t /\ Current(p, t).op \in Quiets) =>
    \A e \in flight :
      (e.pe = p /\ Covers(p, t, pos[p][t], CallOf(e).pe))
        => \E i \in 1 .. Len(left[p]) : left[p][i] = CallOf(e).pe

Inv ==
  /\ TypeOK /\ AnswersOK /\ RunningOK /\ ElementsOK
  /\ EpochsOK /\ FencedOK /\ BetweenOK
  /\ PostedOK /\ IssuedOK /\ FlushedOK /\ QuietCompletes

----------------------------------------------------------------------------

(* Scripts are sequences of calls.                                         *)
LEMMA ScriptType ==
  ASSUME program \in Programs, NEW p \in PEs, NEW t \in Threads
  PROVE  /\ Script(p, t) \in Seq(Calls)
         /\ Len(Script(p, t)) \in Nat
         /\ program[p][t].cleanup \in Nat
         /\ \A k \in 1 .. Len(Script(p, t)) : Script(p, t)[k] \in Calls
<1>1. program \in [PEs -> [Threads -> [calls : Seq(Calls), cleanup : Nat]]]
  BY RmaAssumption
<1>2. program[p][t] \in [calls : Seq(Calls), cleanup : Nat]
  BY <1>1
<1>3. Script(p, t) \in Seq(Calls) /\ program[p][t].cleanup \in Nat
  BY <1>2 DEF Script
<1> QED
  BY <1>3

(* The call a thread is at.                                                *)
LEMMA CurrentType ==
  ASSUME program \in Programs, NEW p \in PEs, NEW t \in Threads,
         pos[p][t] \in Nat, pos[p][t] >= 1, pos[p][t] <= Len(Script(p, t))
  PROVE  /\ Current(p, t) \in Calls
         /\ Current(p, t).op \in Ops
         /\ Current(p, t).pe \in Nat
         /\ Current(p, t).offset \in Nat
         /\ Current(p, t).len \in Nat
<1>1. Current(p, t) \in Calls
  BY ScriptType DEF Current
<1> QED
  BY <1>1 DEF Calls

(* What Answer does: one call gets its result, and its thread moves on.    *)
Replies(p, t, ok) ==
  /\ DOMAIN answer' = PEs
  /\ \A q \in PEs : DOMAIN answer'[q] = Threads
  /\ \A q \in PEs, s \in Threads : DOMAIN answer'[q][s] = 1 .. Len(Script(q, s))
  /\ \A q \in PEs, s \in Threads : \A k \in 1 .. Len(Script(q, s)) :
       answer'[q][s][k].status = "ok" <=>
         IF q = p /\ s = t /\ k = pos[p][t] THEN ok ELSE answer[q][s][k].status = "ok"
  /\ pos' \in [PEs -> [Threads -> Nat]]
  /\ pos'[p][t] > pos[p][t]
  /\ \A q \in PEs, s \in Threads : (q # p \/ s # t) => pos'[q][s] = pos[q][s]

LEMMA AnswerReplies ==
  ASSUME TypeOK, AnswersOK, NEW p \in PEs, NEW t \in Threads,
         pos[p][t] <= Len(Script(p, t)), NEW status, NEW values,
         Answer(p, t, status, values)
  PROVE  Replies(p, t, status = "ok")
<1> DEFINE new == [status |-> status, values |-> values]
           next == pos[p][t] + 1
           clean == Len(program[p][t].calls) - program[p][t].cleanup + 1
<1>1. answer' = [answer EXCEPT ![p][t][pos[p][t]] = new]
  BY DEF Answer
<1>2. pos' = [pos EXCEPT ![p][t] = IF status = "ok" \/ next > clean THEN next ELSE clean]
  BY Zenon DEF Answer
<1>3. pos \in [PEs -> [Threads -> Nat]] /\ program \in Programs
  BY DEF TypeOK
<1>4. clean \in Int
  BY <1>3, ScriptType DEF Script
<1>5. \A q \in PEs, s \in Threads : \A k \in 1 .. Len(Script(q, s)) :
        answer'[q][s][k] = IF q = p /\ s = t /\ k = pos[p][t] THEN new ELSE answer[q][s][k]
  BY <1>1 DEF AnswersOK
<1>6. /\ DOMAIN answer' = PEs
      /\ \A q \in PEs : DOMAIN answer'[q] = Threads
      /\ \A q \in PEs, s \in Threads : DOMAIN answer'[q][s] = 1 .. Len(Script(q, s))
  BY <1>1 DEF AnswersOK
<1>7. /\ pos' \in [PEs -> [Threads -> Nat]]
      /\ pos'[p][t] > pos[p][t]
      /\ \A q \in PEs, s \in Threads : (q # p \/ s # t) => pos'[q][s] = pos[q][s]
  BY <1>2, <1>3, <1>4
<1>8. \A q \in PEs, s \in Threads : \A k \in 1 .. Len(Script(q, s)) :
        answer'[q][s][k].status = "ok" <=>
          IF q = p /\ s = t /\ k = pos[p][t] THEN status = "ok" ELSE answer[q][s][k].status = "ok"
  <2> TAKE q \in PEs, s \in Threads
  <2> TAKE k \in 1 .. Len(Script(q, s))
  <2>1. CASE q = p /\ s = t /\ k = pos[p][t]
    BY <1>5, <2>1
  <2>2. CASE ~ (q = p /\ s = t /\ k = pos[p][t])
    BY <1>5, <2>2
  <2> QED
    BY <2>1, <2>2
<1> QED
  BY <1>6, <1>7, <1>8 DEF Replies

(* An error is no Ok.                                                      *)
LEMMA ErrorReplies ==
  ASSUME TypeOK, AnswersOK, NEW p \in PEs, NEW t \in Threads,
         pos[p][t] <= Len(Script(p, t)), NEW status, NEW values,
         Answer(p, t, status, values), status # "ok"
  PROVE  Replies(p, t, FALSE)
BY AnswerReplies DEF Replies

----------------------------------------------------------------------------

(* The shapes of a step.                                                   *)
Refuses(p, t) ==
  /\ Replies(p, t, FALSE)
  /\ pos[p][t] <= Len(Script(p, t))
  /\ running[p] # t
  /\ UNCHANGED <<program, up, running, flight, epoch, left, log>>

Settles(p, t, ok) ==
  /\ Replies(p, t, ok)
  /\ pos[p][t] <= Len(Script(p, t))
  /\ running[p] \in {t, NoThread}
  /\ running' = [running EXCEPT ![p] = NoThread]
  /\ program' = program /\ log' = log
  /\ up' = up \/ (up' = [up EXCEPT ![p] = FALSE])
  /\ flight' \subseteq flight
  /\ \A e \in flight \ flight' :
       e.pe = p /\ (~ up'[p] \/ (e.thread = t /\ e.call = pos[p][t] /\ ~ ok))
  /\ epoch' \in [PEs -> Nat]
  /\ \A q \in PEs : epoch'[q] >= epoch[q]
  /\ (ok /\ Current(p, t).op = "fence") => epoch'[p] > epoch[p]
  /\ \E new \in Seq(PEs) : left' = [left EXCEPT ![p] = new]
  /\ (ok /\ Current(p, t).op \in Writes) => (running[p] = t \/ Current(p, t).len = 0)
  /\ (ok /\ Current(p, t).op \in Quiets)
       => running[p] = t /\ Len(left[p]) = 1 /\ Outstanding(p, Head(left[p])) = {}

Takes(p, t, ops) ==
  /\ running[p] = NoThread
  /\ running' = [running EXCEPT ![p] = t]
  /\ up[p]
  /\ pos[p][t] <= Len(Script(p, t))
  /\ Current(p, t).op \in ops

Posts(p, t) ==
  /\ Takes(p, t, Transfers)
  /\ Current(p, t).pe \in PEs
  /\ \A i \in 1 .. Current(p, t).len : Address(p, Current(p, t), i) \in Nat
  /\ flight' = flight \cup
       { [pe |-> p, thread |-> t, call |-> pos[p][t], elem |-> i,
          addr |-> Address(p, Current(p, t), i), epoch |-> epoch[p]] : i \in 1 .. Current(p, t).len }
  /\ UNCHANGED <<program, up, pos, answer, epoch, left, log>>

Starts(p, t) ==
  /\ Takes(p, t, Quiets \cup {"barrier"})
  /\ \/ Current(p, t).op = "barrier" /\ left' = left
     \/ /\ Current(p, t).op = "quiet_pe" => Current(p, t).pe \in PEs
        /\ left' = [left EXCEPT ![p] = Endpoints(p, Current(p, t))]
  /\ UNCHANGED <<program, up, pos, answer, flight, epoch, log>>

Continues(p) ==
  /\ Waits(p, Quiets)
  /\ Len(left[p]) # 1
  /\ Outstanding(p, Head(left[p])) = {}
  /\ left' = [left EXCEPT ![p] = Tail(@)]
  /\ UNCHANGED <<program, up, running, pos, answer, flight, epoch, log>>

Releases(p) ==
  /\ Waits(p, {"await"})
  /\ Mine(p) = {}
  /\ running' = [running EXCEPT ![p] = NoThread]
  /\ UNCHANGED <<program, up, pos, answer, flight, epoch, left, log>>

Lands(e) ==
  /\ e \in flight
  /\ flight' = flight \ {e}
  /\ \A d \in flight : (d.pe = e.pe /\ CallOf(d).pe = CallOf(e).pe) => d.epoch >= e.epoch
  /\ log' = IF CallOf(e).op = "await" THEN log ELSE Append(log, e)
  /\ UNCHANGED <<program, up, running, pos, answer, epoch, left>>

Shape ==
  \/ \E p \in PEs, t \in Threads : Refuses(p, t) \/ Posts(p, t) \/ Starts(p, t)
  \/ \E p \in PEs, t \in Threads, ok \in BOOLEAN : Settles(p, t, ok)
  \/ \E p \in PEs : Continues(p) \/ Releases(p)
  \/ \E e \in flight : Lands(e)
  \/ UNCHANGED <<program, up, running, pos, answer, flight, epoch, left, log>>

(* A call that returns under the mutex without touching flight, epoch,     *)
(* left, up or log.                                                        *)
LEMMA PlainReturn ==
  ASSUME TypeOK, AnswersOK, NEW p \in PEs, NEW t \in Threads,
         pos[p][t] <= Len(Script(p, t)), running[p] \in {t, NoThread},
         NEW status, NEW values, Return(p, t, status, values),
         UNCHANGED <<program, up, flight, epoch, left, log>>,
         (status = "ok") => /\ Current(p, t).op \notin Quiets \cup {"fence"}
                            /\ Current(p, t).op \in Writes => (running[p] = t \/ Current(p, t).len = 0)
  PROVE  \E ok \in BOOLEAN : Settles(p, t, ok)
<1>1. Replies(p, t, status = "ok") /\ running' = [running EXCEPT ![p] = NoThread]
  BY AnswerReplies DEF Return, Holds
<1>2. left[p] \in Seq(PEs) /\ left' = [left EXCEPT ![p] = left[p]]
  BY DEF TypeOK
<1>3. epoch' \in [PEs -> Nat] /\ \A q \in PEs : epoch'[q] >= epoch[q]
  BY DEF TypeOK
<1>4. Settles(p, t, status = "ok")
  BY <1>1, <1>2, <1>3 DEF Settles
<1> QED
  BY <1>4

(* A thread that takes the mutex for one of its calls.                     *)
LEMMA EnteringThread ==
  ASSUME TypeOK, AnswersOK, NEW p \in PEs, NEW t \in Threads, NEW ops, Enters(p, t, ops)
  PROVE  /\ running[p] = NoThread /\ t # NoThread
         /\ pos[p][t] \in Nat /\ pos[p][t] >= 1 /\ pos[p][t] <= Len(Script(p, t))
         /\ Current(p, t).op \in ops
         /\ Current(p, t).pe \in Nat /\ Current(p, t).offset \in Nat /\ Current(p, t).len \in Nat
<1>1. /\ running[p] = NoThread
      /\ pos[p][t] <= Len(Script(p, t))
      /\ Current(p, t).op \in ops
  BY DEF Enters
<1>2. pos[p][t] \in Nat /\ pos[p][t] >= 1 /\ program \in Programs
  BY DEF TypeOK, AnswersOK
<1>3. t # NoThread
  BY RmaAssumption DEF NoThread
<1> QED
  BY <1>1, <1>2, <1>3, CurrentType

(* A thread that waits inside one of its calls.                            *)
LEMMA WaitingThread ==
  ASSUME TypeOK, AnswersOK, RunningOK, NEW p \in PEs, NEW ops, Waits(p, ops)
  PROVE  /\ running[p] \in Threads
         /\ up[p]
         /\ pos[p][running[p]] \in Nat /\ pos[p][running[p]] <= Len(Script(p, running[p]))
         /\ Current(p, running[p]).op \in ops
<1>1. running[p] # NoThread /\ Current(p, running[p]).op \in ops
  BY DEF Waits
<1>2. running[p] \in Threads
  BY <1>1 DEF TypeOK
<1>3. pos[p][running[p]] \in Nat
  BY <1>2 DEF TypeOK
<1>4. up[p] /\ pos[p][running[p]] <= Len(Script(p, running[p]))
  BY <1>1, Zenon DEF RunningOK, RunsOK
<1> QED
  BY <1>1, <1>2, <1>3, <1>4

(* putmem, getmem and the atomics post their elements, aimed at an address *)
(* of the target.                                                          *)
LEMMA TransferPosts ==
  ASSUME TypeOK, AnswersOK, NEW p \in PEs, NEW t \in Threads,
         NEW ops \in SUBSET Transfers, Enters(p, t, ops), up[p], ~ Rejected(Current(p, t)),
         Holds(p, t), UNCHANGED <<program, up, pos, answer, epoch, left, log>>,
         flight' = flight \cup
           { [pe |-> p, thread |-> t, call |-> pos[p][t], elem |-> i,
              addr |-> Address(p, Current(p, t), i), epoch |-> epoch[p]] : i \in 1 .. Current(p, t).len }
  PROVE  Posts(p, t)
<1> DEFINE c == Current(p, t)
<1>1. /\ running[p] = NoThread /\ pos[p][t] <= Len(Script(p, t))
      /\ c.op \in Transfers /\ c.offset \in Nat /\ c.len \in Nat
  BY EnteringThread
<1>2. c.pe \in PEs
  BY DEF Rejected
<1>3. Base[c.pe] \in Nat /\ SIZE \in Nat
  BY <1>2, RmaAssumption
<1>4. \A i \in 1 .. c.len : Address(p, c, i) \in Nat
  <2> TAKE i \in 1 .. c.len
  <2>1. i - 1 \in Nat
    BY <1>1
  <2>2. (i - 1) * SIZE \in Nat
    BY <1>3, <2>1
  <2>3. \A x \in Nat : Base[c.pe] + c.offset + x \in Nat
    BY <1>1, <1>3
  <2> QED
    BY <2>2, <2>3, Zenon DEF Address
<1>5. Takes(p, t, Transfers)
  BY <1>1 DEF Takes, Holds
<1> QED
  BY <1>2, <1>4, <1>5 DEF Posts

(* putmem, getmem and the atomics, up to their wait.                       *)
LEMMA TransferShape ==
  ASSUME TypeOK, AnswersOK, NEW p \in PEs, NEW t \in Threads,
         NEW ops \in SUBSET Transfers, Transfer(p, t, ops)
  PROVE  Shape
<1> DEFINE c == Current(p, t)
<1>1. Enters(p, t, ops) /\ up[p] /\ UNCHANGED <<program, up, epoch, left, log>>
  BY DEF Transfer
<1>2. /\ running[p] = NoThread
      /\ pos[p][t] \in Nat /\ pos[p][t] <= Len(Script(p, t))
      /\ c.op \in Transfers
      /\ c.offset \in Nat /\ c.len \in Nat
  BY <1>1, EnteringThread
<1>3. c.op \notin Quiets \cup {"fence"}
  BY <1>2 DEF Quiets, Transfers
<1>4. ASSUME NEW status, Return(p, t, status, <<>>), flight' = flight,
             status = "ok" => c.len = 0
      PROVE  Shape
  <2>1. \E ok \in BOOLEAN : Settles(p, t, ok)
    BY <1>1, <1>2, <1>3, <1>4, PlainReturn
  <2> QED
    BY <2>1 DEF Shape
<1>5. ASSUME ~ Rejected(c), Holds(p, t), UNCHANGED <<pos, answer>>,
             flight' = flight \cup
               { [pe |-> p, thread |-> t, call |-> pos[p][t], elem |-> i,
                  addr |-> Address(p, c, i), epoch |-> epoch[p]] : i \in 1 .. c.len }
      PROVE  Shape
  <2>1. Posts(p, t)
    BY <1>1, <1>5, TransferPosts
  <2> QED
    BY <2>1 DEF Shape
<1> QED
  BY <1>4, <1>5 DEF Transfer

(* fence, quiet, barrier, finalize and the calls without communication.    *)
LEMMA CallShape ==
  ASSUME TypeOK, AnswersOK, NEW p \in PEs, NEW t \in Threads, Call(p, t)
  PROVE  Shape
<1> DEFINE c == Current(p, t)
<1>1. CASE NotInitialized(p, t)
  <2>1. /\ Enters(p, t, Ops \ {"finalize"})
        /\ Return(p, t, "uninitialized", <<>>)
        /\ UNCHANGED <<program, up, flight, epoch, left, log>>
    BY <1>1 DEF NotInitialized
  <2>2. running[p] = NoThread /\ pos[p][t] <= Len(Script(p, t))
    BY <2>1, EnteringThread
  <2>3. \E ok \in BOOLEAN : Settles(p, t, ok)
    BY <2>1, <2>2, PlainReturn
  <2> QED
    BY <2>3 DEF Shape
<1>2. CASE TypedLengthOverflow(p, t)
  <2>1. /\ running[p] # t /\ pos[p][t] <= Len(Script(p, t))
        /\ Answer(p, t, "usage", <<>>)
        /\ UNCHANGED <<program, up, running, flight, epoch, left, log>>
    BY <1>2 DEF TypedLengthOverflow
  <2>2. Replies(p, t, FALSE)
    BY <2>1, ErrorReplies
  <2>3. Refuses(p, t)
    BY <2>1, <2>2 DEF Refuses
  <2> QED
    BY <2>3 DEF Shape
<1>3. CASE PutMem(p, t) \/ GetMem(p, t) \/ AtomicOp(p, t) \/ AtomicFetch(p, t)
  <2>1. PICK ops \in SUBSET Transfers : Transfer(p, t, ops)
    BY <1>3 DEF PutMem, GetMem, AtomicOp, AtomicFetch, Transfers
  <2> QED
    BY <2>1, TransferShape
<1>4. CASE Fence(p, t)
  <2>1. /\ Enters(p, t, {"fence"})
        /\ UNCHANGED <<program, up, flight, left, log>>
        /\ \/ Return(p, t, "ok", <<>>) /\ epoch' = [epoch EXCEPT ![p] = @ + 1]
           \/ Return(p, t, "error", <<>>) /\ epoch' = epoch
    BY <1>4 DEF Fence
  <2>2. /\ running[p] = NoThread /\ pos[p][t] <= Len(Script(p, t))
        /\ c.op = "fence"
    BY <2>1, EnteringThread
  <2>3. c.op \notin Quiets \cup Writes
    BY <2>2 DEF Quiets, Writes
  <2>4. CASE Return(p, t, "ok", <<>>) /\ epoch' = [epoch EXCEPT ![p] = @ + 1]
    <3>1. Replies(p, t, "ok" = "ok") /\ running' = [running EXCEPT ![p] = NoThread]
      BY <2>2, <2>4, AnswerReplies DEF Return, Holds
    <3>2. Replies(p, t, TRUE)
      BY <3>1 DEF Replies
    <3>3. left[p] \in Seq(PEs) /\ left' = [left EXCEPT ![p] = left[p]]
      BY <2>1 DEF TypeOK
    <3>4. /\ epoch' \in [PEs -> Nat] /\ \A q \in PEs : epoch'[q] >= epoch[q]
          /\ epoch'[p] > epoch[p]
      BY <2>4 DEF TypeOK
    <3>5. Settles(p, t, TRUE)
      BY <2>1, <2>2, <2>3, <3>1, <3>2, <3>3, <3>4 DEF Settles
    <3> QED
      BY <3>5 DEF Shape
  <2>5. CASE Return(p, t, "error", <<>>) /\ epoch' = epoch
    <3>1. \E ok \in BOOLEAN : Settles(p, t, ok)
      BY <2>1, <2>2, <2>5, PlainReturn
    <3> QED
      BY <3>1 DEF Shape
  <2> QED
    BY <2>1, <2>4, <2>5
<1>5. CASE Quiet(p, t)
  <2>1. /\ Enters(p, t, Quiets) /\ up[p]
        /\ UNCHANGED <<program, up, flight, epoch, log>>
        /\ \/ Return(p, t, "usage", <<>>) /\ left' = left
           \/ /\ c.op = "quiet_pe" => c.pe \in PEs
              /\ left' = [left EXCEPT ![p] = Endpoints(p, c)]
              /\ Holds(p, t) /\ UNCHANGED <<pos, answer>>
    BY <1>5 DEF Quiet
  <2>2. /\ running[p] = NoThread /\ pos[p][t] <= Len(Script(p, t))
        /\ c.op \in Quiets
    BY <2>1, EnteringThread
  <2>3. CASE Return(p, t, "usage", <<>>) /\ left' = left
    <3>1. \E ok \in BOOLEAN : Settles(p, t, ok)
      BY <2>1, <2>2, <2>3, PlainReturn
    <3> QED
      BY <3>1 DEF Shape
  <2>4. CASE /\ c.op = "quiet_pe" => c.pe \in PEs
             /\ left' = [left EXCEPT ![p] = Endpoints(p, c)]
             /\ Holds(p, t) /\ UNCHANGED <<pos, answer>>
    <3>1. Takes(p, t, Quiets \cup {"barrier"})
      BY <2>1, <2>2, <2>4 DEF Takes, Holds
    <3>2. Starts(p, t)
      BY <2>1, <2>4, <3>1 DEF Starts
    <3> QED
      BY <3>2 DEF Shape
  <2> QED
    BY <2>1, <2>3, <2>4
<1>6. CASE Barrier(p, t)
  <2>1. /\ Enters(p, t, {"barrier"}) /\ up[p]
        /\ UNCHANGED <<program, up, flight, epoch, left, log>>
        /\ \/ Holds(p, t) /\ UNCHANGED <<pos, answer>>
           \/ Return(p, t, "error", <<>>)
    BY <1>6 DEF Barrier
  <2>2. /\ running[p] = NoThread /\ pos[p][t] <= Len(Script(p, t))
        /\ c.op = "barrier"
    BY <2>1, EnteringThread
  <2>3. CASE Return(p, t, "error", <<>>)
    <3>1. \E ok \in BOOLEAN : Settles(p, t, ok)
      BY <2>1, <2>2, <2>3, PlainReturn
    <3> QED
      BY <3>1 DEF Shape
  <2>4. CASE Holds(p, t) /\ UNCHANGED <<pos, answer>>
    <3>1. Takes(p, t, Quiets \cup {"barrier"})
      BY <2>1, <2>2, <2>4 DEF Takes, Holds
    <3>2. Starts(p, t)
      BY <2>1, <2>2, <2>4, <3>1 DEF Starts
    <3> QED
      BY <3>2 DEF Shape
  <2> QED
    BY <2>1, <2>3, <2>4
<1>7. CASE Finalize(p, t)
  <2>1. PICK status \in {"ok", "error"} : Return(p, t, status, <<>>)
    BY <1>7 DEF Finalize
  <2>2. /\ Enters(p, t, {"finalize"})
        /\ up' = [up EXCEPT ![p] = FALSE]
        /\ UNCHANGED <<program, epoch, left, log>>
    BY <1>7 DEF Finalize
  <2>3. PICK lost \in SUBSET { e \in flight : e.pe = p } : flight' = flight \ lost
    BY <1>7 DEF Finalize
  <2>4. /\ running[p] = NoThread /\ pos[p][t] <= Len(Script(p, t))
        /\ c.op = "finalize"
    BY <2>2, EnteringThread
  <2>5. c.op \notin Quiets \cup Writes \cup {"fence"}
    BY <2>4 DEF Quiets, Writes
  <2>6. Replies(p, t, status = "ok") /\ running' = [running EXCEPT ![p] = NoThread]
    BY <2>1, <2>4, AnswerReplies DEF Return, Holds
  <2>7. left[p] \in Seq(PEs) /\ left' = [left EXCEPT ![p] = left[p]]
    BY <2>2 DEF TypeOK
  <2>8. epoch' \in [PEs -> Nat] /\ \A q \in PEs : epoch'[q] >= epoch[q]
    BY <2>2 DEF TypeOK
  <2>9. flight' \subseteq flight /\ \A e \in flight \ flight' : e.pe = p
    BY <2>3
  <2>10. ~ up'[p]
    BY <2>2 DEF TypeOK
  <2>11. Settles(p, t, status = "ok")
    BY <2>2, <2>4, <2>5, <2>6, <2>7, <2>8, <2>9, <2>10 DEF Settles
  <2> QED
    BY <2>11 DEF Shape
<1>8. CASE Local(p, t)
  <2>1. /\ Enters(p, t, {"local"})
        /\ UNCHANGED <<program, up, flight, epoch, left, log>>
        /\ \E status \in {"ok", "error"} : Return(p, t, status, <<>>)
    BY <1>8 DEF Local
  <2>2. /\ running[p] = NoThread /\ pos[p][t] <= Len(Script(p, t))
        /\ c.op = "local"
    BY <2>1, EnteringThread
  <2>3. c.op \notin Quiets \cup Writes \cup {"fence"}
    BY <2>2 DEF Quiets, Writes
  <2>4. \E ok \in BOOLEAN : Settles(p, t, ok)
    BY <2>1, <2>2, <2>3, PlainReturn
  <2> QED
    BY <2>4 DEF Shape
<1> QED
  BY <1>1, <1>2, <1>3, <1>4, <1>5, <1>6, <1>7, <1>8 DEF Call

(* The steps of a call that waits.                                         *)
LEMMA WaitShape ==
  ASSUME TypeOK, AnswersOK, RunningOK, NEW p \in PEs,
         \/ RequestDone(p) \/ RequestDoneLocally(p) \/ RequestFails(p)
         \/ Flush(p) \/ FlushFails(p) \/ WaitBarrier(p) \/ BarrierFails(p)
  PROVE  Shape
<1> DEFINE t == running[p]
           c == Current(p, t)
<1>1. ASSUME NEW ops, Waits(p, ops), NEW status, NEW values, Return(p, t, status, values),
             UNCHANGED <<program, up, flight, epoch, left, log>>,
             status = "ok" => c.op \notin Quiets \cup {"fence"}
      PROVE  Shape
  <2>1. t \in Threads /\ pos[p][t] <= Len(Script(p, t))
    BY <1>1, WaitingThread
  <2>2. \E ok \in BOOLEAN : Settles(p, t, ok)
    BY <1>1, <2>1, PlainReturn
  <2> QED
    BY <2>1, <2>2 DEF Shape
<1>2. CASE RequestDone(p)
  <2>1. /\ Waits(p, Transfers) /\ Mine(p) = {}
        /\ Completes(p, t, c)
        /\ UNCHANGED <<program, up, flight, epoch, left, log>>
    BY <1>2 DEF RequestDone
  <2>2. c.op \in Transfers /\ t # NoThread
    BY <2>1 DEF Waits
  <2>3. c.op \notin Quiets \cup {"fence"}
    BY <2>2 DEF Quiets, Transfers
  <2>4. CASE \E status, values : Return(p, t, status, values)
    BY <1>1, <2>1, <2>3, <2>4
  <2>5. CASE c.op = "await" /\ Holds(p, NoThread) /\ UNCHANGED <<pos, answer>>
    <3>1. Waits(p, {"await"})
      BY <2>2, <2>5 DEF Waits
    <3>2. Releases(p)
      BY <2>1, <2>5, <3>1 DEF Releases, Holds
    <3> QED
      BY <3>2 DEF Shape
  <2> QED
    BY <2>1, <2>4, <2>5 DEF Completes
<1>3. CASE RequestDoneLocally(p)
  <2>1. /\ Waits(p, LocalOps)
        /\ Return(p, t, "ok", Decoded(p, c))
        /\ UNCHANGED <<program, up, flight, epoch, left, log>>
    BY <1>3 DEF RequestDoneLocally
  <2>2. c.op \notin Quiets \cup {"fence"}
    BY <2>1 DEF Waits, LocalOps, Quiets
  <2> QED
    BY <1>1, <2>1, <2>2
<1>4. CASE RequestFails(p)
  <2>1. /\ Waits(p, Transfers)
        /\ Return(p, t, "error", <<>>)
        /\ UNCHANGED <<program, up, epoch, left, log>>
    BY <1>4 DEF RequestFails
  <2>2. PICK lost \in SUBSET Mine(p) : flight' = flight \ lost
    BY <1>4 DEF RequestFails
  <2>3. t \in Threads /\ pos[p][t] <= Len(Script(p, t))
    BY <2>1, WaitingThread
  <2>4. running' = [running EXCEPT ![p] = NoThread]
    BY <2>1 DEF Return, Holds
  <2>5. Replies(p, t, FALSE)
    BY <2>1, <2>3, ErrorReplies DEF Return
  <2>6. left[p] \in Seq(PEs) /\ left' = [left EXCEPT ![p] = left[p]]
    BY <2>1 DEF TypeOK
  <2>7. epoch' \in [PEs -> Nat] /\ \A q \in PEs : epoch'[q] >= epoch[q]
    BY <2>1 DEF TypeOK
  <2>8. /\ flight' \subseteq flight
        /\ \A e \in flight \ flight' : e.pe = p /\ e.thread = t /\ e.call = pos[p][t]
    BY <2>2 DEF Mine
  <2>9. Settles(p, t, FALSE)
    BY <2>1, <2>3, <2>4, <2>5, <2>6, <2>7, <2>8 DEF Settles
  <2> QED
    BY <2>3, <2>9 DEF Shape
<1>5. CASE Flush(p)
  <2>1. /\ Waits(p, Quiets)
        /\ Outstanding(p, Head(left[p])) = {}
        /\ left' = [left EXCEPT ![p] = Tail(@)]
        /\ UNCHANGED <<program, up, flight, epoch, log>>
    BY <1>5 DEF Flush, FlushDone
  <2>2. /\ t \in Threads /\ pos[p][t] <= Len(Script(p, t))
        /\ c.op \in Quiets
    BY <2>1, WaitingThread
  <2>3. CASE Len(left[p]) # 1
    <3>1. Continues(p)
      BY <1>5, <2>1, <2>3 DEF Continues, Flush
    <3> QED
      BY <3>1 DEF Shape
  <2>4. CASE Len(left[p]) = 1
    <3>1. Return(p, t, "ok", <<>>)
      BY <1>5, <2>4 DEF Flush
    <3>2. Replies(p, t, "ok" = "ok") /\ running' = [running EXCEPT ![p] = NoThread]
      BY <2>2, <3>1, AnswerReplies DEF Return, Holds
    <3>3. Replies(p, t, TRUE)
      BY <3>2 DEF Replies
    <3>4. Tail(left[p]) \in Seq(PEs) /\ left' = [left EXCEPT ![p] = Tail(left[p])]
      BY <2>1, <2>4 DEF TypeOK
    <3>5. epoch' \in [PEs -> Nat] /\ \A q \in PEs : epoch'[q] >= epoch[q]
      BY <2>1 DEF TypeOK
    <3>6. c.op # "fence" /\ c.op \notin Writes
      BY <2>2 DEF Quiets, Writes
    <3>7. Settles(p, t, TRUE)
      BY <2>1, <2>2, <2>4, <3>2, <3>3, <3>4, <3>5, <3>6 DEF Settles
    <3> QED
      BY <2>2, <3>7 DEF Shape
  <2> QED
    BY <2>3, <2>4
<1>6. CASE FlushFails(p)
  <2>1. /\ Waits(p, Quiets)
        /\ Return(p, t, "error", <<>>)
        /\ left' = [left EXCEPT ![p] = <<>>]
        /\ UNCHANGED <<program, up, flight, epoch, log>>
    BY <1>6 DEF FlushFails
  <2>2. t \in Threads /\ pos[p][t] <= Len(Script(p, t))
    BY <2>1, WaitingThread
  <2>3. running' = [running EXCEPT ![p] = NoThread]
    BY <2>1 DEF Return, Holds
  <2>4. Replies(p, t, FALSE)
    BY <2>1, <2>2, ErrorReplies DEF Return
  <2>5. <<>> \in Seq(PEs)
    OBVIOUS
  <2>6. epoch' \in [PEs -> Nat] /\ \A q \in PEs : epoch'[q] >= epoch[q]
    BY <2>1 DEF TypeOK
  <2>7. Settles(p, t, FALSE)
    BY <2>1, <2>2, <2>3, <2>4, <2>5, <2>6 DEF Settles
  <2> QED
    BY <2>2, <2>7 DEF Shape
<1>7. CASE WaitBarrier(p) \/ BarrierFails(p)
  <2>1. /\ Waits(p, {"barrier"})
        /\ \E status, values : Return(p, t, status, values)
        /\ UNCHANGED <<program, up, flight, epoch, left, log>>
    BY <1>7 DEF WaitBarrier, BarrierFails
  <2>2. c.op \notin Quiets \cup {"fence"}
    BY <2>1 DEF Waits, Quiets
  <2> QED
    BY <1>1, <2>1, <2>2
<1> QED
  BY <1>2, <1>3, <1>4, <1>5, <1>6, <1>7

(* Every step has a shape.                                                 *)
LEMMA NextShape ==
  ASSUME TypeOK, AnswersOK, RunningOK, [Next]_vars
  PROVE  Shape
<1>1. CASE \E p \in PEs, t \in Threads : Call(p, t)
  BY <1>1, CallShape
<1>2. CASE \E p \in PEs : \/ RequestDone(p) \/ RequestDoneLocally(p) \/ RequestFails(p)
                          \/ Flush(p) \/ FlushFails(p) \/ WaitBarrier(p) \/ BarrierFails(p)
  BY <1>2, WaitShape
<1>3. ASSUME NEW p \in PEs, NEW q \in PEs, Deliver(p, q)
      PROVE  Shape
  <2>1. PICK e \in Outstanding(p, q) :
          /\ \A d \in Outstanding(p, q) : d.epoch >= e.epoch
          /\ flight' = flight \ {e}
          /\ log' = IF CallOf(e).op = "await" THEN log ELSE Append(log, e)
          /\ UNCHANGED <<program, up, running, pos, answer, epoch, left>>
    BY <1>3 DEF Deliver
  <2>2. /\ e \in flight
        /\ \A d \in flight : (d.pe = e.pe /\ CallOf(d).pe = CallOf(e).pe) => d.epoch >= e.epoch
    BY <2>1 DEF Outstanding
  <2>3. Lands(e)
    BY <2>1, <2>2 DEF Lands
  <2> QED
    BY <2>2, <2>3 DEF Shape
<1>4. CASE UNCHANGED vars
  BY <1>4 DEF vars, Shape
<1> QED
  BY <1>1, <1>2, <1>3, <1>4 DEF Next

(* What no shape speaks of.                                                *)
Frame ==
  /\ program' = program /\ offloaded' = offloaded
  /\ DOMAIN ram' = PEs /\ \A q \in PEs : DOMAIN ram'[q] = Region(q)
  /\ entered' \in [PEs -> Nat]

LEMMA NextFrame ==
  ASSUME TypeOK, [Next]_vars
  PROVE  Frame
<1>1. ASSUME UNCHANGED <<program, offloaded, ram, entered>>
      PROVE  Frame
  BY <1>1 DEF TypeOK, Frame
<1>2. ASSUME NEW p \in PEs, NEW t \in Threads, Call(p, t)
      PROVE  Frame
  <2>1. CASE ~ Barrier(p, t)
    <3>1. ASSUME NEW ops, Transfer(p, t, ops)
          PROVE  UNCHANGED <<program, offloaded, ram, entered>>
      BY <3>1 DEF Transfer
    <3>2. UNCHANGED <<program, offloaded, ram, entered>>
      BY <1>2, <2>1, <3>1 DEF Call, NotInitialized, TypedLengthOverflow, PutMem, GetMem,
        AtomicOp, AtomicFetch, Fence, Quiet, Finalize, Local
    <3> QED
      BY <1>1, <3>2
  <2>2. CASE Barrier(p, t)
    <3>1. /\ UNCHANGED <<program, offloaded, ram>>
          /\ entered' = [entered EXCEPT ![p] = @ + 1] \/ entered' = entered
      BY <2>2 DEF Barrier
    <3>2. entered \in [PEs -> Nat]
      BY DEF TypeOK
    <3>3. entered' \in [PEs -> Nat]
      BY <3>1, <3>2
    <3> QED
      BY <3>1, <3>3 DEF TypeOK, Frame
  <2> QED
    BY <2>1, <2>2
<1>3. ASSUME NEW p \in PEs,
             \/ RequestDone(p) \/ RequestDoneLocally(p) \/ RequestFails(p)
             \/ Flush(p) \/ FlushFails(p) \/ WaitBarrier(p) \/ BarrierFails(p)
      PROVE  Frame
  <2>1. UNCHANGED <<program, offloaded, ram, entered>>
    BY <1>3 DEF RequestDone, RequestDoneLocally, RequestFails, Flush, FlushFails,
      WaitBarrier, BarrierFails
  <2> QED
    BY <1>1, <2>1
<1>4. ASSUME NEW p \in PEs, NEW q \in PEs, Deliver(p, q)
      PROVE  Frame
  <2>1. PICK e \in Outstanding(p, q) :
          /\ ram' = [ram EXCEPT ![q][e.addr] = StoredWord(CallOf(e), e.elem, @)]
          /\ UNCHANGED <<program, offloaded, entered>>
    BY <1>4 DEF Deliver
  <2>2. DOMAIN ram' = PEs /\ \A r \in PEs : DOMAIN ram'[r] = Region(r)
    BY <2>1 DEF TypeOK
  <2> QED
    BY <2>1, <2>2 DEF TypeOK, Frame
<1>5. CASE UNCHANGED vars
  BY <1>1, <1>5 DEF vars
<1> QED
  BY <1>2, <1>3, <1>4, <1>5 DEF Next

(* What has landed after a step.                                           *)
LEMMA LandedStep ==
  ASSUME TypeOK
  PROVE  /\ log' = log => Landed' = Landed
         /\ \A e \in flight : Lands(e) =>
              /\ Landed' = IF CallOf(e).op = "await" THEN Landed ELSE Landed \cup {e}
              /\ log' \in Seq(Elements)
<1>1. log' = log => Landed' = Landed
  BY DEF Landed
<1>2. ASSUME NEW e \in flight, Lands(e), CallOf(e).op # "await"
      PROVE  Landed' = Landed \cup {e} /\ log' \in Seq(Elements)
  <2>1. log' = Append(log, e) /\ log \in Seq(Elements) /\ e \in Elements
    BY <1>2 DEF Lands, TypeOK
  <2>2. Len(log') = Len(log) + 1 /\ Len(log) \in Nat /\ log' \in Seq(Elements)
    BY <2>1
  <2>3. \A i \in 1 .. Len(log') : log'[i] = IF i = Len(log) + 1 THEN e ELSE log[i]
    BY <2>1, <2>2
  <2>4. Landed' = { log'[i] : i \in 1 .. Len(log') }
    BY DEF Landed
  <2>5. Landed' \subseteq Landed \cup {e}
    BY <2>2, <2>3, <2>4 DEF Landed
  <2>6. Landed \subseteq Landed'
    <3> SUFFICES ASSUME NEW i \in 1 .. Len(log) PROVE log[i] \in Landed'
      BY DEF Landed
    <3>1. i \in 1 .. Len(log') /\ log'[i] = log[i]
      BY <2>2, <2>3
    <3> QED
      BY <2>4, <3>1
  <2>7. e \in Landed'
    <3>1. Len(log') \in 1 .. Len(log') /\ log'[Len(log')] = e
      BY <2>2, <2>3
    <3> QED
      BY <2>4, <3>1
  <2> QED
    BY <2>2, <2>5, <2>6, <2>7
<1>3. ASSUME NEW e \in flight, Lands(e), CallOf(e).op = "await"
      PROVE  log' = log /\ log' \in Seq(Elements)
  BY <1>3 DEF Lands, TypeOK
<1> QED
  BY <1>1, <1>2, <1>3

(* Elements are what their type says.                                      *)
LEMMA KnownElements ==
  ASSUME TypeOK, NEW e \in Known
  PROVE  /\ e \in Elements
         /\ e.pe \in PEs /\ e.thread \in Threads /\ e.call \in Nat
         /\ e.elem \in Nat /\ e.epoch \in Nat
<1>1. flight \subseteq Elements /\ Landed \subseteq Elements
  BY DEF TypeOK, Landed
<1> QED
  BY <1>1 DEF Known, Elements

(* After an answer another PE waits where it waited, and this one does not *)
(* wait unless its running thread is another.                              *)
LEMMA WaitsAfterAnswer ==
  ASSUME TypeOK, NEW p \in PEs, NEW t \in Threads, NEW q \in PEs, NEW ops,
         Refuses(p, t) \/ (\E ok \in BOOLEAN : Settles(p, t, ok)), Waits(q, ops)'
  PROVE  /\ q # p \/ Refuses(p, t)
         /\ running'[q] = running[q] /\ pos'[q][running[q]] = pos[q][running[q]]
         /\ running[q] \in Threads /\ (q # p \/ running[q] # t)
         /\ Current(q, running[q])' = Current(q, running[q])
         /\ Waits(q, ops)
<1>1. running'[q] # NoThread /\ program' = program
  BY DEF Waits, Refuses, Settles
<1>2. q # p \/ Refuses(p, t)
  BY <1>1 DEF Settles, TypeOK
<1>3. running'[q] = running[q] /\ (q # p \/ running[q] # t)
  BY <1>2 DEF Settles, TypeOK, Refuses
<1>4. running[q] \in Threads
  BY <1>1, <1>3 DEF TypeOK
<1>5. pos'[q][running[q]] = pos[q][running[q]]
  BY <1>3, <1>4 DEF Settles, Refuses, Replies
<1>6. Current(q, running[q])' = Current(q, running[q])
  BY <1>1, <1>3, <1>5 DEF Current, Script
<1> QED
  BY <1>1, <1>2, <1>3, <1>4, <1>5, <1>6 DEF Waits

LEMMA TypePreserved ==
  ASSUME TypeOK, AnswersOK, RunningOK, Shape, Frame
  PROVE  TypeOK'
<1> USE DEF Frame
<1>1. ASSUME up' \in [PEs -> BOOLEAN],
             running' \in [PEs -> Threads \cup {NoThread}],
             pos' \in [PEs -> [Threads -> Nat]],
             flight' \subseteq Elements,
             epoch' \in [PEs -> Nat],
             left' \in [PEs -> Seq(PEs)],
             log' \in Seq(Elements),
             \A p \in PEs : Waits(p, Quiets)' => left'[p] # <<>>
      PROVE  TypeOK'
  BY <1>1 DEF TypeOK, Region
<1>2. ASSUME NEW p \in PEs, NEW t \in Threads, Refuses(p, t)
      PROVE  TypeOK'
  <2>1. \A q \in PEs : Waits(q, Quiets)' => left'[q] # <<>>
    BY <1>2, WaitsAfterAnswer DEF Refuses, TypeOK
  <2>2. pos' \in [PEs -> [Threads -> Nat]]
    BY <1>2 DEF Refuses, Replies
  <2> QED
    BY <1>1, <1>2, <2>1, <2>2 DEF Refuses, TypeOK
<1>3. ASSUME NEW p \in PEs, NEW t \in Threads, NEW ok \in BOOLEAN, Settles(p, t, ok)
      PROVE  TypeOK'
  <2>1. PICK new \in Seq(PEs) : left' = [left EXCEPT ![p] = new]
    BY <1>3 DEF Settles
  <2>2. left' \in [PEs -> Seq(PEs)] /\ \A q \in PEs : q # p => left'[q] = left[q]
    BY <2>1 DEF TypeOK
  <2>3. running' \in [PEs -> Threads \cup {NoThread}] /\ running'[p] = NoThread
    BY <1>3 DEF Settles, TypeOK
  <2>4. \A q \in PEs : Waits(q, Quiets)' => left'[q] # <<>>
    <3> SUFFICES ASSUME NEW q \in PEs, Waits(q, Quiets)' PROVE left'[q] # <<>>
      OBVIOUS
    <3>1. q # p
      BY <2>3 DEF Waits
    <3> QED
      BY <1>3, <2>2, <3>1, WaitsAfterAnswer DEF TypeOK
  <2>5. up' \in [PEs -> BOOLEAN]
    BY <1>3 DEF Settles, TypeOK
  <2>6. pos' \in [PEs -> [Threads -> Nat]] /\ epoch' \in [PEs -> Nat]
    BY <1>3 DEF Settles, Replies
  <2>7. flight' \subseteq Elements /\ log' \in Seq(Elements)
    BY <1>3 DEF Settles, TypeOK
  <2> QED
    BY <1>1, <2>2, <2>3, <2>4, <2>5, <2>6, <2>7
<1>4. ASSUME NEW p \in PEs, NEW t \in Threads, NEW ops, Takes(p, t, ops),
             UNCHANGED <<program, pos>>
      PROVE  /\ running' \in [PEs -> Threads \cup {NoThread}]
             /\ running'[p] = t /\ Current(p, t)' = Current(p, t)
             /\ \A q \in PEs : (q # p /\ Waits(q, Quiets)') => Waits(q, Quiets)
  BY <1>4 DEF Takes, TypeOK, Waits, Current, Script
<1>5. ASSUME NEW p \in PEs, NEW t \in Threads, Posts(p, t)
      PROVE  TypeOK'
  <2>1. Takes(p, t, Transfers) /\ UNCHANGED <<program, up, pos, epoch, left, log>>
    BY <1>5 DEF Posts
  <2>2. \A q \in PEs : Waits(q, Quiets)' => left'[q] # <<>>
    <3> SUFFICES ASSUME NEW q \in PEs, Waits(q, Quiets)' PROVE left'[q] # <<>>
      OBVIOUS
    <3>1. Current(p, t)'.op \notin Quiets
      BY <1>4, <2>1 DEF Takes, Transfers, Quiets
    <3>2. q # p
      BY <1>4, <2>1, <3>1 DEF Waits
    <3> QED
      BY <1>4, <2>1, <3>2 DEF TypeOK
  <2>3. \A i \in 1 .. Current(p, t).len :
          [pe |-> p, thread |-> t, call |-> pos[p][t], elem |-> i,
           addr |-> Address(p, Current(p, t), i), epoch |-> epoch[p]] \in Elements
    <3>1. pos[p][t] \in Nat /\ epoch[p] \in Nat
      BY DEF TypeOK
    <3> QED
      BY <1>5, <3>1 DEF Posts, Elements
  <2>4. flight' \subseteq Elements
    BY <1>5, <2>3 DEF Posts, TypeOK
  <2> QED
    BY <1>1, <1>4, <2>1, <2>2, <2>4 DEF TypeOK
<1>6. ASSUME NEW p \in PEs, NEW t \in Threads, Starts(p, t)
      PROVE  TypeOK'
  <2> DEFINE c == Current(p, t)
  <2>1. Takes(p, t, Quiets \cup {"barrier"}) /\ UNCHANGED <<program, up, pos, flight, epoch, log>>
    BY <1>6 DEF Starts
  <2>2. (c.op = "quiet_pe" => c.pe \in PEs) => Endpoints(p, c) \in Seq(PEs) /\ Endpoints(p, c) # <<>>
    <3>1. N \in Nat /\ N >= 1
      BY RmaAssumption
    <3>2. [i \in 1 .. N |-> i - 1] \in Seq(PEs) /\ Len([i \in 1 .. N |-> i - 1]) = N
      BY <3>1 DEF PEs
    <3>3. [i \in 1 .. N |-> i - 1] # <<>>
      BY <3>1, <3>2
    <3>4. c.pe \in PEs => <<c.pe>> \in Seq(PEs) /\ <<c.pe>> # <<>>
      OBVIOUS
    <3> QED
      BY <3>2, <3>3, <3>4 DEF Endpoints
  <2>3. left' \in [PEs -> Seq(PEs)] /\ \A q \in PEs : q # p => left'[q] = left[q]
    <3>1. left \in [PEs -> Seq(PEs)]
      BY DEF TypeOK
    <3>2. PICK new \in Seq(PEs) : left' = [left EXCEPT ![p] = new]
      BY <1>6, <2>2, <3>1 DEF Starts
    <3> QED
      BY <3>1, <3>2
  <2>4. c.op \in Quiets => left'[p] # <<>>
    BY <1>6, <2>2 DEF Starts, TypeOK, Quiets
  <2>5. \A q \in PEs : Waits(q, Quiets)' => left'[q] # <<>>
    <3> SUFFICES ASSUME NEW q \in PEs, Waits(q, Quiets)' PROVE left'[q] # <<>>
      OBVIOUS
    <3>1. CASE q = p
      BY <1>4, <2>1, <2>4, <3>1 DEF Waits
    <3>2. CASE q # p
      BY <1>4, <2>1, <2>3, <3>2 DEF TypeOK
    <3> QED
      BY <3>1, <3>2
  <2> QED
    BY <1>1, <1>4, <2>1, <2>3, <2>5 DEF TypeOK
<1>7. ASSUME NEW p \in PEs, Continues(p)
      PROVE  TypeOK'
  <2>1. UNCHANGED <<program, up, running, pos, flight, epoch, log>>
    BY <1>7 DEF Continues
  <2>2. left[p] \in Seq(PEs) /\ left[p] # <<>> /\ Len(left[p]) # 1
    BY <1>7 DEF Continues, TypeOK
  <2>3. Tail(left[p]) \in Seq(PEs) /\ Len(Tail(left[p])) = Len(left[p]) - 1
    BY <2>2, HeadTailProperties
  <2>4. Tail(left[p]) # <<>>
    <3>1. Len(Tail(left[p])) # 0
      BY <2>2, <2>3, LenProperties
    <3> QED
      BY <3>1, EmptySeq
  <2>5. /\ left' \in [PEs -> Seq(PEs)] /\ left'[p] # <<>>
        /\ \A q \in PEs : q # p => left'[q] = left[q]
    BY <1>7, <2>3, <2>4 DEF Continues, TypeOK
  <2>6. \A q \in PEs : Waits(q, Quiets)' => Waits(q, Quiets)
    BY <2>1 DEF Waits, Current, Script
  <2>7. \A q \in PEs : Waits(q, Quiets)' => left'[q] # <<>>
    BY <2>5, <2>6 DEF TypeOK
  <2> QED
    BY <1>1, <2>1, <2>5, <2>7 DEF TypeOK
<1>8. ASSUME NEW p \in PEs, Releases(p)
      PROVE  TypeOK'
  <2>1. UNCHANGED <<program, up, pos, flight, epoch, left, log>>
    BY <1>8 DEF Releases
  <2>2. running' \in [PEs -> Threads \cup {NoThread}]
    BY <1>8 DEF Releases, TypeOK
  <2>3. \A q \in PEs : Waits(q, Quiets)' => Waits(q, Quiets)
    BY <1>8, <2>1 DEF Releases, TypeOK, Waits, Current, Script
  <2> QED
    BY <1>1, <2>1, <2>2, <2>3 DEF TypeOK
<1>9. ASSUME NEW e \in flight, Lands(e)
      PROVE  TypeOK'
  <2>1. UNCHANGED <<program, up, running, pos, epoch, left>> /\ flight' \subseteq flight
    BY <1>9 DEF Lands
  <2>2. \A q \in PEs : Waits(q, Quiets)' => Waits(q, Quiets)
    BY <2>1 DEF Waits, Current, Script
  <2>3. log' \in Seq(Elements)
    BY <1>9, LandedStep
  <2> QED
    BY <1>1, <2>1, <2>2, <2>3 DEF TypeOK
<1>10. ASSUME UNCHANGED <<program, up, running, pos, answer, flight, epoch, left, log>>
       PROVE  TypeOK'
  <2>1. \A q \in PEs : Waits(q, Quiets)' => Waits(q, Quiets)
    BY <1>10 DEF Waits, Current, Script
  <2> QED
    BY <1>1, <1>10, <2>1 DEF TypeOK
<1> QED
  BY <1>2, <1>3, <1>5, <1>6, <1>7, <1>8, <1>9, <1>10 DEF Shape

----------------------------------------------------------------------------

(* An answer is either refused or given under the mutex.                   *)
Answers(p, t, ok) == (Refuses(p, t) /\ ~ ok) \/ Settles(p, t, ok)

(* A step without an answer leaves the calls and their results alone.      *)
Silent ==
  \/ \E p \in PEs, t \in Threads : Posts(p, t) \/ Starts(p, t)
  \/ \E p \in PEs : Continues(p) \/ Releases(p)
  \/ \E e \in flight : Lands(e)
  \/ UNCHANGED <<program, up, running, pos, answer, flight, epoch, left, log>>

LEMMA ShapeCases ==
  ASSUME Shape
  PROVE  Silent \/ \E p \in PEs, t \in Threads, ok \in BOOLEAN : Answers(p, t, ok)
<1>1. ASSUME NEW p \in PEs, NEW t \in Threads, Refuses(p, t)
      PROVE  Answers(p, t, FALSE)
  BY <1>1 DEF Answers
<1> QED
  BY <1>1 DEF Shape, Silent, Answers

LEMMA SilentKeeps ==
  ASSUME Silent
  PROVE  UNCHANGED <<program, up, pos, answer, epoch>>
BY DEF Silent, Posts, Starts, Continues, Releases, Lands

(* What both kinds of answer do.                                           *)
LEMMA AnswerKeeps ==
  ASSUME TypeOK, AnswersOK, NEW p \in PEs, NEW t \in Threads, NEW ok \in BOOLEAN, Answers(p, t, ok)
  PROVE  /\ Replies(p, t, ok)
         /\ pos[p][t] \in 1 .. Len(Script(p, t))
         /\ program' = program /\ log' = log
         /\ flight' \subseteq flight
         /\ \A e \in flight \ flight' :
              e.pe = p /\ (~ up'[p] \/ (e.thread = t /\ e.call = pos[p][t] /\ ~ ok))
         /\ \A q \in PEs : q # p => up'[q] = up[q]
         /\ up'[p] => up[p]
         /\ \A q \in PEs : epoch'[q] \in Nat /\ epoch[q] \in Nat /\ epoch'[q] >= epoch[q]
         /\ (ok /\ Current(p, t).op = "fence") => epoch'[p] > epoch[p]
         /\ (ok /\ Current(p, t).op \in Writes) => (running[p] = t \/ Current(p, t).len = 0)
         /\ (ok /\ Current(p, t).op \in Quiets)
              => running[p] = t /\ Len(left[p]) = 1 /\ Outstanding(p, Head(left[p])) = {}
<1>1. CASE Refuses(p, t) /\ ~ ok
  <2>1. Replies(p, t, ok)
    BY <1>1 DEF Refuses, Replies
  <2>2. pos[p][t] \in Nat /\ pos[p][t] >= 1 /\ pos[p][t] <= Len(Script(p, t)) /\ Len(Script(p, t)) \in Nat
    BY <1>1, ScriptType DEF Refuses, TypeOK, AnswersOK
  <2>3. \A q \in PEs : epoch'[q] \in Nat /\ epoch[q] \in Nat /\ epoch'[q] >= epoch[q]
    BY <1>1 DEF Refuses, TypeOK
  <2>4. pos[p][t] \in 1 .. Len(Script(p, t))
    BY <2>2
  <2> QED
    BY <1>1, <2>1, <2>3, <2>4 DEF Refuses
<1>2. CASE Settles(p, t, ok)
  <2>1. pos[p][t] \in Nat /\ pos[p][t] >= 1 /\ pos[p][t] <= Len(Script(p, t)) /\ Len(Script(p, t)) \in Nat
    BY <1>2, ScriptType DEF Settles, TypeOK, AnswersOK
  <2>2. pos[p][t] \in 1 .. Len(Script(p, t))
    BY <2>1
  <2>3. \A q \in PEs : epoch'[q] \in Nat /\ epoch[q] \in Nat /\ epoch'[q] >= epoch[q]
    BY <1>2 DEF Settles, TypeOK
  <2>4. (\A q \in PEs : q # p => up'[q] = up[q]) /\ (up'[p] => up[p])
    BY <1>2 DEF Settles, TypeOK
  <2> QED
    BY <1>2, <2>2, <2>3, <2>4 DEF Settles
<1> QED
  BY <1>1, <1>2 DEF Answers

(* Which calls have returned Ok after an answer.                           *)
LEMMA OkAfterAnswer ==
  ASSUME TypeOK, AnswersOK, NEW p \in PEs, NEW t \in Threads, NEW ok \in BOOLEAN, Answers(p, t, ok),
         NEW q \in PEs, NEW s \in Threads, NEW k \in 1 .. Len(Script(q, s)), Ok(q, s, k)'
  PROVE  \/ q = p /\ s = t /\ k = pos[p][t] /\ ok
         \/ (q # p \/ s # t \/ k < pos[p][t]) /\ Ok(q, s, k)
<1>1. Replies(p, t, ok) /\ pos[p][t] \in 1 .. Len(Script(p, t))
  BY AnswerKeeps
<1>2. answer'[q][s][k].status = "ok"
  BY DEF Ok
<1>3. CASE q = p /\ s = t /\ k = pos[p][t]
  BY <1>1, <1>2, <1>3 DEF Replies
<1>4. CASE ~ (q = p /\ s = t /\ k = pos[p][t])
  <2>1. Ok(q, s, k)
    BY <1>1, <1>2, <1>4 DEF Replies, Ok
  <2>2. ~ (k >= pos[q][s])
    BY <2>1 DEF AnswersOK
  <2>3. (q = p /\ s = t) => k < pos[p][t]
    BY <1>1, <2>2
  <2> QED
    BY <2>1, <2>3
<1> QED
  BY <1>3, <1>4

LEMMA AnswersPreserved ==
  ASSUME TypeOK, AnswersOK, Shape
  PROVE  AnswersOK'
<1>1. CASE Silent
  BY <1>1, SilentKeeps DEF AnswersOK, Ok, Script
<1>2. ASSUME NEW p \in PEs, NEW t \in Threads, NEW ok \in BOOLEAN, Answers(p, t, ok)
      PROVE  AnswersOK'
  <2>1. /\ Replies(p, t, ok) /\ program' = program
        /\ pos[p][t] \in 1 .. Len(Script(p, t))
    BY <1>2, AnswerKeeps
  <2>2. \A q \in PEs, s \in Threads : pos'[q][s] \in Nat /\ pos[q][s] \in Nat /\ pos'[q][s] >= pos[q][s]
    <3>1. pos \in [PEs -> [Threads -> Nat]]
      BY DEF TypeOK
    <3>2. /\ pos' \in [PEs -> [Threads -> Nat]] /\ pos'[p][t] > pos[p][t]
          /\ \A q \in PEs, s \in Threads : (q # p \/ s # t) => pos'[q][s] = pos[q][s]
      BY <2>1 DEF Replies
    <3> QED
      BY <3>1, <3>2
  <2>3. \A q \in PEs, s \in Threads : Script(q, s)' = Script(q, s)
    BY <2>1 DEF Script
  <2>4. \A q \in PEs, s \in Threads : pos'[q][s] >= 1
    <3>1. \A q \in PEs, s \in Threads : pos[q][s] >= 1
      BY DEF AnswersOK
    <3> QED
      BY <2>2, <3>1
  <2>5. ASSUME NEW q \in PEs, NEW s \in Threads, NEW k \in 1 .. Len(Script(q, s)),
               k >= pos'[q][s], Ok(q, s, k)'
        PROVE  FALSE
    <3>1. CASE q = p /\ s = t /\ k = pos[p][t]
      BY <2>1, <2>2, <2>5, <3>1 DEF Replies
    <3>2. CASE Ok(q, s, k)
      BY <2>2, <2>5, <3>2 DEF AnswersOK
    <3> QED
      BY <1>2, <2>5, <3>1, <3>2, OkAfterAnswer
  <2> QED
    BY <2>1, <2>3, <2>4, <2>5 DEF AnswersOK, Replies
<1> QED
  BY <1>1, <1>2, ShapeCases

(* A running thread keeps its call; one that takes the mutex has a call    *)
(* that waits.                                                             *)
LEMMA RunningPreserved ==
  ASSUME TypeOK, AnswersOK, RunningOK, Shape
  PROVE  RunningOK'
<1>1. ASSUME NEW q \in PEs, program' = program, up'[q] = up[q],
             running'[q] # NoThread =>
               running'[q] = running[q] /\ pos'[q][running[q]] = pos[q][running[q]]
      PROVE  RunsOK(q)'
  BY <1>1 DEF RunningOK, RunsOK, Current, Script
<1>2. ASSUME NEW p \in PEs, NEW t \in Threads, NEW ok \in BOOLEAN, Answers(p, t, ok),
             NEW q \in PEs
      PROVE  RunsOK(q)'
  <2>1. program' = program /\ (q # p => up'[q] = up[q])
    BY <1>2, AnswerKeeps
  <2>2. CASE running'[q] = NoThread
    BY <2>2 DEF RunsOK
  <2>3. CASE running'[q] # NoThread
    <3>1. PICK op : op = Current(q, running[q])'.op
      OBVIOUS
    <3>2. Waits(q, {op})'
      BY <2>3, <3>1 DEF Waits
    <3>3. /\ q # p \/ Refuses(p, t)
          /\ running'[q] = running[q] /\ pos'[q][running[q]] = pos[q][running[q]]
      BY <1>2, <3>2, WaitsAfterAnswer DEF Answers
    <3>4. up'[q] = up[q]
      BY <2>1, <3>3 DEF Refuses
    <3> QED
      BY <1>1, <2>1, <3>3, <3>4
  <2> QED
    BY <2>2, <2>3
<1>3. ASSUME NEW p \in PEs, NEW t \in Threads, NEW ops, Takes(p, t, ops),
             ops \subseteq Transfers \cup Quiets \cup {"barrier"},
             UNCHANGED <<program, up, pos>>, NEW q \in PEs
      PROVE  RunsOK(q)'
  <2>1. CASE q = p
    <3>1. running'[p] = t
      BY <1>3 DEF Takes, TypeOK
    <3>2. up[p] /\ pos[p][t] <= Len(Script(p, t)) /\ Current(p, t).op \in ops
      BY <1>3 DEF Takes
    <3>3. up'[p] /\ pos'[p][running'[p]] <= Len(program'[p][running'[p]].calls)
      BY <1>3, <3>1, <3>2 DEF Script
    <3>4. program'[p][running'[p]].calls[pos'[p][running'[p]]].op \in Transfers \cup Quiets \cup {"barrier"}
      BY <1>3, <3>1, <3>2 DEF Current, Script
    <3> QED
      BY <2>1, <3>3, <3>4 DEF RunsOK, Current, Script
  <2>2. CASE q # p
    <3>1. running'[q] = running[q]
      BY <1>3, <2>2 DEF Takes, TypeOK
    <3> QED
      BY <1>1, <1>3, <3>1
  <2> QED
    BY <2>1, <2>2
<1>4. CASE Silent
  <2>1. ASSUME NEW p \in PEs, NEW t \in Threads, Posts(p, t)
        PROVE  RunningOK'
    BY <1>3, <2>1 DEF Posts, RunningOK
  <2>2. ASSUME NEW p \in PEs, NEW t \in Threads, Starts(p, t)
        PROVE  RunningOK'
    BY <1>3, <2>2 DEF Starts, RunningOK
  <2>3. ASSUME NEW p \in PEs, Releases(p)
        PROVE  RunningOK'
    <3>1. \A q \in PEs : running'[q] # NoThread => running'[q] = running[q]
      BY <2>3 DEF Releases, TypeOK
    <3> QED
      BY <1>1, <2>3, <3>1 DEF Releases, RunningOK
  <2>4. CASE running' = running
    BY <1>1, <1>4, <2>4, SilentKeeps DEF RunningOK
  <2> QED
    BY <1>4, <2>1, <2>2, <2>3, <2>4 DEF Silent, Continues, Lands
<1> QED
  BY <1>2, <1>4, ShapeCases DEF RunningOK

(* The elements that Posts adds.                                           *)
IsNew(e, p, t) ==
  /\ e \in flight'
  /\ e.pe = p /\ e.thread = t /\ e.call = pos[p][t] /\ e.epoch = epoch[p]

LEMMA KnownStep ==
  ASSUME TypeOK, AnswersOK, Shape
  PROVE  /\ Landed \subseteq Landed'
         /\ \A e \in Known' : e \in Known \/ \E p \in PEs, t \in Threads : Posts(p, t) /\ IsNew(e, p, t)
<1>1. ASSUME log' = log, flight' \subseteq flight
      PROVE  Landed' = Landed /\ Known' \subseteq Known
  BY <1>1, LandedStep DEF Known
<1>2. ASSUME NEW p \in PEs, NEW t \in Threads, Posts(p, t)
      PROVE  Landed' = Landed /\ \A e \in Known' : e \in Known \/ IsNew(e, p, t)
  <2>1. Landed' = Landed
    BY <1>2, LandedStep DEF Posts
  <2>2. \A e \in flight' : e \in flight \/ IsNew(e, p, t)
    BY <1>2 DEF Posts, IsNew
  <2> QED
    BY <2>1, <2>2 DEF Known
<1>3. ASSUME NEW e \in flight, Lands(e)
      PROVE  Landed \subseteq Landed' /\ Known' \subseteq Known
  BY <1>3, LandedStep DEF Lands, Known
<1>4. CASE Silent
  BY <1>1, <1>2, <1>3, <1>4 DEF Silent, Starts, Continues, Releases
<1>5. CASE \E p \in PEs, t \in Threads, ok \in BOOLEAN : Answers(p, t, ok)
  BY <1>1, <1>5, AnswerKeeps
<1> QED
  BY <1>4, <1>5, ShapeCases

LEMMA ShapeKeepsProgram ==
  ASSUME TypeOK, AnswersOK, Shape
  PROVE  program' = program
BY ShapeCases, SilentKeeps, AnswerKeeps

(* What was posted stays an element of a call its thread has come to.      *)
LEMMA ElementsPreserved ==
  ASSUME TypeOK, AnswersOK, ElementsOK, Shape
  PROVE  ElementsOK'
<1> DEFINE Good(e) == /\ e.call \in 1 .. Len(Script(e.pe, e.thread))
                      /\ CallOf(e).op \in Transfers /\ CallOf(e).pe \in PEs
           Timely(e) == /\ e.call <= pos'[e.pe][e.thread]
                        /\ e.call = pos'[e.pe][e.thread] => running'[e.pe] = e.thread
                        /\ e.epoch <= epoch'[e.pe]
                        /\ e \in Landed' => CallOf(e).op # "await"
<1>1. ASSUME \A e \in Known' : Good(e) /\ Timely(e)
      PROVE  ElementsOK'
  BY <1>1, ShapeKeepsProgram DEF ElementsOK, CallOf, Script
<1>2. \A e \in Known : Good(e)
  BY DEF ElementsOK
<1>3. \A e \in Known : /\ e.call \in Nat /\ e.epoch \in Nat /\ e.pe \in PEs /\ e.thread \in Threads
                       /\ pos[e.pe][e.thread] \in Nat /\ epoch[e.pe] \in Nat
                       /\ e.thread # NoThread
  <2> TAKE e \in Known
  <2>1. e.call \in Nat /\ e.epoch \in Nat /\ e.pe \in PEs /\ e.thread \in Threads
    BY KnownElements
  <2>2. pos[e.pe][e.thread] \in Nat /\ epoch[e.pe] \in Nat
    BY <2>1 DEF TypeOK
  <2>3. e.thread # NoThread
    BY <2>1, RmaAssumption DEF NoThread
  <2> QED
    BY <2>1, <2>2, <2>3
<1>4. ASSUME NEW p \in PEs, NEW t \in Threads, NEW ok \in BOOLEAN, Answers(p, t, ok)
      PROVE  ElementsOK'
  <2> SUFFICES ASSUME NEW e \in Known' PROVE Good(e) /\ Timely(e)
    BY <1>1
  <2>1. /\ Replies(p, t, ok) /\ log' = log /\ flight' \subseteq flight
        /\ \A q \in PEs : epoch'[q] \in Nat /\ epoch[q] \in Nat /\ epoch'[q] >= epoch[q]
    BY <1>4, AnswerKeeps
  <2>2. e \in Known /\ Landed' = Landed
    BY <2>1, LandedStep DEF Known
  <2>3. /\ e.call <= pos[e.pe][e.thread] /\ e.epoch <= epoch[e.pe]
        /\ e.call = pos[e.pe][e.thread] => running[e.pe] = e.thread
    BY <2>2 DEF ElementsOK
  <2>4. e.epoch <= epoch'[e.pe]
    BY <1>3, <2>1, <2>2, <2>3
  <2>5. CASE e.pe = p /\ e.thread = t
    <3>1. pos'[p][t] > pos[p][t] /\ pos'[p][t] \in Nat
      BY <2>1 DEF Replies
    <3>2. e.call < pos'[e.pe][e.thread]
      BY <1>3, <2>2, <2>3, <2>5, <3>1
    <3> QED
      BY <1>2, <1>3, <2>2, <2>4, <2>5, <3>1, <3>2 DEF ElementsOK
  <2>6. CASE ~ (e.pe = p /\ e.thread = t)
    <3>1. pos'[e.pe][e.thread] = pos[e.pe][e.thread]
      BY <1>3, <2>1, <2>2, <2>6 DEF Replies
    <3>2. running[e.pe] = e.thread => running'[e.pe] = e.thread
      BY <1>3, <1>4, <2>2, <2>6 DEF Answers, Refuses, Settles, TypeOK
    <3> QED
      BY <1>2, <2>2, <2>3, <2>4, <3>1, <3>2 DEF ElementsOK
  <2> QED
    BY <2>5, <2>6
<1>5. ASSUME UNCHANGED <<pos, epoch>>,
             \A e \in Known' : e \in Known /\ (e \in Landed' => CallOf(e).op # "await"),
             \A e \in Known' : (running[e.pe] = e.thread /\ e.call = pos[e.pe][e.thread])
                               => running'[e.pe] = e.thread
      PROVE  ElementsOK'
  BY <1>1, <1>2, <1>5 DEF ElementsOK
<1>6. ASSUME NEW p \in PEs, NEW t \in Threads, NEW ops, Takes(p, t, ops)
      PROVE  /\ running'[p] = t
             /\ \A e \in Known : running[e.pe] = e.thread => running'[e.pe] = e.thread
  BY <1>3, <1>6 DEF Takes, TypeOK
<1>7. ASSUME NEW p \in PEs, NEW t \in Threads, Posts(p, t)
      PROVE  ElementsOK'
  <2> SUFFICES ASSUME NEW e \in Known' PROVE Good(e) /\ Timely(e)
    BY <1>1
  <2>1. Takes(p, t, Transfers) /\ UNCHANGED <<pos, epoch, log>>
    BY <1>7 DEF Posts
  <2>2. Landed' = Landed
    BY <2>1, LandedStep
  <2>3. CASE e \in Known
    BY <1>2, <1>6, <2>1, <2>2, <2>3 DEF ElementsOK
  <2>4. CASE IsNew(e, p, t) /\ e \notin Known
    <3>1. e.pe = p /\ e.thread = t /\ e.call = pos[p][t] /\ e.epoch = epoch[p]
      BY <2>4 DEF IsNew
    <3>2. pos[p][t] \in Nat /\ pos[p][t] >= 1 /\ epoch[p] \in Nat /\ Len(Script(p, t)) \in Nat
      BY ScriptType DEF TypeOK, AnswersOK
    <3>3. CallOf(e) = Current(p, t)
      BY <3>1 DEF CallOf, Current
    <3>4. pos[p][t] <= Len(Script(p, t)) /\ Current(p, t).op \in Transfers /\ Current(p, t).pe \in PEs
      BY <1>7 DEF Posts, Takes
    <3>5. e \notin Landed'
      BY <2>2, <2>4 DEF Known
    <3>6. Good(e)
      BY <3>1, <3>2, <3>3, <3>4
    <3>7. Timely(e)
      BY <1>6, <2>1, <3>1, <3>2, <3>5
    <3> QED
      BY <3>6, <3>7
  <2>5. e \in Known \/ IsNew(e, p, t)
    BY <1>7, <2>2 DEF Posts, IsNew, Known
  <2> QED
    BY <2>3, <2>4, <2>5
<1>8. ASSUME NEW p \in PEs, NEW t \in Threads, Starts(p, t)
      PROVE  ElementsOK'
  <2>1. Takes(p, t, Quiets \cup {"barrier"}) /\ UNCHANGED <<pos, epoch, log, flight>>
    BY <1>8 DEF Starts
  <2>2. Known' = Known /\ Landed' = Landed
    BY <2>1, LandedStep DEF Known
  <2> QED
    BY <1>5, <1>6, <2>1, <2>2 DEF ElementsOK
<1>9. ASSUME NEW p \in PEs, Releases(p)
      PROVE  ElementsOK'
  <2>1. /\ UNCHANGED <<pos, epoch, log, flight>>
        /\ running' = [running EXCEPT ![p] = NoThread]
        /\ Mine(p) = {} /\ Current(p, running[p]).op = "await"
    BY <1>9 DEF Releases, Waits
  <2>2. Known' = Known /\ Landed' = Landed
    BY <2>1, LandedStep DEF Known
  <2>3. ASSUME NEW e \in Known, running[e.pe] = e.thread, e.call = pos[e.pe][e.thread], e.pe = p
        PROVE  FALSE
    <3>1. CallOf(e).op = "await"
      BY <2>1, <2>3 DEF CallOf, Current
    <3>2. e \notin flight
      BY <2>1, <2>3 DEF Mine
    <3> QED
      BY <3>1, <3>2 DEF ElementsOK, Known
  <2>4. \A e \in Known : (running[e.pe] = e.thread /\ e.call = pos[e.pe][e.thread])
                         => running'[e.pe] = e.thread
    BY <1>3, <2>1, <2>3 DEF TypeOK
  <2> QED
    BY <1>5, <2>1, <2>2, <2>4 DEF ElementsOK
<1>10. ASSUME NEW d \in flight, Lands(d)
       PROVE  ElementsOK'
  <2>1. UNCHANGED <<pos, epoch, running>> /\ flight' = flight \ {d}
    BY <1>10 DEF Lands
  <2>2. Landed' = IF CallOf(d).op = "await" THEN Landed ELSE Landed \cup {d}
    BY <1>10, LandedStep
  <2>3. \A e \in Known' : e \in Known /\ (e \in Landed' => CallOf(e).op # "await")
    BY <2>1, <2>2 DEF Known, ElementsOK
  <2> QED
    BY <1>5, <2>1, <2>3
<1>11. ASSUME UNCHANGED <<pos, epoch, running, flight, log>>
       PROVE  ElementsOK'
  <2>1. Known' = Known /\ Landed' = Landed
    BY <1>11, LandedStep DEF Known
  <2> QED
    BY <1>5, <1>11, <2>1 DEF ElementsOK
<1> QED
  <2>1. CASE Silent
    BY <1>7, <1>8, <1>9, <1>10, <1>11, <2>1 DEF Silent, Continues
  <2> QED
    BY <1>4, <2>1, ShapeCases

----------------------------------------------------------------------------

(* Nothing overtakes what was posted to the same PE before an earlier      *)
(* fence: what is posted has the latest epoch, and what lands has the      *)
(* earliest one in flight.                                                 *)
LEMMA EpochsPreserved ==
  ASSUME TypeOK, AnswersOK, ElementsOK, EpochsOK, Shape
  PROVE  EpochsOK'
<1> DEFINE Ordered(e, l) == (e.pe = l.pe /\ CallOf(e).pe = CallOf(l).pe) => l.epoch <= e.epoch
<1>1. ASSUME \A e \in flight', l \in Landed' : Ordered(e, l)
      PROVE  EpochsOK'
  BY <1>1, ShapeKeepsProgram DEF EpochsOK, CallOf, Script
<1>2. \A e \in flight, l \in Landed : Ordered(e, l)
  BY DEF EpochsOK
<1>3. ASSUME log' = log, flight' \subseteq flight
      PROVE  EpochsOK'
  BY <1>1, <1>2, <1>3, LandedStep
<1>4. ASSUME NEW p \in PEs, NEW t \in Threads, Posts(p, t)
      PROVE  EpochsOK'
  <2> SUFFICES ASSUME NEW e \in flight', NEW l \in Landed' PROVE Ordered(e, l)
    BY <1>1
  <2>1. l \in Landed
    BY <1>4, LandedStep DEF Posts
  <2>2. CASE e \in flight
    BY <1>2, <2>1, <2>2
  <2>3. CASE e \notin flight
    <3>1. e.pe = p /\ e.epoch = epoch[p]
      BY <1>4, <2>3 DEF Posts
    <3>2. l.epoch <= epoch[l.pe]
      BY <2>1 DEF ElementsOK, Known
    <3> QED
      BY <3>1, <3>2
  <2> QED
    BY <2>2, <2>3
<1>5. ASSUME NEW d \in flight, Lands(d)
      PROVE  EpochsOK'
  <2> SUFFICES ASSUME NEW e \in flight', NEW l \in Landed' PROVE Ordered(e, l)
    BY <1>1
  <2>1. e \in flight /\ ((e.pe = d.pe /\ CallOf(e).pe = CallOf(d).pe) => e.epoch >= d.epoch)
    BY <1>5 DEF Lands
  <2>2. l \in Landed \/ l = d
    BY <1>5, LandedStep
  <2>3. e.epoch \in Nat /\ d.epoch \in Nat
    BY <2>1, KnownElements DEF Known
  <2> QED
    BY <1>2, <2>1, <2>2, <2>3
<1>6. CASE Silent
  BY <1>3, <1>4, <1>5, <1>6 DEF Silent, Starts, Continues, Releases
<1> QED
  BY <1>3, <1>6, ShapeCases, AnswerKeeps

(* A successful fence puts every element its thread has posted so far into *)
(* a past epoch.                                                           *)
LEMMA FencedPreserved ==
  ASSUME TypeOK, AnswersOK, ElementsOK, FencedOK, Shape
  PROVE  FencedOK'
<1>1. \A p \in PEs, t \in Threads : Script(p, t)' = Script(p, t)
  BY ShapeKeepsProgram DEF Script
<1>2. SUFFICES ASSUME NEW e \in Known', e.pe \in PEs, e.thread \in Threads,
                      NEW j \in e.call .. Len(Script(e.pe, e.thread)),
                      Ok(e.pe, e.thread, j)', Script(e.pe, e.thread)[j].op = "fence"
               PROVE  e.epoch < epoch'[e.pe]
  <2>1. \A e \in Known' : e.pe \in PEs /\ e.thread \in Threads
    <3>1. \A e \in Known : e.pe \in PEs /\ e.thread \in Threads
      BY KnownElements
    <3> QED
      BY <3>1, KnownStep DEF IsNew
  <2> QED
    BY <1>1, <1>2, <2>1 DEF FencedOK, Fenced
<1>3. ASSUME e \in Known
      PROVE  /\ e.call \in 1 .. Len(Script(e.pe, e.thread)) /\ e.epoch <= epoch[e.pe]
             /\ j \in 1 .. Len(Script(e.pe, e.thread)) /\ e.epoch \in Nat
  <2>1. e.call \in 1 .. Len(Script(e.pe, e.thread)) /\ e.epoch <= epoch[e.pe]
    BY <1>3 DEF ElementsOK
  <2>2. e.epoch \in Nat
    BY <1>3, KnownElements
  <2> QED
    BY <1>2, <2>1, <2>2
<1>4. CASE Silent
  <2>1. UNCHANGED <<answer, epoch>>
    BY <1>4, SilentKeeps
  <2>2. Ok(e.pe, e.thread, j)
    BY <1>2, <2>1 DEF Ok
  <2>3. CASE e \in Known
    BY <1>2, <2>1, <2>2, <2>3 DEF FencedOK, Fenced
  <2>4. CASE \E p \in PEs, t \in Threads : Posts(p, t) /\ IsNew(e, p, t)
    <3>1. e.call = pos[e.pe][e.thread]
      BY <2>4 DEF IsNew
    <3>2. pos[e.pe][e.thread] \in Nat /\ pos[e.pe][e.thread] >= 1
      BY <1>2 DEF TypeOK, AnswersOK
    <3>3. j \in 1 .. Len(Script(e.pe, e.thread)) /\ j >= pos[e.pe][e.thread]
      BY <1>2, <3>1, <3>2
    <3> QED
      BY <1>2, <2>2, <3>3 DEF AnswersOK
  <2> QED
    BY <2>3, <2>4, KnownStep
<1>5. ASSUME NEW p \in PEs, NEW t \in Threads, NEW ok \in BOOLEAN, Answers(p, t, ok)
      PROVE  e.epoch < epoch'[e.pe]
  <2>1. /\ log' = log /\ flight' \subseteq flight
        /\ \A q \in PEs : epoch'[q] \in Nat /\ epoch[q] \in Nat /\ epoch'[q] >= epoch[q]
        /\ (ok /\ Current(p, t).op = "fence") => epoch'[p] > epoch[p]
    BY <1>5, AnswerKeeps
  <2>2. e \in Known
    BY <2>1, LandedStep DEF Known
  <2>3. CASE Ok(e.pe, e.thread, j)
    <3>1. e.epoch < epoch[e.pe]
      BY <1>2, <2>2, <2>3 DEF FencedOK, Fenced
    <3> QED
      BY <1>2, <1>3, <2>1, <2>2, <3>1
  <2>4. CASE e.pe = p /\ e.thread = t /\ j = pos[p][t] /\ ok
    <3>1. epoch'[p] > epoch[p]
      BY <1>2, <2>1, <2>4 DEF Current
    <3> QED
      BY <1>3, <2>1, <2>2, <2>4, <3>1
  <2> QED
    BY <1>2, <1>3, <1>5, <2>2, <2>3, <2>4, OkAfterAnswer
<1> QED
  BY <1>4, <1>5, ShapeCases

(* So an element posted after a fence has a later epoch than one posted    *)
(* before it by the same thread.                                           *)
LEMMA BetweenPreserved ==
  ASSUME TypeOK, AnswersOK, ElementsOK, FencedOK, BetweenOK, Shape
  PROVE  BetweenOK'
<1>1. \A p \in PEs, t \in Threads : Script(p, t)' = Script(p, t)
  BY ShapeKeepsProgram DEF Script
<1>2. \A e \in Known' : e.pe \in PEs /\ e.thread \in Threads
  <2>1. \A e \in Known : e.pe \in PEs /\ e.thread \in Threads
    BY KnownElements
  <2> QED
    BY <2>1, KnownStep DEF IsNew
<1>3. SUFFICES ASSUME NEW e \in Known', NEW l \in Known', e.pe = l.pe, e.thread = l.thread,
                      NEW j \in e.call .. l.call,
                      Ok(e.pe, e.thread, j)', Script(e.pe, e.thread)[j].op = "fence"
               PROVE  e.epoch < l.epoch
  BY <1>1, <1>2, <1>3 DEF BetweenOK, Fenced
<1>4. \A d \in Known : /\ d.call \in 1 .. Len(Script(d.pe, d.thread)) /\ CallOf(d).op # "fence"
                       /\ d.call <= pos[d.pe][d.thread] /\ d.call \in Nat
                       /\ pos[d.pe][d.thread] \in Nat
  <2> TAKE d \in Known
  <2>1. d.pe \in PEs /\ d.thread \in Threads /\ d.call \in Nat
    BY KnownElements
  <2>2. pos[d.pe][d.thread] \in Nat
    BY <2>1 DEF TypeOK
  <2> QED
    BY <2>1, <2>2 DEF ElementsOK, Transfers
<1>5. CASE Silent
  <2>1. UNCHANGED <<answer, epoch>>
    BY <1>5, SilentKeeps
  <2>2. Ok(e.pe, e.thread, j)
    BY <1>3, <2>1 DEF Ok
  <2>3. CASE e \in Known /\ l \in Known
    BY <1>3, <2>2, <2>3 DEF BetweenOK, Fenced
  <2>4. ASSUME NEW p \in PEs, NEW t \in Threads, Posts(p, t)
        PROVE  pos[p][t] \in 1 .. Len(Script(p, t)) /\ \A k \in 1 .. Len(Script(p, t)) : k >= pos[p][t] => ~ Ok(p, t, k)
    <3>1. pos[p][t] <= Len(Script(p, t)) /\ pos[p][t] \in Nat /\ pos[p][t] >= 1 /\ Len(Script(p, t)) \in Nat
      BY <2>4, ScriptType DEF Posts, Takes, TypeOK, AnswersOK
    <3> QED
      BY <3>1 DEF AnswersOK
  <2>5. ASSUME NEW p \in PEs, NEW t \in Threads, Posts(p, t), IsNew(e, p, t)
        PROVE  FALSE
    <3>1. e.pe = p /\ e.thread = t /\ e.call = pos[p][t]
      BY <2>5 DEF IsNew
    <3>2. l.call \in 1 .. Len(Script(p, t))
      <4>1. l.pe = p /\ l.thread = t
        BY <1>3, <3>1
      <4>2. CASE l \in Known
        BY <1>4, <4>1, <4>2
      <4>3. CASE \E q \in PEs, s \in Threads : Posts(q, s) /\ IsNew(l, q, s)
        BY <2>4, <4>1, <4>3 DEF IsNew
      <4> QED
        BY <4>2, <4>3, KnownStep
    <3>3. j \in 1 .. Len(Script(p, t)) /\ j >= pos[p][t]
      BY <1>3, <2>4, <2>5, <3>1, <3>2
    <3> QED
      BY <2>2, <2>4, <2>5, <3>1, <3>3
  <2>6. ASSUME NEW p \in PEs, NEW t \in Threads, Posts(p, t), IsNew(l, p, t), e \in Known
        PROVE  e.epoch < l.epoch
    <3>1. l.pe = p /\ l.thread = t /\ l.call = pos[p][t] /\ l.epoch = epoch[p]
      BY <2>6 DEF IsNew
    <3>2. j \in e.call .. Len(Script(e.pe, e.thread))
      BY <1>3, <1>4, <2>4, <2>6, <3>1
    <3> QED
      BY <1>3, <2>2, <2>6, <3>1, <3>2 DEF FencedOK, Fenced
  <2> QED
    BY <2>3, <2>5, <2>6, KnownStep
<1>6. ASSUME NEW p \in PEs, NEW t \in Threads, NEW ok \in BOOLEAN, Answers(p, t, ok)
      PROVE  e.epoch < l.epoch
  <2>1. log' = log /\ flight' \subseteq flight
    BY <1>6, AnswerKeeps
  <2>2. e \in Known /\ l \in Known
    BY <2>1, LandedStep DEF Known
  <2>3. j \in 1 .. Len(Script(e.pe, e.thread))
    BY <1>3, <1>4, <2>2
  <2>4. CASE Ok(e.pe, e.thread, j)
    BY <1>3, <2>2, <2>4 DEF BetweenOK, Fenced
  <2>5. CASE e.pe = p /\ e.thread = t /\ j = pos[p][t] /\ ok
    <3>1. l.call = j
      <4>1. l.pe = p /\ l.thread = t
        BY <1>3, <2>5
      <4>2. l.call \in Nat /\ pos[p][t] \in Nat /\ l.call <= pos[p][t] /\ e.call \in Nat
        BY <1>4, <2>2, <4>1
      <4> QED
        BY <1>3, <2>5, <4>2
    <3>2. CallOf(l).op = "fence"
      BY <1>3, <3>1 DEF CallOf
    <3> QED
      BY <1>4, <2>2, <3>2
  <2> QED
    BY <1>2, <1>3, <1>6, <2>3, <2>4, <2>5, OkAfterAnswer
<1> QED
  BY <1>5, <1>6, ShapeCases

----------------------------------------------------------------------------

(* What a step without an answer does to the elements of a write.          *)
LEMMA SilentHas ==
  ASSUME TypeOK, AnswersOK, Silent, NEW p \in PEs, NEW t \in Threads, NEW k, NEW i,
         Has(Known, p, t, k, i), Script(p, t)[k].op # "await"
  PROVE  Has(Known', p, t, k, i)
<1>1. PICK e \in Known : e.pe = p /\ e.thread = t /\ e.call = k /\ e.elem = i
  BY DEF Has
<1>2. CallOf(e).op # "await"
  BY <1>1 DEF CallOf
<1>3. Landed \subseteq Landed'
  BY KnownStep DEF Shape, Silent
<1>4. CASE \E d \in flight : Lands(d)
  <2>1. PICK d \in flight : Lands(d)
    BY <1>4
  <2>2. flight' = flight \ {d} /\ (CallOf(d).op # "await" => d \in Landed')
    BY <2>1, LandedStep DEF Lands
  <2>3. e \in Known'
    BY <1>2, <1>3, <2>2 DEF Known
  <2> QED
    BY <1>1, <2>3 DEF Has
<1>5. CASE flight \subseteq flight'
  BY <1>1, <1>3, <1>5 DEF Has, Known
<1> QED
  BY <1>4, <1>5 DEF Silent, Posts, Starts, Continues, Releases

(* An answer loses only elements of the call that fails, or of a PE that   *)
(* finalizes.                                                              *)
LEMMA AnswerHas ==
  ASSUME TypeOK, AnswersOK, NEW p \in PEs, NEW t \in Threads, NEW ok \in BOOLEAN, Answers(p, t, ok),
         NEW q \in PEs, NEW s \in Threads, NEW k, NEW i, Has(Known, q, s, k, i),
         q # p \/ (up'[p] /\ (s # t \/ k # pos[p][t] \/ ok))
  PROVE  Has(Known', q, s, k, i)
<1>1. PICK e \in Known : e.pe = q /\ e.thread = s /\ e.call = k /\ e.elem = i
  BY DEF Has
<1>2. /\ log' = log
      /\ \A d \in flight \ flight' :
           d.pe = p /\ (~ up'[p] \/ (d.thread = t /\ d.call = pos[p][t] /\ ~ ok))
  BY AnswerKeeps
<1>3. e \in flight => e \in flight'
  BY <1>1, <1>2
<1>4. Landed' = Landed
  BY <1>2, LandedStep
<1>5. e \in Known'
  BY <1>3, <1>4 DEF Known
<1> QED
  BY <1>1, <1>5 DEF Has

(* Who runs after a step without an answer.                                *)
LEMMA SilentRunning ==
  ASSUME TypeOK, Silent, NEW q \in PEs, NEW s \in Threads, running'[q] = s
  PROVE  \/ running[q] = s
         \/ Posts(q, s)
         \/ Starts(q, s)
<1>1. s # NoThread
  BY RmaAssumption DEF NoThread
<1>2. ASSUME NEW p \in PEs, NEW t \in Threads, NEW ops, Takes(p, t, ops)
      PROVE  running[q] = s \/ (q = p /\ s = t)
  BY <1>2 DEF Takes, TypeOK
<1>3. ASSUME NEW p \in PEs, Releases(p)
      PROVE  running[q] = s
  BY <1>1, <1>3 DEF Releases, TypeOK
<1>4. ASSUME NEW p \in PEs, NEW t \in Threads, Posts(p, t)
      PROVE  running[q] = s \/ Posts(q, s)
  <2>1. Takes(p, t, Transfers)
    BY <1>4 DEF Posts
  <2> QED
    BY <1>2, <1>4, <2>1
<1>5. ASSUME NEW p \in PEs, NEW t \in Threads, Starts(p, t)
      PROVE  running[q] = s \/ Starts(q, s)
  <2>1. Takes(p, t, Quiets \cup {"barrier"})
    BY <1>5 DEF Starts
  <2> QED
    BY <1>2, <1>5, <2>1
<1>6. CASE running' = running
  BY <1>6
<1> QED
  BY <1>3, <1>4, <1>5, <1>6 DEF Silent, Continues, Lands

(* A write that waits has posted all its elements.                         *)
LEMMA PostedPreserved ==
  ASSUME TypeOK, AnswersOK, PostedOK, Shape
  PROVE  PostedOK'
<1>1. SUFFICES ASSUME NEW q \in PEs, NEW s \in Threads, running'[q] = s, Current(q, s)'.op \in Writes,
                      NEW i \in 1 .. Current(q, s)'.len
               PROVE  Has(Known', q, s, pos'[q][s], i)
  BY <1>1 DEF PostedOK, Has
<1>2. s # NoThread
  BY RmaAssumption DEF NoThread
<1>3. ASSUME NEW p \in PEs, NEW t \in Threads, NEW ok \in BOOLEAN, Answers(p, t, ok)
      PROVE  Has(Known', q, s, pos'[q][s], i)
  <2>1. Waits(q, Writes)'
    BY <1>1, <1>2 DEF Waits
  <2>2. /\ q # p \/ Refuses(p, t)
        /\ running[q] = s /\ pos'[q][s] = pos[q][s] /\ Current(q, s)' = Current(q, s)
    BY <1>1, <1>3, <2>1, WaitsAfterAnswer DEF Answers
  <2>3. Has(Known, q, s, pos[q][s], i)
    BY <1>1, <2>2 DEF PostedOK
  <2>4. CASE q # p
    BY <1>3, <2>2, <2>3, <2>4, AnswerHas
  <2>5. CASE Refuses(p, t)
    <3>1. Known' = Known
      BY <2>5, LandedStep DEF Refuses, Known
    <3> QED
      BY <2>2, <2>3, <3>1
  <2> QED
    BY <2>2, <2>4, <2>5
<1>4. CASE Silent
  <2>1. UNCHANGED <<program, pos>>
    BY <1>4, SilentKeeps
  <2>2. Current(q, s)' = Current(q, s)
    BY <2>1 DEF Current, Script
  <2>3. CASE running[q] = s
    <3>1. Has(Known, q, s, pos[q][s], i) /\ Script(q, s)[pos[q][s]].op # "await"
      BY <1>1, <2>2, <2>3 DEF PostedOK, Writes, Current
    <3>2. Has(Known', q, s, pos[q][s], i)
      BY <1>4, <3>1, SilentHas
    <3> QED
      BY <2>1, <3>2
  <2>4. CASE Posts(q, s)
    <3>1. \E e \in flight' : e.pe = q /\ e.thread = s /\ e.call = pos[q][s] /\ e.elem = i
      <4> DEFINE new == [pe |-> q, thread |-> s, call |-> pos[q][s], elem |-> i,
                         addr |-> Address(q, Current(q, s), i), epoch |-> epoch[q]]
      <4>1. new \in flight'
        BY <1>1, <2>2, <2>4 DEF Posts
      <4>2. new.pe = q /\ new.thread = s /\ new.call = pos[q][s] /\ new.elem = i
        OBVIOUS
      <4> HIDE DEF new
      <4> QED
        BY <4>1, <4>2
    <3> QED
      BY <2>1, <3>1 DEF Has, Known
  <2>5. CASE Starts(q, s)
    BY <1>1, <2>2, <2>5 DEF Starts, Takes, Writes, Quiets
  <2> QED
    BY <1>1, <1>4, <2>3, <2>4, <2>5, SilentRunning
<1> QED
  BY <1>3, <1>4, ShapeCases

(* A write that returned Ok has posted all its elements, and they are in   *)
(* flight or have landed as long as its PE is up.                          *)
LEMMA IssuedPreserved ==
  ASSUME TypeOK, AnswersOK, PostedOK, IssuedOK, Shape
  PROVE  IssuedOK'
<1>1. \A p \in PEs, t \in Threads : Script(p, t)' = Script(p, t)
  BY ShapeKeepsProgram DEF Script
<1>2. SUFFICES ASSUME NEW q \in PEs, NEW s \in Threads, NEW k \in 1 .. Len(Script(q, s)),
                      Ok(q, s, k)', Script(q, s)[k].op \in Writes, up'[q],
                      NEW i \in 1 .. Script(q, s)[k].len
               PROVE  Has(Known', q, s, k, i)
  BY <1>1, <1>2 DEF IssuedOK, Has
<1>3. ASSUME Ok(q, s, k), up[q]
      PROVE  Has(Known, q, s, k, i)
  BY <1>2, <1>3 DEF IssuedOK
<1>4. CASE Silent
  <2>1. Ok(q, s, k) /\ up[q]
    BY <1>2, <1>4, SilentKeeps DEF Ok
  <2>2. Script(q, s)[k].op # "await"
    BY <1>2 DEF Writes
  <2> QED
    BY <1>3, <1>4, <2>1, <2>2, SilentHas
<1>5. ASSUME NEW p \in PEs, NEW t \in Threads, NEW ok \in BOOLEAN, Answers(p, t, ok)
      PROVE  Has(Known', q, s, k, i)
  <2>1. up[q]
    BY <1>2, <1>5, AnswerKeeps
  <2>2. CASE (q # p \/ s # t \/ k < pos[p][t]) /\ Ok(q, s, k)
    <3>1. pos[p][t] \in Nat /\ k \in Nat
      BY <1>2 DEF TypeOK
    <3>2. q # p \/ s # t \/ k # pos[p][t]
      BY <2>2, <3>1
    <3> QED
      BY <1>2, <1>3, <1>5, <2>1, <2>2, <3>2, AnswerHas
  <2>3. CASE q = p /\ s = t /\ k = pos[p][t] /\ ok
    <3>1. Current(p, t) = Script(q, s)[k]
      BY <2>3 DEF Current
    <3>2. Current(p, t).len # 0
      BY <1>2, <3>1
    <3>3. running[p] = t
      BY <1>2, <1>5, <2>3, <3>1, <3>2, AnswerKeeps
    <3>4. Has(Known, q, s, k, i)
      BY <1>2, <2>3, <3>1, <3>3 DEF PostedOK
    <3> QED
      BY <1>2, <1>5, <2>3, <3>4, AnswerHas
  <2> QED
    BY <1>2, <1>5, <2>2, <2>3, OkAfterAnswer
<1> QED
  BY <1>4, <1>5, ShapeCases

(* While a quiet runs, what it covers and is in flight goes to an endpoint *)
(* that is still left.                                                     *)
LEMMA FlushedPreserved ==
  ASSUME TypeOK, AnswersOK, RunningOK, ElementsOK, FlushedOK, Shape
  PROVE  FlushedOK'
<1>1. program' = program
  BY ShapeKeepsProgram
<1>2. SUFFICES ASSUME NEW q \in PEs, NEW s \in Threads, running'[q] = s, Current(q, s)'.op \in Quiets,
                      NEW e \in flight', e.pe = q, Covers(q, s, pos[q][s], CallOf(e).pe)'
               PROVE  \E i \in 1 .. Len(left'[q]) : left'[q][i] = CallOf(e).pe
  BY <1>1, <1>2 DEF FlushedOK, CallOf, Script
<1>3. s # NoThread
  BY RmaAssumption DEF NoThread
<1>4. ASSUME running[q] = s, pos'[q][s] = pos[q][s], e \in flight
      PROVE  \E i \in 1 .. Len(left[q]) : left[q][i] = CallOf(e).pe
  <2>1. Current(q, s).op \in Quiets /\ Covers(q, s, pos[q][s], CallOf(e).pe)
    BY <1>1, <1>2, <1>4 DEF Current, Covers, CallOf, Script
  <2> QED
    BY <1>2, <1>4, <2>1 DEF FlushedOK
<1>5. ASSUME NEW p \in PEs, NEW t \in Threads, NEW ok \in BOOLEAN, Answers(p, t, ok)
      PROVE  \E i \in 1 .. Len(left'[q]) : left'[q][i] = CallOf(e).pe
  <2>1. Waits(q, Quiets)'
    BY <1>2, <1>3 DEF Waits
  <2>2. /\ q # p \/ Refuses(p, t)
        /\ running[q] = s /\ pos'[q][s] = pos[q][s]
    BY <1>2, <1>5, <2>1, WaitsAfterAnswer DEF Answers
  <2>3. e \in flight
    BY <1>2, <1>5, AnswerKeeps
  <2>4. left'[q] = left[q]
    BY <1>5, <2>2 DEF Answers, Refuses, Settles, TypeOK
  <2> QED
    BY <1>4, <2>2, <2>3, <2>4
<1>6. CASE Silent
  <2>1. pos' = pos
    BY <1>6, SilentKeeps
  <2>2. Current(q, s)' = Current(q, s)
    BY <1>1, <2>1 DEF Current, Script
  <2>3. ~ Posts(q, s)
    BY <1>2, <2>2 DEF Posts, Takes, Transfers, Quiets
  <2>4. CASE Starts(q, s)
    <3> DEFINE c == Current(q, s)
    <3>1. e \in flight /\ c.op \in Quiets
      BY <1>2, <2>2, <2>4 DEF Starts
    <3>2. left'[q] = Endpoints(q, c)
      BY <2>4, <3>1 DEF Starts, TypeOK, Quiets
    <3>3. CallOf(e).pe \in PEs
      BY <3>1 DEF ElementsOK, Known
    <3>4. c.op = "quiet" \/ (c.op = "quiet_pe" /\ c.pe = CallOf(e).pe)
      BY <1>1, <1>2, <2>1 DEF Covers, Current, CallOf, Script
    <3>5. CASE c.op = "quiet_pe"
      <4>1. left'[q] = <<CallOf(e).pe>>
        BY <3>2, <3>4, <3>5 DEF Endpoints
      <4> QED
        BY <4>1
    <3>6. CASE c.op = "quiet"
      <4>1. left'[q] = [i \in 1 .. N |-> i - 1]
        BY <3>2, <3>6 DEF Endpoints
      <4>2. N \in Nat /\ CallOf(e).pe \in 0 .. N - 1
        BY <3>3, RmaAssumption DEF PEs
      <4>3. Len(left'[q]) = N
        BY <4>1, <4>2
      <4>4. CallOf(e).pe + 1 \in 1 .. N /\ left'[q][CallOf(e).pe + 1] = CallOf(e).pe
        BY <4>1, <4>2
      <4> QED
        BY <4>3, <4>4
    <3> QED
      BY <3>4, <3>5, <3>6
  <2>5. ASSUME running[q] = s
        PROVE  \E i \in 1 .. Len(left'[q]) : left'[q][i] = CallOf(e).pe
    <3>1. e \in flight
      <4>1. ASSUME NEW p \in PEs, NEW t \in Threads, Posts(p, t)
            PROVE  e \in flight
        <5>1. p # q
          BY <1>3, <2>5, <4>1 DEF Posts, Takes
        <5> QED
          BY <1>2, <4>1, <5>1 DEF Posts
      <4> QED
        BY <1>2, <1>6, <4>1 DEF Silent, Starts, Continues, Releases, Lands
    <3>2. PICK i \in 1 .. Len(left[q]) : left[q][i] = CallOf(e).pe
      BY <1>4, <2>1, <2>5, <3>1
    <3>3. CASE left'[q] = left[q]
      BY <3>2, <3>3
    <3>4. CASE Continues(q)
      <4>1. /\ left'[q] = Tail(left[q]) /\ Outstanding(q, Head(left[q])) = {}
            /\ left[q] \in Seq(PEs) /\ left[q] # <<>>
        BY <3>4 DEF Continues, TypeOK
      <4>2. /\ Len(left'[q]) = Len(left[q]) - 1 /\ Len(left[q]) \in Nat
            /\ \A m \in 1 .. Len(left'[q]) : left'[q][m] = left[q][m + 1]
        BY <4>1, HeadTailProperties, LenProperties
      <4>3. i # 1
        <5>1. CallOf(e).pe # Head(left[q])
          BY <1>2, <3>1, <4>1 DEF Outstanding
        <5>2. Head(left[q]) = left[q][1]
          BY <4>1
        <5> QED
          BY <3>2, <5>1, <5>2
      <4>4. i - 1 \in 1 .. Len(left'[q]) /\ (i - 1) + 1 = i
        BY <4>2, <4>3
      <4>5. left'[q][i - 1] = CallOf(e).pe
        BY <3>2, <4>2, <4>4
      <4> QED
        BY <4>4, <4>5
    <3>5. left'[q] = left[q] \/ Continues(q)
      <4>1. ASSUME NEW p \in PEs, NEW t \in Threads, Starts(p, t)
            PROVE  left'[q] = left[q]
        <5>1. p # q
          BY <1>3, <2>5, <4>1 DEF Starts, Takes
        <5> QED
          BY <4>1, <5>1 DEF Starts, TypeOK
      <4>2. ASSUME NEW p \in PEs, Continues(p), p # q
            PROVE  left'[q] = left[q]
        BY <4>2 DEF Continues, TypeOK
      <4> QED
        BY <1>6, <4>1, <4>2 DEF Silent, Posts, Releases, Lands
    <3> QED
      BY <3>3, <3>4, <3>5
  <2> QED
    BY <1>2, <1>6, <2>3, <2>4, <2>5, SilentRunning
<1> QED
  BY <1>5, <1>6, ShapeCases

(* When quiet answers Ok, only its last endpoint was left and has nothing  *)
(* outstanding: what it covers and was issued has landed.                  *)
LEMMA QuietPreserved ==
  ASSUME TypeOK, AnswersOK, RunningOK, IssuedOK, FlushedOK, QuietCompletes, Shape
  PROVE  QuietCompletes'
<1>1. program' = program /\ \A p \in PEs, t \in Threads : Script(p, t)' = Script(p, t)
  BY ShapeKeepsProgram DEF Script
<1>2. SUFFICES ASSUME NEW q \in PEs, NEW s \in Threads, NEW j \in 1 .. Len(Script(q, s)), NEW k \in 1 .. j - 1,
                      Ok(q, s, j)', Covers(q, s, j, Script(q, s)[k].pe),
                      Ok(q, s, k)', Script(q, s)[k].op \in Writes,
                      NEW i \in 1 .. Script(q, s)[k].len
               PROVE  Has(Landed', q, s, k, i)
  BY <1>1, <1>2 DEF QuietCompletes, Covers, Has, Writes
<1>3. ASSUME Ok(q, s, j), Ok(q, s, k)
      PROVE  Has(Landed', q, s, k, i)
  <2>1. Has(Landed, q, s, k, i)
    BY <1>2, <1>3 DEF QuietCompletes, Has, Writes
  <2> QED
    BY <2>1, KnownStep DEF Has
<1>4. CASE Silent
  BY <1>2, <1>3, <1>4, SilentKeeps DEF Ok
<1>5. ASSUME NEW p \in PEs, NEW t \in Threads, NEW ok \in BOOLEAN, Answers(p, t, ok)
      PROVE  Has(Landed', q, s, k, i)
  <2>1. k \in 1 .. Len(Script(q, s)) /\ k < j /\ j \in Nat /\ k \in Nat
    <3>1. Len(Script(q, s)) \in Nat
      BY ScriptType DEF TypeOK
    <3> QED
      BY <1>2, <3>1
  <2>2. pos[p][t] \in Nat
    BY DEF TypeOK
  <2>3. CASE (q # p \/ s # t \/ j < pos[p][t]) /\ Ok(q, s, j)
    <3>1. ~ (q = p /\ s = t /\ k = pos[p][t])
      BY <2>1, <2>2, <2>3
    <3>2. Ok(q, s, k)
      BY <1>2, <1>5, <2>1, <3>1, OkAfterAnswer
    <3> QED
      BY <1>3, <2>3, <3>2
  <2>4. CASE q = p /\ s = t /\ j = pos[p][t] /\ ok
    <3>1. Ok(p, t, k)
      <4>1. k # pos[p][t]
        BY <2>1, <2>2, <2>4
      <4>2. Ok(q, s, k)
        BY <1>2, <1>5, <2>1, <4>1, OkAfterAnswer
      <4> QED
        BY <2>4, <4>2
    <3>2. Current(p, t) = Script(p, t)[j]
      BY <2>4 DEF Current
    <3>3. Current(p, t).op \in Quiets
      BY <1>2, <2>4, <3>2 DEF Covers, Quiets
    <3>4. running[p] = t /\ Len(left[p]) = 1 /\ Outstanding(p, Head(left[p])) = {} /\ log' = log
      <4>1. Settles(p, t, ok)
        BY <1>5, <2>4 DEF Answers
      <4> QED
        BY <2>4, <3>3, <4>1 DEF Settles
    <3>5. t # NoThread
      BY RmaAssumption DEF NoThread
    <3>6. up[p]
      BY <3>4, <3>5 DEF RunningOK, RunsOK
    <3>7. Has(Known, p, t, k, i)
      BY <1>2, <2>1, <2>4, <3>1, <3>6 DEF IssuedOK
    <3>8. PICK e \in Known : e.pe = p /\ e.thread = t /\ e.call = k /\ e.elem = i
      BY <3>7 DEF Has
    <3>9. e \notin flight
      <4> SUFFICES ASSUME e \in flight PROVE FALSE
        OBVIOUS
      <4>1. CallOf(e) = Script(q, s)[k]
        BY <2>4, <3>8 DEF CallOf
      <4>2. PICK m \in 1 .. Len(left[p]) : left[p][m] = CallOf(e).pe
        BY <1>2, <2>4, <3>3, <3>4, <3>8, <4>1 DEF FlushedOK
      <4>3. left[p] \in Seq(PEs) /\ m = 1
        BY <3>4, <4>2 DEF TypeOK
      <4>4. CallOf(e).pe = Head(left[p])
        BY <3>4, <4>2, <4>3
      <4> QED
        BY <3>4, <3>8, <4>4 DEF Outstanding
    <3>10. e \in Landed'
      BY <3>4, <3>9, LandedStep DEF Known
    <3> QED
      BY <2>4, <3>8, <3>10 DEF Has
  <2> QED
    BY <1>2, <1>5, <2>3, <2>4, OkAfterAnswer
<1> QED
  BY <1>4, <1>5, ShapeCases

----------------------------------------------------------------------------

(* The invariant holds initially: nothing has been called.                 *)
LEMMA InitInv ==
  ASSUME Init
  PROVE  Inv
<1>1. program \in Programs
  BY DEF Init
<1>2. /\ flight = {} /\ log = <<>> /\ Known = {} /\ Landed = {}
      /\ \A p \in PEs : running[p] = NoThread
  BY DEF Init, Known, Landed
<1>3. \A t \in Threads : t # NoThread
  BY RmaAssumption DEF NoThread
<1>4. TypeOK
  <2>1. /\ offloaded \in BOOLEAN
        /\ up \in [PEs -> BOOLEAN]
        /\ running \in [PEs -> Threads \cup {NoThread}]
        /\ pos \in [PEs -> [Threads -> Nat]]
        /\ epoch \in [PEs -> Nat]
        /\ entered \in [PEs -> Nat]
    BY DEF Init
  <2>2. left \in [PEs -> Seq(PEs)] /\ log \in Seq(Elements)
    BY DEF Init
  <2>3. DOMAIN ram = PEs /\ \A q \in PEs : DOMAIN ram[q] = Region(q)
    BY DEF Init
  <2> QED
    BY <1>1, <1>2, <2>1, <2>2, <2>3 DEF TypeOK, Waits
<1>5. /\ DOMAIN answer = PEs
      /\ \A p \in PEs : DOMAIN answer[p] = Threads
      /\ \A p \in PEs, t \in Threads : DOMAIN answer[p][t] = 1 .. Len(Script(p, t))
      /\ \A p \in PEs, t \in Threads : \A k \in 1 .. Len(Script(p, t)) : answer[p][t][k] = NoAnswer
  BY DEF Init
<1>6. \A p \in PEs, t \in Threads : pos[p][t] = 1
  BY DEF Init
<1>7. \A p \in PEs, t \in Threads : \A k \in 1 .. Len(Script(p, t)) : ~ Ok(p, t, k)
  BY <1>5 DEF Ok, NoAnswer
<1>8. AnswersOK
  BY <1>5, <1>6, <1>7 DEF AnswersOK
<1>9. RunningOK /\ ElementsOK /\ EpochsOK /\ FencedOK /\ BetweenOK /\ PostedOK /\ FlushedOK
  BY <1>2, <1>3 DEF RunningOK, RunsOK, ElementsOK, EpochsOK, FencedOK, BetweenOK, PostedOK, FlushedOK
<1>10. IssuedOK /\ QuietCompletes
  BY <1>7 DEF IssuedOK, QuietCompletes
<1> QED
  BY <1>4, <1>8, <1>9, <1>10 DEF Inv

(* Every step preserves the invariant.                                     *)
LEMMA NextInv ==
  ASSUME Inv, [Next]_vars
  PROVE  Inv'
<1>1. /\ TypeOK /\ AnswersOK /\ RunningOK /\ ElementsOK
      /\ EpochsOK /\ FencedOK /\ BetweenOK
      /\ PostedOK /\ IssuedOK /\ FlushedOK /\ QuietCompletes
  BY DEF Inv
<1>2. Shape /\ Frame
  BY <1>1, NextShape, NextFrame
<1>3. TypeOK' /\ AnswersOK' /\ RunningOK' /\ ElementsOK'
  BY <1>1, <1>2, TypePreserved, AnswersPreserved, RunningPreserved, ElementsPreserved
<1>4. EpochsOK' /\ FencedOK' /\ BetweenOK'
  BY <1>1, <1>2, EpochsPreserved, FencedPreserved, BetweenPreserved
<1>5. PostedOK' /\ IssuedOK' /\ FlushedOK' /\ QuietCompletes'
  BY <1>1, <1>2, PostedPreserved, IssuedPreserved, FlushedPreserved, QuietPreserved
<1> QED
  BY <1>3, <1>4, <1>5 DEF Inv

(* RmaInvariant: what is in flight, what has landed, what quiet has still  *)
(* to flush and which calls have returned fit together in every reachable  *)
(* state, whatever the programs of the PEs and whatever fails.             *)
THEOREM RmaInvariant == Spec => []Inv
<1>1. Init => Inv
  BY InitInv
<1>2. Inv /\ [Next]_vars => Inv'
  BY NextInv
<1> QED
  BY <1>1, <1>2, PTL DEF Spec

(* TypeCorrect: every variable of Rma stays in its type, and a PE in quiet *)
(* has an endpoint left to flush.                                          *)
THEOREM TypeCorrect == Spec => []TypeOK
<1>1. Inv => TypeOK
  BY DEF Inv
<1> QED
  BY <1>1, RmaInvariant, PTL

(* QuietIsCompletion: quiet and quiet_pe return Ok only when everything    *)
(* their thread had written before to the PEs they cover has been carried  *)
(* out there; the promise of src/rma.rs:891.                               *)
THEOREM QuietIsCompletion == Spec => []QuietCompletes
<1>1. Inv => QuietCompletes
  BY DEF Inv
<1> QED
  BY <1>1, RmaInvariant, PTL

(* FenceIsOrdering: nothing that a thread sent before a successful fence   *)
(* lands after something that it sent to the same PE after the fence; the  *)
(* promise of src/rma.rs:878.                                              *)
THEOREM FenceIsOrdering == Spec => []FenceOrders
<1>1. Inv => FenceOrders
  <2> SUFFICES ASSUME Inv,
                      NEW e \in flight, NEW l \in Landed,
                      e.pe = l.pe, e.thread = l.thread, CallOf(e).pe = CallOf(l).pe,
                      NEW j \in e.call .. l.call, Fenced(e.pe, e.thread, j)
               PROVE  FALSE
    BY DEF FenceOrders, Fenced
  <2>1. e \in Known /\ l \in Known
    BY DEF Known
  <2>2. e.epoch < l.epoch
    BY <2>1 DEF Inv, BetweenOK
  <2>3. l.epoch <= e.epoch
    BY DEF Inv, EpochsOK
  <2>4. e.epoch \in Nat /\ l.epoch \in Nat
    BY <2>1, KnownElements DEF Inv
  <2> QED
    BY <2>2, <2>3, <2>4
<1> QED
  BY <1>1, RmaInvariant, PTL

----------------------------------------------------------------------------

(* Replies.  The shapes above say when a call returns Ok; what barriers    *)
(* and reads are told, and what happens to reply buffers on the way, is    *)
(* said here once for all actions.                                         *)
InBarrier(p, t) == running[p] = t /\ Current(p, t).op = "barrier"

(* What an Ok reply of the current call of p, t tells its caller.          *)
GoodReply(p, t, values) ==
  /\ Current(p, t).op = "barrier" =>
       InBarrier(p, t) /\ BarrierDone(p) /\ values = <<entered[p]>>
  /\ Current(p, t).op \in {"get", "fetch"} =>
       running[p] = NoThread \/ (running[p] = t /\ values = Decoded(p, Current(p, t)))

AnswerStep(p, t, k) ==
  \/ answer'[p][t][k] = answer[p][t][k]
  \/ /\ k = pos[p][t]
     /\ answer'[p][t][k].status = "ok" => GoodReply(p, t, answer'[p][t][k].values)

(* A transfer is posted and gets a fresh reply buffer.                     *)
Fills(p, t) ==
  /\ Posts(p, t)
  /\ buffer' = [buffer EXCEPT ![p] = EmptyReply(Current(p, t))]

(* An element is carried out, and what it reads goes to the buffer.        *)
Carries(e) ==
  /\ Lands(e)
  /\ e.addr \in Region(CallOf(e).pe)
  /\ buffer' = IF CallOf(e).op \in Reads
               THEN [buffer EXCEPT ![e.pe][e.elem] = ram[CallOf(e).pe][e.addr]]
               ELSE buffer

(* Nothing is posted or carried out; a thread that moves on has no read in *)
(* flight any more.                                                        *)
Rests ==
  /\ log' = log /\ buffer' = buffer /\ flight' \subseteq flight
  /\ \A e \in flight' : (CallOf(e).op \in Reads /\ e.call = pos[e.pe][e.thread])
                          => pos'[e.pe][e.thread] = pos[e.pe][e.thread]

Flow ==
  \/ \E p \in PEs, t \in Threads : Fills(p, t)
  \/ \E e \in flight : Carries(e)
  \/ Rests

(* A thread has the mutex after a step: it had it before, or it took it.   *)
HoldStep(p, t) ==
  running'[p] = t =>
    /\ pos'[p][t] = pos[p][t]
    /\ \/ running[p] = t /\ entered'[p] = entered[p]
       \/ /\ running[p] = NoThread
          /\ Current(p, t).op = "barrier" => entered'[p] = entered[p] + 1 /\ UNCHANGED <<answer, log>>
          /\ Current(p, t).op \in Transfers => Fills(p, t)

ReplyShape ==
  /\ program' = program
  /\ entered' \in [PEs -> Nat] /\ \A p \in PEs : entered'[p] >= entered[p]
  /\ \A p \in PEs, t \in Threads : \A k \in 1 .. Len(Script(p, t)) : AnswerStep(p, t, k)
  /\ \A p \in PEs, t \in Threads : HoldStep(p, t)
  /\ Flow

(* A step that answers no call and posts no barrier.                       *)
LEMMA IdleStep ==
  ASSUME TypeOK, UNCHANGED <<program, pos, answer, entered>>, Flow,
         \/ running' = running
         \/ \E p \in PEs : running' = [running EXCEPT ![p] = NoThread]
         \/ \E p \in PEs, t \in Threads :
              /\ running[p] = NoThread
              /\ running' = [running EXCEPT ![p] = t]
              /\ Current(p, t).op # "barrier"
              /\ Current(p, t).op \in Transfers => Fills(p, t)
  PROVE  ReplyShape
<1>1. entered' \in [PEs -> Nat] /\ \A p \in PEs : entered'[p] >= entered[p]
  BY DEF TypeOK
<1>2. \A p \in PEs, t \in Threads : \A k \in 1 .. Len(Script(p, t)) : AnswerStep(p, t, k)
  BY DEF AnswerStep
<1>3. running \in [PEs -> Threads \cup {NoThread}] /\ NoThread \notin Threads
  BY RmaAssumption DEF TypeOK, NoThread
<1>4. ASSUME NEW p \in PEs, NEW t \in Threads, running'[p] = t
      PROVE  HoldStep(p, t)
  <2>1. CASE running[p] = t
    BY <1>4, <2>1 DEF HoldStep
  <2>2. CASE running[p] # t
    <3>1. PICK q \in PEs, s \in Threads :
            /\ running[q] = NoThread
            /\ running' = [running EXCEPT ![q] = s]
            /\ Current(q, s).op # "barrier"
            /\ Current(q, s).op \in Transfers => Fills(q, s)
      BY <1>3, <1>4, <2>2
    <3>2. q = p /\ s = t
      BY <1>3, <1>4, <2>2, <3>1
    <3> QED
      BY <3>1, <3>2 DEF HoldStep
  <2> QED
    BY <2>1, <2>2
<1>5. \A p \in PEs, t \in Threads : HoldStep(p, t)
  BY <1>4 DEF HoldStep
<1> QED
  BY <1>1, <1>2, <1>5 DEF ReplyShape

(* A step that answers call pos[p][t].                                     *)
LEMMA ReplyStep ==
  ASSUME TypeOK, AnswersOK, ElementsOK, NEW p \in PEs, NEW t \in Threads,
         pos[p][t] <= Len(Script(p, t)),
         NEW status, NEW values, Answer(p, t, status, values),
         \/ running[p] # t /\ running' = running
         \/ running' = [running EXCEPT ![p] = NoThread],
         UNCHANGED <<program, entered, log, buffer>>, flight' \subseteq flight,
         (running[p] = t /\ Current(p, t).op \in Reads) => Mine(p) \cap flight' = {},
         status = "ok" => GoodReply(p, t, values)
  PROVE  ReplyShape
<1>1. entered' \in [PEs -> Nat] /\ \A q \in PEs : entered'[q] >= entered[q]
  BY DEF TypeOK
<1>2. answer' = [answer EXCEPT ![p][t][pos[p][t]] = [status |-> status, values |-> values]]
  BY DEF Answer
<1>3. ASSUME NEW q \in PEs, NEW s \in Threads, NEW k \in 1 .. Len(Script(q, s))
      PROVE  AnswerStep(q, s, k)
  <2>1. CASE q = p /\ s = t /\ k = pos[p][t]
    <3>1. answer'[p][t][k] = [status |-> status, values |-> values]
      BY <1>2, <2>1 DEF AnswersOK
    <3>2. answer'[p][t][k].status = status /\ answer'[p][t][k].values = values
      BY <3>1
    <3> QED
      BY <2>1, <3>2 DEF AnswerStep
  <2>2. CASE ~ (q = p /\ s = t /\ k = pos[p][t])
    <3>1. answer'[q][s][k] = answer[q][s][k]
      BY <1>2, <2>2 DEF AnswersOK
    <3> QED
      BY <3>1 DEF AnswerStep
  <2> QED
    BY <2>1, <2>2
<1>4. /\ pos'[p][t] > pos[p][t]
      /\ \A q \in PEs, s \in Threads : (q # p \/ s # t) => pos'[q][s] = pos[q][s]
  BY AnswerReplies DEF Replies
<1>5. running \in [PEs -> Threads \cup {NoThread}] /\ NoThread \notin Threads
  BY RmaAssumption DEF TypeOK, NoThread
<1>6. ASSUME NEW q \in PEs, NEW s \in Threads, running'[q] = s
      PROVE  HoldStep(q, s)
  <2>1. running[q] = s /\ (q # p \/ s # t)
    BY <1>5, <1>6
  <2>2. pos'[q][s] = pos[q][s]
    BY <1>4, <2>1
  <2> QED
    BY <2>1, <2>2 DEF HoldStep
<1>7. ASSUME NEW e \in flight', CallOf(e).op \in Reads, e.call = pos[e.pe][e.thread]
      PROVE  pos'[e.pe][e.thread] = pos[e.pe][e.thread]
  <2>1. e \in flight /\ e.pe \in PEs /\ e.thread \in Threads
    BY <1>7, KnownElements DEF Known
  <2>2. running[e.pe] = e.thread
    BY <1>7, <2>1 DEF ElementsOK, Known
  <2>3. CASE e.pe = p /\ e.thread = t
    <3>1. e \in Mine(p)
      BY <1>7, <2>1, <2>2, <2>3 DEF Mine
    <3>2. Current(p, t).op \in Reads
      BY <1>7, <2>3 DEF Current, CallOf
    <3> QED
      BY <2>2, <2>3, <3>1, <3>2
  <2>4. CASE ~ (e.pe = p /\ e.thread = t)
    BY <1>4, <2>1, <2>4
  <2> QED
    BY <2>3, <2>4
<1>8. Flow
  BY <1>7 DEF Flow, Rests
<1>9. \A q \in PEs, s \in Threads : HoldStep(q, s)
  BY <1>6 DEF HoldStep
<1> QED
  BY <1>1, <1>3, <1>8, <1>9 DEF ReplyShape

(* A call that returns under the mutex and loses nothing.                  *)
LEMMA ReturnStep ==
  ASSUME TypeOK, AnswersOK, ElementsOK, NEW p \in PEs, NEW t \in Threads,
         pos[p][t] <= Len(Script(p, t)),
         NEW status, NEW values, Return(p, t, status, values),
         UNCHANGED <<program, entered, log, buffer>>, flight' \subseteq flight,
         (running[p] = t /\ Current(p, t).op \in Reads) => Mine(p) \cap flight' = {},
         status = "ok" => GoodReply(p, t, values)
  PROVE  ReplyShape
<1>1. Answer(p, t, status, values) /\ running' = [running EXCEPT ![p] = NoThread]
  BY DEF Return, Holds
<1> QED
  BY <1>1, ReplyStep

(* A call that returns without waiting.                                    *)
LEMMA ImmediateStep ==
  ASSUME TypeOK, AnswersOK, ElementsOK, NEW p \in PEs, NEW t \in Threads,
         NEW ops, Enters(p, t, ops), NEW status, NEW values, Return(p, t, status, values),
         UNCHANGED <<program, entered, log, buffer>>, flight' \subseteq flight,
         status # "ok" \/ "barrier" \notin ops
  PROVE  ReplyShape
<1>1. /\ running[p] = NoThread /\ t # NoThread
      /\ pos[p][t] <= Len(Script(p, t)) /\ Current(p, t).op \in ops
  BY EnteringThread
<1>2. status = "ok" => GoodReply(p, t, values)
  BY <1>1 DEF GoodReply
<1> QED
  BY <1>1, <1>2, ReturnStep

(* coll::barrier posts.                                                    *)
LEMMA PostStep ==
  ASSUME TypeOK, NEW p \in PEs, NEW t \in Threads, Current(p, t).op = "barrier",
         running[p] = NoThread,
         entered' = [entered EXCEPT ![p] = @ + 1], running' = [running EXCEPT ![p] = t],
         UNCHANGED <<program, pos, answer, log, buffer, flight>>
  PROVE  ReplyShape
<1>1. /\ entered \in [PEs -> Nat] /\ running \in [PEs -> Threads \cup {NoThread}]
      /\ NoThread \notin Threads
  BY RmaAssumption DEF TypeOK, NoThread
<1>2. /\ entered' \in [PEs -> Nat] /\ \A q \in PEs : entered'[q] >= entered[q]
      /\ entered'[p] = entered[p] + 1
      /\ \A q \in PEs \ {p} : entered'[q] = entered[q]
  BY <1>1
<1>3. \A q \in PEs, s \in Threads : \A k \in 1 .. Len(Script(q, s)) : AnswerStep(q, s, k)
  BY DEF AnswerStep
<1>4. ASSUME NEW q \in PEs, NEW s \in Threads, running'[q] = s
      PROVE  HoldStep(q, s)
  <2>1. CASE q = p
    <3>1. s = t /\ Current(q, s).op \notin Transfers
      BY <1>1, <1>4, <2>1 DEF Transfers
    <3> QED
      BY <1>2, <2>1, <3>1 DEF HoldStep
  <2>2. CASE q # p
    <3>1. running[q] = s /\ entered'[q] = entered[q]
      BY <1>1, <1>2, <1>4, <2>2
    <3> QED
      BY <3>1 DEF HoldStep
  <2> QED
    BY <2>1, <2>2
<1>5. \A q \in PEs, s \in Threads : HoldStep(q, s)
  BY <1>4 DEF HoldStep
<1>6. Flow
  BY DEF Flow, Rests
<1> QED
  BY <1>2, <1>3, <1>5, <1>6 DEF ReplyShape

(* The calls, up to their wait.                                            *)
LEMMA CallReply ==
  ASSUME TypeOK, AnswersOK, ElementsOK, NEW p \in PEs, NEW t \in Threads, Call(p, t)
  PROVE  ReplyShape
<1> DEFINE c == Current(p, t)
<1>1. CASE NotInitialized(p, t)
  <2>1. /\ Enters(p, t, Ops \ {"finalize"})
        /\ Return(p, t, "uninitialized", <<>>)
        /\ UNCHANGED <<program, entered, log, buffer, flight>>
    BY <1>1 DEF NotInitialized
  <2> QED
    BY <2>1, ImmediateStep
<1>2. CASE TypedLengthOverflow(p, t)
  <2>1. /\ running[p] # t /\ pos[p][t] <= Len(Script(p, t))
        /\ Answer(p, t, "usage", <<>>)
        /\ UNCHANGED <<program, running, entered, log, buffer, flight>>
    BY <1>2 DEF TypedLengthOverflow
  <2> QED
    BY <2>1, ReplyStep
<1>3. CASE PutMem(p, t) \/ GetMem(p, t) \/ AtomicOp(p, t) \/ AtomicFetch(p, t)
  <2>1. PICK ops \in SUBSET Transfers : Transfer(p, t, ops)
    BY <1>3 DEF PutMem, GetMem, AtomicOp, AtomicFetch, Transfers
  <2>2. /\ Enters(p, t, ops) /\ up[p] /\ UNCHANGED <<program, up, epoch, left, entered, log>>
        /\ \/ (\E status : Return(p, t, status, <<>>)) /\ UNCHANGED <<flight, buffer>>
           \/ /\ ~ Rejected(c) /\ Holds(p, t) /\ UNCHANGED <<pos, answer>>
              /\ buffer' = [buffer EXCEPT ![p] = EmptyReply(c)]
              /\ flight' = flight \cup
                   { [pe |-> p, thread |-> t, call |-> pos[p][t], elem |-> i,
                      addr |-> Address(p, c, i), epoch |-> epoch[p]] : i \in 1 .. c.len }
    BY <2>1 DEF Transfer
  <2>3. "barrier" \notin ops /\ c.op \in ops /\ running[p] = NoThread
    BY <2>2 DEF Enters, Transfers
  <2>4. CASE (\E status : Return(p, t, status, <<>>)) /\ UNCHANGED <<flight, buffer>>
    BY <2>2, <2>3, <2>4, ImmediateStep
  <2>5. CASE /\ ~ Rejected(c) /\ Holds(p, t) /\ UNCHANGED <<pos, answer>>
             /\ buffer' = [buffer EXCEPT ![p] = EmptyReply(c)]
             /\ flight' = flight \cup
                  { [pe |-> p, thread |-> t, call |-> pos[p][t], elem |-> i,
                     addr |-> Address(p, c, i), epoch |-> epoch[p]] : i \in 1 .. c.len }
    <3>1. Posts(p, t)
      BY <2>2, <2>5, TransferPosts
    <3>2. Fills(p, t)
      BY <2>5, <3>1 DEF Fills
    <3>3. Flow /\ running' = [running EXCEPT ![p] = t]
      BY <2>5, <3>2 DEF Flow, Holds
    <3>4. c.op # "barrier"
      BY <2>3
    <3> QED
      BY <2>2, <2>3, <2>5, <3>2, <3>3, <3>4, IdleStep
  <2> QED
    BY <2>2, <2>4, <2>5
<1>4. CASE Fence(p, t)
  <2>1. /\ Enters(p, t, {"fence"}) /\ UNCHANGED <<program, entered, log, buffer, flight>>
        /\ \E status : Return(p, t, status, <<>>)
    BY <1>4 DEF Fence
  <2> QED
    BY <2>1, ImmediateStep
<1>5. CASE Quiet(p, t)
  <2>1. /\ Enters(p, t, Quiets) /\ UNCHANGED <<program, entered, log, buffer, flight>>
        /\ \/ Return(p, t, "usage", <<>>)
           \/ Holds(p, t) /\ UNCHANGED <<pos, answer>>
    BY <1>5 DEF Quiet
  <2>2. running[p] = NoThread /\ c.op # "barrier" /\ c.op \notin Transfers
    BY <2>1 DEF Enters, Quiets, Transfers
  <2>3. CASE Return(p, t, "usage", <<>>)
    BY <2>1, <2>3, ImmediateStep
  <2>4. CASE Holds(p, t) /\ UNCHANGED <<pos, answer>>
    <3>1. Flow
      BY <2>1, <2>4 DEF Flow, Rests
    <3> QED
      BY <2>1, <2>2, <2>4, <3>1, IdleStep DEF Holds
  <2> QED
    BY <2>1, <2>3, <2>4
<1>6. CASE Barrier(p, t)
  <2>1. /\ Enters(p, t, {"barrier"}) /\ UNCHANGED <<program, log, buffer, flight>>
        /\ \/ /\ entered' = [entered EXCEPT ![p] = @ + 1]
              /\ Holds(p, t) /\ UNCHANGED <<pos, answer>>
           \/ Return(p, t, "error", <<>>) /\ entered' = entered
    BY <1>6 DEF Barrier
  <2>2. running[p] = NoThread /\ c.op = "barrier"
    BY <2>1 DEF Enters
  <2>3. CASE Return(p, t, "error", <<>>) /\ entered' = entered
    BY <2>1, <2>3, ImmediateStep
  <2>4. CASE /\ entered' = [entered EXCEPT ![p] = @ + 1]
             /\ Holds(p, t) /\ UNCHANGED <<pos, answer>>
    BY <2>1, <2>2, <2>4, PostStep DEF Holds
  <2> QED
    BY <2>1, <2>3, <2>4
<1>7. CASE Finalize(p, t)
  <2>1. PICK status \in {"ok", "error"} : Return(p, t, status, <<>>)
    BY <1>7 DEF Finalize
  <2>2. /\ Enters(p, t, {"finalize"}) /\ UNCHANGED <<program, entered, log, buffer>>
        /\ flight' \subseteq flight
    BY <1>7 DEF Finalize
  <2> QED
    BY <2>1, <2>2, ImmediateStep
<1>8. CASE Local(p, t)
  <2>1. /\ Enters(p, t, {"local"}) /\ UNCHANGED <<program, entered, log, buffer, flight>>
        /\ \E status : Return(p, t, status, <<>>)
    BY <1>8 DEF Local
  <2> QED
    BY <2>1, ImmediateStep
<1> QED
  BY <1>1, <1>2, <1>3, <1>4, <1>5, <1>6, <1>7, <1>8 DEF Call

(* The steps of a call that waits.                                         *)
LEMMA WaitReply ==
  ASSUME TypeOK, AnswersOK, RunningOK, ElementsOK, NEW p \in PEs,
         \/ RequestDone(p) \/ RequestDoneLocally(p) \/ RequestFails(p)
         \/ Flush(p) \/ FlushFails(p) \/ WaitBarrier(p) \/ BarrierFails(p)
  PROVE  ReplyShape
<1> DEFINE t == running[p]
           c == Current(p, t)
<1>1. UNCHANGED <<program, entered, log, buffer>> /\ flight' \subseteq flight
  BY DEF RequestDone, RequestDoneLocally, RequestFails, Flush, FlushFails, WaitBarrier, BarrierFails
<1>2. ASSUME NEW ops, Waits(p, ops), NEW status, NEW values, Return(p, t, status, values),
             c.op \in Reads => Mine(p) \cap flight' = {},
             status = "ok" => GoodReply(p, t, values)
      PROVE  ReplyShape
  <2>1. t \in Threads /\ pos[p][t] <= Len(Script(p, t))
    BY <1>2, WaitingThread
  <2> QED
    BY <1>1, <1>2, <2>1, ReturnStep
<1>3. CASE RequestDone(p)
  <2>1. Waits(p, Transfers) /\ Mine(p) = {} /\ Completes(p, t, c)
    BY <1>3 DEF RequestDone
  <2>2. c.op # "barrier"
    BY <2>1 DEF Waits, Transfers
  <2>3. CASE Return(p, t, "ok", Decoded(p, c))
    <3>1. GoodReply(p, t, Decoded(p, c))
      BY <2>2 DEF GoodReply
    <3> QED
      BY <1>2, <2>1, <2>3, <3>1
  <2>4. CASE Return(p, t, "timeout", <<>>)
    BY <1>2, <2>1, <2>4
  <2>5. CASE Holds(p, NoThread) /\ UNCHANGED <<pos, answer>>
    <3>1. Flow
      BY <1>1, <2>5 DEF Flow, Rests
    <3> QED
      BY <1>1, <2>5, <3>1, IdleStep DEF Holds
  <2> QED
    BY <2>1, <2>3, <2>4, <2>5 DEF Completes
<1>4. CASE RequestDoneLocally(p)
  <2>1. Waits(p, LocalOps) /\ Return(p, t, "ok", Decoded(p, c))
    BY <1>4 DEF RequestDoneLocally
  <2>2. c.op # "barrier" /\ c.op \notin Reads
    BY <2>1 DEF Waits, LocalOps, Reads
  <2>3. GoodReply(p, t, Decoded(p, c))
    BY <2>2 DEF GoodReply
  <2> QED
    BY <1>2, <2>1, <2>2, <2>3
<1>5. CASE RequestFails(p)
  <2>1. Waits(p, Transfers) /\ Return(p, t, "error", <<>>)
    BY <1>5 DEF RequestFails
  <2>2. c.op \in Reads => Mine(p) \cap flight' = {}
    BY <1>5 DEF RequestFails
  <2> QED
    BY <1>2, <2>1, <2>2
<1>6. CASE Flush(p)
  <2>1. /\ Waits(p, Quiets)
        /\ Return(p, t, "ok", <<>>) \/ UNCHANGED <<pos, answer, running>>
    BY <1>6 DEF Flush
  <2>2. c.op # "barrier" /\ c.op \notin Reads
    BY <2>1 DEF Waits, Quiets, Reads
  <2>3. CASE Return(p, t, "ok", <<>>)
    <3>1. GoodReply(p, t, <<>>)
      BY <2>2 DEF GoodReply, Reads
    <3> QED
      BY <1>2, <2>1, <2>2, <2>3, <3>1
  <2>4. CASE UNCHANGED <<pos, answer, running>>
    <3>1. Flow
      BY <1>1, <2>4 DEF Flow, Rests
    <3> QED
      BY <1>1, <2>4, <3>1, IdleStep
  <2> QED
    BY <2>1, <2>3, <2>4
<1>7. CASE FlushFails(p)
  <2>1. Waits(p, Quiets) /\ Return(p, t, "error", <<>>)
    BY <1>7 DEF FlushFails
  <2>2. c.op \notin Reads
    BY <2>1 DEF Waits, Quiets, Reads
  <2> QED
    BY <1>2, <2>1, <2>2
<1>8. CASE WaitBarrier(p)
  <2>1. Waits(p, {"barrier"}) /\ BarrierDone(p) /\ Return(p, t, "ok", <<entered[p]>>)
    BY <1>8 DEF WaitBarrier
  <2>2. c.op = "barrier"
    BY <2>1 DEF Waits
  <2>3. GoodReply(p, t, <<entered[p]>>)
    BY <2>1, <2>2 DEF GoodReply, InBarrier
  <2>4. c.op \notin Reads
    BY <2>2 DEF Reads
  <2> QED
    BY <1>2, <2>1, <2>3, <2>4
<1>9. CASE BarrierFails(p)
  <2>1. Waits(p, {"barrier"}) /\ Return(p, t, "error", <<>>)
    BY <1>9 DEF BarrierFails
  <2>2. c.op \notin Reads
    BY <2>1 DEF Waits, Reads
  <2> QED
    BY <1>2, <2>1, <2>2
<1> QED
  BY <1>3, <1>4, <1>5, <1>6, <1>7, <1>8, <1>9

LEMMA NextReply ==
  ASSUME TypeOK, AnswersOK, RunningOK, ElementsOK, [Next]_vars
  PROVE  ReplyShape
<1>1. CASE \E p \in PEs, t \in Threads : Call(p, t)
  BY <1>1, CallReply
<1>2. CASE \E p \in PEs : \/ RequestDone(p) \/ RequestDoneLocally(p) \/ RequestFails(p)
                          \/ Flush(p) \/ FlushFails(p) \/ WaitBarrier(p) \/ BarrierFails(p)
  BY <1>2, WaitReply
<1>3. ASSUME NEW p \in PEs, NEW q \in PEs, Deliver(p, q)
      PROVE  ReplyShape
  <2>1. PICK e \in Outstanding(p, q) :
          /\ ~ Undeliverable(e)
          /\ \A d \in Outstanding(p, q) : d.epoch >= e.epoch
          /\ flight' = flight \ {e}
          /\ log' = IF CallOf(e).op = "await" THEN log ELSE Append(log, e)
          /\ buffer' = IF CallOf(e).op \in Reads
                       THEN [buffer EXCEPT ![p][e.elem] = ram[q][e.addr]]
                       ELSE buffer
          /\ UNCHANGED <<program, up, running, pos, answer, epoch, left, entered>>
    BY <1>3 DEF Deliver
  <2>2. /\ e \in flight /\ e.pe = p /\ CallOf(e).pe = q /\ e.addr \in Region(q)
        /\ \A d \in flight : (d.pe = e.pe /\ CallOf(d).pe = CallOf(e).pe) => d.epoch >= e.epoch
    BY <2>1 DEF Outstanding, Undeliverable
  <2>3. Carries(e)
    BY <2>1, <2>2 DEF Carries, Lands
  <2>4. Flow
    BY <2>2, <2>3 DEF Flow
  <2> QED
    BY <2>1, <2>4, IdleStep
<1>4. CASE UNCHANGED vars
  <2>1. Flow
    BY <1>4 DEF vars, Flow, Rests
  <2> QED
    BY <1>4, <2>1, IdleStep DEF vars
<1> QED
  BY <1>1, <1>2, <1>3, <1>4 DEF Next

----------------------------------------------------------------------------

(* Barriers.  What a thread that returned from a barrier, or waits in one, *)
(* may rely on: the number of the barrier, and what is published by it.    *)
OkBarrier(p, t, b) == Script(p, t)[b].op = "barrier" /\ Ok(p, t, b)
Number(p, t, b) == answer[p][t][b].values[1]

(* The write w of p, t was completed by a quiet before call b.             *)
Completed(p, t, b, w) ==
  \E j \in 1 .. b - 1 :
    /\ w \in 1 .. j - 1
    /\ Ok(p, t, j) /\ Covers(p, t, j, Script(p, t)[w].pe)
    /\ Script(p, t)[w].op \in Writes /\ Ok(p, t, w)

(* Entry n of the log is a get after barrier number v from element i of    *)
(* what the write w of p, t wrote.                                         *)
Sees(p, t, w, i, v, n) ==
  /\ CallOf(log[n]).op = "get"
  /\ AfterBarrier(log[n].pe, log[n].thread, log[n].call, v)
  /\ Cell(log[n]) = <<Script(p, t)[w].pe, Script(p, t)[w].offset + (i - 1) * SIZE>>

Preceded(p, t, w, i, n) ==
  \E m \in 1 .. n - 1 :
    log[m].pe = p /\ log[m].thread = t /\ log[m].call = w /\ log[m].elem = i

(* What p, t completed before its call b is in the log before every get    *)
(* after barrier number v.                                                 *)
Publishes(p, t, b, v) ==
  \A w \in 1 .. Len(Script(p, t)) : Completed(p, t, b, w) =>
    \A n \in 1 .. Len(log) : \A i \in 1 .. Script(p, t)[w].len :
      Sees(p, t, w, i, v, n) => Preceded(p, t, w, i, n)

(* All PEs have entered the barriers that anybody has returned from.       *)
NumbersOK ==
  \A p \in PEs, t \in Threads : \A b \in 1 .. Len(Script(p, t)) :
    OkBarrier(p, t, b) =>
      Number(p, t, b) \in Nat /\ \A q \in PEs : entered[q] >= Number(p, t, b)

ReturnedOK ==
  \A p \in PEs, t \in Threads : \A b \in 1 .. Len(Script(p, t)) :
    OkBarrier(p, t, b) => Publishes(p, t, b, Number(p, t, b))

WaitingOK ==
  \A p \in PEs, t \in Threads :
    InBarrier(p, t) => Publishes(p, t, pos[p][t], entered[p])

BarrierInv == NumbersOK /\ ReturnedOK /\ WaitingOK


(* Calls before the one a thread is at keep their answers.                 *)
LEMMA OldAnswers ==
  ASSUME TypeOK, AnswersOK, ReplyShape, NEW p \in PEs, NEW t \in Threads,
         NEW k \in 1 .. Len(Script(p, t)), k < pos[p][t] \/ Ok(p, t, k)
  PROVE  answer'[p][t][k] = answer[p][t][k]
<1>1. AnswerStep(p, t, k)
  BY DEF ReplyShape
<1>2. pos[p][t] \in Nat
  BY DEF TypeOK
<1>3. k # pos[p][t]
  BY <1>2 DEF AnswersOK
<1> QED
  BY <1>1, <1>3 DEF AnswerStep

(* A get in the log has come after the same barriers as when it landed.    *)
LEMMA SameBarriers ==
  ASSUME TypeOK, AnswersOK, ElementsOK, ReplyShape, NEW e \in Landed, NEW v
  PROVE  AfterBarrier(e.pe, e.thread, e.call, v)' => AfterBarrier(e.pe, e.thread, e.call, v)
<1>1. /\ e.pe \in PEs /\ e.thread \in Threads
      /\ e.call \in 1 .. Len(Script(e.pe, e.thread))
      /\ e.call <= pos[e.pe][e.thread]
  BY KnownElements DEF ElementsOK, Known
<1>2. Len(Script(e.pe, e.thread)) \in Nat /\ pos[e.pe][e.thread] \in Nat
  BY <1>1, ScriptType DEF TypeOK
<1>3. ASSUME NEW b \in 1 .. e.call - 1
      PROVE  answer'[e.pe][e.thread][b] = answer[e.pe][e.thread][b]
  <2>1. b \in 1 .. Len(Script(e.pe, e.thread)) /\ b < pos[e.pe][e.thread]
    BY <1>1, <1>2
  <2> QED
    BY <1>1, <2>1, OldAnswers
<1>4. Script(e.pe, e.thread)' = Script(e.pe, e.thread)
  BY DEF ReplyShape, Script
<1> QED
  BY <1>3, <1>4 DEF AfterBarrier, Ok

(* quiet completed what it covers: a completed write is in the log.        *)
LEMMA CompletedLanded ==
  ASSUME TypeOK, QuietCompletes, NEW p \in PEs, NEW t \in Threads,
         NEW b \in 1 .. Len(Script(p, t)), NEW w \in 1 .. Len(Script(p, t)), Completed(p, t, b, w),
         NEW i \in 1 .. Script(p, t)[w].len
  PROVE  \E m \in 1 .. Len(log) :
           log[m].pe = p /\ log[m].thread = t /\ log[m].call = w /\ log[m].elem = i
<1>1. PICK j \in 1 .. b - 1 :
        /\ w \in 1 .. j - 1
        /\ Ok(p, t, j) /\ Covers(p, t, j, Script(p, t)[w].pe)
        /\ Script(p, t)[w].op \in Writes /\ Ok(p, t, w)
  BY DEF Completed
<1>2. j \in 1 .. Len(Script(p, t))
  BY ScriptType DEF TypeOK
<1>3. PICK e \in Landed : e.pe = p /\ e.thread = t /\ e.call = w /\ e.elem = i
  BY <1>1, <1>2 DEF QuietCompletes, Writes
<1> QED
  BY <1>3 DEF Landed

(* What is published stays so: by the time a get lands after the barrier,  *)
(* the write has landed.                                                   *)
LEMMA PublishesStays ==
  ASSUME TypeOK, AnswersOK, ElementsOK, QuietCompletes, ReplyShape, log' \in Seq(Elements),
         NEW p \in PEs, NEW t \in Threads, NEW b \in 1 .. Len(Script(p, t)),
         b <= pos[p][t], NEW v, Publishes(p, t, b, v)
  PROVE  Publishes(p, t, b, v)'
<1>1. Script(p, t)' = Script(p, t) /\ Len(Script(p, t)) \in Nat
  BY ScriptType DEF ReplyShape, Script, TypeOK
<1>2. ASSUME NEW w \in 1 .. Len(Script(p, t)), Completed(p, t, b, w)'
      PROVE  Completed(p, t, b, w)
  <2>1. PICK j \in 1 .. b - 1 :
          /\ w \in 1 .. j - 1
          /\ Ok(p, t, j)' /\ Covers(p, t, j, Script(p, t)[w].pe)'
          /\ Script(p, t)[w].op \in Writes /\ Ok(p, t, w)'
    BY <1>1, <1>2 DEF Completed
  <2>2. /\ j \in 1 .. Len(Script(p, t)) /\ j < pos[p][t] /\ w < pos[p][t]
    <3>1. pos[p][t] \in Nat
      BY DEF TypeOK
    <3> QED
      BY <1>1, <2>1, <3>1
  <2>3. Ok(p, t, j) /\ Ok(p, t, w)
    BY <2>1, <2>2, OldAnswers DEF Ok
  <2>4. Covers(p, t, j, Script(p, t)[w].pe)
    BY <1>1, <2>1 DEF Covers
  <2> QED
    BY <2>1, <2>3, <2>4 DEF Completed
<1>3. log \in Seq(Elements) /\ Len(log) \in Nat
  BY DEF TypeOK
<1>4. PICK ext \in {0, 1} : /\ Len(log') = Len(log) + ext
                            /\ \A n \in 1 .. Len(log) : log'[n] = log[n]
  <2>1. CASE log' = log
    BY <1>3, <2>1
  <2>2. ASSUME NEW e, log' = Append(log, e)
        PROVE  Len(log') = Len(log) + 1 /\ \A n \in 1 .. Len(log) : log'[n] = log[n]
    BY <1>3, <2>2
  <2>3. log' = log \/ \E e : log' = Append(log, e)
    BY DEF ReplyShape, Flow, Fills, Posts, Carries, Lands, Rests
  <2> QED
    BY <1>3, <2>1, <2>2, <2>3
<1>5. ASSUME NEW w \in 1 .. Len(Script(p, t)), Completed(p, t, b, w)',
             NEW n \in 1 .. Len(log'), NEW i \in 1 .. Script(p, t)[w].len,
             Sees(p, t, w, i, v, n)'
      PROVE  Preceded(p, t, w, i, n)'
  <2>1. Completed(p, t, b, w)
    BY <1>2, <1>5
  <2>2. CASE n \in 1 .. Len(log)
    <3>1. log'[n] = log[n] /\ log[n] \in Landed
      BY <1>4, <2>2 DEF Landed
    <3>2. Sees(p, t, w, i, v, n)
      <4>1. CallOf(log[n])' = CallOf(log[n])
        BY <3>1 DEF CallOf, Script, ReplyShape
      <4>2. Cell(log[n])' = Cell(log[n])
        BY <3>1, <4>1 DEF Cell
      <4>3. AfterBarrier(log[n].pe, log[n].thread, log[n].call, v)
        BY <1>5, <3>1, SameBarriers DEF Sees
      <4> QED
        BY <1>1, <1>5, <4>1, <4>2, <4>3 DEF Sees
    <3>3. Preceded(p, t, w, i, n)
      BY <2>1, <2>2, <3>2 DEF Publishes
    <3>4. \A m \in 1 .. n - 1 : log'[m] = log[m]
      BY <1>3, <1>4, <2>2
    <3> QED
      BY <3>3, <3>4 DEF Preceded
  <2>3. CASE n \notin 1 .. Len(log)
    <3>1. PICK m \in 1 .. Len(log) :
            log[m].pe = p /\ log[m].thread = t /\ log[m].call = w /\ log[m].elem = i
      BY <2>1, CompletedLanded
    <3>2. m \in 1 .. n - 1 /\ log'[m] = log[m]
      BY <1>3, <1>4, <2>3, <3>1
    <3> QED
      BY <3>1, <3>2 DEF Preceded
  <2> QED
    BY <2>2, <2>3
<1> QED
  BY <1>1, <1>5 DEF Publishes

(* A barrier that a thread returns from Ok in this step, or returned from  *)
(* before.                                                                 *)
LEMMA OkBarrierStep ==
  ASSUME TypeOK, AnswersOK, ReplyShape, NEW p \in PEs, NEW t \in Threads,
         NEW b \in 1 .. Len(Script(p, t)), OkBarrier(p, t, b)'
  PROVE  \/ OkBarrier(p, t, b) /\ Number(p, t, b)' = Number(p, t, b) /\ b < pos[p][t]
         \/ /\ b = pos[p][t] /\ InBarrier(p, t) /\ BarrierDone(p)
            /\ Number(p, t, b)' = entered[p]
<1>1. Script(p, t)' = Script(p, t)
  BY DEF ReplyShape, Script
<1>2. Script(p, t)[b].op = "barrier" /\ answer'[p][t][b].status = "ok"
  BY <1>1 DEF OkBarrier, Ok
<1>3. AnswerStep(p, t, b)
  BY DEF ReplyShape
<1>4. CASE answer'[p][t][b] = answer[p][t][b]
  <2>1. OkBarrier(p, t, b) /\ Number(p, t, b)' = Number(p, t, b)
    BY <1>2, <1>4 DEF OkBarrier, Ok, Number
  <2>2. b < pos[p][t]
    <3>1. pos[p][t] \in Nat
      BY DEF TypeOK
    <3>2. Ok(p, t, b)
      BY <2>1 DEF OkBarrier
    <3> QED
      BY <3>1, <3>2 DEF AnswersOK
  <2> QED
    BY <2>1, <2>2
<1>5. CASE answer'[p][t][b] # answer[p][t][b]
  <2>1. b = pos[p][t] /\ GoodReply(p, t, answer'[p][t][b].values)
    BY <1>2, <1>3, <1>5 DEF AnswerStep
  <2>2. Current(p, t).op = "barrier"
    BY <1>2, <2>1 DEF Current
  <2>3. InBarrier(p, t) /\ BarrierDone(p) /\ answer'[p][t][b].values = <<entered[p]>>
    BY <2>1, <2>2 DEF GoodReply
  <2> QED
    BY <2>1, <2>3 DEF Number
<1> QED
  BY <1>4, <1>5

LEMMA NumbersPreserved ==
  ASSUME TypeOK, AnswersOK, ReplyShape, NumbersOK
  PROVE  NumbersOK'
<1> SUFFICES ASSUME NEW p \in PEs, NEW t \in Threads, NEW b \in 1 .. Len(Script(p, t)),
                    OkBarrier(p, t, b)'
             PROVE  Number(p, t, b)' \in Nat /\ \A q \in PEs : entered'[q] >= Number(p, t, b)'
  BY DEF NumbersOK, ReplyShape, Script
<1>1. /\ entered \in [PEs -> Nat] /\ entered' \in [PEs -> Nat]
      /\ \A q \in PEs : entered'[q] >= entered[q]
  BY DEF TypeOK, ReplyShape
<1>2. CASE OkBarrier(p, t, b) /\ Number(p, t, b)' = Number(p, t, b)
  BY <1>1, <1>2 DEF NumbersOK
<1>3. CASE BarrierDone(p) /\ Number(p, t, b)' = entered[p]
  BY <1>1, <1>3 DEF BarrierDone
<1> QED
  BY <1>2, <1>3, OkBarrierStep

LEMMA ReturnedPreserved ==
  ASSUME TypeOK, AnswersOK, ElementsOK, QuietCompletes, ReplyShape, log' \in Seq(Elements),
         ReturnedOK, WaitingOK
  PROVE  ReturnedOK'
<1> SUFFICES ASSUME NEW p \in PEs, NEW t \in Threads, NEW b \in 1 .. Len(Script(p, t)),
                    OkBarrier(p, t, b)'
             PROVE  Publishes(p, t, b, Number(p, t, b))'
  BY DEF ReturnedOK, ReplyShape, Script
<1>1. PICK v : v = Number(p, t, b)'
  OBVIOUS
<1>2. Publishes(p, t, b, v) /\ b <= pos[p][t]
  <2>1. CASE OkBarrier(p, t, b) /\ v = Number(p, t, b) /\ b < pos[p][t]
    BY <2>1 DEF ReturnedOK, TypeOK
  <2>2. CASE b = pos[p][t] /\ InBarrier(p, t) /\ v = entered[p]
    BY <2>2 DEF WaitingOK, TypeOK
  <2> QED
    BY <1>1, <2>1, <2>2, OkBarrierStep
<1>3. Publishes(p, t, b, v)'
  BY <1>2, PublishesStays
<1> QED
  BY <1>1, <1>3 DEF Publishes, Sees

LEMMA WaitingPreserved ==
  ASSUME TypeOK, AnswersOK, RunningOK, RunningOK', ElementsOK, QuietCompletes, ReplyShape,
         log' \in Seq(Elements), NumbersOK, WaitingOK
  PROVE  WaitingOK'
<1> SUFFICES ASSUME NEW p \in PEs, NEW t \in Threads, InBarrier(p, t)'
             PROVE  Publishes(p, t, pos[p][t], entered[p])'
  BY DEF WaitingOK
<1>1. HoldStep(p, t) /\ running'[p] = t
  BY DEF ReplyShape, InBarrier
<1>2. /\ pos'[p][t] = pos[p][t] /\ Script(p, t)' = Script(p, t)
      /\ Current(p, t)' = Current(p, t) /\ Current(p, t).op = "barrier"
  BY <1>1 DEF HoldStep, ReplyShape, Script, Current, InBarrier
<1>3. pos[p][t] \in 1 .. Len(Script(p, t))
  <2>1. running'[p] = t /\ t # NoThread
    BY RmaAssumption DEF InBarrier, NoThread
  <2>2. pos'[p][t] <= Len(Script(p, t)')
    BY <2>1 DEF RunningOK, RunsOK
  <2>3. pos[p][t] \in Nat /\ pos[p][t] >= 1 /\ Len(Script(p, t)) \in Nat
    BY ScriptType DEF TypeOK, AnswersOK
  <2> QED
    BY <1>2, <2>2, <2>3
<1>4. PICK b \in 1 .. Len(Script(p, t)) : b = pos[p][t]
  BY <1>3
<1>5. PICK v : v = entered'[p]
  OBVIOUS
<1>6. b <= pos[p][t]
  BY <1>4 DEF TypeOK
<1>7. Publishes(p, t, b, v)
  <2>1. CASE InBarrier(p, t) /\ entered'[p] = entered[p]
    BY <1>4, <1>5, <2>1 DEF WaitingOK
  <2>2. CASE entered'[p] = entered[p] + 1
    <3>1. entered[p] \in Nat /\ v = entered[p] + 1
      BY <1>5, <2>2 DEF TypeOK
    <3>2. \A e \in Landed : ~ AfterBarrier(e.pe, e.thread, e.call, v)
      <4> SUFFICES ASSUME NEW e \in Landed, AfterBarrier(e.pe, e.thread, e.call, v)
                   PROVE  FALSE
        OBVIOUS
      <4>1. /\ e.pe \in PEs /\ e.thread \in Threads
            /\ e.call \in 1 .. Len(Script(e.pe, e.thread))
        BY KnownElements DEF ElementsOK, Known
      <4>2. PICK k \in 1 .. e.call - 1 :
              OkBarrier(e.pe, e.thread, k) /\ Number(e.pe, e.thread, k) >= v
        BY DEF AfterBarrier, OkBarrier, Number
      <4>3. k \in 1 .. Len(Script(e.pe, e.thread))
        BY <4>1, ScriptType DEF TypeOK
      <4>4. Number(e.pe, e.thread, k) \in Nat /\ entered[p] >= Number(e.pe, e.thread, k)
        BY <4>1, <4>2, <4>3 DEF NumbersOK
      <4> QED
        BY <3>1, <4>2, <4>4
    <3>3. \A n \in 1 .. Len(log) : log[n] \in Landed
      BY DEF Landed
    <3> QED
      BY <3>2, <3>3 DEF Publishes, Sees
  <2> QED
    BY <1>1, <1>2, <2>1, <2>2 DEF HoldStep, InBarrier
<1>8. Publishes(p, t, b, v)'
  BY <1>6, <1>7, PublishesStays
<1> QED
  BY <1>2, <1>4, <1>5, <1>8 DEF Publishes, Sees, Completed

(* A program starts with no answers and nobody in a barrier.               *)
LEMMA InitBarrier ==
  ASSUME Init
  PROVE  BarrierInv
<1>1. \A p \in PEs, t \in Threads : \A k \in 1 .. Len(Script(p, t)) : ~ Ok(p, t, k)
  BY DEF Init, Ok, NoAnswer
<1>2. \A p \in PEs, t \in Threads : running[p] # t
  BY RmaAssumption DEF Init, NoThread
<1> QED
  BY <1>1, <1>2 DEF BarrierInv, NumbersOK, ReturnedOK, WaitingOK, OkBarrier, InBarrier

(* BarrierInvariant: nobody is past a barrier that a PE has not entered,   *)
(* and what a thread completed before the barrier it waits in or has       *)
(* returned from is in the log before every get after that barrier.        *)
THEOREM BarrierInvariant == Spec => []BarrierInv
<1>1. Init => BarrierInv
  BY InitBarrier
<1>2. Inv /\ Inv' /\ BarrierInv /\ [Next]_vars => BarrierInv'
  <2> SUFFICES ASSUME Inv, Inv', BarrierInv, [Next]_vars
               PROVE  BarrierInv'
    OBVIOUS
  <2>1. /\ TypeOK /\ AnswersOK /\ RunningOK /\ ElementsOK /\ QuietCompletes
        /\ RunningOK' /\ log' \in Seq(Elements)
    BY DEF Inv, TypeOK
  <2>2. ReplyShape
    BY <2>1, NextReply
  <2> QED
    BY <2>1, <2>2, NumbersPreserved, ReturnedPreserved, WaitingPreserved DEF BarrierInv
<1> QED
  BY <1>1, <1>2, RmaInvariant, PTL DEF Spec

(* BarrierIsPublication: a write that its thread completed with quiet or   *)
(* quiet_pe before a barrier is seen by every get that any thread of any   *)
(* PE makes after that barrier; the contract of examples/barrier.rs.       *)
THEOREM BarrierIsPublication == Spec => []BarrierPublishes
<1>1. Inv /\ BarrierInv => BarrierPublishes
  <2> SUFFICES ASSUME Inv, BarrierInv, NEW p \in PEs, NEW r \in PEs, NEW t \in Threads, NEW s \in Threads,
                      NEW b \in 1 .. Len(Script(p, t)), NEW j \in 1 .. b - 1, NEW w \in 1 .. j - 1,
                      Script(p, t)[b].op = "barrier", Ok(p, t, b),
                      Ok(p, t, j), Covers(p, t, j, Script(p, t)[w].pe),
                      Script(p, t)[w].op \in {"put", "atomic"}, Ok(p, t, w)
               PROVE  \A n \in 1 .. Len(log) :
                        (/\ log[n].pe = r /\ log[n].thread = s /\ CallOf(log[n]).op = "get"
                         /\ AfterBarrier(r, s, log[n].call, answer[p][t][b].values[1]))
                          => \A i \in 1 .. Script(p, t)[w].len :
                               Cell(log[n]) = <<Script(p, t)[w].pe, Script(p, t)[w].offset + (i - 1) * SIZE>>
                                 => Preceded(p, t, w, i, n)
    BY DEF BarrierPublishes, Preceded
  <2> TAKE n \in 1 .. Len(log)
  <2> HAVE /\ log[n].pe = r /\ log[n].thread = s /\ CallOf(log[n]).op = "get"
           /\ AfterBarrier(r, s, log[n].call, answer[p][t][b].values[1])
  <2> TAKE i \in 1 .. Script(p, t)[w].len
  <2> HAVE Cell(log[n]) = <<Script(p, t)[w].pe, Script(p, t)[w].offset + (i - 1) * SIZE>>
  <2>1. w \in 1 .. Len(Script(p, t))
    <3>1. program \in Programs
      BY DEF Inv, TypeOK
    <3>2. Len(Script(p, t)) \in Nat
      BY <3>1, ScriptType
    <3> QED
      BY <3>2
  <2>2. Completed(p, t, b, w)
    BY DEF Completed, Writes
  <2>3. Publishes(p, t, b, Number(p, t, b))
    BY DEF BarrierInv, ReturnedOK, OkBarrier
  <2>4. Sees(p, t, w, i, Number(p, t, b), n)
    BY DEF Sees, Number
  <2> QED
    BY <2>1, <2>2, <2>3, <2>4 DEF Publishes
<1> QED
  BY <1>1, RmaInvariant, BarrierInvariant, PTL

----------------------------------------------------------------------------

(* Effects.  What has been posted aims at the word its caller named: the   *)
(* offset translated to the base of the target.                            *)
AimsOK ==
  \A e \in flight :
    /\ e.elem \in 1 .. CallOf(e).len
    /\ e.addr = Address(e.pe, CallOf(e), e.elem)

LEMMA AimsPreserved ==
  ASSUME TypeOK, AnswersOK, Shape, AimsOK
  PROVE  AimsOK'
<1>1. \A e : CallOf(e)' = CallOf(e)
  BY ShapeKeepsProgram DEF CallOf, Script
<1>2. CASE flight' \subseteq flight
  BY <1>1, <1>2 DEF AimsOK, Address
<1>3. ASSUME NEW p \in PEs, NEW t \in Threads, Posts(p, t)
      PROVE  AimsOK'
  <2>1. flight' = flight \cup
         { [pe |-> p, thread |-> t, call |-> pos[p][t], elem |-> i,
            addr |-> Address(p, Current(p, t), i), epoch |-> epoch[p]] : i \in 1 .. Current(p, t).len }
    BY <1>3 DEF Posts
  <2>2. ASSUME NEW i \in 1 .. Current(p, t).len, NEW e,
               e = [pe |-> p, thread |-> t, call |-> pos[p][t], elem |-> i,
                    addr |-> Address(p, Current(p, t), i), epoch |-> epoch[p]]
        PROVE  e.elem \in 1 .. CallOf(e).len /\ e.addr = Address(e.pe, CallOf(e), e.elem)
    <3>1. CallOf(e) = Current(p, t)
      BY <2>2 DEF CallOf, Current
    <3> QED
      BY <2>2, <3>1
  <2>3. \A e \in flight' : e.elem \in 1 .. CallOf(e).len /\ e.addr = Address(e.pe, CallOf(e), e.elem)
    BY <2>1, <2>2 DEF AimsOK
  <2> QED
    BY <1>1, <2>3 DEF AimsOK, Address
<1>4. CASE Silent
  BY <1>2, <1>3, <1>4 DEF Silent, Starts, Continues, Releases, Lands
<1>5. CASE \E p \in PEs, t \in Threads, ok \in BOOLEAN : Answers(p, t, ok)
  BY <1>2, <1>5, AnswerKeeps
<1> QED
  BY <1>4, <1>5, ShapeCases

(* The step that carries an element out does to its cell what the call     *)
(* says, and nothing else.                                                 *)
Offsets == { SIZE * i : i \in 0 .. (Capacity \div SIZE) - 1 }
Word(q, o) == ram[q][Base[q] + o]

TakesEffect(e) ==
  \A q \in PEs, o \in Offsets :
    Word(q, o)' = IF Cell(e) = <<q, o>> THEN Effect(CallOf(e), e.elem, Word(q, o)) ELSE Word(q, o)

EffectStep ==
  \/ log' = log /\ \A q \in PEs, o \in Offsets : Word(q, o)' = Word(q, o)
  \/ \E e \in flight : CallOf(e).op # "await" /\ log' = Append(log, e) /\ TakesEffect(e)

(* What UCX stores is what the call means, in the arithmetic of residues.  *)
LEMMA StoredIsEffect ==
  ASSUME NEW c \in Calls, NEW i \in 1 .. c.len, NEW old, c.op \in Transfers, c.op # "await"
  PROVE  StoredWord(c, i, old) = Effect(c, i, old)
<1>1. c.args \in Seq(Int) /\ (c.op = "put" => c.len = Len(c.args)) /\ c.len \in Nat
  BY DEF Calls
<1>2. [k \in DOMAIN c.args |-> Bits(c.args[k])] = [k \in DOMAIN c.args |-> c.args[k] % Modulus]
  BY DEF Bits
<1>3. CASE c.op = "put"
  <2>1. i \in DOMAIN c.args
    BY <1>1, <1>3
  <2>2. StoredWord(c, i, old) = c.args[i] % Modulus
    BY <1>3 DEF StoredWord, Bits
  <2>3. Effect(c, i, old) = [k \in DOMAIN c.args |-> c.args[k] % Modulus][i]
    BY <1>3 DEF Effect
  <2> QED
    BY <2>1, <2>2, <2>3
<1>4. CASE c.op \in {"atomic", "fetch"}
  BY <1>2, <1>4 DEF StoredWord, Effect
<1>5. CASE c.op = "get"
  BY <1>5 DEF StoredWord, Effect
<1> QED
  BY <1>3, <1>4, <1>5 DEF Transfers

(* An element in flight to a word of its target names that word.           *)
LEMMA CellAddress ==
  ASSUME TypeOK, ElementsOK, AimsOK, NEW e \in flight
  PROVE  \E x \in Nat : /\ Cell(e) = <<CallOf(e).pe, x>>
                        /\ e.addr = Base[CallOf(e).pe] + x
<1> DEFINE c == CallOf(e)
           q == c.pe
<1>1. /\ e.call \in 1 .. Len(Script(e.pe, e.thread)) /\ q \in PEs
      /\ e.pe \in PEs /\ e.thread \in Threads
      /\ e.elem \in 1 .. c.len /\ e.addr = Address(e.pe, c, e.elem)
  BY KnownElements DEF ElementsOK, AimsOK, Known
<1>2. c \in Calls
  BY <1>1, ScriptType DEF CallOf, TypeOK
<1>3. c.offset \in Nat /\ c.len \in Nat
  BY <1>2 DEF Calls
<1> HIDE DEF c
<1>4. PICK x \in Nat : x = c.offset + (e.elem - 1) * SIZE
  <2>1. e.elem - 1 \in Nat /\ SIZE \in Nat
    BY <1>1, <1>3, RmaAssumption
  <2>2. (e.elem - 1) * SIZE \in Nat
    BY <2>1
  <2> QED
    BY <1>3, <2>2
<1>5. Cell(e) = <<q, x>>
  BY <1>4 DEF Cell, c
<1>6. \A y \in Int : Base[q] + c.offset + y = Base[q] + (c.offset + y)
  BY <1>1, <1>3, RmaAssumption
<1>7. (e.elem - 1) * SIZE \in Int
  BY <1>1, <1>3, RmaAssumption
<1>8. e.addr = Base[q] + c.offset + (e.elem - 1) * SIZE
  BY <1>1 DEF Address
<1>9. e.addr = Base[q] + (c.offset + (e.elem - 1) * SIZE)
  BY <1>6, <1>7, <1>8
<1> QED
  BY <1>4, <1>5, <1>9 DEF c

LEMMA DeliverEffect ==
  ASSUME TypeOK, ElementsOK, AimsOK, NEW p \in PEs, NEW q \in PEs, Deliver(p, q)
  PROVE  EffectStep
<1>1. PICK e \in Outstanding(p, q) :
        /\ ~ Undeliverable(e)
        /\ ram' = [ram EXCEPT ![q][e.addr] = StoredWord(CallOf(e), e.elem, @)]
        /\ log' = IF CallOf(e).op = "await" THEN log ELSE Append(log, e)
  BY DEF Deliver
<1> DEFINE c == CallOf(e)
<1>2. e \in flight /\ c.pe = q
  BY DEF Outstanding
<1>3. /\ e.call \in 1 .. Len(Script(e.pe, e.thread)) /\ c.op \in Transfers
      /\ e.pe \in PEs /\ e.thread \in Threads /\ e.elem \in 1 .. c.len
  BY <1>2, KnownElements DEF ElementsOK, AimsOK, Known
<1>4. c \in Calls
  BY <1>3, ScriptType DEF CallOf, TypeOK
<1> HIDE DEF c
<1>5. PICK x \in Nat : e.addr = Base[q] + x /\ Cell(e) = <<q, x>>
  BY <1>2, CellAddress DEF c
<1>6. e.addr \in Region(q) /\ DOMAIN ram = PEs /\ \A r \in PEs : DOMAIN ram[r] = Region(r)
  BY <1>1, <1>2 DEF Undeliverable, TypeOK, c
<1>7. ASSUME NEW r \in PEs, NEW o \in Offsets
      PROVE  Word(r, o)' = IF Cell(e) = <<r, o>> THEN StoredWord(c, e.elem, Word(r, o)) ELSE Word(r, o)
  <2>1. o \in Int /\ Base[r] \in Int /\ Base[q] \in Int
    BY RmaAssumption DEF Offsets
  <2>2. CASE r = q /\ o = x
    <3>1. Word(r, o)' = StoredWord(c, e.elem, Word(r, o))
      BY <1>1, <1>5, <1>6, <2>2 DEF Word, c
    <3> QED
      BY <1>5, <2>2, <3>1
  <2>3. CASE r # q
    <3>1. Word(r, o)' = Word(r, o)
      BY <1>1, <1>6, <2>3 DEF Word
    <3> QED
      BY <1>5, <2>3, <3>1
  <2>4. CASE r = q /\ o # x
    <3>1. Base[r] + o # e.addr
      BY <1>5, <2>1, <2>4
    <3>2. Word(r, o)' = Word(r, o)
      BY <1>1, <1>6, <2>4, <3>1 DEF Word
    <3> QED
      BY <1>5, <2>4, <3>2
  <2> QED
    BY <2>2, <2>3, <2>4
<1>8. CASE c.op = "await"
  <2>1. \A old : StoredWord(c, e.elem, old) = old
    BY <1>8 DEF StoredWord
  <2>2. log' = log
    BY <1>1, <1>8 DEF c
  <2> QED
    BY <1>7, <2>1, <2>2 DEF EffectStep
<1>9. CASE c.op # "await"
  <2>1. \A old : StoredWord(c, e.elem, old) = Effect(c, e.elem, old)
    BY <1>3, <1>4, <1>9, StoredIsEffect
  <2>2. TakesEffect(e)
    BY <1>7, <2>1 DEF TakesEffect, c
  <2>3. log' = Append(log, e)
    BY <1>1, <1>9 DEF c
  <2> QED
    BY <1>2, <1>9, <2>2, <2>3 DEF EffectStep, c
<1> QED
  BY <1>8, <1>9

LEMMA NextEffect ==
  ASSUME TypeOK, ElementsOK, AimsOK, [Next]_vars
  PROVE  EffectStep
<1>1. ASSUME UNCHANGED <<ram, log>>  PROVE EffectStep
  BY <1>1 DEF EffectStep, Word
<1>2. ASSUME NEW p \in PEs, NEW t \in Threads, Call(p, t)  PROVE EffectStep
  <2>1. ASSUME NEW ops, Transfer(p, t, ops)  PROVE UNCHANGED <<ram, log>>
    BY <2>1 DEF Transfer
  <2>2. UNCHANGED <<ram, log>>
    BY <1>2, <2>1 DEF Call, NotInitialized, TypedLengthOverflow, PutMem, GetMem,
      AtomicOp, AtomicFetch, Fence, Quiet, Barrier, Finalize, Local
  <2> QED
    BY <1>1, <2>2
<1>3. ASSUME NEW p \in PEs,
             \/ RequestDone(p) \/ RequestDoneLocally(p) \/ RequestFails(p)
             \/ Flush(p) \/ FlushFails(p) \/ WaitBarrier(p) \/ BarrierFails(p)
      PROVE  EffectStep
  <2>1. UNCHANGED <<ram, log>>
    BY <1>3 DEF RequestDone, RequestDoneLocally, RequestFails, Flush, FlushFails,
      WaitBarrier, BarrierFails
  <2> QED
    BY <1>1, <2>1
<1>4. CASE UNCHANGED vars
  BY <1>1, <1>4 DEF vars
<1> QED
  BY <1>2, <1>3, <1>4, DeliverEffect DEF Next

----------------------------------------------------------------------------

(* Histories.  The contents of a cell after entries 1 .. n of the log s    *)
(* are the last value of a function that satisfies the recursion of        *)
(* Contents.  That there is one such function, and one value, for every    *)
(* prefix of the log is itself an invariant: it holds of the empty log,    *)
(* and each entry extends it.                                              *)
After(s, cell, i, w) ==
  IF Cell(s[i]) = cell THEN Effect(CallOf(s[i]), s[i].elem, w) ELSE w

IsHistory(g, s, cell, n) ==
  g = [i \in 0 .. n |-> IF i = 0 THEN 0 ELSE After(s, cell, i, g[i - 1])]

Determined(s, cell, n) ==
  /\ \E g : IsHistory(g, s, cell, n)
  /\ \A g, h : IsHistory(g, s, cell, n) /\ IsHistory(h, s, cell, n) => g[n] = h[n]

HistoriesOK == \A cell : \A n \in 0 .. Len(log) : Determined(log, cell, n)

(* Contents is the last value of a history.                                *)
ContentsGiven ==
  \A cell, n : (\E g : IsHistory(g, log, cell, n))
                 => \E g : IsHistory(g, log, cell, n) /\ Contents(cell, n) = g[n]

LEMMA ContentsHistory == ContentsGiven
<1> SUFFICES ASSUME NEW cell, NEW n, \E g : IsHistory(g, log, cell, n)
             PROVE  \E g : IsHistory(g, log, cell, n) /\ Contents(cell, n) = g[n]
  BY DEF ContentsGiven
<1> DEFINE c == CHOOSE g : IsHistory(g, log, cell, n)
<1>1. IsHistory(c, log, cell, n)
  OBVIOUS
<1>2. Contents(cell, n) = c[n]
  BY DEF Contents, IsHistory, After
<1> QED
  BY <1>1, <1>2

(* Calls do not change, so an entry means the same after a step.           *)
LEMMA SameMeaning ==
  ASSUME program' = program
  PROVE  /\ \A e : CallOf(e)' = CallOf(e) /\ Cell(e)' = Cell(e)
         /\ \A g, cell, n : IsHistory(g, log, cell, n)' <=> IsHistory(g, log', cell, n)
<1>1. \A e : CallOf(e)' = CallOf(e)
  BY DEF CallOf, Script
<1>2. \A e : Cell(e)' = Cell(e)
  BY <1>1 DEF Cell
<1>3. \A cell, i, w : After(log, cell, i, w)' = After(log', cell, i, w)
  BY <1>1, <1>2 DEF After
<1>4. \A g, cell, n : IsHistory(g, log, cell, n)' <=> IsHistory(g, log', cell, n)
  BY <1>3 DEF IsHistory
<1> QED
  BY <1>1, <1>2, <1>4

LEMMA ContentsHistoryNext ==
  ASSUME program' = program, NEW cell, NEW n, \E g : IsHistory(g, log', cell, n)
  PROVE  \E g : IsHistory(g, log', cell, n) /\ Contents(cell, n)' = g[n]
<1>1. ContentsGiven'
  BY ContentsHistory, PTL
<1>2. \E g : IsHistory(g, log, cell, n)'
  BY SameMeaning
<1>3. \E g : IsHistory(g, log, cell, n)' /\ Contents(cell, n)' = g[n]
  BY <1>1, <1>2 DEF ContentsGiven
<1> QED
  BY <1>3, SameMeaning

(* Two logs with the same first n entries have the same histories of them. *)
LEMMA SamePrefix ==
  ASSUME NEW s, NEW u, NEW cell, NEW n \in Nat, \A i \in 1 .. n : s[i] = u[i]
  PROVE  \A g : IsHistory(g, s, cell, n) <=> IsHistory(g, u, cell, n)
<1>1. \A i \in 1 .. n : \A w : After(s, cell, i, w) = After(u, cell, i, w)
  BY DEF After
<1>2. ASSUME NEW g
      PROVE  [i \in 0 .. n |-> IF i = 0 THEN 0 ELSE After(s, cell, i, g[i - 1])]
             = [i \in 0 .. n |-> IF i = 0 THEN 0 ELSE After(u, cell, i, g[i - 1])]
  BY <1>1
<1> QED
  BY <1>2 DEF IsHistory

(* A history of n + 1 entries is one of n entries and one more effect.     *)
LEMMA HistoryRestricts ==
  ASSUME NEW s, NEW cell, NEW n \in Nat, NEW g, IsHistory(g, s, cell, n + 1)
  PROVE  \E h : /\ IsHistory(h, s, cell, n)
                /\ g[n + 1] = After(s, cell, n + 1, h[n])
<1> DEFINE h == [i \in 0 .. n |-> g[i]]
<1>1. \A i \in 0 .. n + 1 : g[i] = IF i = 0 THEN 0 ELSE After(s, cell, i, g[i - 1])
  BY DEF IsHistory
<1>2. \A i \in 0 .. n : i \in 0 .. n + 1 /\ (i # 0 => i - 1 \in 0 .. n)
  OBVIOUS
<1>3. \A i \in 0 .. n : h[i] = IF i = 0 THEN 0 ELSE After(s, cell, i, h[i - 1])
  BY <1>1, <1>2
<1>4. IsHistory(h, s, cell, n)
  BY <1>3 DEF IsHistory
<1>5. n + 1 \in 0 .. n + 1 /\ n + 1 # 0 /\ n + 1 - 1 = n /\ h[n] = g[n]
  OBVIOUS
<1>6. g[n + 1] = After(s, cell, n + 1, h[n])
  BY <1>1, <1>5
<1> QED
  BY <1>4, <1>6

LEMMA HistoryExtends ==
  ASSUME NEW s, NEW cell, NEW n \in Nat, NEW h, IsHistory(h, s, cell, n)
  PROVE  \E g : IsHistory(g, s, cell, n + 1)
<1> DEFINE g == [i \in 0 .. n + 1 |-> IF i = n + 1 THEN After(s, cell, n + 1, h[n]) ELSE h[i]]
<1>1. \A i \in 0 .. n : h[i] = IF i = 0 THEN 0 ELSE After(s, cell, i, h[i - 1])
  BY DEF IsHistory
<1>2. ASSUME NEW i \in 0 .. n + 1
      PROVE  g[i] = IF i = 0 THEN 0 ELSE After(s, cell, i, g[i - 1])
  <2>1. CASE i = n + 1
    <3>1. i # 0 /\ i - 1 = n /\ g[i] = After(s, cell, i, h[n]) /\ g[n] = h[n]
      BY <2>1
    <3> QED
      BY <3>1
  <2>2. CASE i = 0
    <3>1. g[i] = h[i] /\ i \in 0 .. n
      BY <2>2
    <3> QED
      BY <1>1, <2>2, <3>1
  <2>3. CASE i # 0 /\ i # n + 1
    <3>1. i \in 0 .. n /\ i - 1 \in 0 .. n + 1 /\ i - 1 # n + 1
      BY <2>3
    <3>2. g[i] = h[i] /\ g[i - 1] = h[i - 1]
      BY <2>3, <3>1
    <3> QED
      BY <1>1, <2>3, <3>1, <3>2
  <2> QED
    BY <2>1, <2>2, <2>3
<1>3. IsHistory(g, s, cell, n + 1)
  BY <1>2 DEF IsHistory
<1> QED
  BY <1>3

(* What a step does to the log.                                            *)
LEMMA LogGrows ==
  ASSUME TypeOK, EffectStep
  PROVE  /\ Len(log) \in Nat
         /\ log' = log \/ Len(log') = Len(log) + 1
         /\ \A i \in 1 .. Len(log) : log'[i] = log[i]
<1>1. log \in Seq(Elements) /\ Len(log) \in Nat
  BY DEF TypeOK
<1>2. ASSUME NEW e, log' = Append(log, e)
      PROVE  Len(log') = Len(log) + 1 /\ \A i \in 1 .. Len(log) : log'[i] = log[i]
  BY <1>1, <1>2
<1> QED
  BY <1>1, <1>2 DEF EffectStep

(* Every prefix of the log determines the contents of every cell.          *)
LEMMA DeterminedPreserved ==
  ASSUME TypeOK, EffectStep, HistoriesOK
  PROVE  \A cell : \A n \in 0 .. Len(log') : Determined(log', cell, n)
<1> SUFFICES ASSUME NEW cell, NEW n \in 0 .. Len(log')
             PROVE  Determined(log', cell, n)
  OBVIOUS
<1>1. /\ Len(log) \in Nat
      /\ log' = log \/ Len(log') = Len(log) + 1
      /\ \A i \in 1 .. Len(log) : log'[i] = log[i]
  BY LogGrows
<1>2. ASSUME NEW k \in 0 .. Len(log)
      PROVE  Determined(log', cell, k)
  <2>1. k \in Nat /\ \A i \in 1 .. k : log[i] = log'[i]
    BY <1>1
  <2>2. \A g : IsHistory(g, log, cell, k) <=> IsHistory(g, log', cell, k)
    BY <2>1, SamePrefix
  <2>3. Determined(log, cell, k)
    BY DEF HistoriesOK
  <2> QED
    BY <2>2, <2>3 DEF Determined
<1>3. CASE n \in 0 .. Len(log)
  BY <1>2, <1>3
<1>4. CASE n \notin 0 .. Len(log)
  <2>1. PICK k \in 0 .. Len(log) : k = Len(log)
    BY <1>1
  <2>2. n = k + 1 /\ k \in Nat
    BY <1>1, <1>4, <2>1
  <2>3. Determined(log', cell, k)
    BY <1>2
  <2>4. \E g : IsHistory(g, log', cell, k + 1)
    BY <2>2, <2>3, HistoryExtends DEF Determined
  <2>5. ASSUME NEW g, NEW h, IsHistory(g, log', cell, k + 1), IsHistory(h, log', cell, k + 1)
        PROVE  g[k + 1] = h[k + 1]
    <3>1. PICK a : IsHistory(a, log', cell, k) /\ g[k + 1] = After(log', cell, k + 1, a[k])
      BY <2>2, <2>5, HistoryRestricts
    <3>2. PICK b : IsHistory(b, log', cell, k) /\ h[k + 1] = After(log', cell, k + 1, b[k])
      BY <2>2, <2>5, HistoryRestricts
    <3>3. a[k] = b[k]
      BY <2>3, <3>1, <3>2 DEF Determined
    <3> QED
      BY <3>1, <3>2, <3>3
  <2> QED
    BY <2>2, <2>4, <2>5 DEF Determined
<1> QED
  BY <1>3, <1>4

LEMMA HistoriesPreserved ==
  ASSUME TypeOK, EffectStep, program' = program, HistoriesOK
  PROVE  HistoriesOK'
<1>1. \A cell : \A n \in 0 .. Len(log') : Determined(log', cell, n)
  BY DeterminedPreserved
<1>2. \A cell, n : Determined(log, cell, n)' <=> Determined(log', cell, n)
  BY SameMeaning DEF Determined
<1> QED
  BY <1>1, <1>2 DEF HistoriesOK

(* What has happened is not changed by what happens later ...              *)
LEMMA PastIsFixed ==
  ASSUME TypeOK, EffectStep, program' = program, HistoriesOK,
         NEW cell, NEW n \in 0 .. Len(log)
  PROVE  Contents(cell, n)' = Contents(cell, n)
<1>1. n \in Nat /\ \A i \in 1 .. n : log[i] = log'[i]
  BY LogGrows
<1>2. Determined(log, cell, n)
  BY DEF HistoriesOK
<1>3. \A g : IsHistory(g, log, cell, n) <=> IsHistory(g, log', cell, n)
  BY <1>1, SamePrefix
<1>4. PICK g : IsHistory(g, log, cell, n) /\ Contents(cell, n) = g[n]
  BY <1>2, ContentsHistory DEF Determined, ContentsGiven
<1>5. PICK h : IsHistory(h, log', cell, n) /\ Contents(cell, n)' = h[n]
  BY <1>3, <1>4, ContentsHistoryNext
<1>6. g[n] = h[n]
  BY <1>2, <1>3, <1>4, <1>5 DEF Determined
<1> QED
  BY <1>4, <1>5, <1>6

(* ... and a new entry of the log has its effect on what was there.        *)
LEMMA NewEntry ==
  ASSUME TypeOK, EffectStep, program' = program, HistoriesOK, NEW cell, NEW e,
         log' = Append(log, e)
  PROVE  Contents(cell, Len(log))' =
           IF Cell(e) = cell THEN Effect(CallOf(e), e.elem, Contents(cell, Len(log)))
                             ELSE Contents(cell, Len(log))
<1>1. log \in Seq(Elements) /\ Len(log) \in Nat
  BY DEF TypeOK
<1>2. Len(log') = Len(log) + 1 /\ log'[Len(log) + 1] = e
  BY <1>1
<1>3. PICK k \in Nat : k = Len(log)
  BY <1>1
<1>4. Determined(log', cell, k) /\ Determined(log', cell, k + 1)
  BY <1>2, <1>3, DeterminedPreserved
<1>5. PICK g : IsHistory(g, log', cell, k + 1) /\ Contents(cell, k + 1)' = g[k + 1]
  BY <1>4, ContentsHistoryNext DEF Determined
<1>6. PICK h : IsHistory(h, log', cell, k) /\ g[k + 1] = After(log', cell, k + 1, h[k])
  BY <1>5, HistoryRestricts
<1>7. PICK f : IsHistory(f, log', cell, k) /\ Contents(cell, k)' = f[k]
  BY <1>4, ContentsHistoryNext DEF Determined
<1>8. h[k] = Contents(cell, k)'
  BY <1>4, <1>6, <1>7 DEF Determined
<1>9. Contents(cell, k)' = Contents(cell, k)
  BY <1>3, PastIsFixed
<1>10. Contents(cell, k + 1)' = After(log', cell, k + 1, Contents(cell, k))
  BY <1>5, <1>6, <1>8, <1>9
<1>11. Contents(cell, Len(log))' = Contents(cell, k + 1)'
  BY <1>2, <1>3
<1> QED
  BY <1>2, <1>3, <1>10, <1>11 DEF After

LEMMA CallHistoryPreserved ==
  ASSUME TypeOK, EffectStep, program' = program, HistoriesOK, HeapIsCallHistory
  PROVE  HeapIsCallHistory'
<1> SUFFICES ASSUME NEW q \in PEs, NEW o \in Offsets
             PROVE  Word(q, o)' = Contents(<<q, o>>, Len(log))'
  BY DEF HeapIsCallHistory, Offsets, Word
<1>1. Word(q, o) = Contents(<<q, o>>, Len(log))
  BY DEF HeapIsCallHistory, Offsets, Word
<1>2. CASE log' = log /\ Word(q, o)' = Word(q, o)
  <2>1. PICK n \in 0 .. Len(log) : n = Len(log)
    BY LogGrows
  <2>2. Contents(<<q, o>>, n)' = Contents(<<q, o>>, n)
    BY PastIsFixed
  <2>3. Contents(<<q, o>>, Len(log))' = Contents(<<q, o>>, n)'
    BY <1>2, <2>1
  <2> QED
    BY <1>1, <1>2, <2>1, <2>2, <2>3
<1>3. ASSUME NEW e \in flight, log' = Append(log, e), TakesEffect(e)
      PROVE  Word(q, o)' = Contents(<<q, o>>, Len(log))'
  <2>1. Contents(<<q, o>>, Len(log))' =
          IF Cell(e) = <<q, o>> THEN Effect(CallOf(e), e.elem, Contents(<<q, o>>, Len(log)))
                                ELSE Contents(<<q, o>>, Len(log))
    BY <1>3, NewEntry
  <2>2. Word(q, o)' = IF Cell(e) = <<q, o>> THEN Effect(CallOf(e), e.elem, Word(q, o)) ELSE Word(q, o)
    BY <1>3 DEF TakesEffect
  <2> QED
    BY <1>1, <2>1, <2>2
<1> QED
  BY <1>2, <1>3 DEF EffectStep

LEMMA InitHistories ==
  ASSUME Init
  PROVE  AimsOK /\ HistoriesOK /\ HeapIsCallHistory
<1>1. log = <<>> /\ Len(log) = 0 /\ flight = {}
  BY DEF Init
<1>2. ASSUME NEW cell
      PROVE  /\ IsHistory([i \in 0 .. 0 |-> 0], log, cell, 0)
             /\ \A g : IsHistory(g, log, cell, 0) => g[0] = 0
  <2>1. [i \in 0 .. 0 |-> 0] = [i \in 0 .. 0 |->
           IF i = 0 THEN 0 ELSE After(log, cell, i, [j \in 0 .. 0 |-> 0][i - 1])]
    OBVIOUS
  <2>2. ASSUME NEW g, IsHistory(g, log, cell, 0)  PROVE g[0] = 0
    BY <2>2 DEF IsHistory
  <2> QED
    BY <2>1, <2>2 DEF IsHistory
<1>3. \A n \in 0 .. Len(log) : n = 0
  BY <1>1
<1>4. HistoriesOK
  BY <1>2, <1>3 DEF HistoriesOK, Determined
<1>5. ASSUME NEW q \in PEs, NEW o \in Offsets
      PROVE  Word(q, o) = Contents(<<q, o>>, Len(log))
  <2>1. Base[q] + o \in Region(q)
    BY DEF Offsets, Region
  <2>2. Word(q, o) = 0
    BY <2>1 DEF Init, Word
  <2>3. Contents(<<q, o>>, 0) = 0
    BY <1>2, ContentsHistory DEF ContentsGiven
  <2> QED
    BY <1>1, <2>2, <2>3
<1>6. HeapIsCallHistory
  BY <1>5 DEF HeapIsCallHistory, Offsets, Word
<1> QED
  BY <1>1, <1>4, <1>6 DEF AimsOK

(* HistoryInvariant: what is in flight aims at the word its caller named,  *)
(* and the log determines the contents of every cell.                      *)
HistoryInv == AimsOK /\ HistoriesOK /\ HeapIsCallHistory

THEOREM HistoryInvariant == Spec => []HistoryInv
<1>1. Init => HistoryInv
  BY InitHistories DEF HistoryInv
<1>2. Inv /\ HistoryInv /\ [Next]_vars => HistoryInv'
  <2> SUFFICES ASSUME Inv, HistoryInv, [Next]_vars
               PROVE  HistoryInv'
    OBVIOUS
  <2>1. /\ TypeOK /\ AnswersOK /\ RunningOK /\ ElementsOK
        /\ AimsOK /\ HistoriesOK /\ HeapIsCallHistory
    BY DEF Inv, HistoryInv
  <2>2. EffectStep
    BY <2>1, NextEffect
  <2>3. Shape
    BY <2>1, NextShape
  <2>4. program' = program
    BY <2>1, <2>3, ShapeKeepsProgram
  <2> QED
    BY <2>1, <2>2, <2>3, <2>4, AimsPreserved, HistoriesPreserved, CallHistoryPreserved DEF HistoryInv
<1> QED
  BY <1>1, <1>2, RmaInvariant, PTL DEF Spec

(* HeapIsHistory: every word of every symmetric heap holds what the calls  *)
(* that have landed there amount to; no update is lost, duplicated or      *)
(* misplaced, whatever PEs, threads and programs compete.                  *)
THEOREM HeapIsHistory == Spec => []HeapIsCallHistory
<1>1. HistoryInv => HeapIsCallHistory
  BY DEF HistoryInv
<1> QED
  BY <1>1, HistoryInvariant, PTL

----------------------------------------------------------------------------

(* Reply buffers.  Memory holds words; the elements of a get or a fetch    *)
(* are in flight only while their call runs, each of them once; and what   *)
(* has landed of the running call is in its reply buffer as it was read.   *)
WordsOK == \A q \in PEs, o \in Offsets : Word(q, o) \in Words

ReadsOK == \A e \in flight : CallOf(e).op \in Reads => e.call = pos[e.pe][e.thread]

SameElement(e, d) == e.pe = d.pe /\ e.thread = d.thread /\ e.call = d.call /\ e.elem = d.elem

OnceOK ==
  /\ \A e, d \in flight : SameElement(e, d) => e = d
  /\ \A e \in flight, l \in Landed : ~ SameElement(e, l)

BuffersOK ==
  /\ DOMAIN buffer = PEs
  /\ \A p \in PEs, t \in Threads :
       (running[p] = t /\ Current(p, t).op \in Transfers)
         => DOMAIN buffer[p] = 1 .. Current(p, t).len

Replied(n) ==
  LET e == log[n]
  IN  /\ e.elem \in 1 .. CallOf(e).len
      /\ buffer[e.pe][e.elem] = Contents(Cell(e), n - 1)
      /\ Contents(Cell(e), n - 1) \in Words

FilledOK ==
  \A n \in 1 .. Len(log) :
    (CallOf(log[n]).op \in {"get", "fetch"} /\ log[n].call = pos[log[n].pe][log[n].thread])
      => Replied(n)

(* Two's complement: a pattern decodes to a value of its type with the     *)
(* same residue.                                                           *)
LEMMA DecodedValue ==
  ASSUME NEW signed \in BOOLEAN, NEW w \in Words
  PROVE  /\ FromBits(signed, w) \in Values(signed)
         /\ (FromBits(signed, w) - w) % Modulus = 0
<1>1. SignBit \in Nat /\ SignBit > 0 /\ Modulus = 2 * SignBit /\ Modulus \in Nat /\ Modulus > 0
  BY SignBitAssumption DEF Modulus
<1>2. w \in Int /\ 0 <= w /\ w < Modulus
  BY <1>1 DEF Words
<1>3. 0 % Modulus = 0 /\ (- Modulus) % Modulus = 0
  <2>1. \A m \in Nat : m > 0 => 0 % m = 0 /\ (- m) % m = 0
    OBVIOUS
  <2> QED
    BY <1>1, <2>1
<1>4. CASE signed /\ w >= SignBit
  <2>1. FromBits(signed, w) = w - Modulus /\ Values(signed) = (- SignBit) .. SignBit - 1
    BY <1>4 DEF FromBits, Values
  <2>2. w - Modulus \in (- SignBit) .. SignBit - 1 /\ (w - Modulus) - w = - Modulus
    BY <1>1, <1>2, <1>4
  <2> QED
    BY <1>3, <2>1, <2>2
<1>5. CASE ~ (signed /\ w >= SignBit)
  <2>1. FromBits(signed, w) = w /\ w - w = 0
    BY <1>2, <1>5 DEF FromBits
  <2>2. w \in Values(signed)
    BY <1>1, <1>2, <1>5 DEF Values, Words
  <2> QED
    BY <1>3, <2>1, <2>2
<1> QED
  BY <1>4, <1>5

(* A call leaves a word where it finds one.                                *)
LEMMA EffectIsWord ==
  ASSUME NEW c \in Calls, NEW i \in 1 .. c.len, NEW old \in Words,
         c.op \in Transfers, c.op # "await"
  PROVE  Effect(c, i, old) \in Words
<1> DEFINE x == [k \in DOMAIN c.args |-> c.args[k] % Modulus]
<1>1. Modulus \in Nat /\ Modulus > 0 /\ Words = 0 .. Modulus - 1
  BY SignBitAssumption DEF Modulus, Words
<1>2. \A a \in Int : a % Modulus \in Words
  BY <1>1
<1>3. /\ c.args \in Seq(Int) /\ c.len \in Nat /\ c.amo \in Amos
      /\ c.op = "put" => Len(c.args) = c.len
      /\ c.op \in {"atomic", "fetch"} => Len(c.args) = IF c.amo = "cswap" THEN 2 ELSE 1
  BY DEF Calls
<1>4. DOMAIN c.args = 1 .. Len(c.args) /\ \A k \in DOMAIN c.args : c.args[k] \in Int
  BY <1>3
<1>5. \A k \in DOMAIN c.args : x[k] \in Words
  BY <1>2, <1>4
<1> HIDE DEF x
<1>6. CASE c.op = "put"
  <2>1. i \in DOMAIN c.args
    BY <1>3, <1>4, <1>6
  <2>2. Effect(c, i, old) = x[i]
    BY <1>6 DEF Effect, x
  <2> QED
    BY <1>5, <2>1, <2>2
<1>7. CASE c.op = "get"
  BY <1>7 DEF Effect
<1>8. CASE c.op \in {"atomic", "fetch"}
  <2>1. Effect(c, i, old) = UcxAmo(c.amo, old, x)
    BY <1>8 DEF Effect, x
  <2>2. 1 \in DOMAIN c.args /\ (c.amo = "cswap" => 2 \in DOMAIN c.args)
    BY <1>3, <1>4, <1>8
  <2>3. x[1] \in Words /\ (c.amo = "cswap" => x[2] \in Words)
    BY <1>5, <2>2
  <2>4. CASE c.amo = "add"
    <3>1. old + x[1] \in Int
      BY <1>1, <2>3
    <3> QED
      BY <1>2, <2>1, <2>4, <3>1 DEF UcxAmo
  <2>5. CASE c.amo \in {"swap", "cswap"}
    BY <2>1, <2>3, <2>5 DEF UcxAmo
  <2>6. CASE c.amo \in {"xor", "and", "or"}
    <3>1. UcxAmo(c.amo, old, x) = UcxAmo(c.amo, old, <<x[1]>>)
      BY <2>6 DEF UcxAmo
    <3> QED
      BY <2>1, <2>3, <2>6, <3>1, BitwiseAssumption
  <2> QED
    BY <1>3, <2>4, <2>5, <2>6 DEF Amos
<1> QED
  BY <1>6, <1>7, <1>8 DEF Transfers

LEMMA WordsPreserved ==
  ASSUME TypeOK, ElementsOK, AimsOK, EffectStep, WordsOK
  PROVE  WordsOK'
<1> SUFFICES ASSUME NEW q \in PEs, NEW o \in Offsets
             PROVE  Word(q, o)' \in Words
  BY DEF WordsOK
<1>1. Word(q, o) \in Words
  BY DEF WordsOK
<1>2. ASSUME NEW e \in flight, CallOf(e).op # "await", TakesEffect(e)
      PROVE  Word(q, o)' \in Words
  <2>1. /\ e.call \in 1 .. Len(Script(e.pe, e.thread)) /\ CallOf(e).op \in Transfers
        /\ e.pe \in PEs /\ e.thread \in Threads /\ e.elem \in 1 .. CallOf(e).len
    BY KnownElements DEF ElementsOK, AimsOK, Known
  <2>2. CallOf(e) \in Calls
    BY <2>1, ScriptType DEF CallOf, TypeOK
  <2> QED
    BY <1>1, <1>2, <2>1, <2>2, EffectIsWord DEF TakesEffect
<1> QED
  BY <1>1, <1>2 DEF EffectStep

(* A PE whose mutex is free has nothing of its threads' current calls in   *)
(* flight or in the log.                                                   *)
LEMMA NothingCurrent ==
  ASSUME TypeOK, ElementsOK, NEW p \in PEs, running[p] = NoThread, NEW e \in Known, e.pe = p
  PROVE  e.call # pos[p][e.thread]
<1>1. e.thread \in Threads /\ NoThread \notin Threads
  BY KnownElements, RmaAssumption DEF NoThread
<1> QED
  BY <1>1 DEF ElementsOK

LEMMA ReadsPreserved ==
  ASSUME TypeOK, ElementsOK, ReplyShape, ReadsOK
  PROVE  ReadsOK'
<1>1. \A e : CallOf(e)' = CallOf(e)
  BY SameMeaning DEF ReplyShape
<1>2. ASSUME NEW p \in PEs, NEW t \in Threads, Fills(p, t)
      PROVE  \A e \in flight' : CallOf(e).op \in Reads => e.call = pos'[e.pe][e.thread]
  <2>1. pos' = pos /\ flight' = flight \cup
         { [pe |-> p, thread |-> t, call |-> pos[p][t], elem |-> i,
            addr |-> Address(p, Current(p, t), i), epoch |-> epoch[p]] : i \in 1 .. Current(p, t).len }
    BY <1>2 DEF Fills, Posts
  <2> QED
    BY <2>1 DEF ReadsOK
<1>3. ASSUME NEW d \in flight, Carries(d)
      PROVE  \A e \in flight' : CallOf(e).op \in Reads => e.call = pos'[e.pe][e.thread]
  BY <1>3 DEF Carries, Lands, ReadsOK
<1>4. ASSUME Rests
      PROVE  \A e \in flight' : CallOf(e).op \in Reads => e.call = pos'[e.pe][e.thread]
  BY <1>4 DEF Rests, ReadsOK
<1>5. \A e \in flight' : CallOf(e).op \in Reads => e.call = pos'[e.pe][e.thread]
  BY <1>2, <1>3, <1>4 DEF ReplyShape, Flow
<1> QED
  BY <1>1, <1>5 DEF ReadsOK

LEMMA OncePreserved ==
  ASSUME TypeOK, ElementsOK, Flow, OnceOK
  PROVE  OnceOK'
<1>1. ASSUME NEW p \in PEs, NEW t \in Threads, Fills(p, t)
      PROVE  OnceOK'
  <2> DEFINE New(i) == [pe |-> p, thread |-> t, call |-> pos[p][t], elem |-> i,
                        addr |-> Address(p, Current(p, t), i), epoch |-> epoch[p]]
  <2>1. /\ flight' = flight \cup { New(i) : i \in 1 .. Current(p, t).len }
        /\ log' = log /\ running[p] = NoThread
    BY <1>1 DEF Fills, Posts, Takes
  <2>2. Landed' = Landed
    BY <2>1, LandedStep
  <2>3. ASSUME NEW i, NEW d \in Known  PROVE ~ SameElement(New(i), d) /\ ~ SameElement(d, New(i))
    <3>1. d.pe = p => d.call # pos[p][d.thread]
      BY <2>1, <2>3, NothingCurrent
    <3> QED
      BY <3>1 DEF SameElement
  <2>4. \A i, j : SameElement(New(i), New(j)) => i = j
    BY DEF SameElement
  <2> HIDE DEF New
  <2>5. \A e, d \in flight' : SameElement(e, d) => e = d
    BY <2>1, <2>3, <2>4 DEF OnceOK, Known
  <2>6. \A e \in flight', l \in Landed' : ~ SameElement(e, l)
    BY <2>1, <2>2, <2>3 DEF OnceOK, Known
  <2> QED
    BY <2>5, <2>6 DEF OnceOK, SameElement
<1>2. ASSUME NEW d \in flight, Carries(d)
      PROVE  OnceOK'
  <2>1. flight' = flight \ {d} /\ Landed' \subseteq Landed \cup {d}
    BY <1>2, LandedStep DEF Carries, Lands
  <2> QED
    BY <2>1 DEF OnceOK, SameElement
<1>3. CASE Rests
  <2>1. flight' \subseteq flight /\ Landed' = Landed
    BY <1>3, LandedStep DEF Rests
  <2> QED
    BY <2>1 DEF OnceOK, SameElement
<1> QED
  BY <1>1, <1>2, <1>3 DEF Flow

LEMMA BuffersPreserved ==
  ASSUME TypeOK, ElementsOK, ReplyShape, ReadsOK, BuffersOK
  PROVE  BuffersOK'
<1>1. \A p, t : Script(p, t)' = Script(p, t)
  BY DEF ReplyShape, Script
<1>2. DOMAIN buffer' = PEs
  BY DEF ReplyShape, Flow, Fills, Carries, Rests, BuffersOK
<1>3. ASSUME NEW p \in PEs, NEW t \in Threads, running'[p] = t, Current(p, t)'.op \in Transfers
      PROVE  DOMAIN buffer'[p] = 1 .. Current(p, t)'.len
  <2>1. pos'[p][t] = pos[p][t] /\ Current(p, t)' = Current(p, t)
    BY <1>1, <1>3 DEF ReplyShape, HoldStep, Current
  <2>2. NoThread \notin Threads
    BY RmaAssumption DEF NoThread
  <2>3. CASE running[p] = t
    <3>1. DOMAIN buffer[p] = 1 .. Current(p, t).len
      BY <1>3, <2>1, <2>3 DEF BuffersOK
    <3>2. ASSUME NEW q \in PEs, NEW s \in Threads, Fills(q, s)
          PROVE  DOMAIN buffer'[p] = DOMAIN buffer[p]
      <4>1. p # q
        BY <2>2, <2>3, <3>2 DEF Fills, Posts, Takes
      <4> QED
        BY <3>2, <4>1 DEF Fills, BuffersOK
    <3>3. ASSUME NEW e \in flight, Carries(e)
          PROVE  DOMAIN buffer'[p] = DOMAIN buffer[p]
      BY <3>3 DEF Carries, BuffersOK
    <3>4. ASSUME Rests
          PROVE  DOMAIN buffer'[p] = DOMAIN buffer[p]
      BY <3>4 DEF Rests
    <3>5. DOMAIN buffer'[p] = DOMAIN buffer[p]
      BY <3>2, <3>3, <3>4 DEF ReplyShape, Flow
    <3> QED
      BY <2>1, <3>1, <3>5
  <2>4. CASE running[p] = NoThread
    <3>1. Fills(p, t)
      BY <1>3, <2>1, <2>2, <2>4 DEF ReplyShape, HoldStep
    <3>2. buffer'[p] = EmptyReply(Current(p, t))
      BY <3>1 DEF Fills, BuffersOK
    <3> QED
      BY <2>1, <3>2 DEF EmptyReply
  <2> QED
    BY <1>3, <2>3, <2>4 DEF ReplyShape, HoldStep
<1> QED
  BY <1>2, <1>3 DEF BuffersOK

(* What an element reads is what its cell has come to.                     *)
LEMMA ReadCell ==
  ASSUME TypeOK, ElementsOK, AimsOK, HeapIsCallHistory, WordsOK,
         NEW e \in flight, e.addr \in Region(CallOf(e).pe)
  PROVE  /\ ram[CallOf(e).pe][e.addr] = Contents(Cell(e), Len(log))
         /\ Contents(Cell(e), Len(log)) \in Words
<1>1. PICK q \in PEs : q = CallOf(e).pe
  BY DEF ElementsOK, Known
<1>2. PICK x \in Nat : Cell(e) = <<q, x>> /\ e.addr = Base[q] + x
  BY <1>1, CellAddress
<1>3. PICK i \in 0 .. (Capacity \div SIZE) - 1 : e.addr = Base[q] + SIZE * i
  BY <1>1 DEF Region
<1>4. PICK y \in Int : y = SIZE * i
  BY RmaAssumption
<1>5. x = SIZE * i
  <2>1. Base[q] \in Nat /\ e.addr = Base[q] + y
    BY <1>3, <1>4, RmaAssumption
  <2>2. x = y
    BY <1>2, <2>1
  <2> QED
    BY <1>4, <2>2
<1>6. x \in Offsets
  BY <1>5 DEF Offsets
<1>7. Word(q, x) = Contents(<<q, x>>, Len(log))
  BY <1>6 DEF HeapIsCallHistory, Offsets, Word
<1> QED
  BY <1>1, <1>2, <1>6, <1>7 DEF Word, WordsOK

(* An element of a running call that has landed stays in the buffer.       *)
LEMMA BufferKept ==
  ASSUME TypeOK, ElementsOK, Flow, ReadsOK, OnceOK, BuffersOK,
         NEW l \in Landed, CallOf(l).op \in {"get", "fetch"}, l.call = pos[l.pe][l.thread],
         l.elem \in 1 .. CallOf(l).len
  PROVE  buffer'[l.pe][l.elem] = buffer[l.pe][l.elem]
<1>1. l \in Known /\ l.pe \in PEs /\ l.thread \in Threads /\ NoThread \notin Threads
  BY KnownElements, RmaAssumption DEF Known, NoThread
<1>2. running[l.pe] = l.thread
  BY <1>1 DEF ElementsOK
<1>3. ASSUME NEW p \in PEs, NEW t \in Threads, Fills(p, t)
      PROVE  buffer'[l.pe] = buffer[l.pe]
  <2>1. l.pe # p
    BY <1>1, <1>2, <1>3 DEF Fills, Posts, Takes
  <2> QED
    BY <1>1, <1>3, <2>1 DEF Fills, BuffersOK
<1>4. ASSUME NEW e \in flight, Carries(e)
      PROVE  buffer'[l.pe][l.elem] = buffer[l.pe][l.elem]
  <2>1. CASE CallOf(e).op \notin Reads
    BY <1>4, <2>1 DEF Carries
  <2>2. CASE CallOf(e).op \in Reads /\ e.pe # l.pe
    BY <1>1, <1>4, <2>2 DEF Carries, BuffersOK
  <2>3. CASE CallOf(e).op \in Reads /\ e.pe = l.pe
    <3>1. e.call = pos[e.pe][e.thread] /\ e \in Known
      BY <2>3 DEF ReadsOK, Known
    <3>2. e.thread = l.thread /\ e.call = l.call
      BY <1>2, <2>3, <3>1 DEF ElementsOK
    <3>3. e.elem # l.elem
      BY <2>3, <3>2 DEF OnceOK, SameElement
    <3>4. buffer' = [buffer EXCEPT ![e.pe][e.elem] = ram[CallOf(e).pe][e.addr]]
      BY <1>4, <2>3 DEF Carries
    <3>5. buffer'[l.pe] = [buffer[l.pe] EXCEPT ![e.elem] = ram[CallOf(e).pe][e.addr]]
      BY <1>1, <2>3, <3>4 DEF BuffersOK
    <3>6. Current(l.pe, l.thread) = CallOf(l) /\ CallOf(l).op \in Transfers
      BY DEF Current, CallOf, Transfers
    <3>7. l.elem \in DOMAIN buffer[l.pe]
      BY <1>1, <1>2, <3>6 DEF BuffersOK
    <3> QED
      BY <3>3, <3>5, <3>7
  <2> QED
    BY <2>1, <2>2, <2>3
<1>5. ASSUME Rests
      PROVE  buffer' = buffer
  BY <1>5 DEF Rests
<1> QED
  BY <1>3, <1>4, <1>5 DEF Flow

LEMMA FilledPreserved ==
  ASSUME TypeOK, TypeOK', ElementsOK, ElementsOK', AimsOK, HistoriesOK, HeapIsCallHistory, WordsOK,
         ReadsOK, OnceOK, BuffersOK, FilledOK, ReplyShape, EffectStep
  PROVE  FilledOK'
<1>1. program' = program /\ Flow
  BY DEF ReplyShape
<1>2. \A e : CallOf(e)' = CallOf(e) /\ Cell(e)' = Cell(e)
  BY <1>1, SameMeaning
<1>3. Len(log) \in Nat /\ \A i \in 1 .. Len(log) : log'[i] = log[i]
  BY LogGrows
<1> SUFFICES ASSUME NEW n \in 1 .. Len(log'), NEW l, l = log'[n],
                    CallOf(l).op \in {"get", "fetch"}, l.call = pos'[l.pe][l.thread]
             PROVE  /\ l.elem \in 1 .. CallOf(l).len
                    /\ buffer'[l.pe][l.elem] = Contents(Cell(l), n - 1)'
                    /\ Contents(Cell(l), n - 1)' \in Words
  BY <1>2 DEF FilledOK, Replied
<1>4. PICK cell : cell = Cell(l)
  OBVIOUS
<1>5. l.call = pos[l.pe][l.thread]
  <2>1. l \in Known'
    BY DEF Known, Landed
  <2>2. l.pe \in PEs /\ l.thread \in Threads
    <3>1. log' \in Seq(Elements)
      BY DEF TypeOK
    <3>2. l \in Elements
      BY <3>1
    <3> QED
      BY <3>2 DEF Elements
  <2>3. running'[l.pe] = l.thread
    BY <2>1 DEF ElementsOK
  <2> QED
    BY <2>2, <2>3 DEF ReplyShape, HoldStep
<1>6. CASE n \in 1 .. Len(log)
  <2>1. l = log[n] /\ l \in Landed
    BY <1>3, <1>6 DEF Landed
  <2>2. /\ l.elem \in 1 .. CallOf(l).len
        /\ buffer[l.pe][l.elem] = Contents(cell, n - 1)
        /\ Contents(cell, n - 1) \in Words
    BY <1>4, <1>5, <1>6, <2>1 DEF FilledOK, Replied
  <2>3. buffer'[l.pe][l.elem] = buffer[l.pe][l.elem]
    BY <1>1, <1>5, <2>1, <2>2, BufferKept
  <2>4. n - 1 \in 0 .. Len(log)
    BY <1>3, <1>6
  <2>5. Contents(cell, n - 1)' = Contents(cell, n - 1)
    BY <1>1, <2>4, PastIsFixed
  <2>6. Contents(Cell(l), n - 1)' = Contents(cell, n - 1)'
    BY <1>2, <1>4
  <2> QED
    BY <2>2, <2>3, <2>5, <2>6
<1>7. CASE n \notin 1 .. Len(log)
  <2>1. log' # log
    BY <1>7
  <2>2. PICK e \in flight : Carries(e) /\ log' = Append(log, e)
    BY <1>1, <2>1 DEF Flow, Fills, Posts, Rests, Carries, Lands
  <2>3. n = Len(log) + 1 /\ l = e
    <3>1. log \in Seq(Elements)
      BY DEF TypeOK
    <3>2. Len(log') = Len(log) + 1 /\ log'[Len(log) + 1] = e
      BY <2>2, <3>1
    <3> QED
      BY <1>3, <1>7, <3>2
  <2>4. /\ CallOf(e).op \in Reads /\ CallOf(e).op \in Transfers /\ e \in Known
        /\ e.pe \in PEs /\ e.thread \in Threads /\ e.elem \in 1 .. CallOf(e).len
    BY <2>3, KnownElements DEF Reads, Transfers, Known, AimsOK
  <2>5. running[e.pe] = e.thread /\ Current(e.pe, e.thread) = CallOf(e)
    BY <1>5, <2>3, <2>4 DEF ElementsOK, Current, CallOf
  <2>6. DOMAIN buffer = PEs /\ DOMAIN buffer[e.pe] = 1 .. CallOf(e).len
    BY <2>4, <2>5 DEF BuffersOK
  <2>7. buffer'[e.pe][e.elem] = ram[CallOf(e).pe][e.addr]
    BY <2>2, <2>4, <2>6 DEF Carries
  <2>8. /\ ram[CallOf(e).pe][e.addr] = Contents(cell, Len(log))
        /\ Contents(cell, Len(log)) \in Words
    BY <1>4, <2>2, <2>3, ReadCell DEF Carries
  <2>9. PICK k \in 0 .. Len(log) : k = Len(log) /\ k = n - 1
    BY <1>3, <2>3
  <2>10. Contents(cell, k)' = Contents(cell, k)
    BY <1>1, PastIsFixed
  <2>11. Contents(Cell(l), n - 1)' = Contents(cell, k)'
    BY <1>2, <1>4, <2>9
  <2> QED
    BY <2>3, <2>4, <2>7, <2>8, <2>9, <2>10, <2>11
<1> QED
  BY <1>6, <1>7

(* A call is answered from its buffer, and later steps change neither the  *)
(* answer nor the past.                                                    *)
LEMMA RepliesPreserved ==
  ASSUME TypeOK, AnswersOK, ElementsOK, HistoriesOK, ReadsOK, FilledOK, ReplyShape, EffectStep,
         RepliesAreHistory
  PROVE  RepliesAreHistory'
<1>1. program' = program /\ Flow
  BY DEF ReplyShape
<1>2. \A e : CallOf(e)' = CallOf(e) /\ Cell(e)' = Cell(e)
  BY <1>1, SameMeaning
<1>3. Len(log) \in Nat /\ \A i \in 1 .. Len(log) : log'[i] = log[i]
  BY LogGrows
<1> SUFFICES ASSUME NEW n \in 1 .. Len(log'), NEW e, e = log'[n],
                    CallOf(e).op \in {"get", "fetch"}, answer'[e.pe][e.thread][e.call].status = "ok"
             PROVE  LET value == answer'[e.pe][e.thread][e.call].values[e.elem]
                    IN  /\ value \in Values(CallOf(e).signed)
                        /\ (value - Contents(Cell(e), n - 1)') % Modulus = 0
  BY <1>2 DEF RepliesAreHistory, Ok
<1> DEFINE p == e.pe
           t == e.thread
           c == CallOf(e)
<1>4. PICK cell : cell = Cell(e)
  OBVIOUS
<1>5. CASE n \in 1 .. Len(log)
  <2>1. e = log[n] /\ e \in Landed /\ e \in Known
    BY <1>3, <1>5 DEF Landed, Known
  <2>2. p \in PEs /\ t \in Threads /\ e.call \in 1 .. Len(Script(p, t))
    BY <2>1, KnownElements DEF ElementsOK
  <2>3. n - 1 \in 0 .. Len(log)
    BY <1>3, <1>5
  <2>4. Contents(cell, n - 1)' = Contents(cell, n - 1)
    BY <1>1, <2>3, PastIsFixed
  <2>5. Contents(Cell(e), n - 1)' = Contents(cell, n - 1)
    BY <1>2, <1>4, <2>4
  <2>6. CASE answer'[p][t][e.call] = answer[p][t][e.call]
    BY <1>4, <1>5, <2>1, <2>5, <2>6 DEF RepliesAreHistory, Ok
  <2>7. CASE answer'[p][t][e.call] # answer[p][t][e.call]
    <3>1. e.call = pos[p][t] /\ GoodReply(p, t, answer'[p][t][e.call].values)
      BY <2>2, <2>7 DEF ReplyShape, AnswerStep
    <3>2. Current(p, t) = c /\ running[p] = t /\ t # NoThread
      BY <2>1, <2>2, <3>1, RmaAssumption DEF Current, CallOf, ElementsOK, NoThread
    <3>3. answer'[p][t][e.call].values = Decoded(p, c)
      BY <3>1, <3>2 DEF GoodReply
    <3>4. /\ e.elem \in 1 .. c.len
          /\ buffer[p][e.elem] = Contents(cell, n - 1)
          /\ Contents(cell, n - 1) \in Words
      BY <1>4, <1>5, <2>1, <3>1 DEF FilledOK, Replied
    <3>5. answer'[p][t][e.call].values[e.elem] = FromBits(c.signed, Contents(cell, n - 1))
      <4>1. c.op \in Reads
        BY DEF Reads
      <4>2. Decoded(p, c) = [i \in 1 .. c.len |-> FromBits(c.signed, buffer[p][i])]
        BY <4>1 DEF Decoded
      <4>3. Decoded(p, c)[e.elem] = FromBits(c.signed, buffer[p][e.elem])
        BY <3>4, <4>2
      <4> QED
        BY <3>3, <3>4, <4>3
    <3>6. c.signed \in BOOLEAN
      <4>1. c \in Calls
        BY <2>2, ScriptType DEF CallOf, TypeOK
      <4> QED
        BY <4>1 DEF Calls
    <3> QED
      BY <2>5, <3>4, <3>5, <3>6, DecodedValue
  <2> QED
    BY <2>6, <2>7
<1>6. CASE n \notin 1 .. Len(log)
  <2>1. log' # log
    BY <1>6
  <2>2. PICK d \in flight : Carries(d) /\ log' = Append(log, d)
    BY <1>1, <2>1 DEF Flow, Fills, Posts, Rests, Carries, Lands
  <2>3. e = d /\ answer' = answer
    <3>1. log \in Seq(Elements)
      BY DEF TypeOK
    <3>2. Len(log') = Len(log) + 1 /\ log'[Len(log) + 1] = d
      BY <2>2, <3>1
    <3>3. n = Len(log) + 1
      BY <1>3, <1>6, <3>2
    <3>4. answer' = answer
      BY <2>2 DEF Carries, Lands
    <3> QED
      BY <3>2, <3>3, <3>4
  <2>4. e.call = pos[p][t] /\ p \in PEs /\ t \in Threads /\ e.call \in 1 .. Len(Script(p, t))
    BY <2>2, <2>3, KnownElements DEF ReadsOK, Reads, ElementsOK, Known
  <2>5. e.call >= pos[p][t]
    <3>1. pos \in [PEs -> [Threads -> Nat]]
      BY DEF TypeOK
    <3>2. pos[p][t] \in Nat
      BY <2>4, <3>1
    <3> QED
      BY <2>4, <3>2
  <2>6. ~ Ok(p, t, e.call)
    <3>1. \A k \in 1 .. Len(Script(p, t)) : k >= pos[p][t] => ~ Ok(p, t, k)
      BY <2>4 DEF AnswersOK
    <3> QED
      BY <2>4, <2>5, <3>1
  <2> QED
    BY <2>3, <2>6 DEF Ok
<1> QED
  BY <1>5, <1>6

ReplyInv == WordsOK /\ ReadsOK /\ OnceOK /\ BuffersOK /\ FilledOK /\ RepliesAreHistory

LEMMA InitReplies ==
  ASSUME Init
  PROVE  ReplyInv
<1>1. flight = {} /\ log = <<>> /\ Len(log) = 0 /\ DOMAIN buffer = PEs
  BY DEF Init
<1>2. \A p \in PEs, t \in Threads : running[p] # t
  BY RmaAssumption DEF Init, NoThread
<1>3. ASSUME NEW q \in PEs, NEW o \in Offsets  PROVE Word(q, o) \in Words
  <2>1. Base[q] + o \in Region(q)
    BY DEF Offsets, Region
  <2>2. Word(q, o) = 0
    BY <2>1 DEF Init, Word
  <2> QED
    BY <2>2, SignBitAssumption DEF Words, Modulus
<1> QED
  BY <1>1, <1>2, <1>3 DEF ReplyInv, WordsOK, ReadsOK, OnceOK, BuffersOK, FilledOK, RepliesAreHistory

(* ReplyInvariant: memory holds words only, reads are in flight only while *)
(* their call runs and never twice, and the reply buffer of a running call *)
(* holds what each of its elements found.                                  *)
THEOREM ReplyInvariant == Spec => []ReplyInv
<1>1. Init => ReplyInv
  BY InitReplies
<1>2. Inv /\ Inv' /\ HistoryInv /\ ReplyInv /\ [Next]_vars => ReplyInv'
  <2> SUFFICES ASSUME Inv, Inv', HistoryInv, ReplyInv, [Next]_vars
               PROVE  ReplyInv'
    OBVIOUS
  <2>1. /\ TypeOK /\ TypeOK' /\ AnswersOK /\ RunningOK /\ ElementsOK /\ ElementsOK'
        /\ AimsOK /\ HistoriesOK /\ HeapIsCallHistory
    BY DEF Inv, HistoryInv
  <2>2. /\ WordsOK /\ ReadsOK /\ OnceOK /\ BuffersOK /\ FilledOK /\ RepliesAreHistory
    BY DEF ReplyInv
  <2>3. ReplyShape /\ EffectStep
    BY <2>1, NextReply, NextEffect
  <2>4. Flow
    BY <2>3 DEF ReplyShape
  <2>5. WordsOK' /\ ReadsOK' /\ OnceOK' /\ BuffersOK'
    BY <2>1, <2>2, <2>3, <2>4, WordsPreserved, ReadsPreserved, OncePreserved, BuffersPreserved
  <2>6. FilledOK' /\ RepliesAreHistory'
    BY <2>1, <2>2, <2>3, FilledPreserved, RepliesPreserved
  <2> QED
    BY <2>5, <2>6 DEF ReplyInv
<1> QED
  BY <1>1, <1>2, RmaInvariant, HistoryInvariant, PTL DEF Spec

(* RepliesAreTrue: a get or a fetching atomic that returned Ok gave its    *)
(* caller, as a value of its type, what the cell held right before the     *)
(* call took effect, whatever other PEs and threads did to the cell.       *)
THEOREM RepliesAreTrue == Spec => []RepliesAreHistory
<1>1. ReplyInv => RepliesAreHistory
  BY DEF ReplyInv
<1> QED
  BY <1>1, ReplyInvariant, PTL

----------------------------------------------------------------------------
(***************************************************************************)
(* What a call that holds the mutex waits for: the part of                 *)
(* OnlyHopelessCallsBlock that is a safety property.                       *)
(***************************************************************************)

(* The peer whose elements the running call of p waits for.                *)
Awaited(p) ==
  LET c == Current(p, running[p]) IN IF c.op \in Quiets THEN Head(left[p]) ELSE c.pe

(* The wait loop of p finds its request, flush or barrier complete.        *)
CanComplete(p) ==
  \/ Waits(p, Transfers) /\ Mine(p) = {}
  \/ Waits(p, Quiets) /\ FlushDone(p)
  \/ Waits(p, {"barrier"}) /\ BarrierDone(p)

(* UCX can carry e out: nothing fenced before it is still in flight.       *)
CanLand(p, q, e) ==
  /\ ~ Undeliverable(e)
  /\ \A d \in Outstanding(p, q) : d.epoch >= e.epoch
  /\ offloaded \/ Progressing(q)

(* BlockedOnlyIfHopeless: in every reachable state, a call that holds the  *)
(* mutex can complete, or something it waits for can be carried out, or    *)
(* what it waits for cannot happen.  In particular fences never leave two  *)
(* elements waiting for each other, and quiet never flushes an endpoint on *)
(* which nothing can move.                                                 *)
BlockedOnlyIfHopeless ==
  \A p \in PEs : running[p] # NoThread =>
    \/ Hopeless(p)
    \/ CanComplete(p)
    \/ \E e \in Outstanding(p, Awaited(p)) : CanLand(p, Awaited(p), e)

(* Of what is in flight to a peer, something was posted in the earliest    *)
(* epoch.                                                                  *)
LEMMA EarliestElement ==
  ASSUME TypeOK, NEW S \in SUBSET flight, S # {}
  PROVE  \E e \in S : \A d \in S : d.epoch >= e.epoch
<1> DEFINE T == { e.epoch : e \in S }
           R == {ss \in Nat \X Nat : ss[1] < ss[2]}
<1>1. \A e \in S : e.epoch \in Nat
  BY DEF TypeOK, Elements
<1>2. T \in SUBSET Nat /\ T # {}
  BY <1>1
<1>3. IsWellFoundedOn(R, Nat)
  BY NatLessThanWellFounded DEF OpToRel
<1>4. PICK x \in T : \A y \in T : ~ (<<y, x>> \in R)
  <2> HIDE DEF R, T
  <2> QED
    BY <1>2, <1>3, WFMin
<1>5. PICK e \in S : x = e.epoch
  BY <1>4
<1>6. ASSUME NEW d \in S  PROVE d.epoch >= e.epoch
  <2>1. d.epoch \in Nat /\ e.epoch \in Nat /\ d.epoch \in T
    BY <1>1
  <2>2. ~ (<<d.epoch, e.epoch>> \in R)
    BY <1>4, <1>5, <2>1
  <2> QED
    BY <2>1, <2>2
<1> QED
  BY <1>6

(* A call blocks only for the reasons Hopeless names, for every program.   *)
THEOREM BlockingHasAReason == Spec => []BlockedOnlyIfHopeless
<1>1. Inv => BlockedOnlyIfHopeless
  <2> SUFFICES ASSUME Inv, NEW p \in PEs, running[p] # NoThread,
                      ~ Hopeless(p), ~ CanComplete(p)
               PROVE  \E e \in Outstanding(p, Awaited(p)) : CanLand(p, Awaited(p), e)
    BY DEF BlockedOnlyIfHopeless
  <2> DEFINE c == Current(p, running[p])
             q == Awaited(p)
             S == Outstanding(p, q)
  <2>1. c.op \in Transfers \cup Quiets \cup {"barrier"} /\ TypeOK
    BY DEF Inv, RunningOK, RunsOK
  <2>2. c.op # "barrier"
    <3> SUFFICES ASSUME c.op = "barrier"  PROVE FALSE
      OBVIOUS
    <3>1. \A r \in PEs : ~ (entered[r] < entered[p])
      BY DEF Hopeless
    <3>2. \A r \in PEs : entered[r] \in Nat
      BY <2>1 DEF TypeOK
    <3>3. BarrierDone(p)
      BY <3>1, <3>2 DEF BarrierDone
    <3> QED
      BY <3>3 DEF CanComplete, Waits
  <2>3. \A e \in S : ~ Undeliverable(e) /\ (offloaded \/ Progressing(q))
    BY <2>2 DEF Hopeless, Awaited
  <2>4. S # {}
    <3>1. CASE c.op \in Quiets
      <4>1. q = Head(left[p])
        BY <3>1 DEF Awaited
      <4>2. ~ FlushDone(p)
        BY <3>1 DEF CanComplete, Waits
      <4> QED
        BY <4>1, <4>2 DEF FlushDone
    <3>2. CASE c.op \in Transfers
      <4>1. q = c.pe
        BY <3>2 DEF Awaited, Transfers, Quiets
      <4>2. PICK e \in Mine(p) : TRUE
        BY <3>2 DEF CanComplete, Waits
      <4>3. e \in flight /\ e.pe = p /\ CallOf(e) = c
        BY <4>2 DEF Mine, CallOf, Current
      <4> QED
        BY <4>1, <4>3 DEF Outstanding
    <3> QED
      BY <2>1, <2>2, <3>1, <3>2
  <2>5. S \in SUBSET flight
    BY DEF Outstanding
  <2>6. PICK e \in S : \A d \in S : d.epoch >= e.epoch
    <3> HIDE DEF S
    <3> QED
      BY <2>1, <2>4, <2>5, EarliestElement
  <2> QED
    BY <2>3, <2>6 DEF CanLand
<1> QED
  BY <1>1, RmaInvariant, PTL

=============================================================================
