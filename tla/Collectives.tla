---------------------------- MODULE Collectives ----------------------------
(***************************************************************************)
(* The collectives of src/coll.rs over one UCC team: barrier, broadcast,   *)
(* collect and reduce, blocking and non-blocking, and CollectiveRequest.   *)
(*                                                                         *)
(* All PEs run the same script of calls.  A blocking call posts its        *)
(* operation and loops in wait; a non-blocking one posts and returns a     *)
(* request, which the program may test at any later point, also after it   *)
(* has completed or failed.  A PE whose call fails stops calling.          *)
(*                                                                         *)
(* UCC is external: operations match by their position in the script, and  *)
(* context.progress() may complete any of the PE's operations whose        *)
(* participants have posted.  Data is abstracted to the tuple of ranks     *)
(* whose contributions a buffer holds.                                     *)
(***************************************************************************)
EXTENDS Integers, Sequences

CONSTANTS
  N,        \* PEs in the team
  Ops,      \* the collective calls a script is made of
  Length,   \* calls in a script
  Faults    \* native calls that may fail: "post", "ucc", "finalize"

ASSUME CollectivesAssumption ==
  /\ N \in Nat \ {0}
  /\ Length \in Nat
  /\ Ops \subseteq [kind : {"barrier", "broadcast", "collect", "reduce"}, nb : BOOLEAN,
                    root : Nat, empty : BOOLEAN, supported : BOOLEAN]
  /\ Faults \subseteq {"post", "ucc", "finalize"}

PEs == 0 .. N - 1
Calls == 1 .. Length

VARIABLES
  script,   \* the calls every PE makes, in order
  next,     \* PE -> the call it makes next
  pc,       \* PE -> "run", "wait" (in a blocking call) or "stopped"
  native,   \* PE -> call -> status UCC shows for the operation
  open,     \* PE -> the non-blocking calls whose request still holds its op
  buffer,   \* PE -> call -> ranks held by the buffer given to UCC
  user,     \* PE -> call -> ranks held by the caller's destination
  answer,   \* PE -> call -> the last result the caller was given
  unfinalized \* history: PE -> the calls whose op.finalize() failed

vars == <<script, next, pc, native, open, buffer, user, answer, unfinalized>>

(* What UCC delivers to every PE (external).                               *)
UccResult(op) ==
  CASE op.kind = "barrier" \/ op.empty -> <<>>
    [] op.kind = "broadcast" -> <<op.root>>
    [] op.kind \in {"collect", "reduce"} -> [i \in 1 .. N |-> i - 1]

(* The buffer given to UCC: the encoded contribution for the in-place      *)
(* operations, a zeroed receive buffer for collect.                        *)
Encoded(p, op) ==
  IF op.empty \/ op.kind \in {"barrier", "collect"} THEN <<>> ELSE <<p>>

Init ==
  /\ script \in [Calls -> Ops]
  /\ next = [p \in PEs |-> 1]
  /\ pc = [p \in PEs |-> "run"]
  /\ native = [p \in PEs |-> [k \in Calls |-> "none"]]
  /\ open = [p \in PEs |-> {}]
  /\ buffer = [p \in PEs |-> [k \in Calls |-> <<>>]]
  /\ user = [p \in PEs |-> [k \in Calls |-> Encoded(p, script[k])]]
  /\ answer = [p \in PEs |-> [k \in Calls |-> "none"]]
  /\ unfinalized = [p \in PEs |-> {}]

----------------------------------------------------------------------------

(* The checks made before the operation is built.  reduce alone does not   *)
(* refuse an empty buffer.                                                 *)
Refused(op) ==
  \/ op.empty /\ (op.kind \in {"broadcast", "collect"} \/ (op.kind = "reduce" /\ op.nb))
  \/ op.kind = "broadcast" /\ op.root >= N
  \/ op.kind = "reduce" /\ ~ op.supported

Tell(p, k, what) == answer' = [answer EXCEPT ![p][k] = what]

CallRefused(p, k) ==
  /\ Refused(script[k])
  /\ Tell(p, k, "usage error")
  /\ UNCHANGED <<pc, native, open, buffer>>

(* init or post of the operation fails; nothing is outstanding.            *)
CallFails(p, k) ==
  /\ ~ Refused(script[k])
  /\ "post" \in Faults
  /\ Tell(p, k, "error")
  /\ pc' = [pc EXCEPT ![p] = "stopped"]
  /\ UNCHANGED <<native, open, buffer>>

CallPosts_AlwaysWaits(p, k) ==  \* mutant: the _nb variants wait as well
  /\ ~ Refused(script[k])
  /\ native' = [native EXCEPT ![p][k] = "in progress"]
  /\ buffer' = [buffer EXCEPT ![p][k] = Encoded(p, script[k])]
  /\ pc' = [pc EXCEPT ![p] = "wait"]
  /\ UNCHANGED <<answer, open>>

CallPosts(p, k) ==
  /\ ~ Refused(script[k])
  /\ native' = [native EXCEPT ![p][k] = "in progress"]
  /\ buffer' = [buffer EXCEPT ![p][k] = Encoded(p, script[k])]
  /\ IF script[k].nb
     THEN open' = [open EXCEPT ![p] = @ \cup {k}] /\ UNCHANGED pc
     ELSE pc' = [pc EXCEPT ![p] = "wait"] /\ UNCHANGED open
  /\ UNCHANGED answer

Call(p) ==
  /\ pc[p] = "run"
  /\ next[p] <= Length
  /\ next' = [next EXCEPT ![p] = @ + 1]
  /\ CallRefused(p, next[p]) \/ CallFails(p, next[p]) \/ CallPosts(p, next[p])
  /\ UNCHANGED <<script, user, unfinalized>>

(* UCC can finish call k for p (external): the root has posted a           *)
(* broadcast, everybody has posted any other operation.                    *)
CanFinish(p, k) ==
  LET posted(q) == native[q][k] # "none"
  IN  /\ native[p][k] = "in progress"
      /\ IF script[k].kind = "broadcast" THEN posted(script[k].root)
                                         ELSE \A q \in PEs : posted(q)

(* context.progress() drives every operation of the PE, not only the one   *)
(* being waited for; it may also report an error.                          *)
Progress_None(p) ==           \* mutant: the loop never calls progress
  /\ p \in PEs
  /\ UNCHANGED <<native, buffer>>

Progress(p) ==
  \E k \in Calls :
    \/ /\ CanFinish(p, k)
       /\ native' = [native EXCEPT ![p][k] = "ok"]
       /\ buffer' = [buffer EXCEPT ![p][k] = UccResult(script[k])]
    \/ /\ native[p][k] = "in progress" /\ "ucc" \in Faults
       /\ native' = [native EXCEPT ![p][k] = "error"]
       /\ UNCHANGED buffer

(* decode: the buffer's bytes replace the caller's values.  collect_nb has *)
(* no destination; its result stays in the request.                        *)
CopyBack_Forgotten(p, k) ==   \* mutant: the destination keeps its contribution
  p \in PEs /\ k \in Calls /\ UNCHANGED user

CopyBack(p, k) ==
  IF script[k].kind = "collect" /\ script[k].nb
  THEN UNCHANGED user
  ELSE user' = [user EXCEPT ![p][k] = buffer[p][k]]

(* op.finalize() fails; the operation is no longer held.                   *)
FinalizeFails(p, k) ==
  /\ "finalize" \in Faults
  /\ unfinalized' = [unfinalized EXCEPT ![p] = @ \cup {k}]
  /\ Tell(p, k, "error")
  /\ UNCHANGED user

(* One iteration of the loop in fn wait, for the blocking call p is in;    *)
(* after it the call decodes and returns.                                  *)
Wait(p) ==
  LET k == next[p] - 1
  IN  /\ pc[p] = "wait"
      /\ \/ /\ native[p][k] = "ok"
            /\ \/ /\ CopyBack(p, k) /\ Tell(p, k, "ok")
                  /\ pc' = [pc EXCEPT ![p] = "run"]
                  /\ UNCHANGED unfinalized
               \/ FinalizeFails(p, k) /\ pc' = [pc EXCEPT ![p] = "stopped"]
            /\ UNCHANGED <<native, buffer>>
         \/ /\ native[p][k] = "error"
            /\ Tell(p, k, "error")
            /\ pc' = [pc EXCEPT ![p] = "stopped"]
            /\ UNCHANGED <<native, buffer, user, unfinalized>>
         \/ /\ native[p][k] = "in progress"
            /\ Progress(p)
            /\ UNCHANGED <<pc, user, answer, unfinalized>>
      /\ UNCHANGED <<script, next, open>>

(* CollectiveRequest::test on the request of call k.  The op is taken out  *)
(* before it is finalized, and a request without an op answers Ok(true).   *)
(* Ok(false) leaves everything as it is but for what progress did, and a   *)
(* poll that advances nothing is a stutter.  wait on a request is test in  *)
(* a loop.                                                                 *)
Test_AnyStatus(p, k) ==  \* mutant: does not look at the status before finishing
  /\ pc[p] # "wait"
  /\ script[k].nb
  /\ native[p][k] # "none"
  /\ open' = [open EXCEPT ![p] = @ \ {k}]
  /\ CopyBack(p, k)
  /\ Tell(p, k, "ok")
  /\ UNCHANGED <<script, next, pc, native, buffer, unfinalized>>

Test(p, k) ==
  /\ pc[p] # "wait"
  /\ script[k].nb
  /\ native[p][k] # "none"
  /\ \/ /\ k \notin open[p]
        /\ Tell(p, k, "ok")
        /\ UNCHANGED <<native, open, buffer, user, unfinalized>>
     \/ /\ k \in open[p] /\ native[p][k] = "in progress"
        /\ Progress(p)
        /\ UNCHANGED <<open, user, answer, unfinalized>>
     \/ /\ k \in open[p] /\ native[p][k] = "error"
        /\ Tell(p, k, "error")
        /\ UNCHANGED <<native, open, buffer, user, unfinalized>>
     \/ /\ k \in open[p] /\ native[p][k] = "ok"
        /\ open' = [open EXCEPT ![p] = @ \ {k}]
        /\ \/ CopyBack(p, k) /\ Tell(p, k, "ok") /\ UNCHANGED unfinalized
           \/ FinalizeFails(p, k)
        /\ UNCHANGED <<native, buffer>>
  /\ UNCHANGED <<script, next, pc>>

(* CollectiveRequest::result once the op is gone: the receive buffer of    *)
(* collect_nb.  Its two errors, while the op is there and for the other    *)
(* kinds, change nothing.                                                  *)
Result(p, k) ==
  /\ pc[p] # "wait"
  /\ native[p][k] # "none"
  /\ script[k].nb
  /\ k \notin open[p] /\ script[k].kind = "collect"
  /\ Tell(p, k, "ok")
  /\ user' = [user EXCEPT ![p][k] = buffer[p][k]]
  /\ UNCHANGED <<script, next, pc, native, open, buffer, unfinalized>>

Next ==
  \E p \in PEs : \/ Call(p)
                 \/ Wait(p)
                 \/ \E k \in Calls : Test(p, k) \/ Result(p, k)

Spec == Init /\ [][Next]_vars

(* Every PE keeps making its calls, runs its wait loop and keeps testing   *)
(* its requests; progress calls eventually finish what can finish.         *)
FairSpec ==
  /\ Spec
  /\ \A p \in PEs : WF_vars(Call(p)) /\ WF_vars(Wait(p))
  /\ \A p \in PEs, k \in Calls : WF_vars(Test(p, k))

----------------------------------------------------------------------------

(* Every variable stays in its type; a PE waits only inside a blocking     *)
(* call, and only a posted non-blocking call has an open request.          *)
TypeOK ==
  /\ script \in [Calls -> Ops]
  /\ next \in [PEs -> 1 .. Length + 1]
  /\ pc \in [PEs -> {"run", "wait", "stopped"}]
  /\ native \in [PEs -> [Calls -> {"none", "in progress", "ok", "error"}]]
  /\ open \in [PEs -> SUBSET Calls]
  /\ answer \in [PEs -> [Calls -> {"none", "ok", "error", "usage error"}]]
  /\ unfinalized \in [PEs -> SUBSET Calls]
  /\ \A p \in PEs : /\ pc[p] = "wait" => next[p] > 1 /\ ~ script[next[p] - 1].nb
                    /\ \A k \in open[p] : script[k].nb /\ native[p][k] # "none"

(* The caller's destination holds the collective's value.  For collect_nb  *)
(* it is the buffer that result decodes.                                   *)
Delivered(p, k) ==
  IF script[k].kind = "collect" /\ script[k].nb
  THEN buffer[p][k] = UccResult(script[k])
  ELSE user[p][k] = UccResult(script[k])

ToldOk(p, k) == answer[p][k] = "ok" /\ native[p][k] # "none"

(* OkMeansDelivered: a caller that is told Ok by a blocking call, by test  *)
(* or by result holds the collective's value in its destination: "Typed    *)
(* broadcast and reduce copy completed bytes back into their borrowed      *)
(* destinations" (docs/DESIGN.md:56).                                      *)
OkMeansDelivered ==
  \A p \in PEs, k \in Calls : ToldOk(p, k) => Delivered(p, k)

(* FinalizedOkMeansDelivered: the same for every operation whose finalize  *)
(* did not fail, however often the caller tests a completed or failed      *)
(* request and whatever other operations are outstanding.                  *)
FinalizedOkMeansDelivered ==
  \A p \in PEs, k \in Calls :
    (ToldOk(p, k) /\ k \notin unfinalized[p]) => Delivered(p, k)

(* OkMeansEveryoneCalled: Ok from a barrier, collect or reduce means that  *)
(* every PE has posted the same call: the collective has synchronized, in  *)
(* its blocking form and in its polled one, whatever else is outstanding.  *)
OkMeansEveryoneCalled ==
  \A p \in PEs, k \in Calls :
    (answer[p][k] = "ok" /\ script[k].kind # "broadcast")
      => \A q \in PEs : native[q][k] # "none"

(* Some PE has given up after a failed call.                               *)
SomeoneStopped == \E q \in PEs : pc[q] = "stopped"

(* BlockingCallsReturn: every blocking collective that a PE enters         *)
(* returns, also with non-blocking ones outstanding that nobody polls or   *)
(* that have failed, unless some PE's call failed and it never joins.      *)
BlockingCallsReturn ==
  \A p \in PEs : (pc[p] = "wait") ~> (pc[p] # "wait" \/ SomeoneStopped)

(* PolledRequestsComplete: a request the program keeps testing completes,  *)
(* whatever blocking calls it makes in between, unless UCC reports an      *)
(* error for it or some PE never joins.                                    *)
PolledRequestsComplete ==
  \A p \in PEs, k \in Calls :
    (k \in open[p]) ~> (k \notin open[p] \/ native[p][k] = "error" \/ SomeoneStopped)

=============================================================================
