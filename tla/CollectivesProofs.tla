------------------------- MODULE CollectivesProofs -------------------------
(***************************************************************************)
(* Proofs about the collectives, for any number of PEs, any scripts of     *)
(* calls and any failing native calls.                                     *)
(***************************************************************************)
EXTENDS Collectives, WellFoundedInduction, TLAPS

(* The request of a non-blocking call has given its operation up.          *)
Closed(p, k) == script[k].nb /\ native[p][k] # "none" /\ k \notin open[p]

(* What holds of call k on PE p.  A request is only ever closed, and a     *)
(* caller only ever told Ok, once UCC shows the operation as done; UCC     *)
(* shows that only when its participants have posted, and then the buffer  *)
(* it was given holds the result.                                          *)
CallInv(p, k) ==
  /\ k >= next[p] => native[p][k] = "none" /\ answer[p][k] = "none"
  /\ native[p][k] = "ok" => buffer[p][k] = UccResult(script[k])
  /\ native[p][k] = "ok" /\ script[k].kind # "broadcast"
       => \A q \in PEs : native[q][k] # "none"
  /\ answer[p][k] = "ok" \/ Closed(p, k) => native[p][k] = "ok"
  /\ (answer[p][k] = "ok" \/ Closed(p, k)) /\ k \notin unfinalized[p] => Delivered(p, k)

(* A PE that waits is in a blocking call that it has posted; an open       *)
(* request belongs to a posted non-blocking one.                           *)
WaitInv(p) ==
  /\ pc[p] = "wait" => /\ next[p] > 1 /\ ~ script[next[p] - 1].nb
                       /\ native[p][next[p] - 1] # "none"
  /\ \A k \in open[p] : script[k].nb /\ native[p][k] # "none"

Types ==
  /\ script \in [Calls -> Ops]
  /\ next \in [PEs -> 1 .. Length + 1]
  /\ pc \in [PEs -> {"run", "wait", "stopped"}]
  /\ native \in [PEs -> [Calls -> {"none", "in progress", "ok", "error"}]]
  /\ open \in [PEs -> SUBSET Calls]
  /\ answer \in [PEs -> [Calls -> {"none", "ok", "error", "usage error"}]]
  /\ unfinalized \in [PEs -> SUBSET Calls]
  /\ DOMAIN buffer = PEs /\ \A p \in PEs : DOMAIN buffer[p] = Calls
  /\ DOMAIN user = PEs /\ \A p \in PEs : DOMAIN user[p] = Calls

(* The inductive invariant.                                                *)
CollInv ==
  /\ Types
  /\ \A p \in PEs : WaitInv(p)
  /\ \A p \in PEs, k \in Calls : CallInv(p, k)

LEMMA LengthIsNat == Length \in Nat
  BY CollectivesAssumption

LEMMA CallNumbers ==
  ASSUME NEW k \in Calls
  PROVE  k \in Nat /\ k >= 1 /\ k + 1 \in 1 .. Length + 1 /\ (k + 1) - 1 = k
  BY LengthIsNat DEF Calls

LEMMA InitInv == Init => CollInv
  <1> SUFFICES ASSUME Init  PROVE CollInv
    OBVIOUS
  <1>1. Types
    BY LengthIsNat DEF Init, Types, Calls
  <1>2. ASSUME NEW p \in PEs  PROVE WaitInv(p)
    BY DEF Init, WaitInv
  <1>3. ASSUME NEW p \in PEs, NEW k \in Calls  PROVE CallInv(p, k)
    BY DEF Init, CallInv, Closed
  <1> QED
    BY <1>1, <1>2, <1>3 DEF CollInv

LEMMA TypeFacts ==
  ASSUME CollInv, NEW p \in PEs
  PROVE  /\ next[p] \in Nat /\ next[p] >= 1 /\ next[p] <= Length + 1
         /\ pc[p] \in {"run", "wait", "stopped"}
         /\ DOMAIN native = PEs /\ DOMAIN native[p] = Calls
         /\ DOMAIN answer = PEs /\ DOMAIN answer[p] = Calls
         /\ DOMAIN buffer = PEs /\ DOMAIN buffer[p] = Calls
         /\ DOMAIN user = PEs /\ DOMAIN user[p] = Calls
         /\ DOMAIN next = PEs /\ DOMAIN pc = PEs /\ DOMAIN open = PEs
         /\ DOMAIN unfinalized = PEs
         /\ open[p] \subseteq Calls /\ unfinalized[p] \subseteq Calls
         /\ Calls \subseteq Nat
  <1>1. next[p] \in 1 .. Length + 1
    BY DEF CollInv, Types
  <1>2. next[p] \in Nat /\ next[p] >= 1 /\ next[p] <= Length + 1 /\ Calls \subseteq Nat
    BY <1>1, LengthIsNat DEF Calls
  <1> QED
    BY <1>2 DEF CollInv, Types

(* A step of the library concerns one call of one PE: nothing else moves.  *)
Only(p, k) ==
  \A q \in PEs, j \in Calls :
    q # p \/ j # k =>
      /\ native'[q][j] = native[q][j] /\ answer'[q][j] = answer[q][j]
      /\ buffer'[q][j] = buffer[q][j] /\ user'[q][j] = user[q][j]
      /\ j \in open'[q] <=> j \in open[q]
      /\ j \in unfinalized'[q] <=> j \in unfinalized[q]

LEMMA OneCall ==
  ASSUME CollInv, NEW p \in PEs, NEW k \in Calls, Only(p, k), UNCHANGED script,
         Types', \A q \in PEs : q # p => pc'[q] = pc[q] /\ next'[q] = next[q],
         next'[p] \in Nat, next'[p] >= next[p],
         native[p][k] # "none" => native'[p][k] # "none",
         WaitInv(p)', CallInv(p, k)'
  PROVE  CollInv'
  <1>1. ASSUME NEW q \in PEs, NEW j \in Calls, q # p \/ j # k  PROVE CallInv(q, j)'
    <2>1. /\ native'[q][j] = native[q][j] /\ answer'[q][j] = answer[q][j]
          /\ buffer'[q][j] = buffer[q][j] /\ user'[q][j] = user[q][j]
          /\ j \in open'[q] <=> j \in open[q]
          /\ j \in unfinalized'[q] <=> j \in unfinalized[q]
      BY <1>1 DEF Only
    <2>2. \A r \in PEs : native[r][j] # "none" => native'[r][j] # "none"
      BY DEF Only
    <2>3. j >= next'[q] => j >= next[q]
      BY TypeFacts
    <2>4. Closed(q, j)' <=> Closed(q, j)
      BY <2>1 DEF Closed
    <2>5. UccResult(script[j])' = UccResult(script[j])
      BY DEF UccResult
    <2>6. Delivered(q, j)' <=> Delivered(q, j)
      BY <2>1, <2>5 DEF Delivered
    <2> QED
      BY <2>1, <2>2, <2>3, <2>4, <2>5, <2>6 DEF CollInv, CallInv
  <1>2. ASSUME NEW q \in PEs, q # p  PROVE WaitInv(q)'
    <2>1. pc[q] = "wait" => next[q] - 1 \in Calls
      BY TypeFacts, LengthIsNat DEF CollInv, WaitInv, Calls
    <2>2. open'[q] \subseteq Calls
      BY DEF Types
    <2> QED
      BY <1>2, <2>1, <2>2 DEF CollInv, WaitInv, Only
  <1> QED
    BY <1>1, <1>2 DEF CollInv

(* Assigning one entry of a table of calls.                                *)
LEMMA TypedUpdate ==
  ASSUME NEW V, NEW f \in [PEs -> [Calls -> V]],
         NEW p \in PEs, NEW k \in Calls, NEW v \in V, NEW g, g = [f EXCEPT ![p][k] = v]
  PROVE  g \in [PEs -> [Calls -> V]]
  OBVIOUS

(* What the invariant says of one call of one PE.                          *)
LEMMA CallFacts ==
  ASSUME CollInv, NEW p \in PEs, NEW k \in Calls
  PROVE  CallInv(p, k) /\ WaitInv(p)
  BY DEF CollInv

----------------------------------------------------------------------------

Errors == {"error", "usage error"}

Advances(p) == next' = [next EXCEPT ![p] = @ + 1]

LEMMA AdvanceFacts ==
  ASSUME CollInv, NEW p \in PEs, NEW k \in Calls, k = next[p], Advances(p)
  PROVE  /\ k \in Nat /\ k >= 1 /\ k + 1 \in Nat /\ k + 1 >= k /\ (k + 1) - 1 = k
         /\ next'[p] = k + 1 /\ next' \in [PEs -> 1 .. Length + 1]
         /\ \A q \in PEs : q # p => next'[q] = next[q]
  <1>1. k \in Nat /\ k >= 1 /\ k + 1 \in 1 .. Length + 1 /\ (k + 1) - 1 = k
    BY CallNumbers
  <1>2. next \in [PEs -> 1 .. Length + 1]
    BY DEF CollInv, Types
  <1>3. next' = [next EXCEPT ![p] = k + 1]
    BY DEF Advances
  <1> QED
    BY <1>1, <1>2, <1>3

(* A call that is refused, or whose init or post fails.                    *)
LEMMA NotPosted ==
  ASSUME CollInv, NEW p \in PEs, pc[p] = "run", NEW k \in Calls, k = next[p],
         Advances(p), NEW what \in Errors,
         Tell(p, k, what), UNCHANGED <<native, open, buffer, script, user, unfinalized>>,
         pc' = pc \/ pc' = [pc EXCEPT ![p] = "stopped"]
  PROVE  CollInv'
  <1>1. answer' = [answer EXCEPT ![p][k] = what]
    BY DEF Tell
  <1>2. /\ pc' \in [PEs -> {"run", "wait", "stopped"}] /\ pc'[p] # "wait"
        /\ \A q \in PEs : q # p => pc'[q] = pc[q]
    BY DEF CollInv, Types
  <1>3. /\ answer'[p][k] = what
        /\ \A q \in PEs, j \in Calls : q # p \/ j # k => answer'[q][j] = answer[q][j]
    BY <1>1 DEF CollInv, Types
  <1>4. Types'
    <2>1. answer' \in [PEs -> [Calls -> {"none", "ok", "error", "usage error"}]]
      BY <1>1, TypedUpdate DEF CollInv, Types, Errors
    <2>2. next' \in [PEs -> 1 .. Length + 1]
      BY AdvanceFacts
    <2> QED
      BY <1>2, <2>1, <2>2 DEF CollInv, Types
  <1>5. Only(p, k)
    BY <1>3 DEF Only
  <1>6. WaitInv(p)'
    BY <1>2, CallFacts DEF WaitInv
  <1>7. native[p][k] = "none"
    BY AdvanceFacts, CallFacts DEF CallInv
  <1>8. CallInv(p, k)'
    <2>1. answer'[p][k] # "ok"
      BY <1>3 DEF Errors
    <2>2. native'[p][k] = "none"
      BY <1>7
    <2>3. ~ (k >= next'[p])
      BY AdvanceFacts
    <2> QED
      BY <2>1, <2>2, <2>3 DEF CallInv, Closed
  <1> QED
    BY <1>2, <1>4, <1>5, <1>6, <1>7, <1>8, AdvanceFacts, OneCall

(* A call that posts its operation.                                        *)
LEMMA Posted ==
  ASSUME CollInv, NEW p \in PEs, pc[p] = "run", NEW k \in Calls, k = next[p],
         Advances(p), CallPosts(p, k),
         UNCHANGED <<script, user, unfinalized>>
  PROVE  CollInv'
  <1>1. /\ native' = [native EXCEPT ![p][k] = "in progress"]
        /\ buffer' = [buffer EXCEPT ![p][k] = Encoded(p, script[k])]
        /\ UNCHANGED answer
        /\ \/ script[k].nb /\ open' = [open EXCEPT ![p] = @ \cup {k}] /\ UNCHANGED pc
           \/ ~ script[k].nb /\ pc' = [pc EXCEPT ![p] = "wait"] /\ UNCHANGED open
    BY DEF CallPosts
  <1>2. /\ k \in Nat /\ k >= 1 /\ k + 1 \in Nat /\ k + 1 >= k /\ (k + 1) - 1 = k
        /\ next'[p] = k + 1 /\ next' \in [PEs -> 1 .. Length + 1]
        /\ \A q \in PEs : q # p => next'[q] = next[q]
    BY AdvanceFacts
  <1>3. /\ native'[p][k] = "in progress"
        /\ \A q \in PEs, j \in Calls : q # p \/ j # k => native'[q][j] = native[q][j]
    BY <1>1 DEF CollInv, Types
  <1>4. /\ DOMAIN buffer' = PEs /\ \A q \in PEs : DOMAIN buffer'[q] = Calls
        /\ \A q \in PEs, j \in Calls : q # p \/ j # k => buffer'[q][j] = buffer[q][j]
    BY <1>1 DEF CollInv, Types
  <1>5. k \notin open[p]
    BY <1>2, CallFacts DEF CallInv, WaitInv
  <1>6. /\ open' \in [PEs -> SUBSET Calls]
        /\ k \in open'[p] <=> script[k].nb
        /\ \A q \in PEs, j \in Calls : q # p \/ j # k => (j \in open'[q] <=> j \in open[q])
    <2>1. open \in [PEs -> SUBSET Calls]
      BY DEF CollInv, Types
    <2>2. CASE script[k].nb
      BY <1>1, <2>1, <2>2
    <2>3. CASE ~ script[k].nb
      BY <1>1, <1>5, <2>1, <2>3
    <2> QED
      BY <2>2, <2>3
  <1>7. /\ pc' \in [PEs -> {"run", "wait", "stopped"}]
        /\ pc'[p] = "wait" => ~ script[k].nb
        /\ \A q \in PEs : q # p => pc'[q] = pc[q]
    <2>1. pc \in [PEs -> {"run", "wait", "stopped"}]
      BY DEF CollInv, Types
    <2> QED
      BY <1>1, <2>1
  <1>8. Types'
    <2>1. native' \in [PEs -> [Calls -> {"none", "in progress", "ok", "error"}]]
      BY <1>1, TypedUpdate DEF CollInv, Types
    <2> QED
      BY <1>1, <1>2, <1>4, <1>6, <1>7, <2>1 DEF CollInv, Types
  <1>9. Only(p, k)
    <2> SUFFICES ASSUME NEW q \in PEs, NEW j \in Calls, q # p \/ j # k
                 PROVE  /\ native'[q][j] = native[q][j] /\ answer'[q][j] = answer[q][j]
                        /\ buffer'[q][j] = buffer[q][j] /\ user'[q][j] = user[q][j]
                        /\ j \in open'[q] <=> j \in open[q]
                        /\ j \in unfinalized'[q] <=> j \in unfinalized[q]
      BY DEF Only
    <2>1. native'[q][j] = native[q][j]
      BY <1>3
    <2>2. buffer'[q][j] = buffer[q][j]
      BY <1>4
    <2>3. j \in open'[q] <=> j \in open[q]
      BY <1>6
    <2> QED
      BY <1>1, <2>1, <2>2, <2>3
  <1>10. WaitInv(p)'
    <2>1. ASSUME NEW j \in open'[p]  PROVE script'[j].nb /\ native'[p][j] # "none"
      <3>1. j \in Calls
        BY <1>6
      <3>2. CASE j = k
        BY <1>3, <1>6, <3>2
      <3>3. CASE j # k
        <4>1. j \in open[p] /\ native'[p][j] = native[p][j]
          BY <1>3, <1>6, <3>1, <3>3
        <4> QED
          BY <4>1, CallFacts DEF WaitInv
      <3> QED
        BY <3>2, <3>3
    <2>2. pc'[p] = "wait" => next'[p] > 1 /\ ~ script'[next'[p] - 1].nb
                             /\ native'[p][next'[p] - 1] # "none"
      <3>1. next'[p] - 1 = k /\ next'[p] > 1
        BY <1>2
      <3> QED
        BY <1>3, <1>7, <3>1
    <2> QED
      BY <2>1, <2>2 DEF WaitInv
  <1>11. CallInv(p, k)'
    <2>1. answer'[p][k] = "none"
      <3>1. k >= next[p]
        BY <1>2
      <3> QED
        BY <1>1, <3>1, CallFacts DEF CallInv
    <2>2. ~ (k >= next'[p])
      BY <1>2
    <2>3. ~ Closed(p, k)'
      BY <1>6 DEF Closed
    <2> QED
      BY <1>3, <2>1, <2>2, <2>3 DEF CallInv
  <1> QED
    BY <1>2, <1>3, <1>7, <1>8, <1>9, <1>10, <1>11, OneCall

LEMMA CallKeeps ==
  ASSUME CollInv, NEW p \in PEs, Call(p)
  PROVE  CollInv'
  <1>1. PICK k \in Calls : k = next[p]
    BY TypeFacts, LengthIsNat DEF Call, Calls
  <1>2. /\ pc[p] = "run" /\ Advances(p)
        /\ UNCHANGED <<script, user, unfinalized>>
        /\ CallRefused(p, k) \/ CallFails(p, k) \/ CallPosts(p, k)
    BY <1>1 DEF Call, Advances
  <1>3. CASE CallRefused(p, k)
    BY <1>1, <1>2, <1>3, NotPosted DEF CallRefused, Errors
  <1>4. CASE CallFails(p, k)
    BY <1>1, <1>2, <1>4, NotPosted DEF CallFails, Errors
  <1>5. CASE CallPosts(p, k)
    BY <1>1, <1>2, <1>5, Posted
  <1> QED
    BY <1>2, <1>3, <1>4, <1>5

----------------------------------------------------------------------------

(* UCC finishes or fails one operation that is in progress.                *)
LEMMA ProgressKeeps ==
  ASSUME CollInv, NEW p \in PEs, Progress(p),
         UNCHANGED <<script, next, pc, open, user, answer, unfinalized>>
  PROVE  CollInv'
  <1>1. PICK k \in Calls :
          /\ native[p][k] = "in progress"
          /\ \/ /\ CanFinish(p, k)
                /\ native' = [native EXCEPT ![p][k] = "ok"]
                /\ buffer' = [buffer EXCEPT ![p][k] = UccResult(script[k])]
             \/ /\ native' = [native EXCEPT ![p][k] = "error"]
                /\ buffer' = buffer
    BY DEF Progress, CanFinish
  <1>2. /\ native'[p][k] \in {"ok", "error"}
        /\ native' \in [PEs -> [Calls -> {"none", "in progress", "ok", "error"}]]
        /\ \A q \in PEs, j \in Calls : q # p \/ j # k => native'[q][j] = native[q][j]
    <2>1. native \in [PEs -> [Calls -> {"none", "in progress", "ok", "error"}]]
      BY DEF CollInv, Types
    <2>2. CASE native' = [native EXCEPT ![p][k] = "ok"]
      BY <2>1, <2>2
    <2>3. CASE native' = [native EXCEPT ![p][k] = "error"]
      BY <2>1, <2>3
    <2> QED
      BY <1>1, <2>2, <2>3
  <1>3. /\ DOMAIN buffer' = PEs /\ \A q \in PEs : DOMAIN buffer'[q] = Calls
        /\ \A q \in PEs, j \in Calls : q # p \/ j # k => buffer'[q][j] = buffer[q][j]
    <2>1. DOMAIN buffer = PEs /\ \A q \in PEs : DOMAIN buffer[q] = Calls
      BY DEF CollInv, Types
    <2>2. CASE buffer' = buffer
      BY <2>1, <2>2
    <2>3. CASE buffer' = [buffer EXCEPT ![p][k] = UccResult(script[k])]
      BY <2>1, <2>3
    <2> QED
      BY <1>1, <2>2, <2>3
  <1>4. native'[p][k] = "ok" => CanFinish(p, k) /\ buffer'[p][k] = UccResult(script[k])
    <2>1. native \in [PEs -> [Calls -> {"none", "in progress", "ok", "error"}]]
          /\ DOMAIN buffer = PEs /\ \A q \in PEs : DOMAIN buffer[q] = Calls
      BY DEF CollInv, Types
    <2>2. CASE native' = [native EXCEPT ![p][k] = "error"]
      BY <2>1, <2>2
    <2>3. CASE /\ CanFinish(p, k)
               /\ buffer' = [buffer EXCEPT ![p][k] = UccResult(script[k])]
      BY <2>1, <2>3
    <2> QED
      BY <1>1, <2>2, <2>3
  <1>5. answer[p][k] # "ok" /\ ~ Closed(p, k) /\ ~ (k >= next[p])
    BY <1>1, CallFacts DEF CallInv
  <1>6. Types'
    BY <1>2, <1>3 DEF CollInv, Types
  <1>7. Only(p, k)
    BY <1>2, <1>3 DEF Only
  <1>8. WaitInv(p)'
    <2>1. \A j \in Calls : native[p][j] # "none" => native'[p][j] # "none"
      BY <1>1, <1>2
    <2>2. pc[p] = "wait" => next[p] - 1 \in Calls
      BY TypeFacts, LengthIsNat, CallFacts DEF WaitInv, Calls
    <2>3. open[p] \subseteq Calls
      BY TypeFacts
    <2> QED
      BY <2>1, <2>2, <2>3, CallFacts DEF WaitInv
  <1>9. CallInv(p, k)'
    <2>1. ~ Closed(p, k)'
      BY <1>1, <1>5 DEF Closed
    <2>2. native'[p][k] = "ok" /\ script[k].kind # "broadcast"
            => \A q \in PEs : native'[q][k] # "none"
      <3> SUFFICES ASSUME native'[p][k] = "ok", script[k].kind # "broadcast", NEW q \in PEs
                   PROVE  native'[q][k] # "none"
        OBVIOUS
      <3>1. native[q][k] # "none"
        BY <1>4 DEF CanFinish
      <3>2. q # p => native'[q][k] = native[q][k]
        BY <1>2
      <3> QED
        BY <3>1, <3>2
    <2>3. UccResult(script[k])' = UccResult(script[k])
      BY DEF UccResult
    <2> QED
      BY <1>4, <1>5, <2>1, <2>2, <2>3 DEF CallInv
  <1>10. native'[p][k] # "none"
    BY <1>2
  <1>11. next[p] \in Nat /\ next'[p] >= next[p]
    BY TypeFacts
  <1> QED
    BY <1>6, <1>7, <1>8, <1>9, <1>10, <1>11, OneCall

(* What giving an answer does to the rest of the state.                    *)
Closes(p, k) == open' = open \/ open' = [open EXCEPT ![p] = @ \ {k}]
Writes(p, k) == user' = user \/ user' = [user EXCEPT ![p][k] = buffer[p][k]]
Marks(p, k) == unfinalized' = unfinalized \/ unfinalized' = [unfinalized EXCEPT ![p] = @ \cup {k}]
Resumes(p) == pc' = pc \/ pc' = [pc EXCEPT ![p] = "run"] \/ pc' = [pc EXCEPT ![p] = "stopped"]
Answers == {"ok", "error"}

(* A posted call is answered: Ok only when UCC has finished it and, unless *)
(* its finalize failed, the caller has its data.                           *)
LEMMA Answered ==
  ASSUME CollInv, NEW p \in PEs, NEW k \in Calls, NEW what \in Answers, Tell(p, k, what),
         native[p][k] # "none", Closes(p, k), Writes(p, k), Marks(p, k), Resumes(p),
         UNCHANGED <<script, next, native, buffer>>,
         what = "ok" \/ Closed(p, k)' =>
           native[p][k] = "ok" /\ (k \notin unfinalized'[p] => Delivered(p, k)')
  PROVE  CollInv'
  <1>1. /\ answer'[p][k] = what
        /\ answer' \in [PEs -> [Calls -> {"none", "ok", "error", "usage error"}]]
        /\ \A q \in PEs, j \in Calls : q # p \/ j # k => answer'[q][j] = answer[q][j]
    <2>1. answer \in [PEs -> [Calls -> {"none", "ok", "error", "usage error"}]]
      BY DEF CollInv, Types
    <2>2. what \in {"none", "ok", "error", "usage error"}
      BY DEF Answers
    <2> QED
      BY <2>1, <2>2 DEF Tell
  <1>2. /\ open' \in [PEs -> SUBSET Calls] /\ open'[p] \subseteq open[p]
        /\ \A q \in PEs, j \in Calls : q # p \/ j # k => (j \in open'[q] <=> j \in open[q])
    <2>1. open \in [PEs -> SUBSET Calls]
      BY DEF CollInv, Types
    <2> QED
      BY <2>1 DEF Closes
  <1>3. /\ unfinalized' \in [PEs -> SUBSET Calls]
        /\ \A q \in PEs, j \in Calls :
             q # p \/ j # k => (j \in unfinalized'[q] <=> j \in unfinalized[q])
    <2>1. unfinalized \in [PEs -> SUBSET Calls]
      BY DEF CollInv, Types
    <2> QED
      BY <2>1 DEF Marks
  <1>4. /\ DOMAIN user' = PEs /\ \A q \in PEs : DOMAIN user'[q] = Calls
        /\ \A q \in PEs, j \in Calls : q # p \/ j # k => user'[q][j] = user[q][j]
    <2>1. DOMAIN user = PEs /\ \A q \in PEs : DOMAIN user[q] = Calls
      BY DEF CollInv, Types
    <2> QED
      BY <2>1 DEF Writes
  <1>5. /\ pc' \in [PEs -> {"run", "wait", "stopped"}]
        /\ pc'[p] = "wait" => pc[p] = "wait"
        /\ \A q \in PEs : q # p => pc'[q] = pc[q]
    <2>1. pc \in [PEs -> {"run", "wait", "stopped"}]
      BY DEF CollInv, Types
    <2> QED
      BY <2>1 DEF Resumes
  <1>6. Types'
    BY <1>1, <1>2, <1>3, <1>4, <1>5 DEF CollInv, Types
  <1>7. Only(p, k)
    <2> SUFFICES ASSUME NEW q \in PEs, NEW j \in Calls, q # p \/ j # k
                 PROVE  /\ native'[q][j] = native[q][j] /\ answer'[q][j] = answer[q][j]
                        /\ buffer'[q][j] = buffer[q][j] /\ user'[q][j] = user[q][j]
                        /\ j \in open'[q] <=> j \in open[q]
                        /\ j \in unfinalized'[q] <=> j \in unfinalized[q]
      BY DEF Only
    <2>1. answer'[q][j] = answer[q][j] /\ user'[q][j] = user[q][j]
      BY <1>1, <1>4
    <2>2. j \in open'[q] <=> j \in open[q]
      BY <1>2
    <2>3. j \in unfinalized'[q] <=> j \in unfinalized[q]
      BY <1>3
    <2> QED
      BY <2>1, <2>2, <2>3
  <1>8. WaitInv(p)'
    BY <1>2, <1>5, CallFacts DEF WaitInv
  <1>9. CallInv(p, k)'
    <2>1. ~ (k >= next[p])
      BY CallFacts DEF CallInv
    <2>2. UccResult(script[k])' = UccResult(script[k])
      BY DEF UccResult
    <2>3. /\ native[p][k] = "ok" => buffer[p][k] = UccResult(script[k])
          /\ native[p][k] = "ok" /\ script[k].kind # "broadcast"
               => \A q \in PEs : native[q][k] # "none"
      BY CallFacts DEF CallInv
    <2> QED
      BY <1>1, <2>1, <2>2, <2>3 DEF CallInv
  <1>10. next[p] \in Nat /\ next'[p] >= next[p]
    BY TypeFacts
  <1> QED
    BY <1>5, <1>6, <1>7, <1>8, <1>9, <1>10, OneCall

(* Copying back the buffer of an operation that UCC has finished.          *)
LEMMA CopyBackDelivers ==
  ASSUME CollInv, NEW p \in PEs, NEW k \in Calls, native[p][k] = "ok",
         CopyBack(p, k), UNCHANGED <<script, buffer>>
  PROVE  Writes(p, k) /\ Delivered(p, k)'
  <1>1. buffer[p][k] = UccResult(script[k])
    BY CallFacts DEF CallInv
  <1>2. UccResult(script[k])' = UccResult(script[k])
    BY DEF UccResult
  <1>3. CASE script[k].kind = "collect" /\ script[k].nb
    BY <1>1, <1>2, <1>3 DEF CopyBack, Writes, Delivered
  <1>4. CASE ~ (script[k].kind = "collect" /\ script[k].nb)
    <2>1. user' = [user EXCEPT ![p][k] = buffer[p][k]]
      BY <1>4 DEF CopyBack
    <2>2. user'[p][k] = buffer[p][k]
      BY <2>1, TypeFacts
    <2> QED
      BY <1>1, <1>2, <1>4, <2>1, <2>2 DEF Writes, Delivered
  <1> QED
    BY <1>3, <1>4

(* A finalize that fails marks the call.                                   *)
LEMMA FinalizeMarks ==
  ASSUME CollInv, NEW p \in PEs, NEW k \in Calls, FinalizeFails(p, k)
  PROVE  /\ Marks(p, k) /\ k \in unfinalized'[p] /\ Writes(p, k)
         /\ Tell(p, k, "error")
  <1>1. unfinalized' = [unfinalized EXCEPT ![p] = @ \cup {k}]
    BY DEF FinalizeFails
  <1>2. k \in unfinalized'[p]
    BY <1>1, TypeFacts
  <1> QED
    BY <1>1, <1>2 DEF FinalizeFails, Marks, Writes

LEMMA WaitKeeps ==
  ASSUME CollInv, NEW p \in PEs, Wait(p)
  PROVE  CollInv'
  <1>0. next[p] \in Nat /\ next[p] > 1 /\ next[p] <= Length + 1
    BY TypeFacts DEF Wait, CollInv, WaitInv
  <1>1. PICK k \in Calls : k = next[p] - 1
    BY <1>0, LengthIsNat DEF Calls
  <1>2. ~ script[k].nb /\ native[p][k] # "none" /\ UNCHANGED <<script, next, open>>
    BY <1>1, CallFacts DEF Wait, WaitInv
  <1>3. ~ Closed(p, k)'
    BY <1>2 DEF Closed
  <1>4. \/ /\ native[p][k] = "ok"
           /\ \/ /\ CopyBack(p, k) /\ Tell(p, k, "ok")
                 /\ pc' = [pc EXCEPT ![p] = "run"]
                 /\ UNCHANGED unfinalized
              \/ FinalizeFails(p, k) /\ pc' = [pc EXCEPT ![p] = "stopped"]
           /\ UNCHANGED <<native, buffer>>
        \/ /\ native[p][k] = "error"
           /\ Tell(p, k, "error")
           /\ pc' = [pc EXCEPT ![p] = "stopped"]
           /\ UNCHANGED <<native, buffer, user, unfinalized>>
        \/ /\ Progress(p)
           /\ UNCHANGED <<pc, user, answer, unfinalized>>
    BY <1>1 DEF Wait
  <1>5. CASE /\ native[p][k] = "ok" /\ CopyBack(p, k) /\ Tell(p, k, "ok")
             /\ pc' = [pc EXCEPT ![p] = "run"]
             /\ UNCHANGED unfinalized /\ UNCHANGED <<native, buffer>>
    <2>1. Writes(p, k) /\ Delivered(p, k)'
      BY <1>2, <1>5, CopyBackDelivers
    <2>2. Closes(p, k) /\ Marks(p, k) /\ Resumes(p) /\ "ok" \in Answers
      BY <1>2, <1>5 DEF Closes, Marks, Resumes, Answers
    <2> QED
      BY <1>2, <1>5, <2>1, <2>2, Answered
  <1>6. CASE /\ native[p][k] = "ok" /\ FinalizeFails(p, k)
             /\ pc' = [pc EXCEPT ![p] = "stopped"] /\ UNCHANGED <<native, buffer>>
    <2>1. Closes(p, k) /\ Resumes(p) /\ "error" \in Answers
      BY <1>2, <1>6 DEF Closes, Resumes, Answers
    <2> QED
      BY <1>2, <1>3, <1>6, <2>1, FinalizeMarks, Answered
  <1>7. CASE /\ native[p][k] = "error" /\ Tell(p, k, "error")
             /\ pc' = [pc EXCEPT ![p] = "stopped"]
             /\ UNCHANGED <<native, buffer, user, unfinalized>>
    <2>1. /\ Closes(p, k) /\ Marks(p, k) /\ Writes(p, k) /\ Resumes(p)
          /\ "error" \in Answers
      BY <1>2, <1>7 DEF Closes, Marks, Writes, Resumes, Answers
    <2> QED
      BY <1>2, <1>3, <1>7, <2>1, Answered
  <1>8. CASE Progress(p) /\ UNCHANGED <<pc, user, answer, unfinalized>>
    BY <1>2, <1>8, ProgressKeeps
  <1> QED
    BY <1>4, <1>5, <1>6, <1>7, <1>8

LEMMA TestKeeps ==
  ASSUME CollInv, NEW p \in PEs, NEW k \in Calls, Test(p, k)
  PROVE  CollInv'
  <1>1. /\ script[k].nb /\ native[p][k] # "none" /\ UNCHANGED <<script, next, pc>>
        /\ Resumes(p)
    BY DEF Test, Resumes
  <1>2. CASE /\ k \notin open[p] /\ Tell(p, k, "ok")
             /\ UNCHANGED <<native, open, buffer, user, unfinalized>>
    <2>1. native[p][k] = "ok" /\ (k \notin unfinalized[p] => Delivered(p, k))
      BY <1>1, <1>2, CallFacts DEF CallInv, Closed
    <2>2. UccResult(script[k])' = UccResult(script[k])
      BY <1>1 DEF UccResult
    <2>3. Delivered(p, k) => Delivered(p, k)'
      BY <1>1, <1>2, <2>2 DEF Delivered
    <2>4. Closes(p, k) /\ Marks(p, k) /\ Writes(p, k) /\ "ok" \in Answers
      BY <1>2 DEF Closes, Marks, Writes, Answers
    <2> QED
      BY <1>1, <1>2, <2>1, <2>3, <2>4, Answered
  <1>3. CASE Progress(p) /\ UNCHANGED <<open, user, answer, unfinalized>>
    BY <1>1, <1>3, ProgressKeeps
  <1>4. CASE /\ k \in open[p] /\ Tell(p, k, "error")
             /\ UNCHANGED <<native, open, buffer, user, unfinalized>>
    <2>1. ~ Closed(p, k)'
      BY <1>4 DEF Closed
    <2>2. Closes(p, k) /\ Marks(p, k) /\ Writes(p, k) /\ "error" \in Answers
      BY <1>4 DEF Closes, Marks, Writes, Answers
    <2> QED
      BY <1>1, <1>4, <2>1, <2>2, Answered
  <1>5. CASE /\ native[p][k] = "ok" /\ open' = [open EXCEPT ![p] = @ \ {k}]
             /\ CopyBack(p, k) /\ Tell(p, k, "ok") /\ UNCHANGED unfinalized
             /\ UNCHANGED <<native, buffer>>
    <2>1. Writes(p, k) /\ Delivered(p, k)'
      BY <1>1, <1>5, CopyBackDelivers
    <2>2. Closes(p, k) /\ Marks(p, k) /\ "ok" \in Answers
      BY <1>5 DEF Closes, Marks, Answers
    <2> QED
      BY <1>1, <1>5, <2>1, <2>2, Answered
  <1>6. CASE /\ native[p][k] = "ok" /\ open' = [open EXCEPT ![p] = @ \ {k}]
             /\ FinalizeFails(p, k) /\ UNCHANGED <<native, buffer>>
    <2>1. Closes(p, k) /\ "error" \in Answers
      BY <1>6 DEF Closes, Answers
    <2> QED
      BY <1>1, <1>6, <2>1, FinalizeMarks, Answered
  <1> QED
    BY <1>2, <1>3, <1>4, <1>5, <1>6 DEF Test

LEMMA ResultKeeps ==
  ASSUME CollInv, NEW p \in PEs, NEW k \in Calls, Result(p, k)
  PROVE  CollInv'
  <1>1. /\ script[k].nb /\ script[k].kind = "collect"
        /\ native[p][k] # "none" /\ k \notin open[p] /\ Tell(p, k, "ok")
        /\ UNCHANGED <<script, next, pc, native, open, buffer, unfinalized>>
    BY DEF Result
  <1>2. Closed(p, k)
    BY <1>1 DEF Closed
  <1>3. native[p][k] = "ok" /\ buffer[p][k] = UccResult(script[k])
    BY <1>2, CallFacts DEF CallInv
  <1>4. UccResult(script[k])' = UccResult(script[k])
    BY <1>1 DEF UccResult
  <1>5. Delivered(p, k)'
    BY <1>1, <1>3, <1>4 DEF Delivered
  <1>6. Closes(p, k) /\ Marks(p, k) /\ Writes(p, k) /\ Resumes(p) /\ "ok" \in Answers
    BY <1>1 DEF Result, Closes, Marks, Writes, Resumes, Answers
  <1> QED
    BY <1>1, <1>3, <1>5, <1>6, Answered

LEMMA NextInv == CollInv /\ [Next]_vars => CollInv'
  <1> SUFFICES ASSUME CollInv, [Next]_vars  PROVE CollInv'
    OBVIOUS
  <1>1. CASE UNCHANGED vars
    <2>1. ASSUME NEW p \in PEs, NEW k \in Calls  PROVE CallInv(p, k)'
      <3>1. UccResult(script[k])' = UccResult(script[k])
        BY <1>1 DEF UccResult, vars
      <3>2. Delivered(p, k)' <=> Delivered(p, k)
        BY <1>1, <3>1 DEF Delivered, vars
      <3> QED
        BY <1>1, <3>1, <3>2, CallFacts DEF vars, CallInv, Closed
    <2>2. ASSUME NEW p \in PEs  PROVE WaitInv(p)'
      BY <1>1 DEF vars, CollInv, WaitInv
    <2>3. Types'
      BY <1>1 DEF vars, CollInv, Types
    <2> QED
      BY <2>1, <2>2, <2>3 DEF CollInv
  <1>2. ASSUME NEW p \in PEs, Call(p)  PROVE CollInv'
    BY <1>2, CallKeeps
  <1>3. ASSUME NEW p \in PEs, Wait(p)  PROVE CollInv'
    BY <1>3, WaitKeeps
  <1>4. ASSUME NEW p \in PEs, NEW k \in Calls, Test(p, k)  PROVE CollInv'
    BY <1>4, TestKeeps
  <1>5. ASSUME NEW p \in PEs, NEW k \in Calls, Result(p, k)  PROVE CollInv'
    BY <1>5, ResultKeeps
  <1> QED
    BY <1>1, <1>2, <1>3, <1>4, <1>5 DEF Next

----------------------------------------------------------------------------

(* The invariant holds throughout every execution.                         *)
THEOREM CollInvariant == Spec => []CollInv
  BY InitInv, NextInv, PTL DEF Spec

(* Every variable stays in its type; a PE waits only inside a blocking     *)
(* call, and only a posted non-blocking call has an open request.          *)
THEOREM TypeCorrect == Spec => []TypeOK
  <1>1. CollInv => TypeOK
    BY DEF CollInv, Types, WaitInv, TypeOK
  <1> QED
    BY <1>1, CollInvariant, PTL

(* Ok from a barrier, collect or reduce, blocking or polled, means that    *)
(* every PE has posted the same call.                                      *)
THEOREM OkSynchronizes == Spec => []OkMeansEveryoneCalled
  <1>1. CollInv => OkMeansEveryoneCalled
    BY DEF CollInv, CallInv, OkMeansEveryoneCalled
  <1> QED
    BY <1>1, CollInvariant, PTL

(* A caller told Ok by a blocking call, by test or by result holds the     *)
(* collective's value, unless the finalize of that operation failed.       *)
THEOREM OkDelivers == Spec => []FinalizedOkMeansDelivered
  <1>1. CollInv => FinalizedOkMeansDelivered
    BY DEF CollInv, CallInv, ToldOk, FinalizedOkMeansDelivered
  <1> QED
    BY <1>1, CollInvariant, PTL

(* DESIGN.md's sentence is true of every process in which op.finalize()    *)
(* does not fail: a failing finalize is the only way to the counterexample *)
(* of OkMeansDelivered.                                                    *)
THEOREM OkDeliversUnlessFinalizeFails ==
  ASSUME "finalize" \notin Faults
  PROVE  Spec => []OkMeansDelivered
  <1> DEFINE AllFinalized == \A p \in PEs : unfinalized[p] = {}
  <1>1. Init => AllFinalized
    BY DEF Init
  <1>2. AllFinalized /\ [Next]_vars => AllFinalized'
    <2> SUFFICES ASSUME AllFinalized, [Next]_vars  PROVE UNCHANGED unfinalized
      OBVIOUS
    <2>1. ASSUME NEW p \in PEs, Call(p)  PROVE UNCHANGED unfinalized
      BY <2>1 DEF Call
    <2>2. ASSUME NEW p \in PEs, Wait(p)  PROVE UNCHANGED unfinalized
      BY <2>2 DEF Wait, FinalizeFails
    <2>3. ASSUME NEW p \in PEs, NEW k \in Calls, Test(p, k)  PROVE UNCHANGED unfinalized
      BY <2>3 DEF Test, FinalizeFails
    <2>4. ASSUME NEW p \in PEs, NEW k \in Calls, Result(p, k)  PROVE UNCHANGED unfinalized
      BY <2>4 DEF Result
    <2> QED
      BY <2>1, <2>2, <2>3, <2>4 DEF Next, vars
  <1>3. AllFinalized /\ FinalizedOkMeansDelivered => OkMeansDelivered
    BY DEF FinalizedOkMeansDelivered, OkMeansDelivered
  <1> HIDE DEF AllFinalized
  <1> QED
    BY <1>1, <1>2, <1>3, OkDelivers, PTL DEF Spec

----------------------------------------------------------------------------
(***************************************************************************)
(* Why a blocking call returns: the part of BlockingCallsReturn that is a  *)
(* safety property.                                                        *)
(***************************************************************************)

(* What a PE has posted: exactly the calls it has come past that were not  *)
(* refused, unless it stopped at a failing one.                            *)
PostedInv ==
  \A p \in PEs, k \in Calls :
    /\ native[p][k] # "none" => ~ Refused(script[k])
    /\ k < next[p] /\ ~ Refused(script[k]) /\ pc[p] # "stopped" => native[p][k] # "none"

(* A step that makes no call neither posts nor withdraws anything.         *)
LEMMA QuietStep ==
  ASSUME CollInv, PostedInv, UNCHANGED <<script, next>>,
         \A q \in PEs, j \in Calls : native'[q][j] = "none" <=> native[q][j] = "none",
         \A q \in PEs : pc'[q] # "stopped" => pc[q] # "stopped"
  PROVE  PostedInv'
  BY DEF PostedInv, Refused

LEMMA ProgressPosts ==
  ASSUME CollInv, NEW p \in PEs, Progress(p)
  PROVE  \A q \in PEs, j \in Calls : native'[q][j] = "none" <=> native[q][j] = "none"
  <1>1. \A q \in PEs : DOMAIN native = PEs /\ DOMAIN native[q] = Calls
    BY TypeFacts
  <1>2. PICK k \in Calls : /\ native[p][k] = "in progress"
                           /\ \/ native' = [native EXCEPT ![p][k] = "ok"]
                              \/ native' = [native EXCEPT ![p][k] = "error"]
    BY DEF Progress, CanFinish
  <1>3. PICK s \in {"ok", "error"} : native' = [native EXCEPT ![p][k] = s]
    BY <1>2
  <1>4. ASSUME NEW q \in PEs, NEW j \in Calls
        PROVE  native'[q][j] = IF q = p /\ j = k THEN s ELSE native[q][j]
    BY <1>1, <1>3
  <1> QED
    BY <1>2, <1>4

LEMMA CallPosted ==
  ASSUME CollInv, PostedInv, NEW p \in PEs, Call(p)
  PROVE  PostedInv'
  <1> DEFINE k == next[p]
  <1>0. /\ next[p] \in Nat /\ next[p] >= 1 /\ pc[p] = "run" /\ UNCHANGED script
        /\ next[p] <= Length /\ next' = [next EXCEPT ![p] = next[p] + 1]
        /\ DOMAIN next = PEs /\ DOMAIN pc = PEs /\ DOMAIN native = PEs
    BY TypeFacts DEF Call
  <1>1. k \in Calls /\ DOMAIN native[p] = Calls
    BY <1>0, LengthIsNat, TypeFacts DEF Calls
  <1>2. ASSUME NEW q \in PEs, NEW j \in Calls, q # p \/ j # k,
               native'[q][j] = native[q][j], pc'[q] # "stopped" => pc[q] # "stopped"
        PROVE  /\ native'[q][j] # "none" => ~ Refused(script[j])
               /\ j < next'[q] /\ ~ Refused(script[j]) /\ pc'[q] # "stopped"
                    => native'[q][j] # "none"
    <2>1. j < next'[q] => j < next[q]
      <3>1. j \in Nat /\ next[q] \in Nat
        BY CallNumbers, TypeFacts
      <3>2. CASE q = p
        BY <1>0, <1>2, <3>1, <3>2
      <3>3. CASE q # p
        BY <1>0, <3>3
      <3> QED
        BY <3>2, <3>3
    <2> QED
      BY <1>2, <2>1 DEF PostedInv
  <1>3. ASSUME /\ native'[p][k] # "none" => ~ Refused(script[k])
               /\ ~ Refused(script[k]) /\ pc'[p] # "stopped" => native'[p][k] # "none",
               \A q \in PEs, j \in Calls : q # p \/ j # k => native'[q][j] = native[q][j],
               \A q \in PEs : pc'[q] # "stopped" => pc[q] # "stopped"
        PROVE  PostedInv'
    <2>1. ASSUME NEW q \in PEs, NEW j \in Calls
          PROVE  /\ native'[q][j] # "none" => ~ Refused(script[j])
                 /\ j < next'[q] /\ ~ Refused(script[j]) /\ pc'[q] # "stopped"
                      => native'[q][j] # "none"
      <3>1. CASE q = p /\ j = k
        BY <1>3, <3>1
      <3>2. CASE q # p \/ j # k
        BY <1>2, <1>3, <3>2
      <3> QED
        BY <3>1, <3>2
    <2> QED
      BY <1>0, <2>1 DEF PostedInv, Refused
  <1>4. native[p][k] = "none"
    BY <1>0, <1>1, CallFacts DEF CallInv
  <1>5. CASE CallRefused(p, k)
    BY <1>3, <1>4, <1>5 DEF CallRefused
  <1>6. CASE CallFails(p, k)
    <2>1. pc' = [pc EXCEPT ![p] = "stopped"] /\ UNCHANGED native
      BY <1>6 DEF CallFails
    <2> QED
      BY <1>0, <1>3, <1>4, <2>1
  <1>7. CASE CallPosts(p, k)
    <2>1. /\ ~ Refused(script[k]) /\ native' = [native EXCEPT ![p][k] = "in progress"]
          /\ \A q \in PEs : pc'[q] # "stopped" => pc[q] # "stopped"
      BY <1>0, <1>7 DEF CallPosts
    <2>2. \A q \in PEs : DOMAIN native[q] = Calls
      BY TypeFacts
    <2>3. /\ native'[p][k] = "in progress"
          /\ \A q \in PEs, j \in Calls : q # p \/ j # k => native'[q][j] = native[q][j]
      BY <1>0, <1>1, <2>1, <2>2
    <2> HIDE DEF k
    <2> QED
      BY <1>3, <2>1, <2>3
  <1> QED
    BY <1>5, <1>6, <1>7 DEF Call

LEMMA PostedStep == CollInv /\ PostedInv /\ [Next]_vars => PostedInv'
  <1> SUFFICES ASSUME CollInv, PostedInv, [Next]_vars  PROVE PostedInv'
    OBVIOUS
  <1>0. DOMAIN pc = PEs
    BY DEF CollInv, Types
  <1>1. ASSUME NEW p \in PEs, Call(p)  PROVE PostedInv'
    BY <1>1, CallPosted
  <1>2. ASSUME NEW p \in PEs, Wait(p)  PROVE PostedInv'
    <2>1. \A q \in PEs, j \in Calls : native'[q][j] = "none" <=> native[q][j] = "none"
      BY <1>2, ProgressPosts DEF Wait
    <2>2. \A q \in PEs : pc'[q] # "stopped" => pc[q] # "stopped"
      BY <1>0, <1>2 DEF Wait
    <2>3. UNCHANGED <<script, next>>
      BY <1>2 DEF Wait
    <2> QED
      BY <2>1, <2>2, <2>3, QuietStep
  <1>3. ASSUME NEW p \in PEs, NEW k \in Calls, Test(p, k)  PROVE PostedInv'
    <2>1. \A q \in PEs, j \in Calls : native'[q][j] = "none" <=> native[q][j] = "none"
      BY <1>3, ProgressPosts DEF Test
    <2>2. UNCHANGED <<script, next, pc>>
      BY <1>3 DEF Test
    <2> QED
      BY <2>1, <2>2, QuietStep
  <1>4. ASSUME NEW p \in PEs, NEW k \in Calls, Result(p, k)  PROVE PostedInv'
    BY <1>4, QuietStep DEF Result
  <1>5. CASE UNCHANGED vars
    BY <1>5, QuietStep DEF vars
  <1> QED
    BY <1>1, <1>2, <1>3, <1>4, <1>5 DEF Next

(* CollectivesNeverDeadlock: when no call has failed and every PE is in a  *)
(* blocking collective or at the end of its script, one of the waiting PEs *)
(* can go on: UCC shows its operation as finished, or every participant it *)
(* needs has posted.  Neither refused calls nor non-blocking operations    *)
(* left unpolled can make the PEs wait for each other.                     *)
CollectivesNeverDeadlock ==
  ( /\ ~ SomeoneStopped
    /\ \A q \in PEs : pc[q] = "wait" \/ next[q] = Length + 1
    /\ \E q \in PEs : pc[q] = "wait" ) =>
       \E p \in PEs : /\ pc[p] = "wait"
                      /\ \/ native[p][next[p] - 1] \in {"ok", "error"}
                         \/ CanFinish(p, next[p] - 1)

(* The PE that is furthest behind in the script.                           *)
LEMMA FurthestBehind ==
  ASSUME CollInv, NEW W \in SUBSET PEs, W # {}
  PROVE  \E p \in W : \A q \in W : next[p] <= next[q]
  <1> DEFINE T == { next[q] : q \in W }
             R == {ss \in Nat \X Nat : ss[1] < ss[2]}
  <1>1. T \in SUBSET Nat /\ T # {}
    BY TypeFacts
  <1>2. IsWellFoundedOn(R, Nat)
    BY NatLessThanWellFounded DEF OpToRel
  <1>3. PICK x \in T : \A y \in T : ~ (<<y, x>> \in R)
    <2> HIDE DEF R, T
    <2> QED
      BY <1>1, <1>2, WFMin
  <1>4. PICK p \in W : x = next[p]
    BY <1>3
  <1>5. ASSUME NEW q \in W  PROVE next[p] <= next[q]
    <2>1. next[q] \in Nat /\ next[p] \in Nat /\ next[q] \in T
      BY TypeFacts
    <2>2. ~ (<<next[q], next[p]>> \in R)
      BY <1>3, <1>4, <2>1
    <2> QED
      BY <2>1, <2>2
  <1> QED
    BY <1>5

(* The collectives of a team cannot deadlock, for any number of PEs and    *)
(* every script.                                                           *)
THEOREM NoCollectiveDeadlock == Spec => []CollectivesNeverDeadlock
  <1>1. CollInv /\ PostedInv => CollectivesNeverDeadlock
    <2> SUFFICES ASSUME CollInv, PostedInv, ~ SomeoneStopped,
                        \A q \in PEs : pc[q] = "wait" \/ next[q] = Length + 1,
                        \E q \in PEs : pc[q] = "wait"
                 PROVE  \E p \in PEs : /\ pc[p] = "wait"
                                       /\ \/ native[p][next[p] - 1] \in {"ok", "error"}
                                          \/ CanFinish(p, next[p] - 1)
      BY DEF CollectivesNeverDeadlock
    <2> DEFINE W == { q \in PEs : pc[q] = "wait" }
    <2>1. PICK p \in W : \A q \in W : next[p] <= next[q]
      <3>1. W \in SUBSET PEs /\ W # {}
        OBVIOUS
      <3> HIDE DEF W
      <3> QED
        BY <3>1, FurthestBehind
    <2> DEFINE k == next[p] - 1
    <2>2. /\ p \in PEs /\ pc[p] = "wait" /\ next[p] \in Nat /\ next[p] > 1
          /\ next[p] <= Length + 1
      BY <2>1, TypeFacts DEF CollInv, WaitInv
    <2>3. k \in Calls /\ k \in Nat /\ k < next[p]
      BY <2>2, LengthIsNat DEF Calls
    <2>4. native[p][k] # "none" /\ native[p][k] \in {"none", "in progress", "ok", "error"}
      <3>1. native[p][k] # "none"
        BY <2>2 DEF CollInv, WaitInv
      <3>2. native \in [PEs -> [Calls -> {"none", "in progress", "ok", "error"}]]
        BY DEF CollInv, Types
      <3> HIDE DEF k
      <3> QED
        BY <2>2, <2>3, <3>1, <3>2
    <2>5. ~ Refused(script[k])
      BY <2>2, <2>3, <2>4 DEF PostedInv
    <2>6. ASSUME NEW q \in PEs  PROVE native[q][k] # "none"
      <3>1. next[q] \in Nat /\ next[p] <= next[q]
        <4>1. CASE pc[q] = "wait"
          BY <2>1, <4>1, TypeFacts
        <4>2. CASE next[q] = Length + 1
          BY <2>2, <4>2, LengthIsNat
        <4> QED
          BY <4>1, <4>2
      <3>2. k < next[q]
        <4> HIDE DEF k
        <4> QED
          BY <2>2, <2>3, <3>1
      <3>3. pc[q] # "stopped"
        BY DEF SomeoneStopped
      <3> HIDE DEF k
      <3> QED
        BY <2>3, <2>5, <3>2, <3>3 DEF PostedInv
    <2>7. script[k].kind = "broadcast" => script[k].root \in PEs
      <3>1. script[k].root \in Nat
        <4>1. script \in [Calls -> Ops]
          BY DEF CollInv, Types
        <4> HIDE DEF k
        <4>2. script[k] \in Ops
          BY <2>3, <4>1
        <4> QED
          BY <4>2, CollectivesAssumption
      <3> HIDE DEF k
      <3> QED
        BY <2>5, <3>1, CollectivesAssumption DEF Refused, PEs
    <2>8. native[p][k] \in {"ok", "error"} \/ CanFinish(p, k)
      <3> HIDE DEF k
      <3> QED
        BY <2>4, <2>6, <2>7 DEF CanFinish
    <2> QED
      BY <2>2, <2>8
  <1>2. Init => PostedInv
    <2> SUFFICES ASSUME Init, NEW p \in PEs, NEW k \in Calls
                 PROVE  native[p][k] = "none" /\ ~ (k < next[p])
      BY DEF PostedInv
    <2>1. native[p][k] = "none" /\ next[p] = 1
      BY DEF Init
    <2> QED
      BY <2>1, CallNumbers
  <1> QED
    BY <1>1, <1>2, CollInvariant, PostedStep, PTL DEF Spec

=============================================================================
