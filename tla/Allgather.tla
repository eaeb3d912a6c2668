----------------------------- MODULE Allgather -----------------------------
(***************************************************************************)
(* What the out-of-band allgather callback promises UCC (the interface     *)
(* ucc_oob_coll_t that src/coll.rs fills in; external): in each round      *)
(* every PE contributes, and a PE that is told the round succeeded holds   *)
(* one contribution of every PE it collects from, in rank order.  With     *)
(* Drift = 0 they are the contributions to that very round, as UCC         *)
(* expects; otherwise a block may come from a round up to Drift later.     *)
(***************************************************************************)
EXTENDS Integers, Sequences

CONSTANTS
  Members,            \* the PEs of the job
  Collects(_),        \* the members whose contributions a PE is given
  Rounds,             \* allgathers a PE makes
  Drift,              \* rounds by which a block may be too new
  Contribution(_, _)  \* what a PE contributes to a round

VARIABLES
  begun,   \* PE -> rounds it has joined
  got      \* PE -> the outcomes it was given, one per round

(* The outcome of a failed round: no blocks at all.                        *)
Failed == [q \in {} |-> 0]

Init ==
  /\ begun = [p \in Members |-> 0]
  /\ got = [p \in Members |-> <<>>]

Begin(p) ==
  /\ begun[p] = Len(got[p])
  /\ begun[p] < Rounds
  /\ begun' = [begun EXCEPT ![p] = @ + 1]
  /\ UNCHANGED got

(* A round succeeds for p only after every PE has joined it.  A block can  *)
(* be too new only if the rounds before it are over for its owner.         *)
Succeed(p) ==
  /\ begun[p] = Len(got[p]) + 1
  /\ \A q \in Members : begun[q] >= begun[p]
  /\ \E ahead \in [Collects(p) -> 0 .. Drift] :
       /\ \A q \in Collects(p) : ahead[q] > 0 =>
            /\ begun[p] + ahead[q] <= Rounds
            /\ Len(got[q]) >= begun[p] + ahead[q] - 1
       /\ got' = [got EXCEPT ![p] =
                    Append(@, [q \in Collects(p) |-> Contribution(q, begun[p] + ahead[q])])]
  /\ UNCHANGED begun

(* It may fail before or after p has joined it.                            *)
Fail(p) ==
  /\ Len(got[p]) < Rounds
  /\ got' = [got EXCEPT ![p] = Append(@, Failed)]
  /\ UNCHANGED begun

Next == \E p \in Members : Begin(p) \/ Succeed(p) \/ Fail(p)

Spec == Init /\ [][Next]_<<begun, got>>

=============================================================================
