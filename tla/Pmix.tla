-------------------------------- MODULE Pmix --------------------------------
(***************************************************************************)
(* PMIx as the crate uses it (external): a key-value store into which each *)
(* PE puts and commits, a fence over all PEs of the job, blocking gets,    *)
(* and disconnecting.                                                      *)
(*                                                                         *)
(* Assumptions: a get returns what the owner committed last; the fence     *)
(* carries no data of its own (pmix::fence(&wildcard, None) asks for none);*)
(* a fence that a disconnected PE can no longer join fails.                *)
(***************************************************************************)
EXTENDS Integers

CONSTANT N   \* PEs launched

ASSUME JobAssumption == N \in Nat \ {0}

PEs == 0 .. N - 1

VARIABLES
  staged,   \* PE -> pairs put and not yet committed
  store,    \* PE -> pairs committed
  fences,   \* PE -> fences it has entered
  gone      \* PEs that have disconnected

pmix == <<staged, store, fences, gone>>

Empty == [k \in {} |-> 0]
Single(key, value) == [k \in {key} |-> value]

(* The pairs of map, replaced and extended by those of pairs.              *)
Update(map, pairs) ==
  [k \in DOMAIN map \cup DOMAIN pairs |-> IF k \in DOMAIN pairs THEN pairs[k] ELSE map[k]]

PmixInit ==
  /\ staged = [p \in PEs |-> Empty]
  /\ store = [p \in PEs |-> Empty]
  /\ fences = [p \in PEs |-> 0]
  /\ gone = {}

Put(p, key, value) ==
  /\ staged' = [staged EXCEPT ![p] = Update(@, Single(key, value))]
  /\ UNCHANGED <<store, fences, gone>>

Commit(p) ==
  /\ store' = [store EXCEPT ![p] = Update(@, staged[p])]
  /\ staged' = [staged EXCEPT ![p] = Empty]
  /\ UNCHANGED <<fences, gone>>

EnterFence(p) ==
  /\ fences' = [fences EXCEPT ![p] = @ + 1]
  /\ UNCHANGED <<staged, store, gone>>

(* Every PE has entered the fence p is in.                                 *)
FenceDone(p) == \A q \in PEs : fences[q] >= fences[p]

(* A PE left the job before it entered the fence p is in.                  *)
FenceBroken(p) == \E q \in gone : fences[q] < fences[p]

(* The rank exists and has committed the key.                              *)
Has(pe, key) == pe \in PEs /\ key \in DOMAIN store[pe]

Leave(p) ==
  /\ gone' = gone \cup {p}
  /\ UNCHANGED <<staged, store, fences>>

=============================================================================
