---------------------------- MODULE OobAllgather ----------------------------
(***************************************************************************)
(* The out-of-band allgather that Runtime::new (src/coll.rs) hands to UCC. *)
(* UCC calls it any number of times while it creates the team.  Each call  *)
(* puts the PE's bytes under the one key OOB_KEY, commits, fences, reads   *)
(* that key of every rank, and boxes the status into a request that UCC    *)
(* tests and frees.  Nothing separates the reads of one call from the puts *)
(* of the next.  When Runtime::new fails, init disconnects the PE and      *)
(* ignores a disconnect that fails (src/init.rs:145).                      *)
(***************************************************************************)
EXTENDS Pmix, Sequences

CONSTANTS
  Size,     \* PE -> the job size init determined (OobState.size)
  Lengths,  \* the byte length UCC passes in each round
  Faults    \* the native calls that may fail

Calls == {"runtime", "put", "commit", "fence", "get", "disconnect"}

(* A PE whose size is zero or too large fails in handshake (Bootstrap).    *)
ASSUME OobAssumption ==
  /\ Size \in [PEs -> 1 .. N]
  /\ Lengths \in Seq(Nat)
  /\ Faults \subseteq Calls

VARIABLES
  pc,       \* PE -> where it is in the callback
  round,    \* PE -> rounds it has begun
  dst,      \* PE -> the blocks copied into the destination buffer so far
  request,  \* PE -> status boxed in the request UCC holds, if any
  results,  \* PE -> outcome of each of its rounds
  silent    \* history: the PEs that failed and did not disconnect

vars == <<pmix, pc, round, dst, request, results, silent>>

Rounds == Len(Lengths)
NoRequest == "none"
(* The outcome of a failed round: no blocks at all.                        *)
Failed == [q \in {} |-> 0]

(* The bytes PE p contributes to round k, known by their owner and round.  *)
Contribution(p, k) == [pe |-> p, round |-> k, len |-> Lengths[k]]

(* The ranks whose bytes PE p collects.                                    *)
Ranks(p) == 0 .. Size[p] - 1

Init ==
  /\ PmixInit
  /\ pc = [p \in PEs |-> "ucc"]
  /\ round = [p \in PEs |-> 0]
  /\ dst = [p \in PEs |-> <<>>]
  /\ request = [p \in PEs |-> NoRequest]
  /\ results = [p \in PEs |-> <<>>]
  /\ silent = {}

Goto(p, label) == pc' = [pc EXCEPT ![p] = label]

(* init's reaction to an error of Runtime::new: it disconnects, and "let _ *)
(* = failed_state.client.disconnect(None)" ignores a failure.              *)
Disconnect_Skipped(p) ==  \* mutant: init does not disconnect
  UNCHANGED <<pmix, silent>>

Disconnect(p) ==
  \/ Leave(p) /\ UNCHANGED silent
  \/ "disconnect" \in Faults /\ silent' = silent \cup {p} /\ UNCHANGED pmix

(* The callback returns -1 with the request set, and Runtime::new fails.   *)
Fail(p) ==
  /\ Goto(p, "failed")
  /\ request' = [request EXCEPT ![p] = "-1"]
  /\ results' = [results EXCEPT ![p] = Append(@, Failed)]
  /\ Disconnect(p)
  /\ UNCHANGED <<round, dst>>

----------------------------------------------------------------------------

(* init gives up outside the callback: handshake failed after its fence,   *)
(* or UccLib::init, UccContext::new or UccTeam::with_params fails.         *)
GiveUp(p) ==
  /\ pc[p] = "ucc"
  /\ request[p] = NoRequest
  /\ "runtime" \in Faults
  /\ Goto(p, "failed")
  /\ Disconnect(p)
  /\ UNCHANGED <<round, dst, request, results>>

(* UCC calls allgather for its next round; a length of zero is refused     *)
(* with -27 and no request.                                                *)
CallAllgather(p) ==
  /\ pc[p] = "ucc"
  /\ request[p] = NoRequest
  /\ round[p] < Rounds
  /\ round' = [round EXCEPT ![p] = @ + 1]
  /\ dst' = [dst EXCEPT ![p] = <<>>]
  /\ \/ /\ Lengths[round[p] + 1] > 0
        /\ Goto(p, "put")
        /\ UNCHANGED <<pmix, results, silent>>
     \/ /\ Lengths[round[p] + 1] = 0
        /\ Goto(p, "failed")
        /\ results' = [results EXCEPT ![p] = Append(@, Failed)]
        /\ Disconnect(p)
  /\ UNCHANGED request

OOB_KEY == "openshmem.ucc.oob"

PutBytes(p) ==
  /\ pc[p] = "put"
  /\ \/ /\ Put(p, OOB_KEY, Contribution(p, round[p]))
        /\ Goto(p, "commit")
        /\ UNCHANGED <<round, dst, request, results, silent>>
     \/ "put" \in Faults /\ Fail(p)

CommitBytes(p) ==
  /\ pc[p] = "commit"
  /\ \/ /\ Commit(p)
        /\ Goto(p, "enter")
        /\ UNCHANGED <<round, dst, request, results, silent>>
     \/ "commit" \in Faults /\ Fail(p)

CallFence_Skipped(p) ==  \* mutant: the fence is left out
  /\ pc[p] = "enter"
  /\ Goto(p, "get")
  /\ UNCHANGED <<pmix, round, dst, request, results, silent>>

CallFence(p) ==
  /\ pc[p] = "enter"
  /\ \/ /\ EnterFence(p)
        /\ Goto(p, "fence")
        /\ UNCHANGED <<round, dst, request, results, silent>>
     \/ "fence" \in Faults /\ Fail(p)

LeaveFence(p) ==
  /\ pc[p] = "fence"
  /\ \/ /\ FenceDone(p)
        /\ Goto(p, "get")
        /\ UNCHANGED <<pmix, round, dst, request, results, silent>>
     \/ FenceBroken(p) /\ Fail(p)

(* The rank the copy loop is at.                                           *)
Peer(p) == Len(dst[p])

(* One iteration: get the rank's bytes, check their length, copy them.     *)
GetPeer(p) ==
  /\ pc[p] = "get"
  /\ Peer(p) < Size[p]
  /\ LET fits == Has(Peer(p), OOB_KEY) /\ store[Peer(p)][OOB_KEY].len = Lengths[round[p]]
     IN  \/ /\ fits
            /\ dst' = [dst EXCEPT ![p] = Append(@, store[Peer(p)][OOB_KEY])]
            /\ UNCHANGED <<pmix, pc, round, request, results, silent>>
         \/ (~ fits \/ "get" \in Faults) /\ Fail(p)

(* Status 0: the request is boxed and the destination is UCC's.            *)
ReturnOk(p) ==
  /\ pc[p] = "get"
  /\ Peer(p) = Size[p]
  /\ request' = [request EXCEPT ![p] = "0"]
  /\ results' = [results EXCEPT ![p] = Append(@, [q \in Ranks(p) |-> dst[p][q + 1]])]
  /\ Goto(p, "ucc")
  /\ UNCHANGED <<pmix, round, dst, silent>>

(* UCC finds the request complete with req_test and releases it.           *)
ReqFree(p) ==
  /\ request[p] # NoRequest
  /\ request' = [request EXCEPT ![p] = NoRequest]
  /\ UNCHANGED <<pmix, pc, round, dst, results, silent>>

Step(p) ==
  \/ GiveUp(p) \/ CallAllgather(p) \/ PutBytes(p) \/ CommitBytes(p) \/ CallFence(p)
  \/ LeaveFence(p) \/ GetPeer(p) \/ ReturnOk(p) \/ ReqFree(p)

Next == \E p \in PEs : Step(p)

Spec == Init /\ [][Next]_vars

(* Native calls return, and a fence ends once it is complete or broken,    *)
(* and not otherwise.                                                      *)
FairSpec == Spec /\ \A p \in PEs : WF_vars(Step(p))

----------------------------------------------------------------------------

(* Every variable stays in its type.                                       *)
TypeOK ==
  /\ pc \in [PEs -> {"ucc", "put", "commit", "enter", "fence", "get", "failed"}]
  /\ round \in [PEs -> 0 .. Rounds]
  /\ request \in [PEs -> {NoRequest, "0", "-1"}]
  /\ gone \subseteq PEs /\ silent \subseteq PEs
  /\ \A p \in PEs : /\ fences[p] \in {round[p], round[p] - 1}
                    /\ Len(dst[p]) <= Size[p]
                    /\ Len(results[p]) \in {round[p], round[p] - 1}

Abstract == INSTANCE Allgather WITH
  Members <- PEs, Collects <- Ranks, Drift <- 1, begun <- fences, got <- results

(* ImplementsDriftingAllgather: the callback is an allgather whose blocks  *)
(* are at most one round too new: a round it reports as done was joined by *)
(* every PE; a block it copied is the owner's contribution to that round   *)
(* or, since nothing follows the reads, to the next one, and then only if  *)
(* the owner is done with this round.  The first and only round of a team  *)
(* is therefore exact.                                                     *)
ImplementsDriftingAllgather == Abstract!Spec

(* The fence p is in lacks only PEs that failed without disconnecting.     *)
Stranded(p) ==
  LET missing == { q \in PEs : fences[q] < fences[p] } IN
    pc[p] = "fence" /\ missing # {} /\ missing \subseteq silent

(* OnlySilentPEsHoldRounds: every callback returns, also when other PEs    *)
(* fail in any round or are a round behind, because a failed init          *)
(* disconnects and that breaks the fence; a PE stays in the callback for   *)
(* ever only if each PE its fence lacks failed and init ignored that its   *)
(* disconnect failed too.                                                  *)
OnlySilentPEsHoldRounds ==
  \A p \in PEs : []<>(pc[p] \in {"ucc", "failed"}) \/ <>[]Stranded(p)

(* AllgatherIsExact: a round that reports success has delivered that       *)
(* round's contributions: "UCC team creation uses PMIx for the required    *)
(* out-of-band allgather" (src/coll.rs:2).                                 *)
AllgatherIsExact ==
  \A p \in PEs : \A k \in 1 .. Len(results[p]) :
    results[p][k] \in {Failed, [q \in Ranks(p) |-> Contribution(q, k)]}

=============================================================================
