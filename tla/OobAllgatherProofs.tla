------------------------ MODULE OobAllgatherProofs ------------------------
(***************************************************************************)
(* Proofs about the out-of-band allgather, for any number of PEs, any      *)
(* number of rounds of any lengths, any failing native calls and any sizes *)
(* the PEs were told: the callback implements the allgather whose blocks   *)
(* may be one round too new, and never one whose blocks are older, newer   *)
(* or missing; and only a PE that fails without disconnecting can hold the *)
(* others in a fence.                                                      *)
(***************************************************************************)
EXTENDS OobAllgather, TLAPS

(* A block of bytes, and the outcome of a round.                           *)
Blocks == [pe : PEs, round : 1 .. Rounds, len : Nat]
Outcomes == {Failed} \cup UNION { [S -> Blocks] : S \in SUBSET PEs }

Types ==
  /\ pc \in [PEs -> {"ucc", "put", "commit", "enter", "fence", "get", "failed"}]
  /\ round \in [PEs -> 0 .. Rounds]
  /\ fences \in [PEs -> Nat]
  /\ dst \in [PEs -> Seq(Blocks)]
  /\ request \in [PEs -> {NoRequest, "0", "-1"}]
  /\ results \in [PEs -> Seq(Outcomes)]
  /\ gone \subseteq PEs /\ silent \subseteq PEs
  /\ DOMAIN staged = PEs /\ DOMAIN store = PEs

(* How the fences entered and the outcomes given relate to the rounds      *)
(* begun, by where PE p is in the callback.                                *)
Label(p) ==
  /\ pc[p] = "ucc" => fences[p] = round[p] /\ Len(results[p]) = round[p]
  /\ pc[p] \in {"put", "commit", "enter"} =>
       round[p] = fences[p] + 1 /\ round[p] = Len(results[p]) + 1
  /\ pc[p] \in {"fence", "get"} =>
       round[p] = fences[p] /\ round[p] = Len(results[p]) + 1
  /\ pc[p] = "failed" =>
       Len(results[p]) = round[p] /\ fences[p] \in {round[p], round[p] - 1}
  /\ pc[p] = "commit" => /\ OOB_KEY \in DOMAIN staged[p]
                         /\ staged[p][OOB_KEY] = Contribution(p, round[p])

(* The bytes PE q has committed: of the round whose fence it has entered   *)
(* last or is about to enter, and no PE is more than one fence behind.     *)
Stored(q) ==
  OOB_KEY \in DOMAIN store[q] =>
    LET b == store[q][OOB_KEY]
    IN  /\ b.round \in 1 .. Rounds /\ b = Contribution(q, b.round)
        /\ fences[q] <= b.round /\ b.round <= round[q]
        /\ pc[q] = "enter" => b.round = round[q]
        /\ \A p \in PEs : b.round <= fences[p] + 1

(* A PE has left a fence only after every PE has entered it.               *)
Fenced(p, q) ==
  /\ fences[q] <= fences[p] + 1
  /\ pc[q] \notin {"fence", "failed"} => fences[q] <= fences[p]

(* A block that PE p has copied from rank q in its present round.          *)
Copied(p, q, b) ==
  /\ b.round \in 1 .. Rounds /\ b = Contribution(q, b.round)
  /\ b.round = round[p] \/ (b.round = round[p] + 1 /\ Len(results[q]) >= round[p])

Copies(p) ==
  /\ Len(dst[p]) <= Size[p]
  /\ pc[p] \in {"put", "commit", "enter", "fence"} => dst[p] = <<>>
  /\ pc[p] = "get" => \A q \in PEs : q + 1 <= Len(dst[p]) => Copied(p, q, dst[p][q + 1])

(* The inductive invariant.                                                *)
OobInv ==
  /\ Types
  /\ \A p \in PEs : Label(p) /\ Stored(p) /\ Copies(p)
  /\ \A p, q \in PEs : Fenced(p, q)

LEMMA RoundsIsNat == Rounds \in Nat /\ \A k \in 1 .. Rounds : Lengths[k] \in Nat
  BY OobAssumption DEF Rounds

LEMMA PEsAreNat == PEs \subseteq Nat /\ \A q \in PEs : q + 1 >= 1 /\ q + 1 <= N
  BY JobAssumption DEF PEs

(* A PE collects from ranks of the job, and from at least one.             *)
LEMMA RanksAreMembers ==
  ASSUME NEW p \in PEs
  PROVE  /\ Size[p] \in Nat \ {0} /\ Size[p] <= N
         /\ Ranks(p) \subseteq PEs
         /\ \A q \in Ranks(p) : q \in Nat /\ q + 1 \in 1 .. Size[p]
  <1>1. Size[p] \in 1 .. N /\ N \in Nat
    BY OobAssumption, JobAssumption
  <1> QED
    BY <1>1 DEF Ranks, PEs

LEMMA ContributionType ==
  ASSUME NEW q \in PEs, NEW k \in 1 .. Rounds
  PROVE  Contribution(q, k) \in Blocks /\ Contribution(q, k).round = k
  BY RoundsIsNat DEF Contribution, Blocks

LEMMA PeFacts ==
  ASSUME OobInv, NEW p \in PEs
  PROVE  /\ pc[p] \in {"ucc", "put", "commit", "enter", "fence", "get", "failed"}
         /\ round[p] \in Nat /\ round[p] <= Rounds
         /\ fences[p] \in Nat
         /\ dst[p] \in Seq(Blocks) /\ Len(dst[p]) \in Nat
         /\ results[p] \in Seq(Outcomes) /\ Len(results[p]) \in Nat
         /\ DOMAIN pc = PEs /\ DOMAIN round = PEs /\ DOMAIN fences = PEs
         /\ DOMAIN dst = PEs /\ DOMAIN request = PEs /\ DOMAIN results = PEs
         /\ DOMAIN staged = PEs /\ DOMAIN store = PEs
  <1>1. Types
    BY DEF OobInv
  <1>2. round[p] \in Nat /\ round[p] <= Rounds
    BY <1>1, RoundsIsNat DEF Types
  <1>3. dst[p] \in Seq(Blocks) /\ results[p] \in Seq(Outcomes)
    BY <1>1 DEF Types
  <1>4. Len(dst[p]) \in Nat /\ Len(results[p]) \in Nat
    BY <1>3
  <1> QED
    BY <1>1, <1>2, <1>3, <1>4 DEF Types

LEMMA PeInv ==
  ASSUME OobInv, NEW p \in PEs
  PROVE  Label(p) /\ Stored(p) /\ Copies(p) /\ \A q \in PEs : Fenced(p, q) /\ Fenced(q, p)
  BY DEF OobInv

LEMMA InitInv == Init => OobInv
  <1> SUFFICES ASSUME Init  PROVE OobInv
    OBVIOUS
  <1> USE DEF Init, PmixInit
  <1>1. Types
    <2>1. <<>> \in Seq(Blocks) /\ <<>> \in Seq(Outcomes)
      OBVIOUS
    <2> QED
      BY <2>1, RoundsIsNat DEF Types, NoRequest
  <1>2. ASSUME NEW p \in PEs  PROVE Label(p) /\ Stored(p) /\ Copies(p)
    <2>1. Len(<<>>) = 0 /\ 0 <= Size[p]
      BY RanksAreMembers
    <2>2. OOB_KEY \notin DOMAIN store[p]
      BY DEF Empty
    <2> QED
      BY <2>1, <2>2 DEF Label, Stored, Copies
  <1>3. ASSUME NEW p \in PEs, NEW q \in PEs  PROVE Fenced(p, q)
    BY DEF Fenced
  <1> QED
    BY <1>1, <1>2, <1>3 DEF OobInv

----------------------------------------------------------------------------

(* A step of PE p leaves the others where they are.                        *)
Others(p) ==
  \A q \in PEs : q # p =>
    /\ pc'[q] = pc[q] /\ round'[q] = round[q] /\ fences'[q] = fences[q]
    /\ dst'[q] = dst[q] /\ results'[q] = results[q]
    /\ staged'[q] = staged[q] /\ store'[q] = store[q]

LEMMA OnePe ==
  ASSUME OobInv, NEW p \in PEs, Types', Others(p),
         fences'[p] >= fences[p], Len(results'[p]) >= Len(results[p]),
         Label(p)', Stored(p)', Copies(p)',
         \A q \in PEs : q # p => Fenced(q, p)'
  PROVE  OobInv'
  <1>1. \A q \in PEs : /\ fences'[q] \in Nat /\ fences'[q] >= fences[q]
                       /\ fences[q] \in Nat
    <2>1. \A q \in PEs : fences'[q] \in Nat /\ fences[q] \in Nat
      BY PeFacts DEF Types
    <2> QED
      BY <2>1 DEF Others
  <1>2. \A q \in PEs : /\ Len(results'[q]) \in Nat /\ Len(results'[q]) >= Len(results[q])
                       /\ Len(results[q]) \in Nat
    <2>1. \A q \in PEs : Len(results'[q]) \in Nat
      BY DEF Types
    <2>2. \A q \in PEs : Len(results[q]) \in Nat
      BY PeFacts
    <2> QED
      BY <2>1, <2>2 DEF Others
  <1>3. ASSUME NEW q \in PEs, q # p  PROVE Label(q)'
    BY <1>3, PeInv DEF Others, Label, Contribution
  <1>4. ASSUME NEW q \in PEs, q # p, OOB_KEY \in DOMAIN store'[q]  PROVE Stored(q)'
    <2> DEFINE b == store[q][OOB_KEY]
    <2>1. store'[q] = store[q] /\ fences'[q] = fences[q] /\ round'[q] = round[q] /\ pc'[q] = pc[q]
      BY <1>4 DEF Others
    <2>2. /\ b.round \in 1 .. Rounds /\ b = Contribution(q, b.round)
          /\ fences[q] <= b.round /\ b.round <= round[q]
          /\ pc[q] = "enter" => b.round = round[q]
          /\ \A r \in PEs : b.round <= fences[r] + 1
      BY <1>4, <2>1, PeInv DEF Stored
    <2>3. b.round \in Int
      BY <2>2, RoundsIsNat
    <2>4. ASSUME NEW r \in PEs  PROVE b.round <= fences'[r] + 1
      <3>1. fences'[r] \in Nat /\ fences'[r] >= fences[r] /\ fences[r] \in Nat
        BY <1>1
      <3>2. b.round <= fences[r] + 1
        BY <2>2
      <3> HIDE DEF b
      <3> QED
        BY <2>3, <3>1, <3>2
    <2> QED
      BY <2>1, <2>2, <2>4 DEF Stored, Contribution, Rounds
  <1>5. ASSUME NEW q \in PEs, q # p  PROVE Copies(q)'
    <2>1. dst'[q] = dst[q] /\ pc'[q] = pc[q] /\ round'[q] = round[q]
      BY <1>5 DEF Others
    <2>2. ASSUME NEW r \in PEs, NEW b, Copied(q, r, b)  PROVE Copied(q, r, b)'
      <3>1. round[q] \in Nat
        BY PeFacts
      <3>2. Len(results[r]) >= round[q] => Len(results'[r]) >= round[q]
        BY <1>2, <3>1
      <3> QED
        BY <2>1, <2>2, <3>2 DEF Copied, Contribution, Rounds
    <2> QED
      BY <2>1, <2>2, PeInv DEF Copies
  <1>6. ASSUME NEW q \in PEs, q # p, NEW r \in PEs  PROVE Fenced(r, q)'
    <2>1. fences'[q] = fences[q] /\ pc'[q] = pc[q]
      BY <1>6 DEF Others
    <2> QED
      BY <1>1, <2>1, PeInv DEF Fenced
  <1>7. Fenced(p, p)'
    BY <1>1 DEF Fenced
  <1>8. \A q \in PEs : q # p => Stored(q)'
    BY <1>4 DEF Stored
  <1> QED
    BY <1>3, <1>5, <1>6, <1>7, <1>8 DEF OobInv

----------------------------------------------------------------------------

(* A PE moves on in the callback without touching PMIx or its data.        *)
LEMMA GotoFacts ==
  ASSUME OobInv, NEW p \in PEs,
         NEW label \in {"ucc", "put", "commit", "enter", "fence", "get", "failed"},
         Goto(p, label)
  PROVE  /\ pc' \in [PEs -> {"ucc", "put", "commit", "enter", "fence", "get", "failed"}]
         /\ pc'[p] = label
         /\ \A q \in PEs : q # p => pc'[q] = pc[q]
  <1>1. pc \in [PEs -> {"ucc", "put", "commit", "enter", "fence", "get", "failed"}]
    BY DEF OobInv, Types
  <1> QED
    BY <1>1 DEF Goto

(* Outcomes are only appended.                                             *)
Gives(p, outcome) == results' = [results EXCEPT ![p] = Append(@, outcome)]

LEMMA GivesFacts ==
  ASSUME OobInv, NEW p \in PEs, NEW outcome \in Outcomes, Gives(p, outcome)
  PROVE  /\ results' \in [PEs -> Seq(Outcomes)]
         /\ Len(results'[p]) = Len(results[p]) + 1
         /\ \A q \in PEs : q # p => results'[q] = results[q]
  <1>1. results \in [PEs -> Seq(Outcomes)]
    BY DEF OobInv, Types
  <1>2. results[p] \in Seq(Outcomes)
    BY <1>1
  <1>3. /\ Append(results[p], outcome) \in Seq(Outcomes)
        /\ Len(Append(results[p], outcome)) = Len(results[p]) + 1
    BY <1>2
  <1>4. results'[p] = Append(results[p], outcome)
    BY <1>1 DEF Gives
  <1>5. results' \in [PEs -> Seq(Outcomes)]
    BY <1>1, <1>3 DEF Gives
  <1>6. \A q \in PEs : q # p => results'[q] = results[q]
    BY <1>1 DEF Gives
  <1> QED
    BY <1>3, <1>4, <1>5, <1>6

LEMMA DisconnectFacts ==
  ASSUME OobInv, NEW p \in PEs, Disconnect(p)
  PROVE  /\ gone' \subseteq PEs /\ silent' \subseteq PEs
         /\ gone' \cup silent' = gone \cup silent \cup {p}
         /\ UNCHANGED <<staged, store, fences>>
  BY DEF OobInv, Types, Disconnect, Leave, pmix

(* What PE p has committed stays consistent when neither it nor its fences *)
(* change.                                                                 *)
LEMMA StoredKept ==
  ASSUME OobInv, NEW p \in PEs, UNCHANGED <<store, fences>>,
         round'[p] \in Nat, round'[p] >= round[p],
         pc'[p] = "enter" => pc[p] = "enter" /\ round'[p] = round[p]
  PROVE  Stored(p)'
  <1> SUFFICES ASSUME OOB_KEY \in DOMAIN store[p]  PROVE Stored(p)'
    BY DEF Stored
  <1> DEFINE b == store[p][OOB_KEY]
  <1>1. /\ b.round \in 1 .. Rounds /\ b = Contribution(p, b.round)
        /\ fences[p] <= b.round /\ b.round <= round[p]
        /\ pc[p] = "enter" => b.round = round[p]
        /\ \A r \in PEs : b.round <= fences[r] + 1
    BY PeInv DEF Stored
  <1>2. b.round <= round'[p]
    BY <1>1, PeFacts, RoundsIsNat
  <1>3. /\ store'[p][OOB_KEY] = b /\ fences' = fences
        /\ Rounds' = Rounds /\ Contribution(p, b.round)' = Contribution(p, b.round)
    BY DEF Rounds, Contribution
  <1> HIDE DEF b
  <1>4. pc'[p] = "enter" => b.round = round'[p]
    BY <1>1
  <1> QED
    BY <1>1, <1>2, <1>3, <1>4 DEF Stored

(* A call that fails, at any native call or at the length check.           *)
LEMMA FailKeeps ==
  ASSUME OobInv, NEW p \in PEs, Goto(p, "failed"), Gives(p, Failed), Disconnect(p),
         request' \in [PEs -> {NoRequest, "0", "-1"}],
         \/ /\ pc[p] \in {"put", "commit", "enter", "fence", "get"}
            /\ UNCHANGED <<round, dst>>
         \/ /\ pc[p] = "ucc" /\ round[p] < Rounds
            /\ round' = [round EXCEPT ![p] = @ + 1]
            /\ dst' = [dst EXCEPT ![p] = <<>>]
  PROVE  OobInv'
  <1>1. /\ pc' \in [PEs -> {"ucc", "put", "commit", "enter", "fence", "get", "failed"}]
        /\ pc'[p] = "failed" /\ \A q \in PEs : q # p => pc'[q] = pc[q]
    BY GotoFacts
  <1>2. /\ results' \in [PEs -> Seq(Outcomes)] /\ Len(results'[p]) = Len(results[p]) + 1
        /\ \A q \in PEs : q # p => results'[q] = results[q]
    BY GivesFacts DEF Outcomes
  <1>3. gone' \subseteq PEs /\ silent' \subseteq PEs /\ UNCHANGED <<staged, store, fences>>
    BY DisconnectFacts
  <1>4. /\ round' \in [PEs -> 0 .. Rounds] /\ dst' \in [PEs -> Seq(Blocks)]
        /\ Len(dst'[p]) <= Size[p]
        /\ round'[p] = IF pc[p] = "ucc" THEN round[p] + 1 ELSE round[p]
        /\ \A q \in PEs : q # p => round'[q] = round[q] /\ dst'[q] = dst[q]
    <2>1. round \in [PEs -> 0 .. Rounds] /\ dst \in [PEs -> Seq(Blocks)]
      BY DEF OobInv, Types
    <2>2. CASE pc[p] # "ucc"
      BY <2>1, <2>2, PeInv DEF Copies
    <2>3. CASE pc[p] = "ucc"
      <3>1. round[p] + 1 \in 0 .. Rounds
        BY <2>1, <2>3, RoundsIsNat
      <3>2. <<>> \in Seq(Blocks) /\ Len(<<>>) = 0 /\ 0 <= Size[p]
        BY RanksAreMembers
      <3> QED
        BY <2>1, <2>3, <3>1, <3>2
    <2> QED
      BY <2>2, <2>3
  <1>5. Types'
    <2>1. Blocks' = Blocks /\ Outcomes' = Outcomes /\ Rounds' = Rounds
      BY DEF Blocks, Outcomes, Rounds, Failed
    <2>2. DOMAIN staged = PEs /\ DOMAIN store = PEs /\ fences \in [PEs -> Nat]
      BY DEF OobInv, Types
    <2> QED
      BY <1>1, <1>2, <1>3, <1>4, <2>1, <2>2 DEF Types
  <1>6. Others(p)
    BY <1>1, <1>2, <1>3, <1>4 DEF Others
  <1>7. round[p] \in Nat /\ fences[p] \in Nat /\ Len(results[p]) \in Nat
    BY PeFacts
  <1>8. Label(p)'
    <2>1. /\ pc[p] = "ucc" => fences[p] = round[p] /\ Len(results[p]) = round[p]
          /\ pc[p] \in {"put", "commit", "enter"} =>
               round[p] = fences[p] + 1 /\ round[p] = Len(results[p]) + 1
          /\ pc[p] \in {"fence", "get"} =>
               round[p] = fences[p] /\ round[p] = Len(results[p]) + 1
      BY PeInv DEF Label
    <2>2. Len(results'[p]) = round'[p] /\ fences[p] \in {round'[p], round'[p] - 1}
      <3>1. Len(results'[p]) = Len(results[p]) + 1
        BY <1>2
      <3>2. round'[p] = IF pc[p] = "ucc" THEN round[p] + 1 ELSE round[p]
        BY <1>4
      <3>3. CASE pc[p] = "ucc"
        BY <1>7, <2>1, <3>1, <3>2, <3>3
      <3>4. CASE pc[p] \in {"put", "commit", "enter", "fence", "get"}
        BY <1>7, <2>1, <3>1, <3>2, <3>4
      <3> QED
        BY <3>3, <3>4
    <2> QED
      BY <1>1, <1>3, <2>2 DEF Label
  <1>9. Stored(p)'
    <2>1. round'[p] \in Nat /\ round'[p] >= round[p]
      BY <1>4, <1>7
    <2> QED
      BY <1>1, <1>3, <2>1, StoredKept
  <1>10. Copies(p)'
    BY <1>1, <1>4 DEF Copies
  <1>11. \A q \in PEs : Fenced(q, p)'
    BY <1>1, <1>3, PeInv DEF Fenced
  <1> QED
    BY <1>2, <1>3, <1>5, <1>6, <1>7, <1>8, <1>9, <1>10, <1>11, OnePe

(* A PE fails inside the callback.                                         *)
LEMMA FailInside ==
  ASSUME OobInv, NEW p \in PEs, pc[p] \in {"put", "commit", "enter", "fence", "get"}, Fail(p)
  PROVE  OobInv'
  <1>1. request' \in [PEs -> {NoRequest, "0", "-1"}]
    <2>1. request \in [PEs -> {NoRequest, "0", "-1"}]
      BY DEF OobInv, Types
    <2> QED
      BY <2>1 DEF Fail
  <1> QED
    BY <1>1, FailKeeps DEF Fail, Gives

LEMMA ConstantsStay ==
  Blocks' = Blocks /\ Outcomes' = Outcomes /\ Rounds' = Rounds
  BY DEF Blocks, Outcomes, Rounds, Failed

(* init gives up between two callbacks.                                    *)
LEMMA GiveUpKeeps ==
  ASSUME OobInv, NEW p \in PEs, GiveUp(p)
  PROVE  OobInv'
  <1>1. /\ pc' \in [PEs -> {"ucc", "put", "commit", "enter", "fence", "get", "failed"}]
        /\ pc'[p] = "failed" /\ \A q \in PEs : q # p => pc'[q] = pc[q]
    BY GotoFacts DEF GiveUp
  <1>2. /\ gone' \subseteq PEs /\ silent' \subseteq PEs
        /\ UNCHANGED <<staged, store, fences, round, dst, request, results>>
    BY DisconnectFacts DEF GiveUp
  <1>3. round[p] \in Nat /\ fences[p] \in Nat /\ Len(results[p]) \in Nat
    BY PeFacts
  <1>4. Types'
    BY <1>1, <1>2, ConstantsStay DEF OobInv, Types
  <1>5. Others(p)
    BY <1>1, <1>2 DEF Others
  <1>6. Label(p)'
    <2>1. fences[p] = round[p] /\ Len(results[p]) = round[p]
      BY PeInv DEF Label, GiveUp
    <2> QED
      BY <1>1, <1>2, <2>1 DEF Label
  <1>7. Stored(p)'
    <2>1. round'[p] \in Nat /\ round'[p] >= round[p]
      BY <1>2, <1>3
    <2> QED
      BY <1>1, <1>2, <2>1, StoredKept
  <1>8. Copies(p)'
    BY <1>1, <1>2, PeInv DEF Copies
  <1>9. \A q \in PEs : Fenced(q, p)'
    BY <1>1, <1>2, PeInv DEF Fenced
  <1>10. fences'[p] >= fences[p] /\ Len(results'[p]) >= Len(results[p])
    BY <1>2, <1>3
  <1> QED
    BY <1>4, <1>5, <1>6, <1>7, <1>8, <1>9, <1>10, OnePe

LEMMA CallKeeps ==
  ASSUME OobInv, NEW p \in PEs, CallAllgather(p)
  PROVE  OobInv'
  <1>1. CASE /\ Goto(p, "failed") /\ Gives(p, Failed) /\ Disconnect(p)
    <2>1. request' \in [PEs -> {NoRequest, "0", "-1"}]
      BY DEF OobInv, Types, CallAllgather
    <2> QED
      BY <1>1, <2>1, FailKeeps DEF CallAllgather
  <1>2. CASE Goto(p, "put") /\ UNCHANGED <<pmix, results, silent>>
    <2>1. /\ pc' \in [PEs -> {"ucc", "put", "commit", "enter", "fence", "get", "failed"}]
          /\ pc'[p] = "put" /\ \A q \in PEs : q # p => pc'[q] = pc[q]
      BY <1>2, GotoFacts
    <2>2. UNCHANGED <<staged, store, fences, gone, results, request, silent>>
      BY <1>2 DEF pmix, CallAllgather
    <2>3. /\ round' \in [PEs -> 0 .. Rounds] /\ round'[p] = round[p] + 1
          /\ \A q \in PEs : q # p => round'[q] = round[q]
      <3>1. round \in [PEs -> 0 .. Rounds] /\ round[p] \in Nat /\ round[p] < Rounds
        BY PeFacts DEF OobInv, Types, CallAllgather
      <3>2. round[p] + 1 \in 0 .. Rounds
        BY <3>1, RoundsIsNat
      <3> QED
        BY <3>1, <3>2 DEF CallAllgather
    <2>4. /\ dst' \in [PEs -> Seq(Blocks)] /\ dst'[p] = <<>>
          /\ \A q \in PEs : q # p => dst'[q] = dst[q]
      <3>1. dst \in [PEs -> Seq(Blocks)] /\ <<>> \in Seq(Blocks)
        BY DEF OobInv, Types
      <3> QED
        BY <3>1 DEF CallAllgather
    <2>5. Types'
      BY <2>1, <2>2, <2>3, <2>4, ConstantsStay DEF OobInv, Types
    <2>6. Others(p)
      BY <2>1, <2>2, <2>3, <2>4 DEF Others
    <2>7. round[p] \in Nat /\ fences[p] \in Nat /\ Len(results[p]) \in Nat
      BY PeFacts
    <2>8. pc[p] = "ucc" /\ fences[p] = round[p] /\ Len(results[p]) = round[p]
      BY PeInv DEF Label, CallAllgather
    <2>9. Label(p)'
      BY <2>1, <2>2, <2>3, <2>8 DEF Label
    <2>10. Stored(p)'
      <3>1. round'[p] \in Nat /\ round'[p] >= round[p]
        BY <2>3, <2>7
      <3> QED
        BY <2>1, <2>2, <3>1, StoredKept
    <2>11. Copies(p)'
      <3>1. Len(<<>>) = 0 /\ 0 <= Size[p]
        BY RanksAreMembers
      <3> QED
        BY <2>1, <2>4, <3>1 DEF Copies
    <2>12. \A q \in PEs : Fenced(q, p)'
      BY <2>1, <2>2, <2>8, PeInv DEF Fenced
    <2>13. fences'[p] >= fences[p] /\ Len(results'[p]) >= Len(results[p])
      BY <2>2, <2>7
    <2> QED
      BY <2>5, <2>6, <2>9, <2>10, <2>11, <2>12, <2>13, OnePe
  <1> QED
    BY <1>1, <1>2 DEF CallAllgather, Gives

LEMMA PutKeeps ==
  ASSUME OobInv, NEW p \in PEs, PutBytes(p)
  PROVE  OobInv'
  <1>1. CASE Fail(p)
    BY <1>1, FailInside DEF PutBytes
  <1>2. CASE /\ Put(p, OOB_KEY, Contribution(p, round[p])) /\ Goto(p, "commit")
             /\ UNCHANGED <<round, dst, request, results, silent>>
    <2>1. /\ pc' \in [PEs -> {"ucc", "put", "commit", "enter", "fence", "get", "failed"}]
          /\ pc'[p] = "commit" /\ \A q \in PEs : q # p => pc'[q] = pc[q]
      BY <1>2, GotoFacts
    <2>2. UNCHANGED <<store, fences, gone, round, dst, request, results, silent>>
      BY <1>2 DEF Put
    <2>3. /\ DOMAIN staged' = PEs /\ \A q \in PEs : q # p => staged'[q] = staged[q]
          /\ staged'[p] = Update(staged[p], Single(OOB_KEY, Contribution(p, round[p])))
      BY <1>2, PeFacts DEF Put
    <2>4. /\ OOB_KEY \in DOMAIN staged'[p]
          /\ staged'[p][OOB_KEY] = Contribution(p, round[p])
      BY <2>3 DEF Update, Single
    <2>5. Types'
      BY <2>1, <2>2, <2>3, ConstantsStay DEF OobInv, Types
    <2>6. Others(p)
      BY <2>1, <2>2, <2>3 DEF Others
    <2>7. round[p] \in Nat /\ fences[p] \in Nat /\ Len(results[p]) \in Nat
      BY PeFacts
    <2>8. pc[p] = "put"
      BY DEF PutBytes
    <2>9. Label(p)'
      <3>1. Contribution(p, round[p])' = Contribution(p, round[p])
        BY <2>2 DEF Contribution
      <3> QED
        BY <2>1, <2>2, <2>4, <2>8, <3>1, PeInv DEF Label
    <2>10. Stored(p)'
      <3>1. round'[p] \in Nat /\ round'[p] >= round[p]
        BY <2>2, <2>7
      <3> QED
        BY <2>1, <2>2, <3>1, StoredKept
    <2>11. Copies(p)'
      BY <2>1, <2>2, <2>8, PeInv DEF Copies
    <2>12. \A q \in PEs : Fenced(q, p)'
      BY <2>1, <2>2, <2>8, PeInv DEF Fenced
    <2>13. fences'[p] >= fences[p] /\ Len(results'[p]) >= Len(results[p])
      BY <2>2, <2>7
    <2> QED
      BY <2>5, <2>6, <2>9, <2>10, <2>11, <2>12, <2>13, OnePe
  <1> QED
    BY <1>1, <1>2 DEF PutBytes

LEMMA CommitKeeps ==
  ASSUME OobInv, NEW p \in PEs, CommitBytes(p)
  PROVE  OobInv'
  <1>1. CASE Fail(p)
    BY <1>1, FailInside DEF CommitBytes
  <1>2. CASE /\ Commit(p) /\ Goto(p, "enter") /\ UNCHANGED <<round, dst, request, results, silent>>
    <2>1. /\ pc' \in [PEs -> {"ucc", "put", "commit", "enter", "fence", "get", "failed"}]
          /\ pc'[p] = "enter" /\ \A q \in PEs : q # p => pc'[q] = pc[q]
      BY <1>2, GotoFacts
    <2>2. UNCHANGED <<fences, gone, round, dst, request, results, silent>>
      BY <1>2 DEF Commit
    <2>3. /\ DOMAIN staged' = PEs /\ \A q \in PEs : q # p => staged'[q] = staged[q]
          /\ DOMAIN store' = PEs /\ \A q \in PEs : q # p => store'[q] = store[q]
          /\ store'[p] = Update(store[p], staged[p])
      BY <1>2, PeFacts DEF Commit
    <2>4. pc[p] = "commit"
      BY DEF CommitBytes
    <2>5. Types'
      BY <2>1, <2>2, <2>3, ConstantsStay DEF OobInv, Types
    <2>6. Others(p)
      BY <2>1, <2>2, <2>3 DEF Others
    <2>7. round[p] \in Nat /\ fences[p] \in Nat /\ Len(results[p]) \in Nat /\ round[p] <= Rounds
      BY PeFacts
    <2>8. /\ round[p] = fences[p] + 1 /\ round[p] = Len(results[p]) + 1
          /\ OOB_KEY \in DOMAIN staged[p] /\ staged[p][OOB_KEY] = Contribution(p, round[p])
      BY <2>4, PeInv DEF Label
    <2>9. Label(p)'
      BY <2>1, <2>2, <2>8 DEF Label
    <2>10. Stored(p)'
      <3>1. store'[p][OOB_KEY] = Contribution(p, round[p])
        BY <2>3, <2>8 DEF Update
      <3>2. round[p] \in 1 .. Rounds
        BY <2>7, <2>8, RoundsIsNat
      <3>3. Contribution(p, round[p]).round = round[p]
        BY DEF Contribution
      <3>4. \A q \in PEs : round[p] <= fences[q] + 1
        <4>1. \A q \in PEs : fences[p] <= fences[q] /\ fences[q] \in Nat
          BY <2>4, PeInv, PeFacts DEF Fenced
        <4> QED
          BY <2>7, <2>8, <4>1
      <3>5. Contribution(p, round[p])' = Contribution(p, round[p])
        BY <2>2 DEF Contribution
      <3>6. fences[p] <= round[p]
        BY <2>7, <2>8
      <3> QED
        BY <2>1, <2>2, <2>7, <3>1, <3>2, <3>3, <3>4, <3>5, <3>6, ConstantsStay DEF Stored
    <2>11. Copies(p)'
      BY <2>1, <2>2, <2>4, PeInv DEF Copies
    <2>12. \A q \in PEs : Fenced(q, p)'
      BY <2>1, <2>2, <2>4, PeInv DEF Fenced
    <2>13. fences'[p] >= fences[p] /\ Len(results'[p]) >= Len(results[p])
      BY <2>2, <2>7
    <2> QED
      BY <2>5, <2>6, <2>9, <2>10, <2>11, <2>12, <2>13, OnePe
  <1> QED
    BY <1>1, <1>2 DEF CommitBytes

LEMMA FenceKeeps ==
  ASSUME OobInv, NEW p \in PEs, CallFence(p)
  PROVE  OobInv'
  <1>1. CASE Fail(p)
    BY <1>1, FailInside DEF CallFence
  <1>2. CASE /\ EnterFence(p) /\ Goto(p, "fence") /\ UNCHANGED <<round, dst, request, results, silent>>
    <2>1. /\ pc' \in [PEs -> {"ucc", "put", "commit", "enter", "fence", "get", "failed"}]
          /\ pc'[p] = "fence" /\ \A q \in PEs : q # p => pc'[q] = pc[q]
      BY <1>2, GotoFacts
    <2>2. UNCHANGED <<staged, store, gone, round, dst, request, results, silent>>
      BY <1>2 DEF EnterFence
    <2>3. round[p] \in Nat /\ fences[p] \in Nat /\ Len(results[p]) \in Nat
      BY PeFacts
    <2>4. /\ fences' \in [PEs -> Nat] /\ fences'[p] = fences[p] + 1
          /\ \A q \in PEs : q # p => fences'[q] = fences[q]
      <3>1. fences \in [PEs -> Nat]
        BY DEF OobInv, Types
      <3> QED
        BY <1>2, <2>3, <3>1 DEF EnterFence
    <2>5. Types'
      BY <2>1, <2>2, <2>4, ConstantsStay DEF OobInv, Types
    <2>6. Others(p)
      BY <2>1, <2>2, <2>4 DEF Others
    <2>7. pc[p] = "enter" /\ round[p] = fences[p] + 1 /\ round[p] = Len(results[p]) + 1
      BY PeInv DEF Label, CallFence
    <2>8. Label(p)'
      BY <2>1, <2>2, <2>4, <2>7 DEF Label
    <2>9. ASSUME OOB_KEY \in DOMAIN store[p]  PROVE Stored(p)'
      <3> DEFINE b == store[p][OOB_KEY]
      <3>1. /\ b.round \in 1 .. Rounds /\ b = Contribution(p, b.round)
            /\ b.round = round[p] /\ \A r \in PEs : b.round <= fences[r] + 1
        BY <2>7, <2>9, PeInv DEF Stored
      <3>2. \A r \in PEs : fences[r] \in Nat /\ fences'[r] \in Nat /\ fences'[r] >= fences[r]
        BY <2>3, <2>4, PeFacts
      <3>3. \A r \in PEs : b.round <= fences'[r] + 1
        BY <2>3, <3>1, <3>2
      <3>4. /\ store'[p][OOB_KEY] = b /\ fences'[p] <= b.round /\ b.round <= round'[p]
            /\ Contribution(p, b.round)' = Contribution(p, b.round)
        BY <2>2, <2>3, <2>4, <2>7, <3>1 DEF Contribution
      <3> HIDE DEF b
      <3> QED
        BY <2>1, <3>1, <3>3, <3>4, ConstantsStay DEF Stored
    <2>10. Stored(p)'
      BY <2>2, <2>9 DEF Stored
    <2>11. Copies(p)'
      BY <2>1, <2>2, <2>7, PeInv DEF Copies
    <2>12. \A q \in PEs : q # p => Fenced(q, p)'
      <3>1. \A q \in PEs : fences[p] <= fences[q] /\ fences[q] \in Nat
        BY <2>7, PeInv, PeFacts DEF Fenced
      <3> QED
        BY <2>1, <2>3, <2>4, <3>1 DEF Fenced
    <2>13. fences'[p] >= fences[p] /\ Len(results'[p]) >= Len(results[p])
      BY <2>2, <2>3, <2>4
    <2> QED
      BY <2>5, <2>6, <2>8, <2>10, <2>11, <2>12, <2>13, OnePe
  <1> QED
    BY <1>1, <1>2 DEF CallFence

LEMMA LeaveFenceKeeps ==
  ASSUME OobInv, NEW p \in PEs, LeaveFence(p)
  PROVE  OobInv'
  <1>1. CASE Fail(p)
    BY <1>1, FailInside DEF LeaveFence
  <1>2. CASE FenceDone(p) /\ Goto(p, "get") /\ UNCHANGED <<pmix, round, dst, request, results, silent>>
    <2>1. /\ pc' \in [PEs -> {"ucc", "put", "commit", "enter", "fence", "get", "failed"}]
          /\ pc'[p] = "get" /\ \A q \in PEs : q # p => pc'[q] = pc[q]
      BY <1>2, GotoFacts
    <2>2. UNCHANGED <<staged, store, fences, gone, round, dst, request, results, silent>>
      BY <1>2 DEF pmix
    <2>3. round[p] \in Nat /\ fences[p] \in Nat /\ Len(results[p]) \in Nat
      BY PeFacts
    <2>4. pc[p] = "fence"
      BY DEF LeaveFence
    <2>5. Types'
      BY <2>1, <2>2, ConstantsStay DEF OobInv, Types
    <2>6. Others(p)
      BY <2>1, <2>2 DEF Others
    <2>7. Label(p)'
      BY <2>1, <2>2, <2>4, PeInv DEF Label
    <2>8. Stored(p)'
      <3>1. round'[p] \in Nat /\ round'[p] >= round[p]
        BY <2>2, <2>3
      <3> QED
        BY <2>1, <2>2, <3>1, StoredKept
    <2>9. Copies(p)'
      <3>1. dst[p] = <<>> /\ Len(dst[p]) <= Size[p]
        BY <2>4, PeInv DEF Copies
      <3>2. \A q \in PEs : ~ (q + 1 <= Len(dst[p]))
        BY <3>1, PEsAreNat
      <3> QED
        BY <2>1, <2>2, <3>1, <3>2 DEF Copies
    <2>10. \A q \in PEs : Fenced(q, p)'
      <3>1. \A q \in PEs : fences[p] <= fences[q] /\ fences[q] \in Nat
        BY <1>2, PeFacts DEF FenceDone
      <3> QED
        BY <2>2, <2>3, <3>1 DEF Fenced
    <2>11. fences'[p] >= fences[p] /\ Len(results'[p]) >= Len(results[p])
      BY <2>2, <2>3
    <2> QED
      BY <2>5, <2>6, <2>7, <2>8, <2>9, <2>10, <2>11, OnePe
  <1> QED
    BY <1>1, <1>2 DEF LeaveFence

(* What a PE that has left the fence reads from a rank.                    *)
LEMMA ReadBlock ==
  ASSUME OobInv, NEW p \in PEs, pc[p] = "get", NEW q \in PEs, OOB_KEY \in DOMAIN store[q]
  PROVE  store[q][OOB_KEY] \in Blocks /\ Copied(p, q, store[q][OOB_KEY])
  <1> DEFINE b == store[q][OOB_KEY]
  <1>1. /\ b.round \in 1 .. Rounds /\ b = Contribution(q, b.round)
        /\ fences[q] <= b.round /\ b.round <= round[q] /\ b.round <= fences[p] + 1
    BY PeInv DEF Stored
  <1>2. /\ fences[p] = round[p] /\ fences[p] <= fences[q]
        /\ Len(results[q]) >= round[q] - 1
    <2>1. fences[p] = round[p] /\ fences[p] <= fences[q]
      BY PeInv DEF Label, Fenced
    <2>2. Len(results[q]) >= round[q] - 1
      <3>1. /\ pc[q] \in {"ucc", "put", "commit", "enter", "fence", "get", "failed"}
            /\ round[q] \in Nat /\ Len(results[q]) \in Nat
        BY PeFacts
      <3>2. Len(results[q]) = round[q] \/ round[q] = Len(results[q]) + 1
        BY <3>1, PeInv DEF Label
      <3> QED
        BY <3>1, <3>2
    <2> QED
      BY <2>1, <2>2
  <1>3. /\ b.round \in Nat /\ fences[p] \in Nat /\ fences[q] \in Nat
        /\ round[q] \in Nat /\ Len(results[q]) \in Nat
    BY <1>1, PeFacts, RoundsIsNat
  <1>4. b \in Blocks
    BY <1>1, ContributionType
  <1> HIDE DEF b
  <1>5. b.round = round[p] \/ (b.round = round[p] + 1 /\ Len(results[q]) >= round[p])
    BY <1>1, <1>2, <1>3
  <1>6. Copied(p, q, b)
    BY <1>1, <1>5 DEF Copied
  <1> QED
    BY <1>4, <1>6 DEF b

LEMMA GetKeeps ==
  ASSUME OobInv, NEW p \in PEs, GetPeer(p)
  PROVE  OobInv'
  <1>1. CASE Fail(p)
    BY <1>1, FailInside DEF GetPeer
  <1>2. CASE /\ Has(Peer(p), OOB_KEY)
             /\ dst' = [dst EXCEPT ![p] = Append(@, store[Peer(p)][OOB_KEY])]
             /\ UNCHANGED <<pmix, pc, round, request, results, silent>>
    <2>1. UNCHANGED <<staged, store, fences, gone, pc, round, request, results, silent>>
      BY <1>2 DEF pmix
    <2>2. round[p] \in Nat /\ fences[p] \in Nat /\ Len(results[p]) \in Nat
      BY PeFacts
    <2>3. pc[p] = "get" /\ Len(dst[p]) < Size[p]
      BY DEF GetPeer, Peer
    <2>4. PICK q \in PEs : q = Len(dst[p]) /\ OOB_KEY \in DOMAIN store[q]
      BY <1>2 DEF Has, Peer
    <2>5. PICK b \in Blocks : b = store[q][OOB_KEY] /\ Copied(p, q, b)
      BY <2>3, <2>4, ReadBlock
    <2>6. dst[p] \in Seq(Blocks) /\ dst' = [dst EXCEPT ![p] = Append(@, b)]
      BY <1>2, <2>4, <2>5, PeFacts DEF Peer
    <2>7. /\ Append(dst[p], b) \in Seq(Blocks) /\ Len(Append(dst[p], b)) = q + 1
          /\ Append(dst[p], b)[q + 1] = b
          /\ \A i \in 1 .. q : Append(dst[p], b)[i] = dst[p][i]
      BY <2>4, <2>6
    <2>8. /\ dst' \in [PEs -> Seq(Blocks)] /\ dst'[p] = Append(dst[p], b)
          /\ \A r \in PEs : r # p => dst'[r] = dst[r]
      <3>1. dst \in [PEs -> Seq(Blocks)]
        BY DEF OobInv, Types
      <3> QED
        BY <2>6, <2>7, <3>1
    <2>9. Types'
      BY <2>1, <2>8, ConstantsStay DEF OobInv, Types
    <2>10. Others(p)
      BY <2>1, <2>8 DEF Others
    <2>11. Label(p)'
      BY <2>1, <2>3, PeInv DEF Label
    <2>12. Stored(p)'
      <3>1. round'[p] \in Nat /\ round'[p] >= round[p]
        BY <2>1, <2>2
      <3> QED
        BY <2>1, <2>3, <3>1, StoredKept
    <2>13. Copies(p)'
      <3>1. Len(dst'[p]) = q + 1 /\ q + 1 <= Size[p] /\ q \in Nat
        BY <2>3, <2>4, <2>7, <2>8, PEsAreNat, RanksAreMembers
      <3>2. ASSUME NEW r \in PEs, r + 1 <= q + 1  PROVE Copied(p, r, dst'[p][r + 1])
        <4>1. r \in Nat
          BY PEsAreNat
        <4>2. CASE r = q
          BY <2>5, <2>7, <2>8, <4>2
        <4>3. CASE r # q
          <5>1. r + 1 \in 1 .. q /\ r + 1 <= Len(dst[p])
            BY <2>4, <3>1, <3>2, <4>1, <4>3
          <5>2. dst'[p][r + 1] = dst[p][r + 1]
            BY <2>7, <2>8, <5>1
          <5> QED
            BY <2>3, <5>1, <5>2, PeInv DEF Copies
        <4> QED
          BY <4>2, <4>3
      <3>3. \A r \in PEs : \A c : Copied(p, r, c) => Copied(p, r, c)'
        BY <2>1 DEF Copied, Contribution, Rounds
      <3> QED
        BY <2>1, <2>3, <3>1, <3>2, <3>3 DEF Copies
    <2>14. \A r \in PEs : Fenced(r, p)'
      BY <2>1, PeInv DEF Fenced
    <2>15. fences'[p] >= fences[p] /\ Len(results'[p]) >= Len(results[p])
      BY <2>1, <2>2
    <2> QED
      BY <2>9, <2>10, <2>11, <2>12, <2>13, <2>14, <2>15, OnePe
  <1> QED
    BY <1>1, <1>2 DEF GetPeer

(* The outcome that a complete destination buffer gives.                   *)
LEMMA OutcomeFacts ==
  ASSUME OobInv, NEW p \in PEs, pc[p] = "get", Len(dst[p]) = Size[p]
  PROVE  /\ [q \in Ranks(p) |-> dst[p][q + 1]] \in Outcomes
         /\ \A q \in Ranks(p) : dst[p][q + 1] \in Blocks /\ Copied(p, q, dst[p][q + 1])
  <1>1. /\ Ranks(p) \subseteq PEs
        /\ \A q \in Ranks(p) : q + 1 \in 1 .. Len(dst[p])
    BY RanksAreMembers
  <1>2. \A q \in Ranks(p) : dst[p][q + 1] \in Blocks
    BY <1>1, PeFacts
  <1>3. \A q \in Ranks(p) : Copied(p, q, dst[p][q + 1])
    <2>1. \A q \in Ranks(p) : q \in PEs /\ q + 1 <= Len(dst[p])
      BY <1>1, PeFacts
    <2> QED
      BY <2>1, PeInv DEF Copies
  <1>4. [q \in Ranks(p) |-> dst[p][q + 1]] \in [Ranks(p) -> Blocks]
    BY <1>2
  <1> QED
    BY <1>1, <1>2, <1>3, <1>4 DEF Outcomes

LEMMA ReturnKeeps ==
  ASSUME OobInv, NEW p \in PEs, ReturnOk(p)
  PROVE  OobInv'
  <1>1. /\ pc' \in [PEs -> {"ucc", "put", "commit", "enter", "fence", "get", "failed"}]
        /\ pc'[p] = "ucc" /\ \A q \in PEs : q # p => pc'[q] = pc[q]
    BY GotoFacts DEF ReturnOk
  <1>2. UNCHANGED <<staged, store, fences, gone, round, dst, silent>>
    BY DEF ReturnOk, pmix
  <1>3. pc[p] = "get" /\ Len(dst[p]) = Size[p]
    BY DEF ReturnOk, Peer
  <1>4. /\ results' \in [PEs -> Seq(Outcomes)] /\ Len(results'[p]) = Len(results[p]) + 1
        /\ \A q \in PEs : q # p => results'[q] = results[q]
    <2>1. Gives(p, [q \in Ranks(p) |-> dst[p][q + 1]])
      BY DEF ReturnOk, Gives
    <2>2. [q \in Ranks(p) |-> dst[p][q + 1]] \in Outcomes
      BY <1>3, OutcomeFacts
    <2> QED
      BY <2>1, <2>2, GivesFacts
  <1>5. request' \in [PEs -> {NoRequest, "0", "-1"}]
    <2>1. request \in [PEs -> {NoRequest, "0", "-1"}]
      BY DEF OobInv, Types
    <2> QED
      BY <2>1 DEF ReturnOk
  <1>6. Types'
    BY <1>1, <1>2, <1>4, <1>5, ConstantsStay DEF OobInv, Types
  <1>7. Others(p)
    BY <1>1, <1>2, <1>4 DEF Others
  <1>8. round[p] \in Nat /\ fences[p] \in Nat /\ Len(results[p]) \in Nat
    BY PeFacts
  <1>9. Label(p)'
    <2>1. round[p] = fences[p] /\ round[p] = Len(results[p]) + 1
      BY <1>3, PeInv DEF Label
    <2> QED
      BY <1>1, <1>2, <1>4, <2>1 DEF Label
  <1>10. Stored(p)'
    <2>1. round'[p] \in Nat /\ round'[p] >= round[p]
      BY <1>2, <1>8
    <2> QED
      BY <1>1, <1>2, <2>1, StoredKept
  <1>11. Copies(p)'
    BY <1>1, <1>2, PeInv DEF Copies
  <1>12. \A q \in PEs : Fenced(q, p)'
    BY <1>1, <1>2, <1>3, PeInv DEF Fenced
  <1>13. fences'[p] >= fences[p] /\ Len(results'[p]) >= Len(results[p])
    BY <1>2, <1>4, <1>8
  <1> QED
    BY <1>6, <1>7, <1>9, <1>10, <1>11, <1>12, <1>13, OnePe

(* The invariant does not mention the requests beyond their type.          *)
LEMMA Frame ==
  ASSUME OobInv, UNCHANGED <<staged, store, fences, gone, pc, round, dst, results, silent>>,
         request' \in [PEs -> {NoRequest, "0", "-1"}]
  PROVE  OobInv'
  <1>1. Types'
    BY ConstantsStay DEF OobInv, Types
  <1>2. ASSUME NEW p \in PEs  PROVE Label(p)'
    BY PeInv DEF Label, Contribution
  <1>3. ASSUME NEW p \in PEs  PROVE Stored(p)'
    BY PeInv DEF Stored, Contribution, Rounds
  <1>4. ASSUME NEW p \in PEs  PROVE Copies(p)'
    BY PeInv DEF Copies, Copied, Contribution, Rounds
  <1>5. ASSUME NEW p \in PEs, NEW q \in PEs  PROVE Fenced(p, q)'
    BY PeInv DEF Fenced
  <1> QED
    BY <1>1, <1>2, <1>3, <1>4, <1>5 DEF OobInv

LEMMA FreeKeeps ==
  ASSUME OobInv, NEW p \in PEs, ReqFree(p)
  PROVE  OobInv'
  <1>1. request \in [PEs -> {NoRequest, "0", "-1"}]
    BY DEF OobInv, Types
  <1>2. request' \in [PEs -> {NoRequest, "0", "-1"}]
    BY <1>1 DEF ReqFree
  <1> QED
    BY <1>2, Frame DEF ReqFree, pmix

LEMMA NextInv == OobInv /\ [Next]_vars => OobInv'
  <1> SUFFICES ASSUME OobInv, [Next]_vars  PROVE OobInv'
    OBVIOUS
  <1>1. CASE UNCHANGED vars
    BY <1>1, Frame DEF vars, pmix, OobInv, Types
  <1>2. ASSUME NEW p \in PEs, Step(p)  PROVE OobInv'
    BY <1>2, GiveUpKeeps, CallKeeps, PutKeeps, CommitKeeps, FenceKeeps, LeaveFenceKeeps, GetKeeps,
       ReturnKeeps, FreeKeeps DEF Step
  <1> QED
    BY <1>1, <1>2 DEF Next

----------------------------------------------------------------------------

(* The invariant holds throughout every execution.                         *)
THEOREM OobInvariant == Spec => []OobInv
  BY InitInv, NextInv, PTL DEF Spec

(* Every variable stays in its type, and the fences entered and outcomes   *)
(* given never run ahead of or lag behind the rounds by more than one.     *)
THEOREM TypeCorrect == Spec => []TypeOK
  <1>1. ASSUME OobInv  PROVE TypeOK
    <2>1. ASSUME NEW p \in PEs
          PROVE  /\ fences[p] \in {round[p], round[p] - 1}
                 /\ Len(results[p]) \in {round[p], round[p] - 1}
      <3>1. /\ pc[p] \in {"ucc", "put", "commit", "enter", "fence", "get", "failed"}
            /\ round[p] \in Nat /\ fences[p] \in Nat /\ Len(results[p]) \in Nat
        BY <1>1, PeFacts
      <3>2. /\ fences[p] \in {round[p], round[p] - 1} \/ round[p] = fences[p] + 1
            /\ Len(results[p]) = round[p] \/ round[p] = Len(results[p]) + 1
        BY <1>1, <3>1, PeInv DEF Label
      <3> QED
        BY <3>1, <3>2
    <2> QED
      BY <1>1, <2>1 DEF OobInv, Types, Copies, TypeOK
  <1> QED
    BY <1>1, OobInvariant, PTL

----------------------------------------------------------------------------

(* The initial states of the callback are initial states of the allgather. *)
LEMMA InitSimulates == Init => Abstract!Init
  BY DEF Init, PmixInit, Abstract!Init

(* Failing is failing, whether or not the round's fence has been entered.  *)
LEMMA FailSimulates ==
  ASSUME OobInv, NEW p \in PEs, Gives(p, Failed), UNCHANGED fences,
         \/ pc[p] \in {"put", "commit", "enter", "fence", "get"}
         \/ pc[p] = "ucc" /\ round[p] < Rounds
  PROVE  Abstract!Next
  <1>1. round[p] \in Nat /\ round[p] <= Rounds /\ Len(results[p]) \in Nat /\ Rounds \in Nat
    BY PeFacts, RoundsIsNat
  <1>2. pc[p] \in {"put", "commit", "enter", "fence", "get"} => round[p] = Len(results[p]) + 1
    BY PeInv DEF Label
  <1>3. pc[p] = "ucc" => Len(results[p]) = round[p]
    BY PeInv DEF Label
  <1>4. Len(results[p]) < Rounds
    BY <1>1, <1>2, <1>3
  <1>5. Abstract!Fail(p)
    BY <1>4 DEF Abstract!Fail, Gives, Failed, Abstract!Failed
  <1> QED
    BY <1>5 DEF Abstract!Next

(* A round that reports success is the abstract one: every PE has joined   *)
(* it, and every block is of this round or the next.                       *)
LEMMA ReturnSimulates ==
  ASSUME OobInv, NEW p \in PEs, ReturnOk(p)
  PROVE  Abstract!Next
  <1>1. pc[p] = "get" /\ Len(dst[p]) = Size[p] /\ UNCHANGED fences
    BY DEF ReturnOk, Peer, pmix
  <1>2. fences[p] = round[p] /\ fences[p] = Len(results[p]) + 1
    BY <1>1, PeInv DEF Label
  <1>3. \A q \in PEs : fences[q] >= fences[p]
    <2>1. \A q \in PEs : fences[p] <= fences[q] /\ fences[q] \in Nat
      BY <1>1, PeInv, PeFacts DEF Fenced
    <2> QED
      BY <2>1, PeFacts
  <1> DEFINE ahead == [q \in Ranks(p) |-> dst[p][q + 1].round - fences[p]]
  <1>4. ASSUME NEW q \in Ranks(p)
        PROVE  /\ ahead[q] \in 0 .. 1
               /\ ahead[q] > 0 => /\ fences[p] + ahead[q] <= Rounds
                                  /\ Len(results[q]) >= fences[p] + ahead[q] - 1
               /\ dst[p][q + 1] = Contribution(q, fences[p] + ahead[q])
    <2> DEFINE b == dst[p][q + 1]
    <2>1. /\ b.round \in 1 .. Rounds /\ b = Contribution(q, b.round)
          /\ b.round = fences[p] \/ (b.round = fences[p] + 1 /\ Len(results[q]) >= fences[p])
      BY <1>1, <1>2, OutcomeFacts DEF Copied
    <2>2. fences[p] \in Nat /\ Len(results[q]) \in Nat /\ Rounds \in Nat
      BY PeFacts, RoundsIsNat, RanksAreMembers
    <2>3. ahead[q] = b.round - fences[p]
      OBVIOUS
    <2> HIDE DEF b, ahead
    <2>4. b.round \in Nat /\ fences[p] + ahead[q] = b.round
      BY <2>1, <2>2, <2>3
    <2>5. b = Contribution(q, fences[p] + ahead[q])
      BY <2>1, <2>4
    <2>6. /\ ahead[q] \in 0 .. 1
          /\ ahead[q] > 0 => /\ fences[p] + ahead[q] <= Rounds
                             /\ Len(results[q]) >= fences[p] + ahead[q] - 1
      BY <2>1, <2>2, <2>3
    <2> QED
      BY <2>5, <2>6 DEF b
  <1>5. ahead \in [Ranks(p) -> 0 .. 1]
    BY <1>4
  <1>6. [q \in Ranks(p) |-> dst[p][q + 1]] = [q \in Ranks(p) |-> Contribution(q, fences[p] + ahead[q])]
    BY <1>4
  <1> HIDE DEF ahead
  <1>7. results' = [results EXCEPT ![p] =
                      Append(@, [q \in Ranks(p) |-> Contribution(q, fences[p] + ahead[q])])]
    BY <1>6 DEF ReturnOk
  <1>8. Abstract!Succeed(p)
    BY <1>1, <1>2, <1>3, <1>4, <1>5, <1>7 DEF Abstract!Succeed
  <1> QED
    BY <1>8 DEF Abstract!Next

LEMMA StepSimulates ==
  ASSUME OobInv, [Next]_vars
  PROVE  [Abstract!Next]_<<fences, results>>
  <1>1. ASSUME UNCHANGED <<fences, results>>  PROVE [Abstract!Next]_<<fences, results>>
    BY <1>1
  <1>2. ASSUME NEW p \in PEs, Fail(p), pc[p] \in {"put", "commit", "enter", "fence", "get"}
        PROVE  Abstract!Next
    BY <1>2, FailSimulates, DisconnectFacts DEF Fail, Gives
  <1>3. ASSUME NEW p \in PEs, CallAllgather(p)  PROVE [Abstract!Next]_<<fences, results>>
    <2>1. CASE UNCHANGED <<pmix, results>>
      BY <2>1 DEF pmix
    <2>2. CASE Gives(p, Failed) /\ Disconnect(p)
      BY <1>3, <2>2, FailSimulates, DisconnectFacts DEF CallAllgather
    <2> QED
      BY <1>3, <2>1, <2>2 DEF CallAllgather, Gives
  <1>4. ASSUME NEW p \in PEs, PutBytes(p)  PROVE [Abstract!Next]_<<fences, results>>
    BY <1>2, <1>4 DEF PutBytes, Put
  <1>5. ASSUME NEW p \in PEs, CommitBytes(p)  PROVE [Abstract!Next]_<<fences, results>>
    BY <1>2, <1>5 DEF CommitBytes, Commit
  <1>6. ASSUME NEW p \in PEs, CallFence(p)  PROVE [Abstract!Next]_<<fences, results>>
    <2>1. CASE Fail(p)
      BY <1>2, <1>6, <2>1 DEF CallFence
    <2>2. CASE EnterFence(p) /\ UNCHANGED results
      <3>1. /\ round[p] \in Nat /\ round[p] <= Rounds /\ Len(results[p]) \in Nat
            /\ fences[p] \in Nat /\ Rounds \in Nat
        BY PeFacts, RoundsIsNat
      <3>2. round[p] = fences[p] + 1 /\ round[p] = Len(results[p]) + 1
        BY <1>6, PeInv DEF Label, CallFence
      <3>3. fences[p] = Len(results[p]) /\ fences[p] < Rounds
        BY <3>1, <3>2
      <3>4. Abstract!Begin(p)
        BY <2>2, <3>3 DEF Abstract!Begin, EnterFence
      <3> QED
        BY <3>4 DEF Abstract!Next
    <2> QED
      BY <1>6, <2>1, <2>2 DEF CallFence
  <1>7. ASSUME NEW p \in PEs, LeaveFence(p)  PROVE [Abstract!Next]_<<fences, results>>
    BY <1>2, <1>7 DEF LeaveFence, pmix
  <1>8. ASSUME NEW p \in PEs, GetPeer(p)  PROVE [Abstract!Next]_<<fences, results>>
    BY <1>2, <1>8 DEF GetPeer, pmix
  <1>9. ASSUME NEW p \in PEs, ReqFree(p)  PROVE [Abstract!Next]_<<fences, results>>
    BY <1>9 DEF ReqFree, pmix
  <1>10. CASE UNCHANGED vars
    BY <1>10 DEF vars, pmix
  <1>11. ASSUME NEW p \in PEs, GiveUp(p)  PROVE [Abstract!Next]_<<fences, results>>
    BY <1>11, DisconnectFacts DEF GiveUp
  <1>12. ASSUME NEW p \in PEs, Step(p)  PROVE [Abstract!Next]_<<fences, results>>
    BY <1>3, <1>4, <1>5, <1>6, <1>7, <1>8, <1>9, <1>11, <1>12, ReturnSimulates DEF Step
  <1> QED
    BY <1>10, <1>12 DEF Next

(* The callback implements the allgather whose blocks are at most one      *)
(* round too new: a round reported as done was joined by every PE, and     *)
(* each block is its owner's contribution to that round or, if the owner   *)
(* is done with it, to the next.                                           *)
THEOREM Refinement == Spec => ImplementsDriftingAllgather
  BY OobInvariant, InitSimulates, StepSimulates, PTL
     DEF Spec, ImplementsDriftingAllgather, Abstract!Spec

----------------------------------------------------------------------------

(* The blocks of a round that was reported as done, by round.              *)
Drifted(p, k, outcome) ==
  \/ outcome = Failed
  \/ /\ outcome = [q \in Ranks(p) |-> outcome[q]]
     /\ \A q \in Ranks(p) : \/ outcome[q] = Contribution(q, k)
                            \/ k < Rounds /\ outcome[q] = Contribution(q, k + 1)

OutcomesDrift ==
  \A p \in PEs : \A k \in 1 .. Len(results[p]) : Drifted(p, k, results[p][k])

(* An outcome appended for the round PE p is in.                           *)
LEMMA AppendDrifts ==
  ASSUME OobInv, OutcomesDrift, NEW p \in PEs, NEW outcome, Drifted(p, Len(results[p]) + 1, outcome),
         results' = [results EXCEPT ![p] = Append(@, outcome)]
  PROVE  OutcomesDrift'
  <1>1. \A q \in PEs : results[q] \in Seq(Outcomes) /\ Len(results[q]) \in Nat
    BY PeFacts
  <1>2. DOMAIN results = PEs
    BY PeFacts
  <1>3. \A q, k, o : Drifted(q, k, o)' <=> Drifted(q, k, o)
    BY DEF Drifted, Contribution, Rounds, Ranks
  <1>4. ASSUME NEW q \in PEs, NEW k \in 1 .. Len(results'[q])
        PROVE  Drifted(q, k, results'[q][k])
    <2>1. CASE q # p
      <3>1. results'[q] = results[q]
        BY <1>2, <2>1
      <3> QED
        BY <1>4, <3>1 DEF OutcomesDrift
    <2>2. CASE q = p
      <3>1. results'[q] = Append(results[q], outcome)
        BY <1>2, <2>2
      <3>2. CASE k = Len(results[q]) + 1
        <4>1. results'[q][k] = outcome
          BY <1>1, <3>1, <3>2
        <4> QED
          BY <2>2, <3>2, <4>1
      <3>3. CASE k # Len(results[q]) + 1
        <4>1. k \in 1 .. Len(results[q]) /\ results'[q][k] = results[q][k]
          BY <1>1, <3>1, <3>3
        <4> QED
          BY <4>1 DEF OutcomesDrift
      <3> QED
        BY <3>2, <3>3
    <2> QED
      BY <2>1, <2>2
  <1> QED
    BY <1>3, <1>4 DEF OutcomesDrift

(* From the step simulation: what the allgather's steps give.              *)
LEMMA DriftStep ==
  ASSUME OobInv, OutcomesDrift, [Next]_vars
  PROVE  OutcomesDrift'
  <1>1. CASE UNCHANGED <<fences, results>>
    BY <1>1 DEF OutcomesDrift, Drifted, Contribution, Rounds, Ranks
  <1>2. ASSUME NEW p \in PEs, Abstract!Begin(p)  PROVE OutcomesDrift'
    BY <1>2 DEF Abstract!Begin, OutcomesDrift, Drifted, Contribution, Rounds, Ranks
  <1>3. ASSUME NEW p \in PEs, Abstract!Fail(p)  PROVE OutcomesDrift'
    <2>1. results' = [results EXCEPT ![p] = Append(@, Failed)]
      BY <1>3 DEF Abstract!Fail, Failed, Abstract!Failed
    <2> QED
      BY <2>1, AppendDrifts DEF Drifted
  <1>4. ASSUME NEW p \in PEs, Abstract!Succeed(p)  PROVE OutcomesDrift'
    <2>1. fences[p] = Len(results[p]) + 1
      BY <1>4 DEF Abstract!Succeed
    <2>2. PICK ahead \in [Ranks(p) -> 0 .. 1] :
            /\ \A q \in Ranks(p) : ahead[q] > 0 => fences[p] + ahead[q] <= Rounds
            /\ results' = [results EXCEPT ![p] =
                 Append(@, [q \in Ranks(p) |-> Contribution(q, fences[p] + ahead[q])])]
      BY <1>4 DEF Abstract!Succeed
    <2>3. PICK outcome : outcome = [q \in Ranks(p) |-> Contribution(q, fences[p] + ahead[q])]
      OBVIOUS
    <2>4. ASSUME NEW q \in Ranks(p)
          PROVE  \/ outcome[q] = Contribution(q, fences[p])
                 \/ fences[p] < Rounds /\ outcome[q] = Contribution(q, fences[p] + 1)
      <3>1. outcome[q] = Contribution(q, fences[p] + ahead[q])
        BY <2>3
      <3>2. fences[p] \in Nat /\ Rounds \in Nat
        BY PeFacts, RoundsIsNat
      <3>3. CASE ahead[q] = 0
        <4>1. fences[p] + ahead[q] = fences[p]
          BY <3>2, <3>3
        <4> QED
          BY <3>1, <4>1
      <3>4. CASE ahead[q] = 1
        <4>1. fences[p] + ahead[q] = fences[p] + 1 /\ fences[p] < Rounds
          BY <2>2, <3>2, <3>4
        <4> QED
          BY <3>1, <4>1
      <3> QED
        BY <2>2, <3>3, <3>4
    <2>5. Drifted(p, fences[p], outcome)
      BY <2>3, <2>4 DEF Drifted
    <2> QED
      BY <2>1, <2>2, <2>3, <2>5, AppendDrifts
  <1> QED
    BY <1>1, <1>2, <1>3, <1>4, StepSimulates DEF Abstract!Next

(* Every block of a round that succeeded, in any run and for any lengths,  *)
(* is its owner's contribution to that round or to the next.               *)
THEOREM BlocksDriftByOne == Spec => []OutcomesDrift
  <1>1. Init => OutcomesDrift
    BY DEF Init, OutcomesDrift
  <1> QED
    BY <1>1, DriftStep, OobInvariant, PTL DEF Spec

(* The exchange is exact for a team that UCC creates with one allgather:   *)
(* only the next round's bytes can take the place of a block.              *)
THEOREM OneRoundIsExact ==
  ASSUME Rounds = 1
  PROVE  Spec => []AllgatherIsExact
  <1>1. OobInv /\ OutcomesDrift => AllgatherIsExact
    <2> SUFFICES ASSUME OobInv, OutcomesDrift, NEW p \in PEs, NEW k \in 1 .. Len(results[p])
                 PROVE  results[p][k] \in {Failed, [q \in Ranks(p) |-> Contribution(q, k)]}
      BY DEF AllgatherIsExact
    <2>1. k >= 1 /\ k \in Nat
      BY PeFacts
    <2>2. Drifted(p, k, results[p][k])
      BY DEF OutcomesDrift
    <2>3. CASE results[p][k] # Failed
      <3>1. /\ results[p][k] = [q \in Ranks(p) |-> results[p][k][q]]
            /\ \A q \in Ranks(p) : results[p][k][q] = Contribution(q, k)
        BY <2>1, <2>2, <2>3 DEF Drifted
      <3>2. [q \in Ranks(p) |-> results[p][k][q]] = [q \in Ranks(p) |-> Contribution(q, k)]
        BY <3>1
      <3> QED
        BY <3>1, <3>2
    <2> QED
      BY <2>3
  <1> QED
    BY <1>1, OobInvariant, BlocksDriftByOne, PTL

----------------------------------------------------------------------------
(***************************************************************************)
(* Why a round ends: the parts of OnlySilentPEsHoldRounds that are safety  *)
(* properties.                                                             *)
(***************************************************************************)

(* A PE that failed has disconnected, or tried to and init ignored that it *)
(* did not succeed.                                                        *)
GoneAreFailed == gone \cup silent = { p \in PEs : pc[p] = "failed" }

LEMMA GoneStep == OobInv /\ GoneAreFailed /\ [Next]_vars => GoneAreFailed'
  <1> SUFFICES ASSUME OobInv, GoneAreFailed, [Next]_vars
               PROVE  GoneAreFailed'
    OBVIOUS
  <1>1. ASSUME NEW p \in PEs, Step(p)  PROVE GoneAreFailed'
    <2>0. DOMAIN pc = PEs
      BY DEF OobInv, Types
    <2>1. ASSUME Goto(p, "failed"), Disconnect(p)  PROVE GoneAreFailed'
      BY <2>0, <2>1, DisconnectFacts DEF Goto, GoneAreFailed
    <2>2. ASSUME Fail(p)  PROVE GoneAreFailed'
      BY <2>1, <2>2 DEF Fail
    <2>3. ASSUME NEW l, l # "failed", Goto(p, l), pc[p] # "failed", UNCHANGED <<gone, silent>>
          PROVE  GoneAreFailed'
      BY <2>0, <2>3 DEF Goto, GoneAreFailed
    <2>4. CASE CallAllgather(p)
      BY <2>1, <2>3, <2>4 DEF CallAllgather, pmix
    <2>5. CASE PutBytes(p)
      BY <2>2, <2>3, <2>5 DEF PutBytes, Put
    <2>6. CASE CommitBytes(p)
      BY <2>2, <2>3, <2>6 DEF CommitBytes, Commit
    <2>7. CASE CallFence(p)
      BY <2>2, <2>3, <2>7 DEF CallFence, EnterFence
    <2>8. CASE LeaveFence(p)
      BY <2>2, <2>3, <2>8 DEF LeaveFence, pmix
    <2>9. CASE GetPeer(p)
      BY <2>2, <2>9 DEF GetPeer, pmix, GoneAreFailed
    <2>10. CASE ReturnOk(p)
      BY <2>3, <2>10 DEF ReturnOk, pmix
    <2>11. CASE ReqFree(p)
      BY <2>11 DEF ReqFree, pmix, GoneAreFailed
    <2>12. CASE GiveUp(p)
      BY <2>1, <2>12 DEF GiveUp
    <2> QED
      BY <1>1, <2>4, <2>5, <2>6, <2>7, <2>8, <2>9, <2>10, <2>11, <2>12 DEF Step
  <1>2. CASE UNCHANGED vars
    BY <1>2 DEF vars, pmix, GoneAreFailed
  <1> QED
    BY <1>1, <1>2 DEF Next

(* Every PE waits in a fence, has failed or has finished its last round.   *)
NobodyElseRuns ==
  \A q \in PEs : \/ pc[q] \in {"fence", "failed"}
                 \/ pc[q] = "ucc" /\ round[q] = Rounds

(* FenceWaitsForSilentOnly: when PEs wait in fences, of one round or of    *)
(* two, and nobody else runs, each of them can leave, or is stranded by    *)
(* PEs that failed without disconnecting, or waits for a PE that is a      *)
(* round behind and can itself leave.  The PEs never wait for each other,  *)
(* although nothing keeps them in the same round.                          *)
FenceWaitsForSilentOnly ==
  NobodyElseRuns =>
    \A p \in PEs : pc[p] = "fence" =>
      \/ FenceDone(p) \/ FenceBroken(p) \/ Stranded(p)
      \/ \E q \in PEs : pc[q] = "fence" /\ fences[q] < fences[p] /\ FenceDone(q)

LEMMA FenceWaits == OobInv /\ GoneAreFailed => FenceWaitsForSilentOnly
  <1> SUFFICES ASSUME OobInv, GoneAreFailed, NobodyElseRuns,
                      NEW p \in PEs, pc[p] = "fence",
                      ~ FenceDone(p), ~ FenceBroken(p),
                      ~ \E q \in PEs : pc[q] = "fence" /\ fences[q] < fences[p] /\ FenceDone(q)
               PROVE  Stranded(p)
    BY DEF FenceWaitsForSilentOnly
  <1>1. fences[p] = round[p] /\ fences[p] \in Nat /\ round[p] <= Rounds
    BY PeFacts, PeInv DEF Label
  <1>2. \E q \in PEs : fences[q] < fences[p]
    <2>1. PICK q \in PEs : ~ (fences[q] >= fences[p])
      BY DEF FenceDone
    <2> QED
      BY <1>1, <2>1, PeFacts
  <1>3. ASSUME NEW q \in PEs, fences[q] < fences[p]  PROVE q \in silent
    <2>1. fences[q] \in Nat
      BY PeFacts
    <2>2. pc[q] # "ucc"
      <3> SUFFICES ASSUME pc[q] = "ucc"  PROVE FALSE
        OBVIOUS
      <3>1. round[q] = Rounds
        BY DEF NobodyElseRuns
      <3>2. fences[q] = Rounds
        BY <3>1, PeInv DEF Label
      <3> QED
        BY <1>1, <1>3, <3>2, RoundsIsNat
    <2>3. pc[q] # "fence"
      <3> SUFFICES ASSUME pc[q] = "fence"  PROVE FALSE
        OBVIOUS
      <3>1. ASSUME NEW x \in PEs  PROVE fences[x] >= fences[q]
        <4>1. fences[x] \in Nat /\ fences[p] <= fences[x] + 1
          BY PeFacts, PeInv DEF Fenced
        <4> QED
          BY <1>1, <1>3, <2>1, <4>1
      <3> QED
        BY <1>3, <3>1 DEF FenceDone
    <2>4. q \in gone \cup silent
      BY <2>2, <2>3 DEF NobodyElseRuns, GoneAreFailed
    <2>5. q \notin gone
      BY <1>3 DEF FenceBroken
    <2> QED
      BY <2>4, <2>5
  <1> QED
    BY <1>2, <1>3 DEF Stranded

(* In the fences of the callbacks a PE waits in vain only for PEs that     *)
(* failed and that init left connected.                                    *)
THEOREM OnlySilenceHoldsTheFence == Spec => []FenceWaitsForSilentOnly
  <1>1. Init => GoneAreFailed
    BY DEF Init, PmixInit, GoneAreFailed
  <1> QED
    BY <1>1, FenceWaits, GoneStep, OobInvariant, PTL DEF Spec

(* FenceAlwaysEnds: when PEs wait in fences and nobody else runs, somebody *)
(* can leave.                                                              *)
FenceAlwaysEnds ==
  NobodyElseRuns /\ (\E q \in PEs : pc[q] = "fence") =>
    \E p \in PEs : pc[p] = "fence" /\ (FenceDone(p) \/ FenceBroken(p))

(* The callbacks cannot deadlock in their fences as long as no disconnect  *)
(* fails: a PE that lags is itself free to go on, and one that failed has  *)
(* broken the fence it missed.                                             *)
THEOREM NoDeadlockWhenFailuresDisconnect ==
  ASSUME "disconnect" \notin Faults
  PROVE  Spec => []FenceAlwaysEnds
  <1> DEFINE NoneSilent == silent = {}
  <1>1. Init => NoneSilent
    BY DEF Init
  <1>2. NoneSilent /\ [Next]_vars => NoneSilent'
    <2> SUFFICES ASSUME [Next]_vars  PROVE silent' = silent
      OBVIOUS
    <2>1. ASSUME NEW p \in PEs, Fail(p)  PROVE silent' = silent
      BY <2>1 DEF Fail, Disconnect
    <2>2. ASSUME NEW p \in PEs, Step(p)  PROVE silent' = silent
      <3>1. CASE GiveUp(p) \/ CallAllgather(p)
        BY <3>1 DEF GiveUp, CallAllgather, Disconnect
      <3>2. CASE PutBytes(p) \/ CommitBytes(p)
        BY <2>1, <3>2 DEF PutBytes, CommitBytes
      <3>3. CASE CallFence(p) \/ LeaveFence(p)
        BY <2>1, <3>3 DEF CallFence, LeaveFence
      <3>4. CASE GetPeer(p) \/ ReturnOk(p) \/ ReqFree(p)
        BY <2>1, <3>4 DEF GetPeer, ReturnOk, ReqFree
      <3> QED
        BY <2>2, <3>1, <3>2, <3>3, <3>4 DEF Step
    <2> QED
      BY <2>2 DEF Next, vars
  <1>3. NoneSilent /\ FenceWaitsForSilentOnly => FenceAlwaysEnds
    <2> SUFFICES ASSUME silent = {}, FenceWaitsForSilentOnly, NobodyElseRuns,
                        NEW p \in PEs, pc[p] = "fence"
                 PROVE  \E q \in PEs : pc[q] = "fence" /\ (FenceDone(q) \/ FenceBroken(q))
      BY DEF FenceAlwaysEnds
    <2>1. ~ Stranded(p)
      BY DEF Stranded
    <2> QED
      BY <2>1 DEF FenceWaitsForSilentOnly
  <1> HIDE DEF NoneSilent
  <1> QED
    BY <1>1, <1>2, <1>3, OnlySilenceHoldsTheFence, PTL DEF Spec

(* A bound on the steps a PE has left before its callback returns.         *)
StepsAt(label) ==
  CASE label = "put"    -> 5
    [] label = "commit" -> 4
    [] label = "enter"  -> 3
    [] label = "fence"  -> 2
    [] OTHER            -> 1

StepsLeft(p) ==
  IF pc[p] \in {"ucc", "failed"} THEN 0
  ELSE StepsAt(pc[p]) + (Size[p] - Len(dst[p]))

(* CallbackWindsDown: inside the callback every step of the PE leaves it   *)
(* strictly fewer steps to take, never fewer than none, and no other PE    *)
(* gives it more: a round takes at most Size[p] + 5 steps of PE p, the     *)
(* wait in the fence being one of them.                                    *)
CallbackWindsDown ==
  [][ \A p \in PEs : pc[p] \notin {"ucc", "failed"} =>
        /\ StepsLeft(p) \in Nat \ {0}
        /\ StepsLeft(p)' <= StepsLeft(p)
        /\ Step(p) /\ ~ ReqFree(p) => StepsLeft(p)' < StepsLeft(p) ]_vars

(* A step inside the callback returns, moves on to the next place, or      *)
(* copies one more block; freeing a request touches neither.               *)
LEMMA StepMoves ==
  ASSUME OobInv, NEW p \in PEs, Step(p)
  PROVE  /\ \A q \in PEs : q # p => pc'[q] = pc[q] /\ dst'[q] = dst[q]
         /\ pc[p] \notin {"ucc", "failed"} =>
              \/ pc'[p] \in {"ucc", "failed"}
              \/ /\ dst'[p] = dst[p]
                 /\ <<pc[p], pc'[p]>> \in {<<"put", "commit">>, <<"commit", "enter">>,
                                           <<"enter", "fence">>, <<"fence", "get">>}
              \/ /\ pc[p] = "get" /\ pc'[p] = "get"
                 /\ Len(dst'[p]) = Len(dst[p]) + 1
              \/ ReqFree(p) /\ pc'[p] = pc[p] /\ dst'[p] = dst[p]
  <1>0. DOMAIN pc = PEs /\ DOMAIN dst = PEs /\ dst[p] \in Seq(Blocks)
    BY PeFacts
  <1> USE <1>0 DEF Goto, Fail
  <1>1. CASE CallAllgather(p)
    BY <1>1 DEF CallAllgather
  <1>2. CASE PutBytes(p)
    BY <1>2 DEF PutBytes
  <1>3. CASE CommitBytes(p)
    BY <1>3 DEF CommitBytes
  <1>4. CASE CallFence(p)
    BY <1>4 DEF CallFence
  <1>5. CASE LeaveFence(p)
    BY <1>5 DEF LeaveFence
  <1>6. CASE GetPeer(p)
    <2>1. CASE Fail(p)
      BY <2>1
    <2>2. CASE /\ dst' = [dst EXCEPT ![p] = Append(@, store[Peer(p)][OOB_KEY])]
               /\ UNCHANGED pc
      <3>1. dst'[p] = Append(dst[p], store[Peer(p)][OOB_KEY])
        BY <2>2
      <3>2. Len(dst'[p]) = Len(dst[p]) + 1
        BY <3>1
      <3> QED
        BY <1>6, <2>2, <3>2 DEF GetPeer
    <2> QED
      BY <1>6, <2>1, <2>2 DEF GetPeer
  <1>7. CASE ReturnOk(p)
    BY <1>7 DEF ReturnOk
  <1>8. CASE ReqFree(p)
    BY <1>8 DEF ReqFree
  <1>9. CASE GiveUp(p)
    BY <1>9 DEF GiveUp
  <1> QED
    BY <1>1, <1>2, <1>3, <1>4, <1>5, <1>6, <1>7, <1>8, <1>9 DEF Step

(* The callback of one round is finite, for any number of PEs and rounds.  *)
THEOREM CallbackIsFinite == Spec => CallbackWindsDown
  <1>1. OobInv /\ [Next]_vars
          => [\A p \in PEs : pc[p] \notin {"ucc", "failed"} =>
                /\ StepsLeft(p) \in Nat \ {0}
                /\ StepsLeft(p)' <= StepsLeft(p)
                /\ Step(p) /\ ~ ReqFree(p) => StepsLeft(p)' < StepsLeft(p)]_vars
    <2> SUFFICES ASSUME OobInv, Next, NEW p \in PEs, pc[p] \notin {"ucc", "failed"}
                 PROVE  /\ StepsLeft(p) \in Nat \ {0}
                        /\ StepsLeft(p)' <= StepsLeft(p)
                        /\ Step(p) /\ ~ ReqFree(p) => StepsLeft(p)' < StepsLeft(p)
      OBVIOUS
    <2> DEFINE d == Len(dst[p])
    <2>1. d \in Nat /\ d <= Size[p] /\ Size[p] \in Nat
      BY PeFacts, PeInv, RanksAreMembers DEF Copies
    <2>2. /\ StepsLeft(p) = StepsAt(pc[p]) + (Size[p] - d) /\ StepsAt(pc[p]) \in 1 .. 5
          /\ StepsLeft(p) \in Nat \ {0}
      <3>1. StepsLeft(p) = StepsAt(pc[p]) + (Size[p] - d)
        BY DEF StepsLeft
      <3>2. StepsAt(pc[p]) \in 1 .. 5
        BY DEF StepsAt
      <3> HIDE DEF d
      <3> QED
        BY <2>1, <3>1, <3>2
    <2>3. ASSUME pc'[p] = pc[p], dst'[p] = dst[p]  PROVE StepsLeft(p)' = StepsLeft(p)
      BY <2>3 DEF StepsLeft, StepsAt
    <2>4. ASSUME Step(p), ~ ReqFree(p)  PROVE StepsLeft(p)' < StepsLeft(p)
      <3>1. CASE pc'[p] \in {"ucc", "failed"}
        <4>1. StepsLeft(p)' = 0
          BY <3>1 DEF StepsLeft
        <4> QED
          BY <2>2, <4>1
      <3>2. CASE /\ dst'[p] = dst[p]
                 /\ <<pc[p], pc'[p]>> \in {<<"put", "commit">>, <<"commit", "enter">>,
                                           <<"enter", "fence">>, <<"fence", "get">>}
        <4>1. StepsAt(pc[p]) = StepsAt(pc'[p]) + 1 /\ StepsAt(pc'[p]) \in 1 .. 4
          BY <3>2 DEF StepsAt
        <4>2. StepsLeft(p)' = StepsAt(pc'[p]) + (Size[p] - d)
          BY <3>2 DEF StepsLeft, StepsAt
        <4> HIDE DEF d
        <4> QED
          BY <2>1, <2>2, <4>1, <4>2
      <3>3. CASE pc[p] = "get" /\ pc'[p] = "get" /\ Len(dst'[p]) = Len(dst[p]) + 1
        <4>1. StepsLeft(p) = 1 + (Size[p] - d) /\ StepsLeft(p)' = 1 + (Size[p] - (d + 1))
          BY <3>3 DEF StepsLeft, StepsAt
        <4> HIDE DEF d
        <4> QED
          BY <2>1, <4>1
      <3> QED
        BY <2>4, <3>1, <3>2, <3>3, StepMoves
    <2>5. PICK q \in PEs : Step(q)
      BY DEF Next
    <2>6. StepsLeft(p)' < StepsLeft(p) \/ StepsLeft(p)' = StepsLeft(p)
      <3>1. CASE q # p
        <4>1. pc'[p] = pc[p] /\ dst'[p] = dst[p]
          BY <2>5, <3>1, StepMoves
        <4> QED
          BY <2>3, <4>1
      <3>2. CASE q = p /\ ReqFree(p)
        BY <2>3, <3>2 DEF ReqFree
      <3>3. CASE q = p /\ ~ ReqFree(p)
        BY <2>4, <2>5, <3>3
      <3> QED
        BY <3>1, <3>2, <3>3
    <2>7. StepsLeft(p)' \in Int
      <3>1. OobInv'
        BY NextInv
      <3>2. Len(dst'[p]) \in Nat /\ Size[p] \in Nat
        BY <3>1, RanksAreMembers DEF OobInv, Types
      <3>3. \/ StepsLeft(p)' = 0
            \/ StepsLeft(p)' = StepsAt(pc'[p]) + (Size[p] - Len(dst'[p]))
        BY DEF StepsLeft, StepsAt
      <3>4. StepsAt(pc'[p]) \in 1 .. 5
        BY DEF StepsAt
      <3> QED
        BY <3>2, <3>3, <3>4
    <2>8. StepsLeft(p)' <= StepsLeft(p)
      BY <2>2, <2>6, <2>7
    <2> QED
      BY <2>2, <2>4, <2>8
  <1> QED
    BY <1>1, OobInvariant, PTL DEF Spec, CallbackWindsDown

=============================================================================
