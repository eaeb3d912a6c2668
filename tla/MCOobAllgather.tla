--------------------------- MODULE MCOobAllgather ---------------------------
(* Several rounds: of another length, of the same length, and an empty one. *)
EXTENDS OobAllgather

(* All PEs know the size of the job, or PE 1 takes it to be too small.     *)
MCFullSize == [p \in PEs |-> N]
MCSizes == [p \in PEs |-> IF p = 1 THEN N - 1 ELSE N]

MCTwoRounds == <<4, 4>>
MCManyRounds == <<4, 8, 8, 0>>
MCAllFaults == Calls
=============================================================================
