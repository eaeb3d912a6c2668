--------------------------- MODULE MCCollectives ---------------------------
(* Two PEs and every script of two calls.                                  *)
EXTENDS Collectives

Op(kind, nb) == [kind |-> kind, nb |-> nb, root |-> 0, empty |-> FALSE, supported |-> TRUE]

MCValid == { Op(kind, nb) : kind \in {"barrier", "collect", "reduce"}, nb \in BOOLEAN }
           \cup {Op("broadcast", TRUE), [Op("broadcast", FALSE) EXCEPT !.root = 1]}

MCRefused == {[Op("broadcast", FALSE) EXCEPT !.root = 2],
              [Op("collect", TRUE) EXCEPT !.empty = TRUE],
              [Op("reduce", FALSE) EXCEPT !.supported = FALSE]}

(* reduce of an empty slice goes to UCC.                                   *)
MCEmptyReduce == {[Op("reduce", FALSE) EXCEPT !.empty = TRUE]}

MCAllOps == MCValid \cup MCRefused \cup MCEmptyReduce

MCReduceNb == {Op("reduce", TRUE)}
MCFinalize == {"finalize"}
MCAllFaults == {"post", "ucc", "finalize"}
=============================================================================
