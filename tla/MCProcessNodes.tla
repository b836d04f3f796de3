--------------------------- MODULE MCProcessNodes ---------------------------
(* An instance of ProcessNodes for TLC. *)
EXTENDS ProcessNodes, TLC

CONSTANTS eng, aud

MCRoleOf == [a \in Actors |-> IF a = aud THEN "auditor" ELSE "process_engineer"]

Symmetry == Permutations(Requests) \cup Permutations(Nodes)
               \cup Permutations(Codes) \cup Permutations(Data)
=============================================================================
