------------------------ MODULE MCSafeguardLifecycle ------------------------
(* An instance of SafeguardLifecycle for TLC: an engineer, who may write, and
   an auditor, who may not. *)
EXTENDS SafeguardLifecycle, TLC

CONSTANTS eng, aud

MCRoleOf == [a \in Actors |-> IF a = aud THEN "auditor" ELSE "process_engineer"]

Symmetry == Permutations(Requests)
=============================================================================
