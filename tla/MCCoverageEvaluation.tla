------------------------ MODULE MCCoverageEvaluation ------------------------
(* An instance of CoverageEvaluation for TLC: an administrator, who wrote the
   scenarios, and reviewers; inputs the evaluator accepts and one it rejects. *)
EXTENDS CoverageEvaluation, TLC

CONSTANTS adm, good, bad

MCRoleOf == [a \in Actors |-> IF a = adm THEN "admin" ELSE "safety_reviewer"]

MCAuthor == [s \in Scenarios |-> adm]

MCScore == [snapshot \in Evaluable |-> 80]

Symmetry == Permutations(Requests) \cup Permutations(Evaluations)
              \cup Permutations(Actors \ {adm})
=============================================================================
