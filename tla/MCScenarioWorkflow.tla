------------------------- MODULE MCScenarioWorkflow -------------------------
(* An instance of ScenarioWorkflow for TLC: an administrator, who may write
   and review, and reviewers. *)
EXTENDS ScenarioWorkflow, TLC

CONSTANT adm

MCRoleOf == [a \in Actors |-> IF a = adm THEN "admin" ELSE "safety_reviewer"]

\* One column at a time: enough for two forms to touch different columns.
MCPatches == {f :> v : f \in Fields, v \in Values}

Symmetry == Permutations(Requests) \cup Permutations(Fields) \cup Permutations(Values)
=============================================================================
