--------------------------- MODULE HazopConstants ---------------------------
(***************************************************************************)
(* The tables of src/internal/constants that every service consults: the  *)
(* two workflow state machines and the role / permission matrix.          *)
(***************************************************************************)

ScenarioStates == {"draft", "analyzed", "verified", "accepted", "rework"}

\* scenarioTransitions: which states a deviation scenario may move to.
ScenarioTransitions ==
    [draft    |-> {"analyzed"},
     analyzed |-> {"verified", "rework"},
     verified |-> {"accepted", "rework"},
     accepted |-> {},
     rework   |-> {"analyzed"}]

CanTransitionScenario(from, to) ==
    from \in DOMAIN ScenarioTransitions /\ to \in ScenarioTransitions[from]

CoverageStates ==
    {"queued", "running", "completed", "failed", "confirmed", "voided"}

\* coverageTransitions: which states a coverage evaluation may move to.
CoverageTransitions ==
    [queued    |-> {"running"},
     running   |-> {"completed", "failed"},
     completed |-> {"confirmed", "voided"},
     failed    |-> {"voided"},
     confirmed |-> {"voided"},
     voided    |-> {}]

CanTransitionCoverage(from, to) ==
    from \in DOMAIN CoverageTransitions /\ to \in CoverageTransitions[from]

Roles == {"admin", "process_engineer", "safety_reviewer", "auditor"}

RolePermissions ==
    [admin            |-> {"read", "node:write", "scenario:write",
                           "scenario:review", "safeguard:write",
                           "evaluation:run", "evaluation:confirm"},
     process_engineer |-> {"read", "node:write", "scenario:write",
                           "safeguard:write", "evaluation:run"},
     safety_reviewer  |-> {"read", "scenario:review", "safeguard:write",
                           "evaluation:run", "evaluation:confirm"},
     auditor          |-> {"read"}]

HasPermission(role, permission) ==
    role \in DOMAIN RolePermissions /\ permission \in RolePermissions[role]
=============================================================================
