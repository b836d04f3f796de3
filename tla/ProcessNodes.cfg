SPECIFICATION Spec
CONSTANTS
    eng = eng
    aud = aud
    Nodes = {n1, n2}
    Codes = {c1}
    Data = {d1, d2}
    Actors = {eng, aud}
    RoleOf <- MCRoleOf
    Requests = {r1, r2, r3}
    MaxScenarios = 1
    None = None
SYMMETRY Symmetry
INVARIANTS TypeOK CodesUnique AnswersAreTrue LateScenariosRefused
PROPERTIES LateEditsKeepDeactivation
CHECK_DEADLOCK FALSE
