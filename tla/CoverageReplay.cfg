SPECIFICATION Spec
CONSTANTS
    adm = adm
    good = good
    bad = bad
    Requests = {r1, r2}
    Evaluations = {e1}
    Keys = {"k1"}
    Scenarios = {"s1"}
    Actors = {adm}
    RoleOf <- MCRoleOf
    Author <- MCAuthor
    Snapshots = {good, bad}
    Evaluable = {good}
    Score <- MCScore
    NoActor = NoActor
    CanAbort = FALSE
SYMMETRY Symmetry
INVARIANTS ReplayReproduces
CHECK_DEADLOCK FALSE
