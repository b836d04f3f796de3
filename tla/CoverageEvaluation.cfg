SPECIFICATION Spec
CONSTANTS
    adm = adm
    good = good
    bad = bad
    Requests = {r1, r2}
    Evaluations = {e1, e2}
    Keys = {"k1"}
    Scenarios = {"s1"}
    Actors = {adm, rev, chief}
    RoleOf <- MCRoleOf
    Author <- MCAuthor
    Snapshots = {good, bad}
    Evaluable = {good}
    Score <- MCScore
    NoActor = NoActor
    CanAbort = TRUE
SYMMETRY Symmetry
INVARIANTS TypeOK OneEvaluationPerKey VerdictFollowsInput ConfirmedByAnother RunOwnsItsRow AuditNamesConfirmer
PROPERTIES LifecycleRespected
CHECK_DEADLOCK FALSE
