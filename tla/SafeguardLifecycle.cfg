SPECIFICATION Spec
CONSTANTS
    eng = eng
    aud = aud
    Safeguards = {g1}
    Actors = {eng, aud}
    RoleOf <- MCRoleOf
    Intervals = {1, 2}
    Tolerance = 1
    None = None
    Requests = {r1, r2}
    MaxTime = 2
SYMMETRY Symmetry
INVARIANTS TypeOK VerificationSound
PROPERTIES VerificationSurvivesEdits NothingElseMakesItCount
           NothingElseStopsItCounting ImplementsProtocol
CHECK_DEADLOCK FALSE
