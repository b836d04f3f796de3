SPECIFICATION Spec
CONSTANTS
    eng = eng
    aud = aud
    Safeguards = {g1}
    Actors = {eng, aud}
    RoleOf <- MCRoleOf
    Intervals = {1, 2}
    Tolerance = 0
    None = None
    Requests = {r1, r2}
    MaxTime = 1
PROPERTIES ActiveOnlyByVerification
CHECK_DEADLOCK FALSE
