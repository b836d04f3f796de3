SPECIFICATION Spec
CONSTANTS
    adm = adm
    Scenarios = {s1}
    Requests = {r1, r2}
    Actors = {adm, rev}
    RoleOf <- MCRoleOf
    Fields = {cause}
    Values = {v1, v2}
    Patches <- MCPatches
    NoActor = NoActor
    MaxVersion = 4
SYMMETRY Symmetry
INVARIANTS EveryWriteAudited
CHECK_DEADLOCK FALSE
