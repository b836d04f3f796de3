SPECIFICATION Spec
CONSTANTS
    adm = adm
    Scenarios = {s1}
    Requests = {r1, r2}
    Actors = {adm, rev}
    RoleOf <- MCRoleOf
    Fields = {cause, severity}
    Values = {v1, v2}
    Patches <- MCPatches
    NoActor = NoActor
    MaxVersion = 4
SYMMETRY Symmetry
INVARIANTS TypeOK ReviewedByAnother AuditTrailConsistent VersionIdentifiesRow
PROPERTIES FrozenUnderReview DecidesWhatWasSeen ConflictIsReal ImplementsProtocol
CHECK_DEADLOCK FALSE
