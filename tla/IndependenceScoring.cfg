SPECIFICATION Spec
CONSTANTS
    None = None
    Ids = {1, 2, 3}
    GroupKeys = {0, 1, 2}
    Blank = 0
    Effectiveness = {3, 5, 10}
    Full = 10
    Whole = 1000
    Verifications = {1, 2}
    Interval = 2
    TicksPerSecond = 2
    Times = {5}
    Statements <- MCStatements
    Texts <- MCTexts
    Unspecified <- MCUnspecified
    Risks = {1, 5, 12, 20, 25}
    MaxRows = 3
INVARIANTS TypeOK EveryLayerAccounted RejectsTheIneffective OneContributionPerKey UncoveredPathsReported ResidualRiskSound
PROPERTIES LayersOnlyHelp
CHECK_DEADLOCK FALSE
