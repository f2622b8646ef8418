SPECIFICATION Spec
CONSTANTS
    None = None
    Contents <- SampleContents
    Cells = {411}
    MaxRows = 2
    MaxStops = 2
    MaxRuns = 2
    MaxByHand = 1
CHECK_DEADLOCK FALSE
INVARIANTS
    MigrateTypeOK
    HeadIsUsable
    SoundUpgradesSucceed
    RehearsalPredicts
PROPERTIES
    GuardedSpec
    RowsSurvive
    DoneMeansMigrated
    RehearsalIsApart
