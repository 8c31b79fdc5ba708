CONSTANTS
    Original = {1, 2, 3}
    Epoch = {1, 2}
    Rings <- AllRings
    MaxDeleteIds = 2
    MaxFaults = 2
SPECIFICATION FairSpec
INVARIANTS NothingLost FileIsTrue OneEnvelope PurgeNeedsAll
PROPERTY HistoryMigrates
