CONSTANTS
    ann = ann
    bea = bea
    cat = cat
    None = None
    Member <- Members
    Busy = {cat}
    rank <- Order
    Start <- Rows
    need <- Need
    keep <- Keep
    Idle = 2
    PageSize = 1
    MaxRows = 2
    MaxTime = 3
    MaxPosts = 2
    MaxFaults = 1
    MaxOps = 1
SPECIFICATION FairSpec
INVARIANT EachMetOnce
PROPERTIES DemotionIsEarned IdleAreDemoted
