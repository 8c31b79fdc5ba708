SPECIFICATION Spec
CONSTANTS
    Member = {a, b}
    House = house
    None = none
    Hand = {h1, h2}
    BuyIn = 1
    Cap = 1
    Coins = 3
    MaxTurns = 2
    MaxFaults = 1
INVARIANTS
    OneHandEach
    TurnWaiting
    PaidOnceUnlessSlipped
    CapKept
PROPERTIES
    SavedDebtsStand
    WinsArePaid
CHECK_DEADLOCK FALSE
