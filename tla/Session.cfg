CONSTANTS
    a = a b = b feed = feed c = c dm = dm letter = letter None = None
    Socket = {a, b, c}
    Reader = {b}
    Author = {a, c}
    Member = {b}
    Topic = {dm, feed}
    Protected = {dm}
    Event = {letter}
    About <- MCAbout
    To <- MCTo
    MaxId = 3
    MaxSlots = 2
    MaxSubs = 1
    Faulty = {"get", "put", "d1"}
    MaxFaults = 1
SPECIFICATION FairSpec
INVARIANTS DistinctIds OwnIdentity NothingMissed SlotsNotLeaked
PROPERTIES NeverSleeps Authenticates 
CHECK_DEADLOCK FALSE
