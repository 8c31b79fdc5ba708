CONSTANTS
    w1 = w1
    w2 = w2
    p1 = p1
    p2 = p2
    None = None
    Case = {"c"}
    Event <- ReportEvents
    ev <- ReportWorld
    Key <- ReportKeys
    Admin <- ReportAdmins
    Reviewer = {}
    Rank <- Ranks
    Worker = {w1}
    Reporter = {p1, p2}
    MaxFaults = 1
SPECIFICATION Spec
SYMMETRY Symmetry
INVARIANT LandedIsDecided
PROPERTY LadderNeverDescends
