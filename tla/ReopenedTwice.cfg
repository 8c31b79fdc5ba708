CONSTANTS
    w1 = w1
    w2 = w2
    p1 = p1
    p2 = p2
    None = None
    Case = {"c"}
    Event <- ContestEvents
    ev <- ContestWorld
    Key <- ReportKeys
    Admin <- ReportAdmins
    Reviewer = {}
    Rank <- Ranks
    Worker = {w1, w2}
    Reporter = {}
    MaxFaults = 0
SPECIFICATION Spec
SYMMETRY Symmetry
PROPERTY ReopeningIsEarned
