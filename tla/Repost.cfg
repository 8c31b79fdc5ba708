CONSTANTS
    w1 = w1
    w2 = w2
    p1 = p1
    p2 = p2
    None = None
    Case = {"c"}
    Event <- RepostEvents
    ev <- RepostWorld
    Key <- Keys
    Admin <- Admins
    Reviewer <- Reviewers
    Rank <- Ranks
    Worker = {w1, w2}
    Reporter = {}
    MaxFaults = 1
SPECIFICATION Spec
SYMMETRY Symmetry
INVARIANTS ReceiptMatchesLedger OneDecisionUntilAppeal
PROPERTIES DecidesHeldRequest HighTierAnsweredByHuman
