CONSTANTS
    w1 = w1
    w2 = w2
    p1 = p1
    p2 = p2
    None = None
    Case = {"c"}
    Event <- LifeEvents
    ev <- LifeWorld
    Key <- Keys
    Admin <- Admins
    Reviewer <- Reviewers
    Rank <- Ranks
    Worker = {w1, w2}
    Reporter = {}
    MaxFaults = 0
SPECIFICATION Spec
SYMMETRY Symmetry
INVARIANTS ChainWellFormed CaseMatchesLedger ClosedHasReceipt DelegationHasDecision
PROPERTY ImplementsLedger
