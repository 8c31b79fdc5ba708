CONSTANTS
    d1 = d1
    d2 = d2
    s1 = s1
    s2 = s2
    None = None
    Account <- Accounts
    Outpoint <- Outpoints
    Job <- Jobs
    txo <- Txo
    payee <- Payee
    value <- Value
    OldDeposit <- OldDeposits
    before <- Before
    opening <- Opening
    Cost = 1
    Estimate = {1}
    Actual = {1, 2}
    Depositor = {d1, d2}
    Sweeper = {s1, s2}
SPECIFICATION Spec
SYMMETRY Symmetry
INVARIANTS TypeOK CreditHasEvidence HoldReturned Conserved
PROPERTY JobsEndOnce
