CONSTANTS
    c1 = c1
    c2 = c2
    c3 = c3
    None = None
    Case <- Cases
    asked <- Asked
    Batch = 1
    MaxTime = 3
    MaxFaults = 2
    MaxAppeals = 1
SPECIFICATION Spec
PROPERTIES CloseSparesDecided ExpiredIsSettled
