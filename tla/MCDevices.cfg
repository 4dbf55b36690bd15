CONSTANTS
    Client = {"c1", "c2"}
    Key <- BothKeys
    Wallet = {"w", "w2"}
    StateId = {"s", "t", "0"}
    Zero = "0"
    MaxSeq = 2
    Value <- Head
    Mine = "w"
    Builds <- OwnStates
    Stray <- Foreign
    MaxServed = 3
SPECIFICATION DevicesSpec
INVARIANTS
    SelectedIsLatest
PROPERTIES
    KeepsContract
CONSTRAINT
    Apart
CHECK_DEADLOCK FALSE
