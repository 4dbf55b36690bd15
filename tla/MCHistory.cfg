CONSTANTS
    Kind = "IFA"
    MaxAmount = 5
    Tx = {"fund", "payTx", "bothTx", "burnTx", "forgeTx"}
    Buried = {"fund", "payTx"}
    Faults = {}
    Op <- MCOp
    Genesis = "gen"
    Operation <- MCOperation
    BundleId <- MCBundleId
    InputMap <- MCInputMap
    Transaction <- MCTransaction
    WitnessTx = WitnessTx
    NoTx = NoTx
    NoBundle = NoBundle
    Containers <- HistoryContainers
SPECIFICATION FairSpec
INVARIANTS
    OnlyHistoryOmitted
PROPERTIES
    SupplySpec
    BuriedIsAccepted
CHECK_DEADLOCK FALSE
