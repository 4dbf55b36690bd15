CONSTANTS
    Kind = "IFA"
    MaxAmount = 5
    Tx = {"fund", "payTx", "joinTx"}
    Buried = {"fund"}
    Faults = {}
    Op <- MCOp
    Genesis = "gen"
    Operation <- MCOperation
    BundleId <- MCBundleId
    InputMap <- MCInputMap
    Transaction <- MCTransaction
    WitnessTx = WitnessTx
    NoTx = NoTx
    NoBundle = NoBundle
    Containers <- TxidContainers
SPECIFICATION Spec
INVARIANTS
    PreparedRefusesTxid
CHECK_DEADLOCK FALSE
