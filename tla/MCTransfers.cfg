CONSTANTS
    Kind = "IFA"
    MaxAmount = 5
    Tx = {"fund", "payTx", "rivalTx", "joinTx", "sweepTx"}
    Buried = {"fund"}
    Faults = {}
    Op <- MCOp
    Genesis = "gen"
    Operation <- MCOperation
    BundleId <- MCBundleId
    InputMap <- MCInputMap
    Transaction <- MCTransaction
    WitnessTx = WitnessTx
    NoTx = NoTx
    NoBundle = NoBundle
    Containers <- TransferContainers
SPECIFICATION Spec
INVARIANTS
    TypeOK
    NoDoubleSpend
    GoodIsAccepted
    OnlyHistoryOmitted
    ReceivingKept
    MaterialClosed
PROPERTIES
    LedgerSpec
CHECK_DEADLOCK FALSE
