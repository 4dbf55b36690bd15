CONSTANTS
    Kind = "IFA"
    MaxAmount = 5
    Tx = {"fund", "payTx", "joinTx", "bothTx", "burnTx"}
    Op <- MCOp
    Genesis = "gen"
    Operation <- MCOperation
    BundleId <- MCBundleId
    InputMap <- MCInputMap
    Transaction <- MCTransaction
    WitnessTx = WitnessTx
    NoTx = NoTx
    NoBundle = NoBundle
    Slot = {"old", "new"}
    Received <- MCReceived
    Witnesses <- MCWitnesses
    Seals <- MCSeals
    MaxBundles = 3
SPECIFICATION Spec
INVARIANTS
    TypeOK
    MarkedIsGood
PROPERTIES
    MergeIsUnion
    MergeKeepsGood
    RefusedForAReason
