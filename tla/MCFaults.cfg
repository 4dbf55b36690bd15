CONSTANTS
    Kind = "IFA"
    MaxAmount = 5
    Tx = {"fund", "payTx", "joinTx", "rivalTx", "strayTx", "looseTx"}
    Buried = {"fund"}
    Faults = {"error", "noRaw", "badRaw", "noSpender"}
    Op <- MCOp
    Genesis = "gen"
    Operation <- MCOperation
    BundleId <- MCBundleId
    InputMap <- MCInputMap
    Transaction <- MCTransaction
    WitnessTx = WitnessTx
    NoTx = NoTx
    NoBundle = NoBundle
    Containers <- FaultContainers
SPECIFICATION Spec
INVARIANTS
    SealsClosed
    AcceptedIsGood
    WitnessesAgree
    ProjectionIsCurrent
    PreparedStillPossible
PROPERTIES
    OnlyChainEvidenceMarks
CHECK_DEADLOCK FALSE
