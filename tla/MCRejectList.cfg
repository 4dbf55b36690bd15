CONSTANTS
    Kind = "NIA"
    MaxAmount = 5
    Tx = {"fund", "split", "left", "right", "join"}
    Op = {"gen", "split", "left", "right", "join"}
    BundleId = {"split", "left", "right", "join"}
    Genesis = "gen"
    Operation <- MCOperation
    InputMap <- MCInputMap
    Transaction <- MCTransaction
    WitnessTx = WitnessTx
    NoTx = NoTx
    NoBundle = NoBundle
    NoOpout = NoOpout
    Disclosures <- MCDisclosures
    Responses <- MCResponses
SPECIFICATION Spec
INVARIANTS
    TypeOK
    NamesARejection
    MissesNoRejection
