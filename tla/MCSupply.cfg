CONSTANTS
    Kind = "IFA"
    MaxAmount = 4
    GraphSeal = {1, 2, 3, 4}
    Explicit = {1, 2, 4}
    Conceal <- MCConceal
    MaxItems = 3
    Specs <- MCSpecs
    OutputLists <- MCOutputLists
    Signature = {"none", "short"}
    Contract = 5
    OtherProtocol = 2
    Cofactors = {0, 1, 3, 5, 7}
    MaxDepth = 2
    Word = 8
SPECIFICATION LifeSpec
INVARIANTS
    TypeOK
    SupplyConserved
    IssuedIsValid
    BuiltIsAccepted
    OneMessagePerProtocol
PROPERTIES
    PromiseSpec
    IdSurvives
CHECK_DEADLOCK FALSE
