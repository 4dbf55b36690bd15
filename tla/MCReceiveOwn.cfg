CONSTANTS
    Caller = {"c1", "c2"}
    Request = {"r1", "r2", "r3"}
    Serves <- Own
    Object = {"x", "y"}
    None = "none"
    ScriptSize = {0, 2}
    BlobMax = 4
    Overhead <- Room
SPECIFICATION Spec
INVARIANTS
    TypeOK
    ShownIsRecoverable
    DecisionKept
PROPERTIES
    TerminalIsFinal
CHECK_DEADLOCK FALSE
