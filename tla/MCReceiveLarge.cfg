CONSTANTS
    Caller = {"c1", "c2"}
    Request = {"r1"}
    Serves <- Shared
    Object = {"x", "y"}
    None = "none"
    ScriptSize = {0, 4}
    BlobMax = 4
    Overhead <- Room
SPECIFICATION Spec
INVARIANTS
    ShownIsRecoverable
CHECK_DEADLOCK FALSE
