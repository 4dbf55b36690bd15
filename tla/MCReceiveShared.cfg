CONSTANTS
    Caller = {"c1", "c2"}
    Request = {"r1"}
    Serves <- Shared
    Object = {"x", "y"}
    None = "none"
    ScriptSize = {0}
    BlobMax = 4
    Overhead <- Room
SPECIFICATION Spec
PROPERTIES
    TerminalIsFinal
CHECK_DEADLOCK FALSE
