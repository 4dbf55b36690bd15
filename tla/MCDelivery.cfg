CONSTANTS
    Caller = {"alice", "bob"}
    Request = {"r1", "r2"}
    Serves <- OneEach
    Object = {"x", "y"}
    None = "none"
    ScriptSize = {2}
    BlobMax = 4
    Overhead <- Room
    Blank = ""
    TemporaryKey = {"ack1", "ack2"}
    Sender = "sender"
    Sent = "x"
    Diligent = {"alice"}
    AckKey <- Answers
    Blob = {""}
    MaxTime = 1
SPECIFICATION FairSpec
INVARIANTS
    AnswersStand
    BroadcastIsAcknowledged
PROPERTIES
    Heard
CHECK_DEADLOCK FALSE
