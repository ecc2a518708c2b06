CONSTANTS
    Chats = {p1}
    Channels = {}
    DedupCap = 2
    BatchSize = 2
    BusCap = 2
    MaxId = 1
    MaxEdits = 0
    MaxDeletes = 1
    MaxChanges = 1
    MaxLost = 0
    MaxPolls = 0
    MaxLoads = 1
SPECIFICATION Spec
CHECK_DEADLOCK FALSE
INVARIANT NothingStale
