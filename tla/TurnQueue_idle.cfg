SPECIFICATION FairSpec
CONSTANTS
    MaxTurns = 3
    MaxMsgs = 3
    MaxAuto = 0
    MaxQueueDepth = 2
    Calls = {"turn.start", "turn.steer", "queue.add"}
PROPERTIES
    QueuedMessagesRun
CHECK_DEADLOCK FALSE
