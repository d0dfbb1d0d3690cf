SPECIFICATION Spec
CONSTANTS
    MaxTurns = 2
    MaxMsgs = 2
    MaxAuto = 0
    MaxQueueDepth = 1
    Calls = {"turn.start", "turn.steer", "queue.add", "queue.clear", "queue.resume", "session.close", "session.resume", "child.message", "child.report", "schedule"}
INVARIANTS
    TypeOK
    OneActiveTurn
    MessagesAreKeptOnce
    StoppedMessagesDoNotRun
PROPERTY
    KeepsThePromise
CHECK_DEADLOCK FALSE
