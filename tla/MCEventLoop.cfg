SPECIFICATION Spec
CONSTANTS
    Threads = {h1, h2, h3}
    MaxTasks = 4
INVARIANTS
    MissedWakeupRecorded
PROPERTY PendingTaken
CHECK_DEADLOCK FALSE
