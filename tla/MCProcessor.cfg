SPECIFICATION Spec
CONSTANTS
    Tasks = {t1, t2, t3}
    Threads = {h1, h2}
    Self = self
    NoTask = noTask
    GarbageLimit = 1
INVARIANTS
    NoLostWakeup
    OneClaimPerTask
PROPERTIES
    RunsTaskPool
    QueuedTaskRuns
CHECK_DEADLOCK FALSE
