SPECIFICATION Spec
CONSTANTS
    session = session
    client = client
    Tasks = {session}
    TimedTasks = {session}
    Uses <- MCReads
    HangUps = {session}
    MaxFd = 1
    None = none
PROPERTY TimeoutReturns
CHECK_DEADLOCK FALSE
