SPECIFICATION Spec
CONSTANTS
    session = session
    client = client
    Tasks = {session, client}
    TimedTasks = {session}
    Uses <- MCUses
    HangUps = {session}
    MaxFd = 2
    None = none
INVARIANTS
    PollerAssertions
    WokenOnce
PROPERTY ReadinessWakes
CHECK_DEADLOCK FALSE
