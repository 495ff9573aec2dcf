SPECIFICATION Spec
CONSTANTS
    Timers = {1, 2}
    Recurring = {2}
    Operated = {1}
    Periods = {1, 2}
    PollTime = 2
    Hour = 1
    MaxTime = 3
INVARIANTS
    OneShotConserved
    NoOversleep
PROPERTY DueTaken
CHECK_DEADLOCK FALSE
