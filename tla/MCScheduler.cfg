SPECIFICATION Spec
CONSTANTS
    Main = main
    Slaves = {q1, q2}
    Tasks = {t1, t2}
    Starters = {s1, s2}
    OwnThread = s1
    Clients = {c1}
    StopTasks = {}
    NumThreads = 2
    Garbage = {TRUE, FALSE}
    None = none
INVARIANTS
    OneMainRun
    PoolComplete
PROPERTY TaskRuns
CHECK_DEADLOCK FALSE
