\* stop() waits for m_mutex, which start() holds while it runs.
SPECIFICATION Spec
CONSTANTS
    Main = main
    Slaves = {q1, q2}
    Tasks = {t1, t2}
    Starters = {s1}
    OwnThread = s1
    Clients = {c1}
    StopTasks = {main}
    NumThreads = 2
    Garbage = {FALSE}
    None = none
PROPERTY StopReturns
CHECK_DEADLOCK FALSE
