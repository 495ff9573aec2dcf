SPECIFICATION Spec
CONSTANTS
    new = new
    runable = runable
    p1 = p1
    p2 = p2
    proc = proc
    Queues = {new, runable}
    Threads = {p1, p2, proc}
    EnqueueUse <- ProcessorEnqueue
    DequeueUse <- ProcessorDequeue
    ConcatUse <- ProcessorConcat
    MaxNodes = 4
INVARIANTS
    ProducerOrder
    LossOnlyWhenOvertaken
CHECK_DEADLOCK FALSE
