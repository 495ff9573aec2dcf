------------------------------ MODULE TaskPool ------------------------------
(***************************************************************************)
(* What a processor promises its tasks: one task runs at a time; a task is *)
(* resumed once for its creation, once for each yield and once for each    *)
(* wake-up, and never otherwise; a wake-up that comes before the task has  *)
(* suspended itself counts.  It says nothing of queues, locks or parking.  *)
(***************************************************************************)
CONSTANTS
    Tasks,          \* the tasks that may be created
    NoTask          \* no task

VARIABLES
    created,        \* the tasks created so far
    running,        \* the task that runs, or NoTask
    ready,          \* the tasks that are to be resumed
    sleeping        \* the tasks with a wake-up to come

vars == <<created, running, ready, sleeping>>

Init ==
    /\ created = {}
    /\ running = NoTask
    /\ ready = {}
    /\ sleeping = {}

Create(t) ==
    /\ t \notin created
    /\ created' = created \cup {t}
    /\ ready' = ready \cup {t}
    /\ UNCHANGED <<running, sleeping>>

Resume(t) ==
    /\ running = NoTask
    /\ t \in ready
    /\ running' = t
    /\ ready' = ready \ {t}
    /\ UNCHANGED <<created, sleeping>>

\* The running task has asked for a wake-up, which may have come already.
Committed == running \in ready \cup sleeping

Yield ==
    /\ running # NoTask /\ ~Committed
    /\ ready' = ready \cup {running}
    /\ running' = NoTask
    /\ UNCHANGED <<created, sleeping>>

\* The running task asks for a wake-up; from here on it can only suspend.
Register ==
    /\ running # NoTask /\ ~Committed
    /\ sleeping' = sleeping \cup {running}
    /\ UNCHANGED <<created, running, ready>>

Suspend ==
    /\ running # NoTask /\ Committed
    /\ running' = NoTask
    /\ UNCHANGED <<created, ready, sleeping>>

Wake(t) ==
    /\ t \in sleeping
    /\ sleeping' = sleeping \ {t}
    /\ ready' = ready \cup {t}
    /\ UNCHANGED <<created, running>>

\* A task that ended is neither ready nor sleeping, and never runs again.
End ==
    /\ running # NoTask /\ ~Committed
    /\ running' = NoTask
    /\ UNCHANGED <<created, ready, sleeping>>

Next ==
    \/ \E t \in Tasks : Create(t) \/ Resume(t) \/ Wake(t)
    \/ Yield \/ Register \/ Suspend \/ End

Spec == Init /\ [][Next]_vars
=============================================================================
