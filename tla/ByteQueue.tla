------------------------------ MODULE ByteQueue ------------------------------
(***************************************************************************)
(* What a ByteArray promises its user: a first-in first-out queue of       *)
(* bytes.  It says nothing of nodes, positions or capacity.  The one thing *)
(* besides queueing that it allows is Fail: the program dies, and no wrong *)
(* byte was ever handed out before that.                                   *)
(***************************************************************************)
EXTENDS Naturals, Sequences

VARIABLES
  q,          \* the bytes written and not yet read
  moved,      \* the bytes that the last operation took or gave
  failed      \* the process was killed by a null pointer

queueVars == <<q, moved, failed>>

QueueInit == q = <<>> /\ moved = <<>> /\ ~failed

\* Bytes go in at the end.
Put == q' = q \o moved' /\ UNCHANGED failed

\* Bytes come out at the front.
Take == q = moved' \o q' /\ UNCHANGED failed

Empty == q' = <<>> /\ moved' = <<>> /\ UNCHANGED failed

Fail == failed' = TRUE /\ UNCHANGED <<q, moved>>

QueueNext == ~failed /\ (Put \/ Take \/ Empty \/ Fail)

QueueSpec == QueueInit /\ [][QueueNext]_queueVars
==============================================================================
