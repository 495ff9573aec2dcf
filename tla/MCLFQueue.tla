----------------------------- MODULE MCLFQueue -----------------------------
(***************************************************************************)
(* LFQueue as Processor uses it: any thread enqueues to the new queue; the *)
(* processor's thread enqueues to and dequeues from the runable queue and  *)
(* concatenates the new queue to it.                                       *)
(***************************************************************************)
EXTENDS LFQueue

CONSTANTS new, runable, p1, p2, proc

ProcessorEnqueue == {<<p1, new>>, <<p2, new>>, <<proc, new>>, <<proc, runable>>}
ProcessorDequeue == {<<proc, runable>>}
ProcessorConcat == {<<proc, runable, new>>}
=============================================================================
