------------------------------ MODULE LFQueue ------------------------------
(***************************************************************************)
(* base/LFQueue.h at the level of its pointers: every atomic operation on  *)
(* head_ or tail_ and every access to a next_ that other threads may race  *)
(* with is one step.  The memory is sequentially consistent: exchange and  *)
(* compare_exchange are full barriers on the x86-64 target, and the only   *)
(* plain shared accesses (next_) are separated by them.                    *)
(*                                                                         *)
(* Nodes are numbered in the order of their allocation; a node stands for  *)
(* the value it carries.  Freed nodes are never reallocated, so a write to *)
(* a freed node shows up as such instead of corrupting another node.       *)
(***************************************************************************)
EXTENDS Naturals, Sequences

CONSTANTS
    Queues,         \* the LFQueue objects
    Threads,        \* the threads that use them
    EnqueueUse,     \* <<thread, queue>>: who calls q.enqueue
    DequeueUse,     \* <<thread, queue>>: who calls q.dequeue
    ConcatUse,      \* <<thread, dst, src>>: who calls dst.concatenate(src)
    MaxNodes        \* bound on the number of enqueues

ASSUME LFQueueAssumption ==
    /\ EnqueueUse \subseteq Threads \X Queues
    /\ DequeueUse \subseteq Threads \X Queues
    /\ ConcatUse \subseteq Threads \X Queues \X Queues
    /\ MaxNodes \in Nat

Nil == 0
Nodes == 1..MaxNodes
Ref == Nodes \cup {Nil}

VARIABLES
    head,           \* head_ of every queue
    tail,           \* tail_ of every queue
    next,           \* next_ of every node
    heap,           \* "none" (not allocated yet), "live" or "freed"
    by,             \* the use (thread and queue) that enqueued the node
    pc,             \* the next step of every thread
    reg,            \* the operation's queue, second queue and local pointers
    delivered,      \* the nodes dequeue returned, in order
    dangling,       \* freed nodes whose next_ was written
    overtaken       \* some tail_ entry was dropped or cut off mid-enqueue

vars == <<head, tail, next, heap, by, pc, reg, delivered, dangling, overtaken>>

PCs == {"ready", "link", "setHead", "readNext", "cas", "checkNext",
        "resetTail", "resetEmpty", "free", "catTail", "catLink",
        "catSetHead", "catTakeTail", "catStoreTail"}
NoRegs == [q |-> CHOOSE q \in Queues : TRUE, src |-> CHOOSE q \in Queues : TRUE,
           node |-> Nil, old |-> Nil]
Regs == [q : Queues, src : Queues, node : Ref, old : Ref]

TypeOK ==
    /\ head \in [Queues -> Ref]
    /\ tail \in [Queues -> Ref]
    /\ next \in [Nodes -> Ref]
    /\ heap \in [Nodes -> {"none", "live", "freed"}]
    /\ by \in [Nodes -> EnqueueUse \cup {<<>>}]
    /\ pc \in [Threads -> PCs]
    /\ reg \in [Threads -> Regs]
    /\ delivered \in Seq(Nodes)
    /\ dangling \in SUBSET Nodes
    /\ overtaken \in BOOLEAN

Init ==
    /\ head = [q \in Queues |-> Nil]
    /\ tail = [q \in Queues |-> Nil]
    /\ next = [n \in Nodes |-> Nil]
    /\ heap = [n \in Nodes |-> "none"]
    /\ by = [n \in Nodes |-> <<>>]
    /\ pc = [t \in Threads |-> "ready"]
    /\ reg = [t \in Threads |-> NoRegs]
    /\ delivered = <<>>
    /\ dangling = {}
    /\ overtaken = FALSE

-----------------------------------------------------------------------------
Goto(t, l) == pc' = [pc EXCEPT ![t] = l]
At(t, l) == pc[t] = l

\* The operation returns; its local pointers are gone.
Return(t) == Goto(t, "ready") /\ reg' = [reg EXCEPT ![t] = NoRegs]

\* p->next_ = n, where p may already have been deleted by a dequeue.
WriteNext(p, n) ==
    /\ next' = [next EXCEPT ![p] = n]
    /\ dangling' = IF heap[p] = "freed" THEN dangling \cup {p} ELSE dangling

-----------------------------------------------------------------------------
(* enqueue(value)                                                          *)

\* Some dequeue has taken the node off its queue and not finished with it.
BeingRemoved(n) ==
    \E t \in Threads : reg[t].old = n /\ pc[t] \in {"checkNext", "resetTail", "free"}

\* new Node(value); old_tail = tail_.exchange(new_node)
EnqueueExchange(t, q) ==
    /\ At(t, "ready")
    /\ \E n \in Nodes :
        /\ heap[n] = "none"
        /\ \A m \in Nodes : m < n => heap[m] # "none"
        /\ heap' = [heap EXCEPT ![n] = "live"]
        /\ by' = [by EXCEPT ![n] = <<t, q>>]
        /\ tail' = [tail EXCEPT ![q] = n]
        /\ reg' = [reg EXCEPT ![t] = [NoRegs EXCEPT !.q = q, !.node = n,
                                                    !.old = tail[q]]]
    /\ Goto(t, IF tail[q] # Nil THEN "link" ELSE "setHead")
    /\ overtaken' = (overtaken \/ BeingRemoved(tail[q]))
    /\ UNCHANGED <<head, next, delivered, dangling>>

\* Mutant of EnqueueLink: the node goes to the front of the queue.
EnqueueLinkFront(t) ==
    /\ At(t, "link")
    /\ head' = [head EXCEPT ![reg[t].q] = reg[t].node]
    /\ next' = [next EXCEPT ![reg[t].node] = head[reg[t].q]]
    /\ Return(t)
    /\ UNCHANGED <<tail, heap, by, delivered, dangling, overtaken>>

\* old_tail->next_ = new_node
EnqueueLink(t) ==
    /\ At(t, "link")
    /\ WriteNext(reg[t].old, reg[t].node)
    /\ Return(t)
    /\ UNCHANGED <<head, tail, heap, by, delivered, overtaken>>

\* head_.store(new_node)
EnqueueSetHead(t) ==
    /\ At(t, "setHead")
    /\ head' = [head EXCEPT ![reg[t].q] = reg[t].node]
    /\ Return(t)
    /\ UNCHANGED <<tail, next, heap, by, delivered, dangling, overtaken>>

-----------------------------------------------------------------------------
(* dequeue(value)                                                          *)

\* old_head = head_.load()
DequeueLoad(t, q) ==
    /\ At(t, "ready")
    /\ reg' = [reg EXCEPT ![t] = [NoRegs EXCEPT !.q = q, !.old = head[q]]]
    /\ Goto(t, IF head[q] = Nil THEN "resetEmpty" ELSE "readNext")
    /\ UNCHANGED <<head, tail, next, heap, by, delivered, dangling, overtaken>>

\* old_head->next_, the value compare_exchange_weak is to store
DequeueReadNext(t) ==
    /\ At(t, "readNext")
    /\ reg' = [reg EXCEPT ![t].node = next[reg[t].old]]
    /\ Goto(t, "cas")
    /\ UNCHANGED <<head, tail, next, heap, by, delivered, dangling, overtaken>>

\* compare_exchange_weak(old_head, next): on failure old_head is reloaded.
\* overtaken records that the node cut off at the end of the chain has a
\* successor, linked meanwhile or still being linked by an enqueue.
DequeueCas(t) ==
    /\ At(t, "cas")
    /\ LET q == reg[t].q
           old == reg[t].old
           hit == head[q] = old
       IN  /\ head' = [head EXCEPT ![q] = IF hit THEN reg[t].node ELSE @]
           /\ reg' = [reg EXCEPT ![t].old = IF hit THEN @ ELSE head[q]]
           /\ Goto(t, CASE hit -> "checkNext"
                        [] ~hit /\ head[q] # Nil -> "readNext"
                        [] ~hit /\ head[q] = Nil -> "resetEmpty")
           /\ overtaken' = (overtaken \/ /\ hit /\ reg[t].node = Nil
                                         /\ tail[q] # old)
    /\ UNCHANGED <<tail, next, heap, by, delivered, dangling>>

\* if (!old_head->next_)
DequeueCheckNext(t) ==
    /\ At(t, "checkNext")
    /\ Goto(t, IF next[reg[t].old] = Nil THEN "resetTail" ELSE "free")
    /\ UNCHANGED <<head, tail, next, heap, by, reg, delivered, dangling, overtaken>>

\* tail_.exchange(nullptr), after the last node was taken or none was found
ResetTail(t) ==
    /\ tail' = [tail EXCEPT ![reg[t].q] = Nil]
    /\ overtaken' = (overtaken \/ tail[reg[t].q] \notin {Nil, reg[t].old})
    /\ UNCHANGED <<head, next, heap, by, delivered, dangling>>

DequeueResetTail(t) ==
    /\ At(t, "resetTail")
    /\ ResetTail(t)
    /\ Goto(t, "free")
    /\ UNCHANGED reg

DequeueEmpty(t) ==
    /\ At(t, "resetEmpty")
    /\ ResetTail(t)
    /\ Return(t)

\* delete old_head; return true
DequeueFree(t) ==
    /\ At(t, "free")
    /\ heap' = [heap EXCEPT ![reg[t].old] = "freed"]
    /\ delivered' = Append(delivered, reg[t].old)
    /\ Return(t)
    /\ UNCHANGED <<head, tail, next, by, dangling, overtaken>>

-----------------------------------------------------------------------------
(* dst.concatenate(src)                                                    *)

\* otherHead = other.head_.exchange(nullptr)
ConcatTakeHead(t, dst, src) ==
    /\ At(t, "ready")
    /\ head' = [head EXCEPT ![src] = Nil]
    /\ IF head[src] = Nil
       THEN UNCHANGED <<pc, reg>>
       ELSE /\ Goto(t, "catTail")
            /\ reg' = [reg EXCEPT ![t] = [q |-> dst, src |-> src,
                                          node |-> head[src], old |-> Nil]]
    /\ UNCHANGED <<tail, next, heap, by, delivered, dangling, overtaken>>

\* prevTail = tail_.exchange(otherHead)
ConcatTail(t) ==
    /\ At(t, "catTail")
    /\ tail' = [tail EXCEPT ![reg[t].q] = reg[t].node]
    /\ reg' = [reg EXCEPT ![t].old = tail[reg[t].q]]
    /\ Goto(t, IF tail[reg[t].q] # Nil THEN "catLink" ELSE "catSetHead")
    /\ UNCHANGED <<head, next, heap, by, delivered, dangling, overtaken>>

\* prevTail->next_ = otherHead
ConcatLink(t) ==
    /\ At(t, "catLink")
    /\ WriteNext(reg[t].old, reg[t].node)
    /\ Goto(t, "catTakeTail")
    /\ UNCHANGED <<head, tail, heap, by, reg, delivered, overtaken>>

\* head_.store(otherHead)
ConcatSetHead(t) ==
    /\ At(t, "catSetHead")
    /\ head' = [head EXCEPT ![reg[t].q] = reg[t].node]
    /\ Goto(t, "catTakeTail")
    /\ UNCHANGED <<tail, next, heap, by, reg, delivered, dangling, overtaken>>

\* other.tail_.exchange(nullptr) ...
ConcatTakeTail(t) ==
    /\ At(t, "catTakeTail")
    /\ reg' = [reg EXCEPT ![t].old = tail[reg[t].src]]
    /\ tail' = [tail EXCEPT ![reg[t].src] = Nil]
    /\ Goto(t, "catStoreTail")
    /\ UNCHANGED <<head, next, heap, by, delivered, dangling, overtaken>>

\* Mutant of ConcatStoreTail: tail_ keeps pointing at the first node.
ConcatKeepTail(t) ==
    /\ At(t, "catStoreTail")
    /\ Return(t)
    /\ UNCHANGED <<head, tail, next, heap, by, delivered, dangling, overtaken>>

\* ... tail_.store(..)
ConcatStoreTail(t) ==
    /\ At(t, "catStoreTail")
    /\ tail' = [tail EXCEPT ![reg[t].q] = reg[t].old]
    /\ Return(t)
    /\ UNCHANGED <<head, next, heap, by, delivered, dangling, overtaken>>

-----------------------------------------------------------------------------
Continue(t) ==
    \/ EnqueueLink(t) \/ EnqueueSetHead(t)
    \/ DequeueReadNext(t) \/ DequeueCas(t) \/ DequeueCheckNext(t)
    \/ DequeueResetTail(t) \/ DequeueEmpty(t) \/ DequeueFree(t)
    \/ ConcatTail(t) \/ ConcatLink(t) \/ ConcatSetHead(t)
    \/ ConcatTakeTail(t) \/ ConcatStoreTail(t)

Next ==
    \/ \E u \in EnqueueUse : EnqueueExchange(u[1], u[2])
    \/ \E u \in DequeueUse : DequeueLoad(u[1], u[2])
    \/ \E u \in ConcatUse : ConcatTakeHead(u[1], u[2], u[3])
    \/ \E t \in Threads : Continue(t)

Spec == Init /\ [][Next]_vars

-----------------------------------------------------------------------------
(* Properties.                                                             *)

\* The nodes reachable from p: those in every set that holds p and the next_
\* of each of its members.
Chain(p) ==
    {n \in Nodes : \A S \in SUBSET Nodes :
        /\ p \in S \cup {Nil}
        /\ \A m \in S : next[m] \in S \cup {Nil}
        => n \in S}

Quiescent == \A t \in Threads : pc[t] = "ready"
Queued == UNION {Chain(head[q]) : q \in Queues}
Live == {n \in Nodes : heap[n] = "live"}

\* dequeue returns the values one thread enqueued in the order of its calls,
\* and so none of them twice, whatever the interleaving, although the queues
\* may be concatenated and values may be lost in between.
ProducerOrder ==
    \A i, j \in 1..Len(delivered) :
        i < j /\ by[delivered[i]] = by[delivered[j]] => delivered[i] < delivered[j]

\* The only ways to lose a value: a dequeue takes the last linked node while
\* an enqueue is between its tail_ exchange and its link (or links just
\* before the CAS), an enqueue finds in tail_ the node a dequeue is removing,
\* or a dequeue resets tail_ under an enqueue.  As long as none of these has
\* happened, every value is still in a queue whenever all
\* calls have returned, and no freed node is written.
LossOnlyWhenOvertaken ==
    ~overtaken => dangling = {} /\ (Quiescent => Live \subseteq Queued)
=============================================================================
