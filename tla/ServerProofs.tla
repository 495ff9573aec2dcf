---------------------------- MODULE ServerProofs ----------------------------
(***************************************************************************)
(* Proofs about module Server, for any number of listening sockets,        *)
(* clients and descriptors.                                                *)
(***************************************************************************)
EXTENDS Server, FiniteSetTheorems, WellFoundedInduction, TLAPS

USE ServerAssumption

(* The inductive invariant.  Every kind of descriptor is tied to the one   *)
(* Socket that will close it, in both directions: the properties only need *)
(* one of them, but each step relies on the other.                         *)

\* Listening Sockets and their descriptors.
ListenInv ==
  /\ \A f \in Fds : fds[f].use = "listen"
        => fds[f].of \in Listeners /\ m_fd[fds[f].of] = f
  /\ \A i \in Listeners : m_fd[i] # NoFd
        => m_fd[i] \in Fds /\ fds[m_fd[i]].use = "listen" /\ fds[m_fd[i]].of = i
  /\ \A i \in m_socket_vec : m_fd[i] # NoFd
  /\ \A i \in Listeners : i > bound => m_fd[i] = NoFd

\* The Sockets that accept tasks made for a client that has not come yet.
NewInv ==
  /\ \A f \in Fds : fds[f].use = "new"
        => /\ fds[f].of \in Listeners /\ call[fds[f].of].new = f
           /\ pc[fds[f].of] \in {"wait", "woken"}
  /\ \A i \in Listeners : pc[i] \in {"wait", "woken"}
        => /\ call[i].new \in Fds
           /\ fds[call[i].new].use = "new" /\ fds[call[i].new].of = i

\* The Sockets of the handlers.
ConnInv ==
  /\ \A f \in Fds : fds[f].use = "conn"
        => \E c \in Clients : client[c].st = "handled" /\ client[c].fd = f
  /\ \A c \in Clients : client[c].st = "handled"
        => /\ client[c].fd \in Fds
           /\ fds[client[c].fd].use = "conn" /\ fds[client[c].fd].rcv
  /\ \A c \in Clients : client[c].st # "handled" => client[c].fd = NoFd
  /\ \A c, d \in Clients :
        client[c].st = "handled" /\ client[c].fd = client[d].fd => c = d

\* The record of a closed descriptor is Free.
FreeInv == \A f \in Fds : fds[f].use = "free" => fds[f] = Free

\* A connection is in one backlog, once, and nobody has dealt with it yet.
BacklogInv ==
  /\ \A i \in Listeners : \A k \in 1..Len(backlog[i]) :
        client[backlog[i][k]].st = "backlog" /\ client[backlog[i][k]].of = i
  /\ \A i \in Listeners : \A k, m \in 1..Len(backlog[i]) :
        backlog[i][k] = backlog[i][m] => k = m
  /\ \A c \in Clients : client[c].st \in {"away", "backlog", "reset"}
        => client[c].by = 0 /\ asked[c] = "block"

Accepts == {c \in Clients : client[c].st \in {"handled", "done"}}
LeakInv == Cardinality(Open("leaked")) = Cardinality(Accepts)

\* A task that waits uses the descriptor of its own Socket, and so does its
\* channel, until that Socket is closed for good.
ChannelInv ==
  /\ \A i \in Listeners : pc[i] \in {"wait", "woken"}
        => call[i].s \in Fds /\ m_fd[i] \in {NoFd, call[i].s}
  /\ \A f \in Fds : channelMap[f] # Nobody
        => channelMap[f] <= bound /\ m_fd[channelMap[f]] \in {NoFd, f}
  /\ \A i \in Listeners : i > bound => pc[i] = "none"

\* A task that took a connection of another one's socket has no socket left,
\* and is about to see that.
StealInv ==
  \A i \in Listeners, c \in Clients : client[c].by = i /\ client[c].of # i
    => /\ i <= bound /\ m_fd[i] = NoFd /\ pc[i] \in {"loop", "done"}
       /\ \A d \in Clients : client[d].by = i /\ client[d].of # i => d = c

\* start() gives a task to Sockets that have had none: stop() drops the others.
FreshInv == ~m_started => \A i \in m_socket_vec : pc[i] = "none"

Inv == /\ TypeOK /\ ListenInv /\ NewInv /\ ConnInv /\ FreeInv /\ BacklogInv
       /\ ChannelInv /\ FreshInv

-----------------------------------------------------------------------------
(* The kernel's choice of a descriptor                                     *)

\* A set of natural numbers has a least element.
LEMMA MinMember ==
    ASSUME NEW S, S \subseteq Nat, S # {}
    PROVE  Min(S) \in S
<1> DEFINE R == {ss \in Nat \X Nat : ss[1] < ss[2]}
<1>1. IsWellFoundedOn(R, Nat)
  BY NatLessThanWellFounded, Zenon DEF OpToRel
<1>2. \E x \in S : \A y \in S : ~(<<y, x>> \in R)
  <2> HIDE DEF R
  <2> QED  BY <1>1, WFMin
<1>3. \E x \in S : \A y \in S : x <= y
  <2>1. PICK x \in S : \A y \in S : ~(<<y, x>> \in R)
    BY <1>2
  <2>2. ASSUME NEW y \in S  PROVE x <= y
    <3>1. x \in Nat /\ y \in Nat
      OBVIOUS
    <3>2. ~(y < x)
      BY <2>1, <3>1
    <3> QED  BY <3>1, <3>2
  <2> QED  BY <2>2
<1> QED  BY <1>3 DEF Min

LEMMA LowestFree ==
    ASSUME NEW t
    PROVE  /\ Lowest(t) = NoFd <=> FreeFds(t) = {}
           /\ Lowest(t) # NoFd => Lowest(t) \in Fds /\ t[Lowest(t)] = Free
<1>1. FreeFds(t) # {} => Min(FreeFds(t)) \in FreeFds(t)
  <2>1. FreeFds(t) \subseteq Nat
    BY DEF FreeFds, Fds
  <2> QED  BY <2>1, MinMember
<1>2. NoFd \notin Fds
  BY DEF NoFd, Fds
<1> QED  BY <1>1, <1>2 DEF Lowest, FreeFds

\* The descriptor of a client's Socket, once setRecvTimeout was called.
ConnFd == [Created("conn", 0) EXCEPT !.rcv = TRUE]

LEMMA FdTypes ==
    /\ Free \in FdStates /\ Free.use = "free"
    /\ ConnFd \in FdStates /\ ConnFd.use = "conn" /\ ConnFd.of = 0 /\ ConnFd.rcv
    /\ ConnFd.nonblock /\ ~ConnFd.user
    /\ \A use \in {"listen", "new"}, of \in 0..MaxListeners :
          /\ Created(use, of) \in FdStates
          /\ Created(use, of).use = use /\ Created(use, of).of = of
<1>1. Free \in FdStates /\ Free.use = "free"
  BY DEF FdStates, Free
<1>2. /\ ConnFd \in FdStates /\ ConnFd.use = "conn" /\ ConnFd.of = 0
      /\ ConnFd.rcv = TRUE /\ ConnFd.nonblock = TRUE /\ ConnFd.user = FALSE
  <2> DEFINE r == Created("conn", 0)
  <2>1. r \in FdStates /\ r.use = "conn" /\ r.of = 0 /\ r.nonblock = TRUE /\ r.user = FALSE
    BY DEF FdStates, Created
  <2>2. ConnFd = [r EXCEPT !.rcv = TRUE]
    BY DEF ConnFd
  <2> HIDE DEF r
  <2> QED  BY <2>1, <2>2 DEF FdStates
<1>3. ConnFd.rcv /\ ConnFd.nonblock /\ ~ConnFd.user
  BY <1>2
<1>4. ASSUME NEW use \in {"listen", "new"}, NEW of \in 0..MaxListeners
      PROVE  /\ Created(use, of) \in FdStates
             /\ Created(use, of).use = use /\ Created(use, of).of = of
  BY DEF FdStates, Created
<1> QED  BY <1>1, <1>2, <1>3, <1>4

-----------------------------------------------------------------------------
(* What the operations do, cell by cell                                    *)

LEMMA BindEffect ==
    ASSUME Inv, bind
    PROVE  \E a \in Fds :
             /\ bound + 1 \in Listeners /\ bound' = bound + 1
             /\ fds[a] = Free
             /\ fds' \in [Fds -> FdStates]
             /\ fds'[a].use = "listen" /\ fds'[a].of = bound + 1
             /\ \A f \in Fds \ {a} : fds'[f] = fds[f]
             /\ m_fd' \in [Listeners -> 0..MaxFd] /\ m_fd'[bound + 1] = a
             /\ \A i \in Listeners \ {bound + 1} : m_fd'[i] = m_fd[i]
             /\ m_socket_vec' = m_socket_vec \cup {bound + 1}
             /\ UNCHANGED <<channelMap, m_started, pc, call, cur, backlog, client,
                            asked, crashed>>
<1> DEFINE a == Lowest(fds)
<1>1. a \in Fds /\ fds[a] = Free
  BY LowestFree DEF bind
<1>2. bound + 1 \in Listeners /\ bound + 1 \in 0..MaxListeners
  BY DEF bind, Inv, TypeOK, Listeners
<1>3. /\ fds' = [fds EXCEPT ![a] = Created("listen", bound + 1)]
      /\ m_fd' = [m_fd EXCEPT ![bound + 1] = a]
      /\ m_socket_vec' = m_socket_vec \cup {bound + 1}
      /\ bound' = bound + 1
      /\ UNCHANGED <<channelMap, m_started, pc, call, cur, backlog, client,
                     asked, crashed>>
  BY DEF bind, taskVars
<1>4. fds \in [Fds -> FdStates] /\ m_fd \in [Listeners -> 0..MaxFd] /\ a \in 0..MaxFd
  BY <1>1 DEF Inv, TypeOK, Fds
<1> HIDE DEF a
<1>5. /\ fds' \in [Fds -> FdStates]
      /\ fds'[a].use = "listen" /\ fds'[a].of = bound + 1
      /\ \A f \in Fds \ {a} : fds'[f] = fds[f]
  BY <1>1, <1>2, <1>3, <1>4, FdTypes
<1>6. /\ m_fd' \in [Listeners -> 0..MaxFd] /\ m_fd'[bound + 1] = a
      /\ \A i \in Listeners \ {bound + 1} : m_fd'[i] = m_fd[i]
  BY <1>2, <1>3, <1>4
<1> QED  BY <1>1, <1>2, <1>3, <1>5, <1>6

\* The Sockets in S are closed: by stop(), by a bind() that fails, or by an
\* accept task that finds m_started unset and ends.
Closing(S) ==
  /\ S \subseteq Listeners
  /\ CloseListeners(S)
  /\ m_socket_vec' \subseteq m_socket_vec \ S
  /\ bound' \in {bound, bound + 1} \cap Nat /\ bound' <= MaxListeners
  /\ m_started' \in BOOLEAN
  /\ m_started' = m_started \/ m_socket_vec' = {}
  /\ pc' \in [Listeners -> {"none", "loop", "wait", "woken", "done"}]
  /\ \A i \in Listeners : pc'[i] = pc[i] \/ (pc[i] = "loop" /\ pc'[i] = "done")
  /\ cur' \in 0..MaxListeners
  /\ UNCHANGED <<call, asked, crashed>>

LEMMA CloseEffect ==
    ASSUME Inv, NEW S, Closing(S)
    PROVE  /\ fds' \in [Fds -> FdStates]
           /\ \A f \in Fds : fds[f].use = "listen" /\ fds[f].of \in S => fds'[f] = Free
           /\ \A f \in Fds : fds[f].use # "listen" \/ fds[f].of \notin S
                => fds'[f] = fds[f]
           /\ channelMap' \in [Fds -> 0..MaxListeners]
           /\ \A f \in Fds : channelMap'[f] \in {channelMap[f], Nobody}
           /\ \A f \in Fds : fds[f].use = "listen" /\ fds[f].of \in S
                              /\ channelMap[f] = fds[f].of => channelMap'[f] = Nobody
           /\ m_fd' \in [Listeners -> 0..MaxFd]
           /\ \A i \in S : m_fd'[i] = NoFd
           /\ \A i \in Listeners \ S : m_fd'[i] = m_fd[i]
           /\ backlog' \in [Listeners -> Seq(Clients)]
           /\ \A i \in S : backlog'[i] = <<>>
           /\ \A i \in Listeners \ S : backlog'[i] = backlog[i]
           /\ client' \in [Clients -> ClientStates]
           /\ \A c \in Clients :
                /\ client'[c] = client[c]
                   \/ /\ client[c].st = "backlog" /\ client[c].of \in S
                      /\ client'[c].st = "reset"
                /\ client'[c].fd = client[c].fd /\ client'[c].of = client[c].of
                /\ client'[c].by = client[c].by
<1> USE DEF Inv, TypeOK, Closing, CloseListeners
<1>1. /\ fds' \in [Fds -> FdStates]
      /\ \A f \in Fds : fds[f].use = "listen" /\ fds[f].of \in S => fds'[f] = Free
      /\ \A f \in Fds : fds[f].use # "listen" \/ fds[f].of \notin S => fds'[f] = fds[f]
  BY FdTypes
<1>2. /\ channelMap' \in [Fds -> 0..MaxListeners]
      /\ \A f \in Fds : channelMap'[f] \in {channelMap[f], Nobody}
      /\ \A f \in Fds : fds[f].use = "listen" /\ fds[f].of \in S
                         /\ channelMap[f] = fds[f].of => channelMap'[f] = Nobody
  BY DEF Nobody
<1>3. /\ m_fd' \in [Listeners -> 0..MaxFd]
      /\ \A i \in S : m_fd'[i] = NoFd
      /\ \A i \in Listeners \ S : m_fd'[i] = m_fd[i]
  BY DEF NoFd
<1>4. /\ backlog' \in [Listeners -> Seq(Clients)]
      /\ \A i \in S : backlog'[i] = <<>>
      /\ \A i \in Listeners \ S : backlog'[i] = backlog[i]
  OBVIOUS
<1>5. /\ client' \in [Clients -> ClientStates]
      /\ \A c \in Clients :
           /\ client'[c] = client[c]
              \/ /\ client[c].st = "backlog" /\ client[c].of \in S
                 /\ client'[c].st = "reset"
           /\ client'[c].fd = client[c].fd /\ client'[c].of = client[c].of
           /\ client'[c].by = client[c].by
  <2>1. client \in [Clients -> ClientStates]
    OBVIOUS
  <2>2. client' = [c \in Clients |->
                     IF client[c].st = "backlog" /\ client[c].of \in S
                     THEN [client[c] EXCEPT !.st = "reset"] ELSE client[c]]
    BY Zenon
  <2> HIDE DEF Inv, TypeOK, Closing, CloseListeners
  <2>3. ASSUME NEW c \in Clients
        PROVE  /\ client'[c] \in ClientStates
               /\ client'[c] = client[c]
                  \/ /\ client[c].st = "backlog" /\ client[c].of \in S
                     /\ client'[c].st = "reset"
               /\ client'[c].fd = client[c].fd /\ client'[c].of = client[c].of
               /\ client'[c].by = client[c].by
    <3>1. client[c] \in ClientStates
      BY <2>1
    <3>2. CASE client[c].st = "backlog" /\ client[c].of \in S
      <4>1. client'[c] = [client[c] EXCEPT !.st = "reset"]
        BY <2>2, <3>2
      <4> QED  BY <3>1, <3>2, <4>1 DEF ClientStates
    <3>3. CASE ~(client[c].st = "backlog" /\ client[c].of \in S)
      <4>1. client'[c] = client[c]
        BY <2>2, <3>3
      <4> QED  BY <3>1, <4>1
    <3> QED  BY <3>2, <3>3
  <2>4. client' \in [Clients -> ClientStates]
    BY <2>2, <2>3
  <2> QED  BY <2>3, <2>4
<1> QED  BY <1>1, <1>2, <1>3, <1>4, <1>5

\* accept_f(s) is called by task i on a listening socket s, with `new' the
\* descriptor of the Socket made for the client and t the descriptors.
Ready(i, t, s, new) ==
  /\ new \in Fds /\ s \in Fds
  /\ t \in [Fds -> FdStates]
  /\ \A f \in Fds \ {new} : t[f] = fds[f]
  /\ t[new].use = "new" /\ t[new].of = i
  /\ \/ pc[i] = "loop" /\ fds[new] = Free
     \/ pc[i] = "woken" /\ call[i].new = new /\ fds[new].use = "new"
  /\ t[s].use = "listen" /\ m_fd[i] \in {NoFd, s}
  /\ m_fd[i] = NoFd => pc[i] = "woken"

\* A connection c of the listening socket s, of Socket `of', becomes a client
\* of task i; its Socket has descriptor b, and `new' is nobody's any more.
TakenBy(i, s, new, b, of, c) ==
  /\ new \in Fds /\ b \in Fds \ {new} /\ of \in Listeners /\ c \in Clients
  /\ fds[b] = Free
  /\ fds' \in [Fds -> FdStates]
  /\ fds'[b] = ConnFd
  /\ fds'[new].use = "leaked"
  /\ \A f \in Fds \ {b, new} : fds'[f] = fds[f]
  /\ s = m_fd[of]
  /\ client[c].st = "backlog" /\ client[c].of = of
  /\ c = Head(backlog[of]) /\ backlog[of] # <<>>
  /\ client' \in [Clients -> ClientStates]
  /\ client'[c].st = "handled" /\ client'[c].fd = b
  /\ client'[c].of = of /\ client'[c].by = i
  /\ \A d \in Clients \ {c} : client'[d] = client[d]
  /\ backlog' = [backlog EXCEPT ![of] = Tail(@)]
  /\ pc' = [pc EXCEPT ![i] = "loop"]
  /\ cur' = i
  /\ UNCHANGED <<channelMap, bound, m_fd, m_socket_vec, m_started, call,
                 asked, crashed>>

LEMMA AcceptedEffect ==
    ASSUME Inv, NEW i \in Listeners, NEW t, NEW s, NEW new,
           Ready(i, t, s, new), Lowest(t) # NoFd, backlog[t[s].of] # <<>>,
           Accepted(i, t, s, new)
    PROVE  \E b, of, c : TakenBy(i, s, new, b, of, c)
<1> DEFINE of == t[s].of
           b == Lowest(t)
           c == Head(backlog[of])
<1>1. b \in Fds /\ t[b] = Free
  BY LowestFree
<1>2. b # new /\ fds[b] = Free
  BY <1>1, FdTypes DEF Ready
<1>3. s # new /\ t[s] = fds[s]
  BY DEF Ready
<1>4. of \in Listeners /\ s = m_fd[of]
  BY <1>3 DEF Ready, Inv, ListenInv
<1>5. c \in Clients /\ client[c].st = "backlog" /\ client[c].of = of
  <2>1. backlog[of] \in Seq(Clients) /\ backlog[of] # <<>>
    BY <1>4 DEF Inv, TypeOK
  <2>2. 1 \in 1..Len(backlog[of]) /\ c = backlog[of][1]
    BY <2>1
  <2> QED  BY <1>4, <2>1, <2>2 DEF Inv, BacklogInv
<1>6. /\ client' = [client EXCEPT ![c] = [st |-> "handled", fd |-> b, of |-> of, by |-> i]]
      /\ backlog' = [backlog EXCEPT ![of] = Tail(@)]
      /\ pc' = [pc EXCEPT ![i] = "loop"]
      /\ cur' = i
      /\ UNCHANGED <<channelMap, bound, m_fd, m_socket_vec, m_started, call,
                     asked, crashed>>
  BY DEF Accepted, serverVars
<1>7. /\ fds' \in [Fds -> FdStates]
      /\ fds'[b] = ConnFd
      /\ fds'[new].use = "leaked"
      /\ \A f \in Fds \ {b, new} : fds'[f] = fds[f]
  <2>2. fds' = [[t EXCEPT ![b] = ConnFd] EXCEPT ![new].use = "leaked"]
    BY DEF Accepted, ConnFd
  <2>3. t[new] \in FdStates
    BY DEF Ready
  <2>4. /\ [t[new] EXCEPT !.use = "leaked"] \in FdStates
        /\ [t[new] EXCEPT !.use = "leaked"].use = "leaked"
    BY <2>3 DEF FdStates
  <2> HIDE DEF b
  <2> QED  BY <1>1, <1>2, <2>2, <2>4, FdTypes DEF Ready
<1> HIDE DEF of, b, c
<1>9. /\ client' \in [Clients -> ClientStates]
      /\ client'[c].st = "handled" /\ client'[c].fd = b
      /\ client'[c].of = of /\ client'[c].by = i
      /\ \A d \in Clients \ {c} : client'[d] = client[d]
  <2>1. [st |-> "handled", fd |-> b, of |-> of, by |-> i] \in ClientStates
    BY <1>1, <1>4 DEF ClientStates, Fds, Listeners
  <2> QED  BY <1>5, <1>6, <2>1 DEF Inv, TypeOK
<1>10. c = Head(backlog[of]) /\ backlog[of] # <<>> /\ new \in Fds
  BY DEF c, of, Ready
<1> QED  BY <1>1, <1>2, <1>4, <1>5, <1>6, <1>7, <1>9, <1>10 DEF TakenBy

\* What a call of accept() comes to, apart from a crash.
Takes(i, t, s, new) ==
  /\ Ready(i, t, s, new) /\ Lowest(t) # NoFd
  /\ backlog[t[s].of] # <<>> /\ Accepted(i, t, s, new)
Waits(i, t, s, new) == Ready(i, t, s, new) /\ Held(i, t, s, new)

LEMMA RoundCases ==
    ASSUME Inv, NEW i \in Listeners, acceptRound(i)
    PROVE  \/ (\E S : Closing(S)) \/ Crash
           \/ \E t, s, new : Takes(i, t, s, new) \/ Waits(i, t, s, new)
<1> DEFINE a == Lowest(fds)
           t == IF a = NoFd THEN fds ELSE [fds EXCEPT ![a] = Created("new", i)]
           s == m_fd[i]
<1>1. CASE ~m_started
  <2>1. acceptEnds(i) /\ pc[i] = "loop"
    BY <1>1 DEF acceptRound
  <2> DEFINE S == {i} \ m_socket_vec
  <2>2. /\ CloseListeners(S)
        /\ pc' = [pc EXCEPT ![i] = "done"]
        /\ cur' = Nobody
        /\ UNCHANGED <<bound, m_socket_vec, m_started, call, asked, crashed>>
    BY <2>1 DEF acceptEnds
  <2>3. S \subseteq Listeners /\ m_socket_vec' \subseteq m_socket_vec \ S
    BY <2>2
  <2>4. bound' = bound /\ bound \in Nat /\ bound <= MaxListeners
    BY <2>2 DEF Inv, TypeOK
  <2>5. m_started' = m_started /\ m_started' \in BOOLEAN
    BY <2>2 DEF Inv, TypeOK
  <2>6. /\ pc' \in [Listeners -> {"none", "loop", "wait", "woken", "done"}]
        /\ \A j \in Listeners : pc'[j] = pc[j] \/ (pc[j] = "loop" /\ pc'[j] = "done")
    <3>1. pc \in [Listeners -> {"none", "loop", "wait", "woken", "done"}]
      BY DEF Inv, TypeOK
    <3>2. pc'[i] = "done" /\ \A j \in Listeners \ {i} : pc'[j] = pc[j]
      BY <2>2, <3>1
    <3>3. pc' \in [Listeners -> {"none", "loop", "wait", "woken", "done"}]
      BY <2>2, <3>1
    <3> QED  BY <2>1, <3>2, <3>3
  <2>7. cur' \in 0..MaxListeners
    BY <2>2 DEF Nobody
  <2> HIDE DEF S
  <2>8. Closing(S)
    BY <2>2, <2>3, <2>4, <2>5, <2>6, <2>7 DEF Closing
  <2> QED  BY <2>8
<1>2. CASE m_started
  <2>1. TryAccept(i, t, s, a) /\ pc[i] = "loop"
    BY <1>2 DEF acceptRound
  <2>2. CASE a = NoFd \/ s = NoFd
    BY <2>1, <2>2 DEF TryAccept
  <2>3. CASE a # NoFd /\ s # NoFd
    <3>1. a \in Fds /\ fds[a] = Free
      BY <2>3, LowestFree
    <3>2. s \in Fds /\ fds[s].use = "listen"
      BY <2>3 DEF Inv, ListenInv
    <3>3. t = [fds EXCEPT ![a] = Created("new", i)]
      BY <2>3
    <3>4. i \in 0..MaxListeners /\ fds \in [Fds -> FdStates]
      BY DEF Listeners, Inv, TypeOK
    <3> HIDE DEF a, t, s
    <3>5. Ready(i, t, s, a)
      <4>1. a # s
        BY <3>1, <3>2, FdTypes
      <4>2. /\ t \in [Fds -> FdStates]
            /\ \A f \in Fds \ {a} : t[f] = fds[f]
            /\ t[a].use = "new" /\ t[a].of = i
        BY <3>1, <3>3, <3>4, FdTypes
      <4> QED  BY <2>1, <2>3, <3>1, <3>2, <4>1, <4>2 DEF Ready, s
    <3> QED  BY <2>1, <2>3, <3>5 DEF TryAccept, Takes, Waits
  <2> QED  BY <2>2, <2>3
<1>3. m_started \in BOOLEAN
  BY DEF Inv, TypeOK
<1> QED  BY <1>1, <1>2

LEMMA AgainCases ==
    ASSUME Inv, NEW i \in Listeners, acceptAgain(i)
    PROVE  \/ Crash
           \/ \E t, s, new : Takes(i, t, s, new) \/ Waits(i, t, s, new)
<1> DEFINE s == call[i].s
           new == call[i].new
<1>1. TryAccept(i, fds, s, new) /\ pc[i] = "woken"
  BY DEF acceptAgain
<1>2. /\ s \in Fds /\ m_fd[i] \in {NoFd, s}
      /\ new \in Fds /\ fds[new].use = "new" /\ fds[new].of = i
  BY <1>1 DEF Inv, ChannelInv, NewInv
<1>3. fds \in [Fds -> FdStates]
  BY DEF Inv, TypeOK
<1>4. CASE fds[s].use # "listen" \/ Lowest(fds) = NoFd \/ s = NoFd
  BY <1>1, <1>4 DEF TryAccept
<1>5. CASE fds[s].use = "listen" /\ Lowest(fds) # NoFd /\ s # NoFd
  <2>1. Ready(i, fds, s, new)
    BY <1>1, <1>2, <1>3, <1>5 DEF Ready
  <2> HIDE DEF s, new
  <2> QED  BY <1>1, <1>5, <2>1 DEF TryAccept, Takes, Waits
<1> QED  BY <1>4, <1>5

LEMMA StopCloses == ASSUME Inv, stop  PROVE Closing(m_socket_vec)
<1>1. /\ bound \in Nat /\ bound <= MaxListeners /\ m_socket_vec \subseteq Listeners
      /\ pc \in [Listeners -> {"none", "loop", "wait", "woken", "done"}]
      /\ cur \in 0..MaxListeners
  BY DEF Inv, TypeOK, Listeners
<1>2. /\ CloseListeners(m_socket_vec) /\ m_socket_vec' = {} /\ bound' = bound
      /\ UNCHANGED <<pc, call, cur, asked, crashed>>
  BY DEF stop, taskVars
<1>3. m_started' \in BOOLEAN
  BY DEF stop
<1>4. bound' \in {bound, bound + 1} \cap Nat /\ bound' <= MaxListeners
  BY <1>1, <1>2
<1>5. m_socket_vec' \subseteq m_socket_vec \ m_socket_vec
  BY <1>2
<1>6. cur' \in 0..MaxListeners /\ pc' = pc
  BY <1>1, <1>2
<1>7. m_started' = m_started \/ m_socket_vec' = {}
  BY <1>2
<1> QED  BY <1>1, <1>2, <1>3, <1>4, <1>5, <1>6, <1>7, Zenon DEF Closing

\* Every step is one of these.
LEMMA StepCases ==
    ASSUME Inv, Next
    PROVE  \/ bind \/ start \/ (\E S : Closing(S)) \/ Crash
           \/ \E i \in Listeners : poll(i)
           \/ \E i \in Listeners : \E t, s, new : Takes(i, t, s, new) \/ Waits(i, t, s, new)
           \/ \E c \in Clients : connect(c) \/ handled(c)
           \/ \E c \in Clients, how \in Modes : setMode(c, how)
<1>0. /\ bound \in Nat /\ bound <= MaxListeners /\ m_started \in BOOLEAN
      /\ m_socket_vec \subseteq Listeners
      /\ pc \in [Listeners -> {"none", "loop", "wait", "woken", "done"}]
      /\ cur \in 0..MaxListeners
  BY DEF Inv, TypeOK, Listeners
<1>1. bindFails => \E S : Closing(S)
  <2> SUFFICES ASSUME bindFails  PROVE \E S : Closing(S)
    OBVIOUS
  <2> DEFINE S == {i \in m_socket_vec : pc[i] = "none"}
  <2>1. /\ CloseListeners(S) /\ m_socket_vec' = {} /\ bound' = bound + 1
        /\ bound < MaxListeners
        /\ UNCHANGED <<m_started, pc, call, cur, asked, crashed>>
    BY DEF bindFails, taskVars
  <2>2. S \subseteq Listeners
    BY <1>0
  <2> HIDE DEF S
  <2>3. Closing(S)
    <3>1. bound' \in {bound, bound + 1} \cap Nat /\ bound' <= MaxListeners
      BY <1>0, <2>1
    <3>2. m_started' \in BOOLEAN /\ m_socket_vec' \subseteq m_socket_vec \ S
      BY <1>0, <2>1
    <3>3. (m_started' = m_started \/ m_socket_vec' = {}) /\ pc' = pc
          /\ cur' \in 0..MaxListeners
      BY <1>0, <2>1
    <3> QED  BY <1>0, <2>1, <2>2, <3>1, <3>2, <3>3, Zenon DEF Closing
  <2> QED  BY <2>3
<1> QED  BY <1>1, StopCloses, RoundCases, AgainCases DEF Next

-----------------------------------------------------------------------------
(* The invariant is inductive                                              *)

LEMMA BindInv == ASSUME Inv, bind  PROVE Inv'
<1>1. PICK a \in Fds :
             /\ bound + 1 \in Listeners /\ bound' = bound + 1
             /\ fds[a] = Free
             /\ fds' \in [Fds -> FdStates]
             /\ fds'[a].use = "listen" /\ fds'[a].of = bound + 1
             /\ \A f \in Fds \ {a} : fds'[f] = fds[f]
             /\ m_fd' \in [Listeners -> 0..MaxFd] /\ m_fd'[bound + 1] = a
             /\ \A i \in Listeners \ {bound + 1} : m_fd'[i] = m_fd[i]
             /\ m_socket_vec' = m_socket_vec \cup {bound + 1}
             /\ UNCHANGED <<channelMap, m_started, pc, call, cur, backlog, client,
                            asked, crashed>>
  BY BindEffect
<1>2. fds[a].use = "free"
  BY <1>1, FdTypes
<1>3. bound \in Nat /\ bound + 1 \in 0..MaxListeners /\ m_socket_vec \subseteq 1..bound
  BY <1>1 DEF Inv, TypeOK, Listeners
<1>4. bound + 1 \notin m_socket_vec /\ m_socket_vec \subseteq Listeners
  BY <1>1, <1>3 DEF Listeners
<1>5. TypeOK'
  <2>1. m_socket_vec' \subseteq 1..bound'
    <3>1. m_socket_vec' = m_socket_vec \cup {bound + 1} /\ bound' = bound + 1
      BY <1>1
    <3>2. bound + 1 \in 1..(bound + 1) /\ 1..bound \subseteq 1..(bound + 1)
      BY <1>3
    <3> QED  BY <1>3, <3>1, <3>2
  <2>2. m_started' \in BOOLEAN /\ crashed' \in BOOLEAN
    BY <1>1 DEF Inv, TypeOK
  <2> QED  BY <1>1, <1>3, <2>1, <2>2 DEF Inv, TypeOK
<1>6. ListenInv'
  <2>1. NoFd \notin Fds
    BY DEF NoFd, Fds
  <2>2. m_fd[bound + 1] = NoFd
    BY <1>1, <1>3 DEF Inv, ListenInv
  <2>3. \A i \in Listeners : i > bound' => i > bound /\ i # bound + 1
    BY <1>1, <1>3 DEF Listeners
  <2>4. \A f \in Fds : fds'[f].use = "listen"
            => fds'[f].of \in Listeners /\ m_fd'[fds'[f].of] = f
    BY <1>1, <2>1, <2>2 DEF Inv, ListenInv
  <2>5. \A i \in Listeners : m_fd'[i] # NoFd
            => m_fd'[i] \in Fds /\ fds'[m_fd'[i]].use = "listen" /\ fds'[m_fd'[i]].of = i
    BY <1>1, <1>2 DEF Inv, ListenInv
  <2>6. \A i \in m_socket_vec' : m_fd'[i] # NoFd
    BY <1>1, <1>4, <2>1 DEF Inv, ListenInv
  <2>7. \A i \in Listeners : i > bound' => m_fd'[i] = NoFd
    BY <1>1, <2>3 DEF Inv, ListenInv
  <2> QED  BY <2>4, <2>5, <2>6, <2>7 DEF ListenInv
<1>7. NewInv'
  BY <1>1, <1>2 DEF Inv, NewInv
<1>8. ConnInv'
  BY <1>1, <1>2 DEF Inv, ConnInv
<1>9. FreeInv'
  BY <1>1 DEF Inv, FreeInv
<1>10. BacklogInv'
  BY <1>1 DEF Inv, BacklogInv
<1>11. ChannelInv'
  <2>1. \A i \in Listeners : pc[i] \in {"wait", "woken"} => i # bound + 1
    BY <1>3 DEF Inv, ChannelInv, Listeners
  <2>2. \A f \in Fds : channelMap[f] # Nobody
            => channelMap[f] \in Listeners /\ channelMap[f] # bound + 1
    <3>1. \A f \in Fds : channelMap[f] \in 0..MaxListeners
      BY DEF Inv, TypeOK
    <3>2. \A f \in Fds : channelMap[f] # Nobody => channelMap[f] <= bound
      BY DEF Inv, ChannelInv
    <3> QED  BY <1>3, <3>1, <3>2 DEF Nobody, Listeners
  <2>3. \A i \in Listeners : i > bound' => pc'[i] = "none"
    BY <1>1, <1>3 DEF Inv, ChannelInv, Listeners
  <2>4. \A f \in Fds : channelMap'[f] # Nobody
            => channelMap'[f] <= bound' /\ m_fd'[channelMap'[f]] \in {NoFd, f}
    <3> SUFFICES ASSUME NEW f \in Fds, channelMap[f] # Nobody
                 PROVE  channelMap[f] <= bound + 1 /\ m_fd'[channelMap[f]] \in {NoFd, f}
      BY <1>1
    <3>1. channelMap[f] <= bound /\ m_fd[channelMap[f]] \in {NoFd, f}
      BY DEF Inv, ChannelInv
    <3>2. channelMap[f] \in Nat
      BY DEF Inv, TypeOK
    <3> QED  BY <1>1, <1>3, <2>2, <3>1, <3>2
  <2> QED  BY <1>1, <2>1, <2>3, <2>4 DEF Inv, ChannelInv
<1>12. FreshInv'
  <2>1. pc[bound + 1] = "none"
    BY <1>1, <1>3 DEF Inv, ChannelInv
  <2> QED  BY <1>1, <2>1 DEF Inv, FreshInv
<1> QED  BY <1>5, <1>6, <1>7, <1>8, <1>9, <1>10, <1>11, <1>12 DEF Inv

LEMMA CloseInv == ASSUME Inv, NEW S, Closing(S)  PROVE Inv'
<1>1. bound \in Nat /\ bound' \in Nat /\ bound <= bound' /\ bound' \in 0..MaxListeners
  BY DEF Inv, TypeOK, Closing
<1>2. /\ m_socket_vec' \subseteq m_socket_vec \ S
      /\ \A i \in Listeners : pc'[i] = pc[i] \/ (pc[i] = "loop" /\ pc'[i] = "done")
      /\ UNCHANGED <<call, asked, crashed>>
  BY DEF Closing
<1>3. TypeOK'
  <2>1. m_started' \in BOOLEAN /\ crashed' \in BOOLEAN
    BY <1>2 DEF Inv, TypeOK, Closing
  <2>2. m_socket_vec' \subseteq 1..bound'
    BY <1>1, <1>2 DEF Inv, TypeOK
  <2>3. /\ pc' \in [Listeners -> {"none", "loop", "wait", "woken", "done"}]
        /\ cur' \in 0..MaxListeners
    BY DEF Closing
  <2> QED  BY <1>1, <1>2, <2>1, <2>2, <2>3, CloseEffect DEF Inv, TypeOK
<1>4. ListenInv'
  <2>1. \A f \in Fds : fds'[f].use = "listen" => fds'[f] = fds[f] /\ fds[f].of \notin S
    BY CloseEffect, FdTypes
  <2>2. \A i \in Listeners : m_fd'[i] # NoFd => i \notin S /\ m_fd'[i] = m_fd[i]
    BY CloseEffect
  <2>3. \A i \in Listeners \ S : m_fd'[i] = m_fd[i]
    BY CloseEffect
  <2>4. \A f \in Fds : fds'[f].use = "listen"
            => fds'[f].of \in Listeners /\ m_fd'[fds'[f].of] = f
    BY <2>1, <2>3 DEF Inv, ListenInv
  <2>5. \A i \in Listeners : m_fd'[i] # NoFd
            => m_fd'[i] \in Fds /\ fds'[m_fd'[i]].use = "listen" /\ fds'[m_fd'[i]].of = i
    <3>1. \A f \in Fds : fds[f].of \notin S => fds'[f] = fds[f]
      BY CloseEffect
    <3> QED  BY <2>2, <3>1 DEF Inv, ListenInv
  <2>6. \A i \in m_socket_vec' : m_fd'[i] # NoFd
    <3>1. m_socket_vec \subseteq Listeners
      BY DEF Inv, TypeOK, Listeners
    <3> QED  BY <1>2, <2>3, <3>1 DEF Inv, ListenInv
  <2>7. \A i \in Listeners : i > bound' => m_fd'[i] = NoFd
    <3>1. \A i \in Listeners : i > bound' => i > bound
      BY <1>1 DEF Listeners
    <3> QED  BY <2>2, <3>1 DEF Inv, ListenInv
  <2> QED  BY <2>4, <2>5, <2>6, <2>7 DEF ListenInv
<1>5. NewInv'
  <2>1. \A f \in Fds : /\ fds[f].use = "new" => fds'[f] = fds[f]
                       /\ fds'[f].use = "new" => fds'[f] = fds[f]
    BY CloseEffect, FdTypes
  <2>2. \A i \in Listeners : pc'[i] \in {"wait", "woken"} <=> pc[i] \in {"wait", "woken"}
    BY <1>2
  <2> QED  BY <1>2, <2>1, <2>2 DEF Inv, NewInv
<1>6. ConnInv'
  <2>1. \A c \in Clients : client'[c].st = "handled" <=> client[c].st = "handled"
    BY CloseEffect
  <2>2. \A f \in Fds : /\ fds[f].use = "conn" => fds'[f] = fds[f]
                       /\ fds'[f].use = "conn" => fds'[f] = fds[f]
    BY CloseEffect, FdTypes
  <2>3. \A c \in Clients : client'[c].fd = client[c].fd
    BY CloseEffect
  <2> QED  BY <2>1, <2>2, <2>3 DEF Inv, ConnInv
<1>7. FreeInv'
  <2>1. \A f \in Fds : fds'[f] = fds[f] \/ fds'[f] = Free
    BY CloseEffect
  <2> QED  BY <2>1 DEF Inv, FreeInv
<1>8. BacklogInv'
  <2>1. ASSUME NEW i \in Listeners, NEW k \in 1..Len(backlog'[i])
        PROVE  /\ i \notin S /\ backlog'[i] = backlog[i]
               /\ client'[backlog'[i][k]].st = "backlog"
               /\ client'[backlog'[i][k]].of = i
    <3>1. i \notin S /\ backlog'[i] = backlog[i]
      BY <2>1, CloseEffect
    <3>2. backlog[i] \in Seq(Clients)
      BY DEF Inv, TypeOK
    <3>3. backlog[i][k] \in Clients
      BY <3>1, <3>2
    <3>4. client[backlog[i][k]].st = "backlog" /\ client[backlog[i][k]].of = i
      BY <2>1, <3>1 DEF Inv, BacklogInv
    <3>5. client'[backlog[i][k]] = client[backlog[i][k]]
      BY <3>1, <3>3, <3>4, CloseEffect
    <3> QED  BY <3>1, <3>4, <3>5
  <2>2. \A c \in Clients : client'[c].st \in {"away", "backlog", "reset"}
            => client[c].st \in {"away", "backlog", "reset"}
    BY CloseEffect
  <2>3. \A c \in Clients : client'[c].by = client[c].by /\ asked'[c] = asked[c]
    BY <1>2, CloseEffect
  <2>4. \A c \in Clients : client'[c].st \in {"away", "backlog", "reset"}
            => client'[c].by = 0 /\ asked'[c] = "block"
    BY <2>2, <2>3 DEF Inv, BacklogInv
  <2>5. \A i \in Listeners : \A k, m \in 1..Len(backlog'[i]) :
            backlog'[i][k] = backlog'[i][m] => k = m
    BY <2>1 DEF Inv, BacklogInv
  <2> QED  BY <2>1, <2>4, <2>5 DEF BacklogInv
<1>9. ChannelInv'
  <2>1. \A i \in Listeners : m_fd'[i] \in {NoFd, m_fd[i]}
    BY CloseEffect
  <2>2. \A f \in Fds : channelMap'[f] # Nobody
            => channelMap'[f] = channelMap[f] /\ channelMap[f] \in Listeners
               /\ channelMap[f] <= bound
    <3>1. \A f \in Fds : channelMap'[f] \in {channelMap[f], Nobody}
      BY CloseEffect
    <3>2. \A f \in Fds : channelMap[f] \in 0..MaxListeners
      BY DEF Inv, TypeOK
    <3>3. \A f \in Fds : channelMap[f] # Nobody => channelMap[f] <= bound
      BY DEF Inv, ChannelInv
    <3> QED  BY <3>1, <3>2, <3>3 DEF Nobody, Listeners
  <2>3. \A i \in Listeners : pc'[i] \in {"wait", "woken"}
            => call'[i].s \in Fds /\ m_fd'[i] \in {NoFd, call'[i].s}
    BY <1>2, <2>1 DEF Inv, ChannelInv
  <2>4. \A f \in Fds : channelMap'[f] # Nobody
            => channelMap'[f] <= bound' /\ m_fd'[channelMap'[f]] \in {NoFd, f}
    <3> SUFFICES ASSUME NEW f \in Fds, channelMap'[f] # Nobody
                 PROVE  channelMap'[f] <= bound' /\ m_fd'[channelMap'[f]] \in {NoFd, f}
      OBVIOUS
    <3>1. channelMap'[f] = channelMap[f] /\ channelMap[f] \in Listeners
          /\ channelMap[f] <= bound
      BY <2>2
    <3>2. m_fd[channelMap[f]] \in {NoFd, f}
      BY <3>1 DEF Inv, ChannelInv
    <3>3. channelMap[f] <= bound'
      BY <1>1, <3>1 DEF Listeners
    <3> QED  BY <2>1, <3>1, <3>2, <3>3
  <2>5. \A i \in Listeners : i > bound' => pc'[i] = "none"
    <3>1. \A i \in Listeners : i > bound' => i > bound
      BY <1>1 DEF Listeners
    <3> QED  BY <1>2, <3>1 DEF Inv, ChannelInv
  <2> QED  BY <2>3, <2>4, <2>5 DEF ChannelInv
<1>10. FreshInv'
  <2>1. CASE m_socket_vec' = {}
    BY <2>1 DEF FreshInv
  <2>2. CASE m_started' = m_started
    <3>1. m_socket_vec' \subseteq m_socket_vec /\ m_socket_vec \subseteq Listeners
      BY <1>2 DEF Inv, TypeOK, Listeners
    <3> QED  BY <1>2, <2>2, <3>1 DEF Inv, FreshInv
  <2> QED  BY <2>1, <2>2 DEF Closing
<1> QED  BY <1>3, <1>4, <1>5, <1>6, <1>7, <1>8, <1>9, <1>10 DEF Inv

LEMMA TakeInv ==
    ASSUME Inv, NEW i \in Listeners, NEW t, NEW s, NEW new, Takes(i, t, s, new)
    PROVE  Inv'
<1>1. PICK b, of, c : TakenBy(i, s, new, b, of, c)
  BY AcceptedEffect DEF Takes
<1>2. fds[b].use = "free" /\ fds[new].use \in {"free", "new"} /\ fds'[b].use = "conn"
  BY <1>1, FdTypes DEF TakenBy, Takes, Ready
<1>3. \/ pc[i] = "loop" /\ fds[new] = Free
      \/ pc[i] = "woken" /\ call[i].new = new /\ fds[new].use = "new"
  BY DEF Takes, Ready
<1>4. pc' \in [Listeners -> {"none", "loop", "wait", "woken", "done"}] /\ pc'[i] = "loop"
      /\ \A j \in Listeners \ {i} : pc'[j] = pc[j]
  BY <1>1 DEF TakenBy, Inv, TypeOK
<1>5. backlog[of] \in Seq(Clients) /\ of \in Listeners /\ backlog[of] # <<>>
      /\ backlog \in [Listeners -> Seq(Clients)]
  BY <1>1 DEF TakenBy, Inv, TypeOK
<1>6. backlog' \in [Listeners -> Seq(Clients)] /\ backlog'[of] = Tail(backlog[of])
      /\ \A j \in Listeners \ {of} : backlog'[j] = backlog[j]
  BY <1>1, <1>5 DEF TakenBy
<1>7. TypeOK'
  <2>1. m_started' \in BOOLEAN /\ crashed' \in BOOLEAN
    BY <1>1 DEF TakenBy, Inv, TypeOK
  <2>2. cur' \in 0..MaxListeners
    BY <1>1 DEF TakenBy, Listeners
  <2> QED  BY <1>1, <1>4, <1>6, <2>1, <2>2 DEF TakenBy, Inv, TypeOK
<1>8. ListenInv'
  <2>1. \A f \in Fds : /\ fds'[f].use = "listen" => fds'[f] = fds[f]
                       /\ fds[f].use = "listen" => fds'[f] = fds[f]
    BY <1>1, <1>2 DEF TakenBy
  <2> QED  BY <1>1, <2>1 DEF TakenBy, Inv, ListenInv
<1>9. NewInv'
  <2>1. \A f \in Fds : fds'[f].use = "new" => fds'[f] = fds[f] /\ f # new /\ f # b
    BY <1>1, <1>2 DEF TakenBy
  <2>2. \A f \in Fds : fds'[f].use = "new" => fds[f].of # i
    BY <1>3, <2>1 DEF Inv, NewInv
  <2>3. \A j \in Listeners : pc'[j] \in {"wait", "woken"}
            => /\ j # i /\ pc[j] = pc'[j] /\ call[j].new \in Fds \ {new, b}
               /\ fds[call[j].new].use = "new" /\ fds[call[j].new].of = j
    BY <1>2, <1>3, <1>4, FdTypes DEF Inv, NewInv
  <2> QED  BY <1>1, <1>4, <2>1, <2>2, <2>3 DEF TakenBy, Inv, NewInv
<1>10. ConnInv'
  <2>1. \A f \in Fds : /\ fds'[f].use = "conn" => f = b \/ fds'[f] = fds[f]
                       /\ fds[f].use = "conn" => f # b /\ fds'[f] = fds[f]
    BY <1>1, <1>2 DEF TakenBy
  <2>2. c \in Clients /\ client'[c].st = "handled" /\ client'[c].fd = b /\ client[c].st = "backlog"
        /\ b \in Fds /\ fds'[b].use = "conn" /\ fds'[b].rcv
        /\ \A d \in Clients \ {c} : client'[d] = client[d] /\ client[d].fd # b
    <3>1. \A d \in Clients : client[d].fd # b
      BY <1>1, <1>2 DEF TakenBy, Inv, ConnInv, NoFd, Fds
    <3> QED  BY <1>1, <1>2, <3>1, FdTypes DEF TakenBy
  <2>3. \A f \in Fds : fds'[f].use = "conn"
            => \E d \in Clients : client'[d].st = "handled" /\ client'[d].fd = f
    BY <2>1, <2>2 DEF Inv, ConnInv
  <2> QED  BY <2>1, <2>2, <2>3 DEF Inv, ConnInv
<1>11. FreeInv'
  BY <1>1, <1>2 DEF TakenBy, Inv, FreeInv
<1>12. BacklogInv'
  <2>1. ASSUME NEW k \in 1..Len(Tail(backlog[of]))
        PROVE  /\ k + 1 \in 1..Len(backlog[of])
               /\ Tail(backlog[of])[k] = backlog[of][k + 1]
    BY <1>5
  <2>2. 1 \in 1..Len(backlog[of]) /\ c = backlog[of][1] /\ Len(backlog[of]) \in Nat
    BY <1>1, <1>5 DEF TakenBy
  <2>3. ASSUME NEW j \in Listeners, NEW k \in 1..Len(backlog'[j])
        PROVE  /\ backlog'[j][k] \in Clients /\ backlog'[j][k] # c
               /\ client[backlog'[j][k]].st = "backlog" /\ client[backlog'[j][k]].of = j
    <3>1. CASE j = of
      <4>0. backlog'[j] = Tail(backlog[of]) /\ backlog'[j] \in Seq(Clients)
        BY <1>6, <3>1
      <4>1. /\ k + 1 \in 1..Len(backlog[of]) /\ backlog'[j][k] = backlog[of][k + 1]
        BY <2>1, <4>0
      <4>2. k + 1 # 1
        BY <4>0
      <4> QED  BY <1>5, <2>2, <3>1, <4>1, <4>2 DEF Inv, BacklogInv
    <3>2. CASE j # of
      <4>1. backlog'[j] = backlog[j] /\ backlog[j] \in Seq(Clients)
        BY <1>5, <1>6, <3>2
      <4> QED  BY <1>1, <3>2, <4>1 DEF TakenBy, Inv, BacklogInv
    <3> QED  BY <3>1, <3>2
  <2>4. ASSUME NEW j \in Listeners, NEW k \in 1..Len(backlog'[j]),
               NEW m \in 1..Len(backlog'[j]), backlog'[j][k] = backlog'[j][m]
        PROVE  k = m
    <3>1. CASE j = of
      <4>0. backlog'[j] = Tail(backlog[of]) /\ backlog'[j] \in Seq(Clients)
        BY <1>6, <3>1
      <4>1. /\ k + 1 \in 1..Len(backlog[of]) /\ backlog'[j][k] = backlog[of][k + 1]
            /\ m + 1 \in 1..Len(backlog[of]) /\ backlog'[j][m] = backlog[of][m + 1]
        BY <2>1, <4>0
      <4>2. \A x, y \in 1..Len(backlog[of]) : backlog[of][x] = backlog[of][y] => x = y
        BY <1>5 DEF Inv, BacklogInv
      <4>3. k + 1 = m + 1
        BY <2>4, <4>1, <4>2
      <4>4. k \in Nat /\ m \in Nat
        BY <4>0
      <4> QED  BY <4>3, <4>4
    <3>2. CASE j # of
      BY <1>6, <2>4, <3>2 DEF Inv, BacklogInv
    <3> QED  BY <3>1, <3>2
  <2>5. \A d \in Clients : client'[d].st \in {"away", "backlog", "reset"}
            => client'[d].by = 0 /\ asked'[d] = "block"
    BY <1>1 DEF TakenBy, Inv, BacklogInv
  <2>6. \A d \in Clients \ {c} : client'[d] = client[d]
    BY <1>1 DEF TakenBy
  <2> QED  BY <2>3, <2>4, <2>5, <2>6 DEF BacklogInv
<1>13. ChannelInv'
  <2>1. i <= bound /\ bound' = bound
    <3>1. bound \in Nat /\ i \in Nat
      BY DEF Inv, TypeOK, Listeners
    <3>2. pc[i] # "none"
      BY <1>3
    <3>3. ~(i > bound)
      BY <3>2 DEF Inv, ChannelInv
    <3>4. bound' = bound
      BY <1>1 DEF TakenBy
    <3> QED  BY <3>1, <3>3, <3>4
  <2>2. \A j \in Listeners : pc'[j] \in {"wait", "woken"} => pc[j] \in {"wait", "woken"}
    BY <1>4
  <2>3. \A j \in Listeners : j > bound => pc'[j] = "none"
    <3>1. bound \in Nat /\ \A j \in Listeners : j \in Nat
      BY DEF Inv, TypeOK, Listeners
    <3> QED  BY <1>4, <2>1, <3>1 DEF Inv, ChannelInv
  <2> QED  BY <1>1, <2>2, <2>3 DEF TakenBy, Inv, ChannelInv
<1>14. FreshInv'
  <2>1. \A j \in Listeners : pc[j] = "none" => pc'[j] = "none"
    BY <1>3, <1>4
  <2>2. m_socket_vec' = m_socket_vec /\ m_started' = m_started /\ m_socket_vec \subseteq Listeners
    BY <1>1 DEF TakenBy, Inv, TypeOK, Listeners
  <2> QED  BY <2>1, <2>2 DEF Inv, FreshInv
<1> QED  BY <1>7, <1>8, <1>9, <1>10, <1>11, <1>12, <1>13, <1>14 DEF Inv

LEMMA WaitInv ==
    ASSUME Inv, NEW i \in Listeners, NEW t, NEW s, NEW new, Waits(i, t, s, new)
    PROVE  Inv'
<1>1. /\ new \in Fds /\ s \in Fds /\ fds' = t
      /\ fds' \in [Fds -> FdStates]
      /\ \A f \in Fds \ {new} : fds'[f] = fds[f]
      /\ fds'[new].use = "new" /\ fds'[new].of = i
      /\ fds[new].use \in {"free", "new"}
      /\ m_fd[i] \in {NoFd, s}
  BY FdTypes DEF Waits, Ready, Held
<1>2. \/ pc[i] = "loop" /\ fds[new] = Free
      \/ pc[i] = "woken" /\ call[i].new = new /\ fds[new].use = "new"
  BY DEF Waits, Ready
<1>3. UNCHANGED <<bound, m_fd, m_socket_vec, m_started, backlog, client, asked, crashed>>
      /\ cur' = Nobody
  BY DEF Waits, Held, serverVars
<1>4. /\ pc' \in [Listeners -> {"none", "loop", "wait", "woken", "done"}] /\ pc'[i] = "wait"
      /\ \A j \in Listeners \ {i} : pc'[j] = pc[j]
  BY DEF Waits, Held, Inv, TypeOK
<1>5. /\ call' \in [Listeners -> [s : 0..MaxFd, new : 0..MaxFd]]
      /\ call'[i].s = s /\ call'[i].new = new
      /\ \A j \in Listeners \ {i} : call'[j] = call[j]
  <2>1. [s |-> s, new |-> new] \in [s : 0..MaxFd, new : 0..MaxFd]
    BY <1>1 DEF Fds
  <2> QED  BY <2>1 DEF Waits, Held, Inv, TypeOK
<1>6. /\ channelMap' \in [Fds -> 0..MaxListeners] /\ channelMap'[s] = i
      /\ \A f \in Fds \ {s} : channelMap'[f] = channelMap[f]
  <2>1. i \in 0..MaxListeners
    BY DEF Listeners
  <2> QED  BY <1>1, <2>1 DEF Waits, Held, Inv, TypeOK
<1>7. TypeOK'
  <2>1. m_started' \in BOOLEAN /\ crashed' \in BOOLEAN
    BY <1>3 DEF Inv, TypeOK
  <2> QED  BY <1>1, <1>3, <1>4, <1>5, <1>6, <2>1 DEF Inv, TypeOK, Nobody
<1>8. ListenInv'
  BY <1>1, <1>3 DEF Inv, ListenInv
<1>9. NewInv'
  <2>1. \A f \in Fds \ {new} : fds'[f].use = "new" => fds[f].use = "new" /\ fds[f].of # i
    BY <1>1, <1>2 DEF Inv, NewInv
  <2>2. \A j \in Listeners \ {i} : pc'[j] \in {"wait", "woken"} => call[j].new \in Fds \ {new}
    BY <1>2, <1>4, FdTypes DEF Inv, NewInv
  <2>3. \A f \in Fds : fds'[f].use = "new"
            => /\ fds'[f].of \in Listeners /\ call'[fds'[f].of].new = f
               /\ pc'[fds'[f].of] \in {"wait", "woken"}
    BY <1>1, <1>4, <1>5, <2>1 DEF Inv, NewInv
  <2>4. \A j \in Listeners : pc'[j] \in {"wait", "woken"}
            => /\ call'[j].new \in Fds
               /\ fds'[call'[j].new].use = "new" /\ fds'[call'[j].new].of = j
    BY <1>1, <1>4, <1>5, <2>2 DEF Inv, NewInv
  <2> QED  BY <2>3, <2>4 DEF NewInv
<1>10. ConnInv'
  <2>1. \A f \in Fds : /\ fds'[f].use = "conn" => fds'[f] = fds[f]
                       /\ fds[f].use = "conn" => fds'[f] = fds[f]
    BY <1>1
  <2> QED  BY <1>3, <2>1 DEF Inv, ConnInv
<1>11. FreeInv'
  BY <1>1 DEF Inv, FreeInv
<1>12. BacklogInv'
  BY <1>3 DEF Inv, BacklogInv
<1>13. ChannelInv'
  <2>1. i <= bound /\ bound' = bound
    BY <1>2, <1>3 DEF Inv, ChannelInv, TypeOK, Listeners
  <2>2. \A j \in Listeners : pc'[j] \in {"wait", "woken"}
            => call'[j].s \in Fds /\ m_fd'[j] \in {NoFd, call'[j].s}
    BY <1>1, <1>3, <1>4, <1>5 DEF Inv, ChannelInv
  <2>3. \A j \in Listeners : j > bound => pc'[j] = "none"
    <3>1. bound \in Nat /\ \A j \in Listeners : j \in Nat
      BY DEF Inv, TypeOK, Listeners
    <3> QED  BY <1>4, <2>1, <3>1 DEF Inv, ChannelInv
  <2>4. \A f \in Fds : channelMap'[f] # Nobody
            => channelMap'[f] <= bound /\ m_fd'[channelMap'[f]] \in {NoFd, f}
    BY <1>1, <1>3, <1>6, <2>1 DEF Inv, ChannelInv
  <2> QED  BY <2>1, <2>2, <2>3, <2>4 DEF ChannelInv
<1>14. FreshInv'
  <2>1. \A j \in Listeners : pc[j] = "none" => pc'[j] = "none"
    BY <1>2, <1>4
  <2>2. m_socket_vec' = m_socket_vec /\ m_started' = m_started /\ m_socket_vec \subseteq Listeners
    BY <1>3 DEF Inv, TypeOK, Listeners
  <2> QED  BY <2>1, <2>2 DEF Inv, FreshInv
<1> QED  BY <1>7, <1>8, <1>9, <1>10, <1>11, <1>12, <1>13, <1>14 DEF Inv

LEMMA TaskInv ==
    ASSUME Inv, start \/ (\E i \in Listeners : poll(i))
    PROVE  Inv'
<1>1. UNCHANGED <<fds, channelMap, bound, m_fd, m_socket_vec, call, backlog, client,
                  asked, crashed>>
  BY DEF start, poll, serverVars
<1>2. /\ pc' \in [Listeners -> {"none", "loop", "wait", "woken", "done"}]
      /\ \A i \in Listeners : pc'[i] \in {"wait", "woken"} <=> pc[i] \in {"wait", "woken"}
      /\ \A i \in Listeners : pc[i] = "none" /\ pc'[i] # "none" => start /\ i \in m_socket_vec
  BY DEF start, poll, Inv, TypeOK, FreshInv
<1>3. \A i \in Listeners : i > bound => pc'[i] = "none"
  <2>1. \A i \in m_socket_vec : i \in Nat /\ i <= bound /\ bound \in Nat
    BY DEF Inv, TypeOK
  <2> QED  BY <1>2, <2>1 DEF Inv, ChannelInv
<1>4. TypeOK'
  <2>1. m_started' \in BOOLEAN /\ crashed' \in BOOLEAN
    BY DEF start, poll, serverVars, Inv, TypeOK
  <2>2. cur' \in 0..MaxListeners
    BY DEF start, poll, Inv, TypeOK, Nobody
  <2> QED  BY <1>1, <1>2, <2>1, <2>2 DEF Inv, TypeOK
<1>5. ListenInv' /\ ConnInv' /\ FreeInv' /\ BacklogInv'
  BY <1>1 DEF Inv, ListenInv, ConnInv, FreeInv, BacklogInv
<1>6. NewInv'
  BY <1>1, <1>2 DEF Inv, NewInv
<1>7. ChannelInv'
  BY <1>1, <1>2, <1>3 DEF Inv, ChannelInv
<1>8. FreshInv'
  <2>1. CASE start
    BY <2>1 DEF start, FreshInv
  <2>2. CASE ~start
    <3>1. m_socket_vec \subseteq Listeners
      BY DEF Inv, TypeOK, Listeners
    <3>2. m_started' = m_started
      BY <2>2 DEF poll, serverVars
    <3> QED  BY <1>1, <1>2, <2>2, <3>1, <3>2 DEF Inv, FreshInv
  <2> QED  BY <2>1, <2>2
<1> QED  BY <1>4, <1>5, <1>6, <1>7, <1>8 DEF Inv

LEMMA ConnectInv == ASSUME Inv, NEW c \in Clients, connect(c)  PROVE Inv'
<1>1. PICK i \in Listeners :
        /\ client[c].st = "away"
        /\ backlog' = [backlog EXCEPT ![i] = Append(@, c)]
        /\ client' = [client EXCEPT ![c].st = "backlog", ![c].of = i]
        /\ UNCHANGED <<fds, channelMap, bound, m_fd, m_socket_vec, m_started, pc, call,
                       cur, asked, crashed>>
  BY DEF connect, serverVars, taskVars
<1>2. client \in [Clients -> ClientStates] /\ backlog \in [Listeners -> Seq(Clients)]
  BY DEF Inv, TypeOK
<1>3. /\ client' \in [Clients -> ClientStates]
      /\ client'[c].st = "backlog" /\ client'[c].of = i
      /\ client'[c].fd = client[c].fd /\ client'[c].by = client[c].by
      /\ \A d \in Clients \ {c} : client'[d] = client[d]
  <2>1. i \in 0..MaxListeners
    BY DEF Listeners
  <2> QED  BY <1>1, <1>2, <2>1 DEF ClientStates
<1>4. /\ backlog' \in [Listeners -> Seq(Clients)] /\ backlog'[i] = Append(backlog[i], c)
      /\ \A j \in Listeners \ {i} : backlog'[j] = backlog[j]
  BY <1>1, <1>2
<1>5. TypeOK'
  <2>1. m_started' \in BOOLEAN /\ crashed' \in BOOLEAN
    BY <1>1 DEF Inv, TypeOK
  <2> QED  BY <1>1, <1>3, <1>4, <2>1 DEF Inv, TypeOK
<1>6. ListenInv' /\ NewInv' /\ FreeInv' /\ ChannelInv' /\ FreshInv'
  BY <1>1 DEF Inv, ListenInv, NewInv, FreeInv, ChannelInv, FreshInv
<1>7. ConnInv'
  BY <1>1, <1>3 DEF Inv, ConnInv
<1>8. BacklogInv'
  <2>1. backlog[i] \in Seq(Clients) /\ Len(backlog[i]) \in Nat
    BY <1>2
  <2>2. /\ Len(backlog'[i]) = Len(backlog[i]) + 1
        /\ \A k \in 1..Len(backlog[i]) : backlog'[i][k] = backlog[i][k]
        /\ backlog'[i][Len(backlog[i]) + 1] = c
    BY <1>4, <2>1
  <2>3. \A j \in Listeners : \A k \in 1..Len(backlog[j]) : backlog[j][k] \in Clients \ {c}
    BY <1>1, <1>2 DEF Inv, BacklogInv
  <2>4. \A k \in 1..Len(backlog'[i]) : k \in 1..Len(backlog[i]) \/ k = Len(backlog[i]) + 1
    BY <2>1, <2>2
  <2>5. ASSUME NEW j \in Listeners, NEW k \in 1..Len(backlog'[j])
        PROVE  client'[backlog'[j][k]].st = "backlog" /\ client'[backlog'[j][k]].of = j
    <3>1. CASE j = i
      BY <1>3, <2>2, <2>3, <2>4, <3>1 DEF Inv, BacklogInv
    <3>2. CASE j # i
      BY <1>3, <1>4, <2>3, <3>2 DEF Inv, BacklogInv
    <3> QED  BY <3>1, <3>2
  <2>6. ASSUME NEW j \in Listeners, NEW k \in 1..Len(backlog'[j]),
               NEW m \in 1..Len(backlog'[j]), backlog'[j][k] = backlog'[j][m]
        PROVE  k = m
    <3>1. CASE j = i
      <4>1. \A x, y \in 1..Len(backlog[i]) : backlog[i][x] = backlog[i][y] => x = y
        BY DEF Inv, BacklogInv
      <4>2. \A x \in 1..Len(backlog[i]) : backlog[i][x] # c
        BY <2>3
      <4> QED  BY <2>2, <2>4, <2>6, <3>1, <4>1, <4>2
    <3>2. CASE j # i
      BY <1>4, <2>6, <3>2 DEF Inv, BacklogInv
    <3> QED  BY <3>1, <3>2
  <2>7. \A d \in Clients : client'[d].st \in {"away", "backlog", "reset"}
            => client'[d].by = 0 /\ asked'[d] = "block"
    BY <1>1, <1>3 DEF Inv, BacklogInv
  <2> QED  BY <2>5, <2>6, <2>7 DEF BacklogInv
<1> QED  BY <1>5, <1>6, <1>7, <1>8 DEF Inv

LEMMA HandledEffect ==
    ASSUME Inv, NEW c \in Clients, handled(c)
    PROVE  /\ client[c].st = "handled" /\ client[c].fd \in Fds
           /\ fds[client[c].fd].use = "conn"
           /\ fds' \in [Fds -> FdStates] /\ fds'[client[c].fd] = Free
           /\ \A f \in Fds \ {client[c].fd} : fds'[f] = fds[f]
           /\ client' \in [Clients -> ClientStates]
           /\ client'[c].st = "done" /\ client'[c].fd = NoFd
           /\ client'[c].of = client[c].of /\ client'[c].by = client[c].by
           /\ \A d \in Clients \ {c} : client'[d] = client[d]
           /\ UNCHANGED <<channelMap, bound, m_fd, m_socket_vec, m_started, pc, call,
                          cur, backlog, asked, crashed>>
<1>1. client[c].st = "handled" /\ client[c].fd \in Fds /\ fds[client[c].fd].use = "conn"
  BY DEF handled, Inv, ConnInv
<1>2. client \in [Clients -> ClientStates] /\ fds \in [Fds -> FdStates]
  BY DEF Inv, TypeOK
<1>3. /\ fds' \in [Fds -> FdStates] /\ fds'[client[c].fd] = Free
      /\ \A f \in Fds \ {client[c].fd} : fds'[f] = fds[f]
  BY <1>1, <1>2, FdTypes DEF handled
<1>4. /\ client' \in [Clients -> ClientStates]
      /\ client'[c].st = "done" /\ client'[c].fd = NoFd
      /\ client'[c].of = client[c].of /\ client'[c].by = client[c].by
      /\ \A d \in Clients \ {c} : client'[d] = client[d]
  <2>1. client' = [client EXCEPT ![c].st = "done", ![c].fd = NoFd]
    BY DEF handled
  <2>2. NoFd \in 0..MaxFd
    BY DEF NoFd
  <2> QED  BY <1>2, <2>1, <2>2 DEF ClientStates
<1>5. UNCHANGED <<channelMap, bound, m_fd, m_socket_vec, m_started, pc, call,
                  cur, backlog, asked, crashed>>
  BY DEF handled, serverVars, taskVars
<1> QED  BY <1>1, <1>3, <1>4, <1>5

LEMMA HandledInv == ASSUME Inv, NEW c \in Clients, handled(c)  PROVE Inv'
<1> DEFINE g == client[c].fd
<1>1. /\ client[c].st = "handled" /\ g \in Fds /\ fds[g].use = "conn"
      /\ fds'[g] = Free /\ fds'[g].use = "free"
      /\ \A f \in Fds \ {g} : fds'[f] = fds[f]
      /\ client'[c].st = "done" /\ client'[c].fd = NoFd
      /\ client'[c].of = client[c].of /\ client'[c].by = client[c].by
      /\ \A d \in Clients \ {c} : client'[d] = client[d]
      /\ UNCHANGED <<channelMap, bound, m_fd, m_socket_vec, m_started, pc, call,
                     cur, backlog, asked, crashed>>
  BY HandledEffect, FdTypes
<1> HIDE DEF g
<1>2. TypeOK'
  <2>1. m_started' \in BOOLEAN /\ crashed' \in BOOLEAN
    BY <1>1 DEF Inv, TypeOK
  <2>2. fds' \in [Fds -> FdStates] /\ client' \in [Clients -> ClientStates]
    BY HandledEffect
  <2> QED  BY <1>1, <2>1, <2>2 DEF Inv, TypeOK
<1>3. ListenInv'
  BY <1>1 DEF Inv, ListenInv
<1>4. NewInv'
  BY <1>1 DEF Inv, NewInv
<1>5. ConnInv'
  <2>1. \A d \in Clients \ {c} : client[d].st = "handled" => client[d].fd # g
    BY <1>1 DEF Inv, ConnInv, g
  <2>2. NoFd \notin Fds
    BY DEF NoFd, Fds
  <2>3. \A f \in Fds : fds'[f].use = "conn" => f # g /\ fds[f].use = "conn"
    BY <1>1
  <2>4. \A f \in Fds : fds'[f].use = "conn"
            => \E d \in Clients : client'[d].st = "handled" /\ client'[d].fd = f
    <3> SUFFICES ASSUME NEW f \in Fds, fds'[f].use = "conn"
                 PROVE  \E d \in Clients : client'[d].st = "handled" /\ client'[d].fd = f
      OBVIOUS
    <3>1. PICK d \in Clients : client[d].st = "handled" /\ client[d].fd = f
      BY <2>3 DEF Inv, ConnInv
    <3>2. d # c
      BY <2>3, <3>1 DEF g
    <3> QED  BY <1>1, <3>1, <3>2
  <2>5. \A d \in Clients : client'[d].st = "handled"
            => d # c /\ client'[d] = client[d] /\ client[d].fd \in Fds \ {g}
    BY <1>1, <2>1 DEF Inv, ConnInv
  <2>6. \A d \in Clients : client'[d].st = "handled"
            => fds'[client'[d].fd].use = "conn" /\ fds'[client'[d].fd].rcv
    BY <1>1, <2>5 DEF Inv, ConnInv
  <2>7. \A d \in Clients : client'[d].st # "handled" => client'[d].fd = NoFd
    BY <1>1 DEF Inv, ConnInv
  <2>8. \A d, e \in Clients :
            client'[d].st = "handled" /\ client'[d].fd = client'[e].fd => d = e
    BY <1>1, <2>2, <2>5 DEF Inv, ConnInv
  <2> QED  BY <2>4, <2>5, <2>6, <2>7, <2>8 DEF ConnInv
<1>6. FreeInv'
  BY <1>1 DEF Inv, FreeInv
<1>7. BacklogInv'
  <2>1. \A i \in Listeners : \A k \in 1..Len(backlog[i]) : backlog[i][k] \in Clients \ {c}
    BY <1>1 DEF Inv, BacklogInv, TypeOK
  <2> QED  BY <1>1, <2>1 DEF Inv, BacklogInv
<1>8. ChannelInv' /\ FreshInv'
  BY <1>1 DEF Inv, ChannelInv, FreshInv
<1> QED  BY <1>2, <1>3, <1>4, <1>5, <1>6, <1>7, <1>8 DEF Inv

LEMMA SetModeEffect ==
    ASSUME Inv, NEW c \in Clients, NEW how \in Modes, setMode(c, how)
    PROVE  /\ client[c].st = "handled" /\ client[c].fd \in Fds
           /\ fds' \in [Fds -> FdStates]
           /\ \A f \in Fds : /\ fds'[f].use = fds[f].use /\ fds'[f].of = fds[f].of
                             /\ fds'[f].rcv = fds[f].rcv
           /\ \A f \in Fds \ {client[c].fd} : fds'[f] = fds[f]
           /\ fds'[client[c].fd].user = (how \in {"fcntl on", "ioctl on"})
           /\ fds'[client[c].fd].nonblock = (how # "ioctl off")
           /\ asked' = [asked EXCEPT ![c] = how]
           /\ UNCHANGED <<channelMap, bound, m_fd, m_socket_vec, m_started, pc, call,
                          cur, backlog, client, crashed>>
<1> DEFINE g == client[c].fd
           on == how \in {"fcntl on", "ioctl on"}
           nb == how # "ioctl off"
<1>1. client[c].st = "handled" /\ g \in Fds
  BY DEF setMode, Inv, ConnInv
<1>2. fds \in [Fds -> FdStates]
  BY DEF Inv, TypeOK
<1>3. fds' = [fds EXCEPT ![g].user = on, ![g].nonblock = nb]
  <2>1. nb = IF how = "ioctl off" THEN FALSE ELSE TRUE
    OBVIOUS
  <2> QED  BY <2>1 DEF setMode
<1>4. on \in BOOLEAN /\ nb \in BOOLEAN
  OBVIOUS
<1> HIDE DEF g, on, nb
<1>5. /\ fds' \in [Fds -> FdStates]
      /\ \A f \in Fds \ {g} : fds'[f] = fds[f]
      /\ fds'[g].user = on /\ fds'[g].nonblock = nb
      /\ fds'[g].use = fds[g].use /\ fds'[g].of = fds[g].of /\ fds'[g].rcv = fds[g].rcv
  BY <1>1, <1>2, <1>3, <1>4 DEF FdStates
<1>6. \A f \in Fds : /\ fds'[f].use = fds[f].use /\ fds'[f].of = fds[f].of
                     /\ fds'[f].rcv = fds[f].rcv
  BY <1>5
<1>7. /\ asked' = [asked EXCEPT ![c] = how]
      /\ UNCHANGED <<channelMap, bound, m_fd, m_socket_vec, m_started, pc, call,
                     cur, backlog, client, crashed>>
  BY DEF setMode, serverVars, taskVars
<1> QED  BY <1>1, <1>5, <1>6, <1>7 DEF g, on, nb

LEMMA SetModeInv ==
    ASSUME Inv, NEW c \in Clients, NEW how \in Modes, setMode(c, how)
    PROVE  Inv'
<1>1. /\ client[c].st = "handled" /\ client[c].fd \in Fds
      /\ fds[client[c].fd].use = "conn"
      /\ fds' \in [Fds -> FdStates]
      /\ \A f \in Fds : /\ fds'[f].use = fds[f].use /\ fds'[f].of = fds[f].of
                        /\ fds'[f].rcv = fds[f].rcv
      /\ \A f \in Fds \ {client[c].fd} : fds'[f] = fds[f]
      /\ UNCHANGED <<channelMap, bound, m_fd, m_socket_vec, m_started, pc, call,
                     cur, backlog, client, crashed>>
  BY SetModeEffect DEF Inv, ConnInv
<1>2. asked' \in [Clients -> Modes \cup {"block"}] /\ \A d \in Clients \ {c} : asked'[d] = asked[d]
  <2>1. asked' = [asked EXCEPT ![c] = how]
    BY SetModeEffect
  <2>2. asked \in [Clients -> Modes \cup {"block"}]
    BY DEF Inv, TypeOK
  <2> QED  BY <2>1, <2>2
<1>3. TypeOK'
  <2>1. m_started' \in BOOLEAN /\ crashed' \in BOOLEAN
    BY <1>1 DEF Inv, TypeOK
  <2> QED  BY <1>1, <1>2, <2>1 DEF Inv, TypeOK
<1>4. ListenInv'
  BY <1>1 DEF Inv, ListenInv
<1>5. NewInv'
  BY <1>1 DEF Inv, NewInv
<1>6. ConnInv'
  BY <1>1 DEF Inv, ConnInv
<1>7. FreeInv'
  BY <1>1 DEF Inv, FreeInv
<1>8. BacklogInv'
  BY <1>1, <1>2 DEF Inv, BacklogInv
<1>9. ChannelInv' /\ FreshInv'
  BY <1>1 DEF Inv, ChannelInv, FreshInv
<1> QED  BY <1>3, <1>4, <1>5, <1>6, <1>7, <1>8, <1>9 DEF Inv

\* A step that changes nothing but perhaps `crashed'.
stateVars == <<fds, channelMap, serverVars, taskVars, backlog, client, asked>>

LEMMA StutterInv == ASSUME Inv, UNCHANGED stateVars, crashed' \in BOOLEAN  PROVE Inv'
<1> USE DEF stateVars, serverVars, taskVars
<1>1. TypeOK'
  <2>1. m_started' \in BOOLEAN
    BY DEF Inv, TypeOK
  <2> QED  BY <2>1 DEF Inv, TypeOK
<1> QED  BY <1>1 DEF Inv, ListenInv, NewInv, ConnInv, FreeInv, BacklogInv, ChannelInv, FreshInv

LEMMA CrashOrStutter ==
    ASSUME Inv, Crash \/ UNCHANGED vars  PROVE UNCHANGED stateVars /\ crashed' \in BOOLEAN
BY DEF Crash, vars, stateVars, Inv, TypeOK

LEMMA InvInduction == ASSUME Inv, [Next]_vars  PROVE Inv'
<1>1. CASE Crash \/ UNCHANGED vars
  BY <1>1, StutterInv, CrashOrStutter
<1>2. CASE Next
  BY <1>1, <1>2, StepCases, BindInv, CloseInv, TakeInv, WaitInv, TaskInv, ConnectInv,
     HandledInv, SetModeInv
<1> QED  BY <1>1, <1>2

LEMMA InitInv == Init => Inv
<1> SUFFICES ASSUME Init  PROVE Inv
  OBVIOUS
<1> USE DEF Init
<1>1. TypeOK
  <2>1. m_started \in BOOLEAN /\ crashed \in BOOLEAN
    OBVIOUS
  <2>2. client \in [Clients -> ClientStates]
    BY DEF ClientStates, NoFd
  <2>3. call \in [Listeners -> [s : 0..MaxFd, new : 0..MaxFd]]
    BY DEF NoFd
  <2> QED  BY <2>1, <2>2, <2>3, FdTypes DEF TypeOK, NoFd, Nobody
<1>2. ListenInv /\ NewInv /\ FreeInv
  BY FdTypes DEF ListenInv, NewInv, FreeInv
<1>3. ConnInv
  BY FdTypes DEF ConnInv
<1>4. BacklogInv
  BY DEF BacklogInv
<1>5. ChannelInv /\ FreshInv
  BY DEF ChannelInv, FreshInv
<1> QED  BY <1>1, <1>2, <1>3, <1>4, <1>5 DEF Inv

-----------------------------------------------------------------------------
(* Leaks, modes and stolen connections                                     *)

\* Only an accept() that takes a connection leaks a descriptor, and no other
\* step sets the task or the socket that a client was taken by and from.
LEMMA QuietSteps ==
    ASSUME Inv,
           \/ bind \/ start \/ (\E S : Closing(S)) \/ Crash \/ UNCHANGED vars
           \/ \E i \in Listeners : poll(i)
           \/ \E i \in Listeners : \E t, s, new : Waits(i, t, s, new)
           \/ \E c \in Clients : connect(c) \/ handled(c)
           \/ \E c \in Clients, how \in Modes : setMode(c, how)
    PROVE  /\ \A f \in Fds : fds'[f].use = "leaked" <=> fds[f].use = "leaked"
           /\ \A c \in Clients : client'[c].st \in {"handled", "done"}
                <=> client[c].st \in {"handled", "done"}
           /\ \A c \in Clients : /\ client'[c].by = client[c].by
                                 /\ client[c].by # 0 => client'[c].of = client[c].of
           /\ bound' \in Nat /\ bound <= bound'
           /\ \A i \in Listeners : i <= bound /\ m_fd[i] = NoFd
                => /\ m_fd'[i] = NoFd
                   /\ pc[i] \in {"loop", "done"} => pc'[i] \in {"loop", "done"}
<1> DEFINE P == /\ \A f \in Fds : fds'[f].use = "leaked" <=> fds[f].use = "leaked"
                /\ \A c \in Clients : client'[c].st \in {"handled", "done"}
                     <=> client[c].st \in {"handled", "done"}
                /\ \A c \in Clients : /\ client'[c].by = client[c].by
                                      /\ client[c].by # 0 => client'[c].of = client[c].of
                /\ bound' \in Nat /\ bound <= bound'
                /\ \A i \in Listeners : i <= bound /\ m_fd[i] = NoFd
                     => /\ m_fd'[i] = NoFd
                        /\ pc[i] \in {"loop", "done"} => pc'[i] \in {"loop", "done"}
<1>0. bound \in Nat /\ (\A i \in Listeners : i \in Nat)
      /\ pc \in [Listeners -> {"none", "loop", "wait", "woken", "done"}]
  BY DEF Inv, TypeOK, Listeners
<1>1. CASE bind
  <2>1. PICK a \in Fds :
             /\ bound' = bound + 1
             /\ fds[a] = Free /\ fds'[a].use = "listen"
             /\ \A f \in Fds \ {a} : fds'[f] = fds[f]
             /\ \A i \in Listeners \ {bound + 1} : m_fd'[i] = m_fd[i]
             /\ UNCHANGED <<pc, client>>
    BY <1>1, BindEffect
  <2>2. \A i \in Listeners : i <= bound => i # bound + 1
    BY <1>0
  <2>3. bound' \in Nat /\ bound <= bound'
    BY <1>0, <2>1
  <2> QED  BY <2>1, <2>2, <2>3, FdTypes
<1>2. ASSUME NEW S, Closing(S)  PROVE P
  <2>1. \A f \in Fds : fds'[f].use = "leaked" <=> fds[f].use = "leaked"
    <3>1. /\ \A f \in Fds : fds[f].use = "listen" /\ fds[f].of \in S => fds'[f] = Free
          /\ \A f \in Fds : fds[f].use # "listen" \/ fds[f].of \notin S => fds'[f] = fds[f]
      BY <1>2, CloseEffect
    <3> QED  BY <3>1, FdTypes
  <2>2. \A c \in Clients : /\ client'[c].st \in {"handled", "done"}
                                <=> client[c].st \in {"handled", "done"}
                           /\ client'[c].by = client[c].by /\ client'[c].of = client[c].of
    BY <1>2, CloseEffect
  <2>3. bound' \in Nat /\ bound <= bound'
    BY <1>0, <1>2 DEF Closing
  <2>4. \A i \in Listeners : pc[i] \in {"loop", "done"} => pc'[i] \in {"loop", "done"}
    BY <1>2 DEF Closing
  <2>5. \A i \in Listeners : m_fd[i] = NoFd => m_fd'[i] = NoFd
    BY <1>2, CloseEffect
  <2> QED  BY <2>1, <2>2, <2>3, <2>4, <2>5
<1>3. CASE Crash \/ UNCHANGED vars
  BY <1>0, <1>3 DEF Crash, vars, serverVars, taskVars
<1>4. CASE start \/ (\E i \in Listeners : poll(i))
  <2>1. UNCHANGED <<fds, bound, m_fd, m_socket_vec, client>>
    BY <1>4 DEF start, poll, serverVars
  <2>2. \A i \in Listeners : m_fd[i] = NoFd => i \notin m_socket_vec
    BY DEF Inv, ListenInv
  <2>3. \A i \in Listeners : m_fd[i] = NoFd /\ pc[i] \in {"loop", "done"}
            => pc'[i] \in {"loop", "done"}
    BY <1>0, <1>4, <2>2 DEF start, poll
  <2> QED  BY <1>0, <2>1, <2>3
<1>5. ASSUME NEW i \in Listeners, NEW t, NEW s, NEW new, Waits(i, t, s, new)  PROVE P
  <2>1. UNCHANGED <<bound, m_fd, client>>
    BY <1>5 DEF Waits, Held, serverVars
  <2>2. \A f \in Fds : fds'[f].use = "leaked" <=> fds[f].use = "leaked"
    BY <1>5, FdTypes DEF Waits, Ready, Held
  <2>3. \A j \in Listeners : m_fd[j] = NoFd /\ pc[j] \in {"loop", "done"}
            => pc'[j] \in {"loop", "done"}
    BY <1>0, <1>5 DEF Waits, Ready, Held
  <2> QED  BY <1>0, <2>1, <2>2, <2>3
<1>6. ASSUME NEW c \in Clients, connect(c)  PROVE P
  <2>1. PICK i \in Listeners :
          /\ client[c].st = "away"
          /\ client' = [client EXCEPT ![c].st = "backlog", ![c].of = i]
          /\ UNCHANGED <<fds, bound, m_fd, pc>>
    BY <1>6 DEF connect, serverVars, taskVars
  <2>2. client \in [Clients -> ClientStates] /\ client[c].by = 0
    BY <2>1 DEF Inv, TypeOK, BacklogInv
  <2>3. /\ client'[c].st = "backlog" /\ client'[c].by = client[c].by
        /\ \A d \in Clients \ {c} : client'[d] = client[d]
    BY <2>1, <2>2 DEF ClientStates
  <2> QED  BY <1>0, <2>1, <2>2, <2>3
<1>7. ASSUME NEW c \in Clients, handled(c)  PROVE P
  <2>1. /\ \A f \in Fds : fds'[f].use = "leaked" <=> fds[f].use = "leaked"
        /\ UNCHANGED <<bound, m_fd, pc>>
    BY <1>7, HandledEffect, FdTypes
  <2>2. \A d \in Clients : /\ client'[d].st \in {"handled", "done"}
                                <=> client[d].st \in {"handled", "done"}
                           /\ client'[d].by = client[d].by /\ client'[d].of = client[d].of
    BY <1>7, HandledEffect
  <2> QED  BY <1>0, <2>1, <2>2
<1>8. ASSUME NEW c \in Clients, NEW how \in Modes, setMode(c, how)  PROVE P
  <2>1. /\ \A f \in Fds : fds'[f].use = fds[f].use
        /\ UNCHANGED <<bound, m_fd, pc, client>>
    BY <1>8, SetModeEffect
  <2> QED  BY <1>0, <2>1
<1> QED  BY <1>1, <1>2, <1>3, <1>4, <1>5, <1>6, <1>7, <1>8

LEMMA FdsFinite == \A use : IsFiniteSet(Open(use)) /\ IsFiniteSet(Accepts)
<1>1. IsFiniteSet(Fds)
  BY FS_Interval DEF Fds
<1>2. \A use : Open(use) \in SUBSET Fds
  BY DEF Open
<1>3. Accepts \in SUBSET Clients
  BY DEF Accepts
<1> QED  BY <1>1, <1>2, <1>3, FS_Subset

LEMMA LeakInduction == ASSUME Inv, LeakInv, [Next]_vars  PROVE LeakInv'
<1>1. ASSUME NEW i \in Listeners, NEW t, NEW s, NEW new, Takes(i, t, s, new)
      PROVE  LeakInv'
  <2>1. PICK b, of, c : TakenBy(i, s, new, b, of, c)
    BY <1>1, AcceptedEffect DEF Takes
  <2>2. fds[new].use \in {"free", "new"} /\ fds[b].use = "free" /\ fds'[b].use = "conn"
    BY <1>1, <2>1, FdTypes DEF TakenBy, Takes, Ready
  <2>3. Open("leaked")' = Open("leaked") \cup {new} /\ new \notin Open("leaked")
    BY <2>1, <2>2 DEF TakenBy, Open
  <2>4. Accepts' = Accepts \cup {c} /\ c \notin Accepts
    BY <2>1 DEF TakenBy, Accepts
  <2>5. /\ Cardinality(Open("leaked") \cup {new}) = Cardinality(Open("leaked")) + 1
        /\ Cardinality(Accepts \cup {c}) = Cardinality(Accepts) + 1
    BY <2>3, <2>4, FdsFinite, FS_AddElement
  <2> QED  BY <2>3, <2>4, <2>5 DEF LeakInv
<1>2. CASE Open("leaked")' = Open("leaked") /\ Accepts' = Accepts
  BY <1>2 DEF LeakInv
<1>3. CASE ~\E i \in Listeners : \E t, s, new : Takes(i, t, s, new)
  <2>1. /\ \A f \in Fds : fds'[f].use = "leaked" <=> fds[f].use = "leaked"
        /\ \A c \in Clients : client'[c].st \in {"handled", "done"}
             <=> client[c].st \in {"handled", "done"}
    BY <1>3, StepCases, QuietSteps
  <2> QED  BY <1>2, <2>1 DEF Open, Accepts
<1> QED  BY <1>1, <1>3

LEMMA StealInduction == ASSUME Inv, StealInv, [Next]_vars  PROVE StealInv'
<1> USE DEF StealInv
<1>0. bound \in Nat /\ (\A j \in Listeners : j \in Nat /\ j # 0)
  BY DEF Inv, TypeOK, Listeners
<1>1. ASSUME NEW i \in Listeners, NEW t, NEW s, NEW new, Takes(i, t, s, new)
      PROVE  StealInv'
  <2>1. PICK b, of, c : TakenBy(i, s, new, b, of, c)
    BY <1>1, AcceptedEffect DEF Takes
  <2>2. c \in Clients /\ client[c].by = 0 /\ client'[c].by = i /\ client'[c].of = of
        /\ \A d \in Clients \ {c} : client'[d] = client[d]
    BY <2>1 DEF TakenBy, Inv, BacklogInv
  <2>3. \A d \in Clients : client[d].by = i => client[d].of = i
    BY <1>1, FdTypes DEF Takes, Ready
  <2>4. of # i => m_fd[i] = NoFd
    BY <1>1, <2>1 DEF TakenBy, Takes, Ready, Inv, ListenInv
  <2>5. i <= bound
    <3>1. pc[i] # "none"
      BY <1>1 DEF Takes, Ready
    <3> QED  BY <1>0, <3>1 DEF Inv, ChannelInv
  <2>6. pc'[i] = "loop" /\ (\A j \in Listeners \ {i} : pc'[j] = pc[j])
        /\ UNCHANGED <<bound, m_fd>>
    BY <2>1 DEF TakenBy, Inv, TypeOK
  <2>7. ASSUME NEW j \in Listeners, NEW d \in Clients, client'[d].by = j, client'[d].of # j
        PROVE  /\ j <= bound' /\ m_fd'[j] = NoFd /\ pc'[j] \in {"loop", "done"}
               /\ \A e \in Clients : client'[e].by = j /\ client'[e].of # j => e = d
    <3>1. CASE j = i
      BY <2>2, <2>3, <2>4, <2>5, <2>6, <2>7, <3>1
    <3>2. CASE j # i
      BY <2>2, <2>6, <2>7, <3>2
    <3> QED  BY <3>1, <3>2
  <2> QED  BY <2>7
<1>2. CASE ~\E i \in Listeners : \E t, s, new : Takes(i, t, s, new)
  <2>1. /\ \A c \in Clients : /\ client'[c].by = client[c].by
                              /\ client[c].by # 0 => client'[c].of = client[c].of
        /\ bound' \in Nat /\ bound <= bound'
        /\ \A i \in Listeners : i <= bound /\ m_fd[i] = NoFd
             => /\ m_fd'[i] = NoFd
                /\ pc[i] \in {"loop", "done"} => pc'[i] \in {"loop", "done"}
    BY <1>2, StepCases, QuietSteps
  <2>2. ASSUME NEW j \in Listeners, NEW d \in Clients, client'[d].by = j, client'[d].of # j
        PROVE  /\ j <= bound' /\ m_fd'[j] = NoFd /\ pc'[j] \in {"loop", "done"}
               /\ \A e \in Clients : client'[e].by = j /\ client'[e].of # j => e = d
    <3>1. client[d].by = j /\ client[d].of # j
      BY <1>0, <2>1, <2>2
    <3>2. /\ j <= bound /\ m_fd[j] = NoFd /\ pc[j] \in {"loop", "done"}
          /\ \A e \in Clients : client[e].by = j /\ client[e].of # j => e = d
      BY <3>1
    <3>3. j <= bound'
      BY <1>0, <2>1, <3>2
    <3> QED  BY <1>0, <2>1, <3>2, <3>3
  <2> QED  BY <2>2
<1> QED  BY <1>1, <1>2

\* The blocking mode of a handler's socket: as the kernel has it and as the
\* handler sees it.
ModeOf(f, how) ==
  /\ fds[f].user = (how \in {"fcntl on", "ioctl on"})
  /\ ~fds[f].nonblock <=> how = "ioctl off"

\* No other step touches the sockets of the handlers.
LEMMA HandlersKept ==
    ASSUME Inv,
           \/ bind \/ start \/ (\E S : Closing(S)) \/ Crash \/ UNCHANGED vars
           \/ \E i \in Listeners : poll(i)
           \/ \E i \in Listeners : \E t, s, new : Waits(i, t, s, new)
           \/ \E c \in Clients : connect(c) \/ handled(c)
    PROVE  /\ asked' = asked
           /\ \A d \in Clients : client'[d].st = "handled"
                => client'[d] = client[d] /\ fds'[client[d].fd] = fds[client[d].fd]
<1> DEFINE P == /\ asked' = asked
                /\ \A d \in Clients : client'[d].st = "handled"
                     => client'[d] = client[d] /\ fds'[client[d].fd] = fds[client[d].fd]
<1>0. \A d \in Clients : client[d].st = "handled"
          => client[d].fd \in Fds /\ fds[client[d].fd].use = "conn"
  BY DEF Inv, ConnInv
<1>1. CASE bind
  <2>1. /\ UNCHANGED <<client, asked>>
        /\ \A f \in Fds : fds[f].use = "conn" => fds'[f] = fds[f]
    BY <1>1, BindEffect, FdTypes
  <2> QED  BY <1>0, <2>1
<1>2. ASSUME NEW S, Closing(S)  PROVE P
  <2>1. asked' = asked
    BY <1>2 DEF Closing
  <2>2. /\ \A f \in Fds : fds[f].use = "conn" => fds'[f] = fds[f]
        /\ \A d \in Clients : client'[d].st = "handled" => client'[d] = client[d]
    BY <1>2, CloseEffect
  <2> QED  BY <1>0, <2>1, <2>2
<1>3. CASE Crash \/ UNCHANGED vars \/ start \/ (\E i \in Listeners : poll(i))
  BY <1>3 DEF Crash, vars, start, poll
<1>4. ASSUME NEW i \in Listeners, NEW t, NEW s, NEW new, Waits(i, t, s, new)  PROVE P
  <2>1. UNCHANGED <<client, asked>>
    BY <1>4 DEF Waits, Held
  <2>2. \A f \in Fds : fds[f].use = "conn" => fds'[f] = fds[f]
    BY <1>4, FdTypes DEF Waits, Ready, Held
  <2> QED  BY <1>0, <2>1, <2>2
<1>5. ASSUME NEW c \in Clients, connect(c)  PROVE P
  <2>1. PICK i \in Listeners :
          /\ client[c].st = "away"
          /\ client' = [client EXCEPT ![c].st = "backlog", ![c].of = i]
          /\ UNCHANGED <<fds, asked>>
    BY <1>5 DEF connect
  <2>2. client \in [Clients -> ClientStates]
    BY DEF Inv, TypeOK
  <2>3. client'[c].st = "backlog" /\ \A d \in Clients \ {c} : client'[d] = client[d]
    BY <2>1, <2>2 DEF ClientStates
  <2> QED  BY <2>1, <2>3
<1>6. ASSUME NEW c \in Clients, handled(c)  PROVE P
  <2>1. /\ client[c].st = "handled" /\ client'[c].st = "done" /\ asked' = asked
        /\ \A f \in Fds \ {client[c].fd} : fds'[f] = fds[f]
        /\ \A d \in Clients \ {c} : client'[d] = client[d]
    BY <1>6, HandledEffect
  <2>2. \A d \in Clients \ {c} : client[d].st = "handled" => client[d].fd # client[c].fd
    BY <2>1 DEF Inv, ConnInv
  <2> QED  BY <1>0, <2>1, <2>2
<1> QED  BY <1>1, <1>2, <1>3, <1>4, <1>5, <1>6

LEMMA ModeInduction == ASSUME Inv, ModeKept, [Next]_vars  PROVE ModeKept'
<1>0. \A c \in Clients : client[c].st = "handled" => ModeOf(client[c].fd, asked[c])
  BY DEF ModeKept, getMode, ModeOf
<1> SUFFICES ASSUME NEW d \in Clients, client'[d].st = "handled"
             PROVE  ModeOf(client[d].fd, asked[d])'
  BY DEF ModeKept, getMode, ModeOf
<1>1. ASSUME NEW i \in Listeners, NEW t, NEW s, NEW new, Takes(i, t, s, new)
      PROVE  ModeOf(client[d].fd, asked[d])'
  <2>1. PICK b, of, c : TakenBy(i, s, new, b, of, c)
    BY <1>1, AcceptedEffect DEF Takes
  <2>2. CASE d = c
    <3>1. client'[d].fd = b /\ fds'[b] = ConnFd /\ asked'[d] = "block"
      BY <2>1, <2>2 DEF TakenBy, Inv, BacklogInv
    <3>2. fds'[client'[d].fd].user = FALSE /\ fds'[client'[d].fd].nonblock = TRUE
      BY <3>1, FdTypes
    <3>3. (asked'[d] \in {"fcntl on", "ioctl on"}) = FALSE /\ asked'[d] # "ioctl off"
      BY <3>1
    <3> QED  BY <3>2, <3>3 DEF ModeOf
  <2>3. CASE d # c
    <3>1. client'[d] = client[d] /\ asked' = asked /\ client[d].st = "handled"
      BY <2>1, <2>3 DEF TakenBy
    <3>2. client[d].fd \in Fds /\ fds[client[d].fd].use = "conn"
      BY <3>1 DEF Inv, ConnInv
    <3>3. fds[b].use = "free" /\ fds[new].use \in {"free", "new"}
      BY <1>1, <2>1, FdTypes DEF TakenBy, Takes, Ready
    <3>4. fds'[client'[d].fd] = fds[client[d].fd]
      BY <2>1, <3>1, <3>2, <3>3 DEF TakenBy
    <3> QED  BY <1>0, <3>1, <3>4 DEF ModeOf
  <2> QED  BY <2>2, <2>3
<1>2. ASSUME NEW c \in Clients, NEW how \in Modes, setMode(c, how)
      PROVE  ModeOf(client[d].fd, asked[d])'
  <2>1. /\ client' = client /\ client[c].st = "handled" /\ client[c].fd \in Fds
        /\ \A f \in Fds \ {client[c].fd} : fds'[f] = fds[f]
        /\ fds'[client[c].fd].user = (how \in {"fcntl on", "ioctl on"})
        /\ fds'[client[c].fd].nonblock = (how # "ioctl off")
        /\ asked' = [asked EXCEPT ![c] = how]
    BY <1>2, SetModeEffect
  <2>2. asked'[c] = how /\ (d # c => asked'[d] = asked[d])
    BY <2>1 DEF Inv, TypeOK
  <2>3. CASE d = c
    BY <2>1, <2>2, <2>3 DEF ModeOf
  <2>4. CASE d # c
    <3>1. client[d].fd \in Fds \ {client[c].fd}
      BY <2>1, <2>4 DEF Inv, ConnInv
    <3> QED  BY <1>0, <2>1, <2>2, <2>4, <3>1 DEF ModeOf
  <2> QED  BY <2>3, <2>4
<1>3. CASE /\ asked' = asked
           /\ client'[d] = client[d] /\ fds'[client[d].fd] = fds[client[d].fd]
  BY <1>0, <1>3 DEF ModeOf
<1> QED  BY <1>1, <1>2, <1>3, StepCases, HandlersKept

-----------------------------------------------------------------------------
(* Theorems                                                                *)

\* The server's state keeps its types: a descriptor the kernel hands out is
\* within the limit, and the poller's map names listening Sockets only.
THEOREM ServerTypes == SafetySpec => []TypeOK
<1>1. Inv => TypeOK
  BY DEF Inv
<1> QED  BY <1>1, InitInv, InvInduction, PTL DEF SafetySpec

\* Every accepted client leaks exactly one descriptor and nothing else does;
\* all others belong to one live Socket each, however numbers are reused.
THEOREM DescriptorsAreExact == SafetySpec => []DescriptorsExact
<1>1. Init => LeakInv
  <2> SUFFICES ASSUME Init  PROVE LeakInv
    OBVIOUS
  <2>1. Open("leaked") = {} /\ Accepts = {}
    BY FdTypes DEF Init, Open, Accepts
  <2> QED  BY <2>1 DEF LeakInv
<1>2. Inv /\ LeakInv => DescriptorsExact
  <2> SUFFICES ASSUME Inv, LeakInv  PROVE DescriptorsExact
    OBVIOUS
  <2>1. Cardinality(Open("leaked"))
          = Cardinality({c \in Clients : client[c].st \in {"handled", "done"}})
    BY DEF LeakInv, Accepts
  <2>2. \A f \in Open("conn") : \E c \in Clients : client[c].fd = f
    BY DEF Inv, ConnInv, Open
  <2>3. \A f \in Open("listen") : m_fd[fds[f].of] = f
    BY DEF Inv, ListenInv, Open
  <2>4. \A f \in Open("new") :
            call[fds[f].of].new = f /\ pc[fds[f].of] \in {"wait", "woken"}
    BY DEF Inv, NewInv, Open
  <2>5. \A c \in Clients : client[c].st = "handled"
            => /\ fds[client[c].fd].use = "conn" /\ fds[client[c].fd].rcv
               /\ \A d \in Clients \ {c} : client[d].fd # client[c].fd
    BY DEF Inv, ConnInv
  <2>6. \A i \in m_socket_vec : fds[m_fd[i]].use = "listen" /\ fds[m_fd[i]].of = i
    <3>1. m_socket_vec \subseteq Listeners
      BY DEF Inv, TypeOK, Listeners
    <3> QED  BY <3>1 DEF Inv, ListenInv
  <2> QED  BY <2>1, <2>2, <2>3, <2>4, <2>5, <2>6 DEF DescriptorsExact
<1> QED  BY <1>1, <1>2, InitInv, InvInduction, LeakInduction, PTL DEF SafetySpec

\* The blocking mode a handler asked for is the one it sees and the one the
\* kernel has, whatever other handlers, accepts and closes do in between.
THEOREM ModesAreKept == SafetySpec => []ModeKept
<1>1. Init => ModeKept
  BY DEF Init, ModeKept
<1> QED  BY <1>1, InitInv, InvInduction, ModeInduction, PTL DEF SafetySpec

\* An accept task takes at most one connection of a socket that is not its own.
THEOREM OneTheft == SafetySpec => []StealsOnce
<1>1. Init => StealInv
  BY DEF Init, StealInv, Listeners
<1>2. StealInv => StealsOnce
  <2> SUFFICES ASSUME StealInv, NEW i \in Listeners
               PROVE  Cardinality({c \in Clients : client[c].by = i /\ client[c].of # i}) <= 1
    BY DEF StealsOnce
  <2> DEFINE S == {c \in Clients : client[c].by = i /\ client[c].of # i}
  <2>1. CASE S = {}
    BY <2>1, FS_EmptySet
  <2>2. CASE S # {}
    <3>1. PICK c : c \in S
      BY <2>2
    <3>2. S = {c}
      BY <3>1 DEF StealInv
    <3>3. Cardinality({c}) = 1
      BY FS_Singleton
    <3> QED  BY <3>2, <3>3
  <2> QED  BY <2>1, <2>2
<1> QED  BY <1>1, <1>2, InitInv, InvInduction, StealInduction, PTL DEF SafetySpec

\* stop() strands every accept task that waits, and the descriptor it holds.
THEOREM WaitersAreLost == SafetySpec => StopLosesWaiters
<1> DEFINE A == m_started /\ ~m_started'
                  => \A i \in m_socket_vec : pc[i] = "wait"
                       => /\ pc'[i] = "wait"
                          /\ \A f \in Fds : channelMap'[f] # i
                          /\ fds'[call[i].new].use = "new"
<1>1. ASSUME Inv, [Next]_vars  PROVE [A]_vars
  <2> SUFFICES ASSUME m_started, ~m_started', NEW i \in m_socket_vec, pc[i] = "wait"
               PROVE  /\ pc'[i] = "wait"
                      /\ \A f \in Fds : channelMap'[f] # i
                      /\ fds'[call[i].new].use = "new"
    OBVIOUS
  <2>1. stop /\ Closing(m_socket_vec)
    <3>1. ASSUME NEW j \in Listeners, acceptRound(j) \/ acceptAgain(j) \/ poll(j)
          PROVE  m_started' = m_started
      BY <3>1 DEF acceptRound, acceptEnds, acceptAgain, poll, TryAccept, Accepted, Held,
                  Crash, serverVars
    <3>2. ASSUME NEW c \in Clients, connect(c) \/ handled(c)
          PROVE  m_started' = m_started
      BY <3>2 DEF connect, handled, serverVars
    <3>3. ASSUME NEW c \in Clients, NEW how \in Modes, setMode(c, how)
          PROVE  m_started' = m_started
      BY <3>3 DEF setMode, serverVars
    <3>4. ASSUME bind \/ bindFails \/ UNCHANGED vars
          PROVE  m_started' = m_started
      BY <3>4 DEF bind, bindFails, vars, serverVars
    <3>5. ~start
      BY DEF start
    <3>6. stop
      BY <1>1, <3>1, <3>2, <3>3, <3>4, <3>5 DEF Next
    <3> QED  BY <1>1, <3>6, StopCloses
  <2>2. i \in Listeners /\ i # Nobody
    BY <1>1 DEF Inv, TypeOK, Listeners, Nobody
  <2>3. m_fd[i] \in Fds /\ fds[m_fd[i]].use = "listen" /\ fds[m_fd[i]].of = i /\ m_fd[i] # NoFd
    BY <1>1, <2>2 DEF Inv, ListenInv
  <2>4. ASSUME NEW f \in Fds, channelMap'[f] = i  PROVE FALSE
    <3>1. channelMap[f] = i
      BY <1>1, <2>1, <2>2, <2>4, CloseEffect
    <3>2. f = m_fd[i]
      BY <1>1, <2>2, <2>3, <3>1 DEF Inv, ChannelInv
    <3> QED  BY <1>1, <2>1, <2>2, <2>3, <2>4, <3>1, <3>2, CloseEffect
  <2>5. call[i].new \in Fds /\ fds[call[i].new].use = "new"
    BY <1>1, <2>2 DEF Inv, NewInv
  <2>6. fds'[call[i].new].use = "new" /\ pc' = pc
    BY <1>1, <2>1, <2>5, CloseEffect DEF stop, taskVars
  <2> QED  BY <2>4, <2>6
<1>2. SafetySpec => []Inv
  BY InitInv, InvInduction, PTL DEF SafetySpec
<1>3. StopLosesWaiters <=> [][A]_vars
  BY DEF StopLosesWaiters
<1> HIDE DEF A
<1> QED  BY <1>1, <1>2, <1>3, PTL DEF SafetySpec

\* A channel the poller knows belongs to a listening Socket that is closed or
\* has this descriptor.
LEMMA ChannelOwner ==
    ASSUME Inv, NEW f \in Fds, channelMap[f] # Nobody
    PROVE  channelMap[f] \in Listeners /\ m_fd[channelMap[f]] \in {NoFd, f}
<1>1. channelMap[f] \in 0..MaxListeners
  BY DEF Inv, TypeOK
<1>2. channelMap[f] \in Listeners
  BY <1>1 DEF Listeners, Nobody
<1>3. m_fd[channelMap[f]] \in {NoFd, f}
  BY DEF Inv, ChannelInv
<1> QED  BY <1>2, <1>3

\* The three ways the server's process can end.
THEOREM CrashCauses == SafetySpec => CrashOnlyAfterStopOrFull
<1> DEFINE Cause ==
             \/ Cardinality(FreeFds(fds)) < 2
             \/ \E i \in Listeners : pc[i] \in {"loop", "woken"} /\ m_fd[i] = NoFd
             \/ \E i \in Listeners, f \in Fds : channelMap[f] = i /\ m_fd[i] = NoFd
           A == crashed' /\ ~crashed => Cause
<1>1. ASSUME Inv, NEW i \in Listeners, acceptRound(i), crashed', ~crashed  PROVE Cause
  <2> DEFINE a == Lowest(fds)
             t == IF a = NoFd THEN fds ELSE [fds EXCEPT ![a] = Created("new", i)]
             s == m_fd[i]
  <2>1. TryAccept(i, t, s, a) /\ pc[i] = "loop"
    BY <1>1 DEF acceptRound, acceptEnds
  <2>2. CASE s = NoFd
    BY <2>1, <2>2
  <2>3. CASE s # NoFd /\ FreeFds(fds) = {}
    BY <2>3, FS_EmptySet
  <2>4. CASE s # NoFd /\ FreeFds(fds) # {}
    <3>1. a \in Fds /\ fds[a] = Free /\ a # NoFd
      BY <2>4, LowestFree
    <3>2. s \in Fds /\ fds[s].use = "listen" /\ fds[s].of = i
      BY <1>1, <2>4 DEF Inv, ListenInv
    <3>3. t = [fds EXCEPT ![a] = Created("new", i)]
      BY <3>1
    <3>4. fds \in [Fds -> FdStates] /\ i \in 0..MaxListeners
      BY <1>1 DEF Inv, TypeOK, Listeners
    <3> HIDE DEF a, t, s
    <3>5. t[s].use = "listen" /\ s # a
      BY <3>1, <3>2, <3>3, <3>4, FdTypes
    <3>6. CASE Lowest(t) = NoFd
      <4>1. FreeFds(t) = {}
        BY <3>6, LowestFree
      <4>2. FreeFds(fds) = {a}
        BY <3>1, <3>3, <3>4, <4>1 DEF FreeFds
      <4>3. Cardinality({a}) = 1
        BY FS_Singleton
      <4> QED  BY <4>2, <4>3
    <3>7. CASE Lowest(t) # NoFd
      <4>1. channelMap[s] \notin {Nobody, i}
        <5>1. ~Accepted(i, t, s, a) /\ ~Held(i, t, s, a)
          BY <1>1 DEF Accepted, Held
        <5> QED  BY <2>1, <2>4, <3>5, <3>7, <5>1 DEF TryAccept
      <4>2. channelMap[s] \in Listeners /\ m_fd[channelMap[s]] \in {NoFd, s}
        BY <1>1, <3>2, <4>1, ChannelOwner
      <4>3. m_fd[channelMap[s]] # s
        BY <1>1, <2>4, <3>2, <4>1, <4>2 DEF Inv, ListenInv
      <4> QED  BY <3>2, <4>2, <4>3
    <3> QED  BY <3>6, <3>7
  <2> QED  BY <2>2, <2>3, <2>4
<1>2. ASSUME Inv, NEW i \in Listeners, acceptAgain(i), crashed', ~crashed  PROVE Cause
  <2> DEFINE s == call[i].s
  <2>1. TryAccept(i, fds, s, call[i].new) /\ pc[i] = "woken"
    BY <1>2 DEF acceptAgain
  <2>2. CASE m_fd[i] = NoFd
    BY <2>1, <2>2
  <2>3. CASE FreeFds(fds) = {}
    BY <2>3, FS_EmptySet
  <2>4. CASE m_fd[i] # NoFd /\ FreeFds(fds) # {}
    <3>1. s \in Fds /\ s = m_fd[i] /\ s # NoFd
      BY <1>2, <2>1, <2>4 DEF Inv, ChannelInv
    <3>2. fds[s].use = "listen" /\ fds[s].of = i
      BY <1>2, <2>4, <3>1 DEF Inv, ListenInv
    <3>3. Lowest(fds) # NoFd
      BY <2>4, LowestFree
    <3> HIDE DEF s
    <3>4. channelMap[s] \notin {Nobody, i}
      <4>1. ~Accepted(i, fds, s, call[i].new) /\ ~Held(i, fds, s, call[i].new)
        BY <1>2 DEF Accepted, Held
      <4> QED  BY <2>1, <3>1, <3>2, <3>3, <4>1 DEF TryAccept
    <3>5. channelMap[s] \in Listeners /\ m_fd[channelMap[s]] \in {NoFd, s}
      BY <1>2, <3>1, <3>4, ChannelOwner
    <3>6. m_fd[channelMap[s]] # s
      BY <1>2, <3>1, <3>2, <3>4, <3>5 DEF Inv, ListenInv
    <3> QED  BY <3>1, <3>5, <3>6
  <2> QED  BY <2>2, <2>3, <2>4
<1>3. ASSUME Inv, [Next]_vars  PROVE [A]_vars
  <2> SUFFICES ASSUME crashed', ~crashed  PROVE Cause
    OBVIOUS
  <2> HIDE DEF Cause
  <2>1. ~(UNCHANGED crashed)
    OBVIOUS
  <2>2. ~(bind \/ bindFails \/ start \/ stop)
    BY <2>1 DEF bind, bindFails, start, stop
  <2>3. ~\E i \in Listeners : poll(i)
    BY <2>1 DEF poll
  <2>4. ~\E c \in Clients : connect(c) \/ handled(c)
    BY <2>1 DEF connect, handled
  <2>5. ~\E c \in Clients, how \in Modes : setMode(c, how)
    BY <2>1 DEF setMode
  <2>6. \E i \in Listeners : acceptRound(i) \/ acceptAgain(i)
    BY <1>3, <2>1, <2>2, <2>3, <2>4, <2>5 DEF Next, vars
  <2> QED  BY <1>1, <1>2, <1>3, <2>6
<1>4. SafetySpec => []Inv
  BY InitInv, InvInduction, PTL DEF SafetySpec
<1>5. CrashOnlyAfterStopOrFull <=> [][A]_vars
  BY DEF CrashOnlyAfterStopOrFull
<1> HIDE DEF A
<1> QED  BY <1>3, <1>4, <1>5, PTL DEF SafetySpec
=============================================================================
