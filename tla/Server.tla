------------------------------- MODULE Server -------------------------------
(***************************************************************************)
(* TcpServer (Server.cpp), the sockets it owns (Socket.cpp) and the        *)
(* descriptors behind them (FdInfo.cpp and the hooks of Hook.cpp).         *)
(*                                                                         *)
(* Accepter and worker are the same event loop with one thread, as the     *)
(* default arguments of the constructor give for a server made in a task   *)
(* of that loop.  Its tasks give way only where a hooked call holds them,  *)
(* so everything between two such points is one step; `cur' keeps the loop *)
(* while an accept task goes round without giving way.  Clients act at any *)
(* time.  A null pointer or a failed ASSERT ends the process: `crashed'.   *)
(*                                                                         *)
(* bind() may be called at any time; a socket bound to a started server    *)
(* has no accept task.  start() is not called again before stop(): a       *)
(* second call, which would give every socket one more accept task, is not *)
(* modelled.                                                               *)
(***************************************************************************)
EXTENDS Integers, Sequences, FiniteSetsExt

CONSTANTS
  Clients,
  MaxListeners,    \* bound: calls of bind()
  MaxFd            \* the limit on open descriptors

ASSUME ServerAssumption ==
  /\ MaxListeners \in Nat /\ MaxFd \in Nat
  /\ IsFiniteSet(Clients)

Listeners == 1..MaxListeners
Fds == 1..MaxFd
NoFd == 0                  \* m_fd = -1
Nobody == 0

VARIABLES
  fds,          \* every descriptor: its use in the kernel, and its FdInfo
  channelMap,   \* m_channel_map of the poller: whose channel a descriptor has
  bound,        \* how often bind() was called
  m_fd,         \* of every listening Socket
  m_socket_vec, \* the listening Sockets the server holds
  m_started,
  pc,           \* where the accept task of a listening Socket is
  call,         \* the arguments of its accept(): [s, new]
  cur,          \* the accept task that has the loop, or Nobody
  backlog,      \* the connections the kernel holds for a listening socket
  client,       \* every client: [st, fd, of, by]
  asked,        \* the blocking mode every handler last asked for
  crashed

serverVars == <<bound, m_fd, m_socket_vec, m_started>>
taskVars == <<pc, call, cur>>
vars == <<fds, channelMap, serverVars, taskVars, backlog, client, asked, crashed>>

\* A descriptor that is not open, and one from socket() or accept(): the
\* hooks make an FdInfo for it, whose constructor turns O_NONBLOCK on.
\* `nonblock' is the kernel's flag, `user' is m_userNonblock, and `rcv' says
\* whether m_recvTimeout is set.
Free == [use |-> "free", of |-> 0, nonblock |-> FALSE, user |-> FALSE, rcv |-> FALSE]
Created(use, of) ==
  [use |-> use, of |-> of, nonblock |-> TRUE, user |-> FALSE, rcv |-> FALSE]

FdStates == [use : {"free", "listen", "new", "conn", "leaked"}, of : 0..MaxListeners,
             nonblock : BOOLEAN, user : BOOLEAN, rcv : BOOLEAN]
ClientStates == [st : {"away", "backlog", "handled", "done", "reset"},
                 fd : 0..MaxFd, of : 0..MaxListeners, by : 0..MaxListeners]
Modes == {"fcntl on", "fcntl off", "ioctl on", "ioctl off"}

TypeOK ==
  /\ fds \in [Fds -> FdStates]
  /\ channelMap \in [Fds -> 0..MaxListeners]
  /\ bound \in 0..MaxListeners
  /\ m_fd \in [Listeners -> 0..MaxFd]
  /\ m_socket_vec \subseteq 1..bound
  /\ m_started \in BOOLEAN
  /\ pc \in [Listeners -> {"none", "loop", "wait", "woken", "done"}]
  /\ call \in [Listeners -> [s : 0..MaxFd, new : 0..MaxFd]]
  /\ cur \in 0..MaxListeners
  /\ backlog \in [Listeners -> Seq(Clients)]
  /\ client \in [Clients -> ClientStates]
  /\ asked \in [Clients -> Modes \cup {"block"}]
  /\ crashed \in BOOLEAN

\* The descriptor the kernel hands out next.
FreeFds(t) == {f \in Fds : t[f] = Free}
Lowest(t) == IF FreeFds(t) = {} THEN NoFd ELSE Min(FreeFds(t))

Init ==
  /\ fds = [f \in Fds |-> Free]
  /\ channelMap = [f \in Fds |-> Nobody]
  /\ bound = 0
  /\ m_fd = [i \in Listeners |-> NoFd]
  /\ m_socket_vec = {}
  /\ m_started = FALSE
  /\ pc = [i \in Listeners |-> "none"]
  /\ call = [i \in Listeners |-> [s |-> NoFd, new |-> NoFd]]
  /\ cur = Nobody
  /\ backlog = [i \in Listeners |-> <<>>]
  /\ client = [c \in Clients |-> [st |-> "away", fd |-> NoFd, of |-> 0, by |-> 0]]
  /\ asked = [c \in Clients |-> "block"]
  /\ crashed = FALSE

\* A step of a task of the loop, other than an accept task going round.
LoopFree == ~crashed /\ cur = Nobody

Crash == crashed' = TRUE
         /\ UNCHANGED <<fds, channelMap, serverVars, taskVars, backlog, client, asked>>

------------------------------------------------------------------------------
(* The server *)

\* Socket::close of the listening Sockets in S: the hooked close() takes the
\* channel from the poller if it has this one, drops the FdInfo and closes
\* the descriptor.  clearEvent() comes first, so the close() of the channel
\* finds no event and wakes nobody.  The kernel resets what is in the backlog.
CloseListeners(S) ==
  LET closed == {f \in Fds : fds[f].use = "listen" /\ fds[f].of \in S}
  IN /\ fds' = [f \in Fds |-> IF f \in closed THEN Free ELSE fds[f]]
     /\ channelMap' = [f \in Fds |-> IF f \in closed /\ channelMap[f] = fds[f].of
                                     THEN Nobody ELSE channelMap[f]]
     /\ m_fd' = [i \in Listeners |-> IF i \in S THEN NoFd ELSE m_fd[i]]
     /\ backlog' = [i \in Listeners |-> IF i \in S THEN <<>> ELSE backlog[i]]
     /\ client' = [c \in Clients |->
                     IF client[c].st = "backlog" /\ client[c].of \in S
                     THEN [client[c] EXCEPT !.st = "reset"] ELSE client[c]]

\* bind(addr) that succeeds: a Socket, bind() and listen().
bind ==
  LET i == bound + 1
      a == Lowest(fds)
  IN /\ LoopFree /\ bound < MaxListeners
     /\ a # NoFd
     /\ fds' = [fds EXCEPT ![a] = Created("listen", i)]
     /\ m_fd' = [m_fd EXCEPT ![i] = a]
     /\ m_socket_vec' = m_socket_vec \union {i}
     /\ bound' = i
     /\ UNCHANGED <<channelMap, m_started, taskVars, backlog, client, asked, crashed>>

\* bind(addr) that fails: the new Socket is destroyed, and so are the ones
\* earlier calls had bound, except those an accept task also refers to.
bindFails ==
  /\ LoopFree /\ bound < MaxListeners
  /\ CloseListeners({i \in m_socket_vec : pc[i] = "none"})
  /\ m_socket_vec' = {}
  /\ bound' = bound + 1
  /\ UNCHANGED <<m_started, taskVars, asked, crashed>>

\* start(): an accept task for every listening Socket.
start ==
  /\ LoopFree /\ ~m_started
  /\ m_started' = TRUE
  /\ pc' = [i \in Listeners |-> IF i \in m_socket_vec THEN "loop" ELSE pc[i]]
  /\ UNCHANGED <<fds, channelMap, bound, m_fd, m_socket_vec, call, cur, backlog,
                 client, asked, crashed>>

\* Mutant of stop: the channels are closed before their events are cleared.
stopWakes ==
  /\ LoopFree /\ m_started
  /\ m_started' = FALSE
  /\ CloseListeners(m_socket_vec)
  /\ m_socket_vec' = {}
  /\ pc' = [i \in Listeners |-> IF pc[i] = "wait" THEN "woken" ELSE pc[i]]
  /\ UNCHANGED <<bound, call, cur, asked, crashed>>

\* stop(): returns at once when not started.
stop ==
  /\ LoopFree /\ m_started
  /\ m_started' = FALSE
  /\ CloseListeners(m_socket_vec)
  /\ m_socket_vec' = {}
  /\ UNCHANGED <<bound, taskVars, asked, crashed>>

------------------------------------------------------------------------------
(* The accept task: TcpServer::accept, Socket::accept and the hooked accept() *)

\* accept() takes a connection.  The Socket that was made before the call is
\* given the new descriptor by init(), and the one it had stays open.  Then
\* setRecvTimeout, and a task for the client.
Accepted(i, t, s, new) ==
  LET of == t[s].of
      c == Head(backlog[of])
      b == Lowest(t)
      t2 == [t EXCEPT ![b] = [Created("conn", 0) EXCEPT !.rcv = TRUE]]
  IN /\ fds' = [t2 EXCEPT ![new].use = "leaked"]
     /\ backlog' = [backlog EXCEPT ![of] = Tail(@)]
     /\ client' = [client EXCEPT ![c] = [st |-> "handled", fd |-> b, of |-> of, by |-> i]]
     /\ pc' = [pc EXCEPT ![i] = "loop"]
     /\ cur' = i
     /\ UNCHANGED <<channelMap, serverVars, call, asked, crashed>>

\* Mutant of Held: the task is held without a channel.
HeldUnregistered(i, t, s, new) ==
  /\ channelMap[s] \in {Nobody, i}
  /\ fds' = t
  /\ pc' = [pc EXCEPT ![i] = "wait"]
  /\ call' = [call EXCEPT ![i] = [s |-> s, new |-> new]]
  /\ cur' = Nobody
  /\ UNCHANGED <<channelMap, serverVars, backlog, client, asked, crashed>>

\* There is none: do_io registers the channel and holds the task.  The poller
\* asserts that a channel it does not know finds no other in its place.
Held(i, t, s, new) ==
  /\ channelMap[s] \in {Nobody, i}
  /\ channelMap' = [channelMap EXCEPT ![s] = i]
  /\ fds' = t
  /\ pc' = [pc EXCEPT ![i] = "wait"]
  /\ call' = [call EXCEPT ![i] = [s |-> s, new |-> new]]
  /\ cur' = Nobody
  /\ UNCHANGED <<serverVars, backlog, client, asked, crashed>>

\* Mutant of TryAccept: the poller takes no channel a second time.
TryAcceptStrict(i, t, s, new) ==
  IF s = NoFd \/ Lowest(t) = NoFd THEN Crash
  ELSE IF t[s].use # "listen" THEN Crash
  ELSE \/ backlog[t[s].of] # <<>> /\ Accepted(i, t, s, new)
       \/ backlog[t[s].of] = <<>> /\ channelMap[s] = Nobody /\ Held(i, t, s, new)
       \/ backlog[t[s].of] = <<>> /\ channelMap[s] # Nobody /\ Crash

\* accept_f(s), with t the descriptors and `new' the one of the Socket made
\* for the client.  It fails on anything but a listening socket, and when no
\* descriptor is left, whether or not there is a connection; Socket::accept
\* then returns no Socket, and the loop asks it for its peer address.
TryAccept(i, t, s, new) ==
  IF s = NoFd \/ Lowest(t) = NoFd THEN Crash
  ELSE IF t[s].use # "listen" THEN Crash
  ELSE \/ backlog[t[s].of] # <<>> /\ Accepted(i, t, s, new)
       \/ backlog[t[s].of] = <<>> /\ Held(i, t, s, new)
       \/ backlog[t[s].of] = <<>> /\ channelMap[s] \notin {Nobody, i} /\ Crash

\* The task ends and gives up its Socket, which is closed unless stop() has
\* closed it or the server still holds it.
acceptEnds(i) ==
  /\ CloseListeners({i} \ m_socket_vec)
  /\ pc' = [pc EXCEPT ![i] = "done"]
  /\ cur' = Nobody
  /\ UNCHANGED <<bound, m_socket_vec, m_started, call, asked, crashed>>

\* Mutant of acceptRound: a closed Socket keeps the number of its descriptor.
acceptRoundStale(i) ==
  LET a == Lowest(fds)
      t == IF a = NoFd THEN fds ELSE [fds EXCEPT ![a] = Created("new", i)]
  IN /\ ~crashed /\ cur \in {Nobody, i} /\ pc[i] = "loop"
     /\ \/ ~m_started /\ acceptEnds(i)
        \/ m_started /\ TryAccept(i, t, IF m_fd[i] = NoFd THEN 1 ELSE m_fd[i], a)

\* One round of while (m_started): a Socket, then its accept().
acceptRound(i) ==
  LET a == Lowest(fds)
      t == IF a = NoFd THEN fds ELSE [fds EXCEPT ![a] = Created("new", i)]
  IN /\ ~crashed /\ cur \in {Nobody, i} /\ pc[i] = "loop"
     /\ \/ ~m_started /\ acceptEnds(i)
        \/ m_started /\ TryAccept(i, t, m_fd[i], a)

\* The poller reports a connection to the channel's task.
poll(i) ==
  /\ LoopFree /\ pc[i] = "wait"
  /\ channelMap[call[i].s] = i
  /\ fds[call[i].s].use = "listen" /\ backlog[fds[call[i].s].of] # <<>>
  /\ pc' = [pc EXCEPT ![i] = "woken"]
  /\ UNCHANGED <<fds, channelMap, serverVars, call, cur, backlog, client, asked, crashed>>

\* do_io goes on with the number of the descriptor it was called with.
acceptAgain(i) ==
  /\ LoopFree /\ pc[i] = "woken"
  /\ TryAccept(i, fds, call[i].s, call[i].new)

------------------------------------------------------------------------------
(* Clients and their handlers *)

connect(c) ==
  \E i \in Listeners :
    /\ ~crashed /\ client[c].st = "away" /\ m_fd[i] # NoFd
    /\ backlog' = [backlog EXCEPT ![i] = Append(@, c)]
    /\ client' = [client EXCEPT ![c].st = "backlog", ![c].of = i]
    /\ UNCHANGED <<fds, channelMap, serverVars, taskVars, asked, crashed>>

\* Mutant of handled: the Socket is not closed.
handledOpen(c) ==
  /\ LoopFree /\ client[c].st = "handled"
  /\ client' = [client EXCEPT ![c].st = "done", ![c].fd = NoFd]
  /\ UNCHANGED <<fds, channelMap, serverVars, taskVars, backlog, asked, crashed>>

\* The handler returns and its Socket is closed.
handled(c) ==
  /\ LoopFree /\ client[c].st = "handled"
  /\ fds' = [fds EXCEPT ![client[c].fd] = Free]
  /\ client' = [client EXCEPT ![c].st = "done", ![c].fd = NoFd]
  /\ UNCHANGED <<channelMap, serverVars, taskVars, backlog, asked, crashed>>

\* Mutant of setMode: fcntl passes the mode on as well.
setModeThrough(c, how) ==
  LET f == client[c].fd
      on == how \in {"fcntl on", "ioctl on"}
  IN /\ LoopFree /\ client[c].st = "handled"
     /\ fds' = [fds EXCEPT ![f].user = on, ![f].nonblock = on]
     /\ asked' = [asked EXCEPT ![c] = how]
     /\ UNCHANGED <<channelMap, serverVars, taskVars, backlog, client, crashed>>

\* The handler asks for a mode of its socket.  fcntl(F_SETFL) keeps the
\* kernel's flag as the hooks need it; ioctl(FIONBIO) passes the mode on.
setMode(c, how) ==
  LET f == client[c].fd
      on == how \in {"fcntl on", "ioctl on"}
  IN /\ LoopFree /\ client[c].st = "handled"
     /\ fds' = [fds EXCEPT ![f].user = on,
                           ![f].nonblock = IF how = "ioctl off" THEN FALSE ELSE TRUE]
     /\ asked' = [asked EXCEPT ![c] = how]
     /\ UNCHANGED <<channelMap, serverVars, taskVars, backlog, client, crashed>>

\* fcntl(f, F_GETFL), as to O_NONBLOCK.
getMode(f) == fds[f].user

------------------------------------------------------------------------------
Next ==
  \/ bind \/ bindFails \/ start \/ stop
  \/ \E i \in Listeners : acceptRound(i) \/ poll(i) \/ acceptAgain(i)
  \/ \E c \in Clients : connect(c) \/ handled(c)
  \/ \E c \in Clients, how \in Modes : setMode(c, how)

\* The loop runs its tasks and polls as long as there is something to do.  A
\* handler need not end: its client may keep it for ever.
Fairness ==
  \A i \in Listeners :
    WF_vars(acceptRound(i)) /\ WF_vars(poll(i)) /\ WF_vars(acceptAgain(i))

SafetySpec == Init /\ [][Next]_vars
Spec == SafetySpec /\ Fairness

------------------------------------------------------------------------------
(* Properties *)

Open(use) == {f \in Fds : fds[f].use = use}

\* Every client that was ever accepted has cost one descriptor that is never
\* closed, the one of the Socket made before accept(); nothing else stays
\* open: the other descriptors are those of live Sockets.  And no two Sockets
\* have the same descriptor, however numbers are reused: what a handler or
\* stop() closes is its own.
DescriptorsExact ==
  /\ Cardinality(Open("leaked"))
       = Cardinality({c \in Clients : client[c].st \in {"handled", "done"}})
  /\ \A f \in Open("conn") : \E c \in Clients : client[c].fd = f
  /\ \A f \in Open("listen") : m_fd[fds[f].of] = f
  /\ \A f \in Open("new") : call[fds[f].of].new = f /\ pc[fds[f].of] \in {"wait", "woken"}
  /\ \A c \in Clients : client[c].st = "handled"
        => /\ fds[client[c].fd].use = "conn" /\ fds[client[c].fd].rcv
           /\ \A d \in Clients \ {c} : client[d].fd # client[c].fd
  /\ \A i \in m_socket_vec : fds[m_fd[i]].use = "listen" /\ fds[m_fd[i]].of = i

\* What ends the process: the descriptors are used up, or stop() closed the
\* listening socket of an accept task that will run again, or such a task has
\* left its channel with the poller under a number that is in use again.
\* accept() on a socket that is open never does.
CrashOnlyAfterStopOrFull ==
  [][crashed' /\ ~crashed
       => \/ Cardinality(FreeFds(fds)) < 2
          \/ \E i \in Listeners : pc[i] \in {"loop", "woken"} /\ m_fd[i] = NoFd
          \/ \E i \in Listeners, f \in Fds : channelMap[f] = i /\ m_fd[i] = NoFd]_vars

\* A connection to a socket with an accept task is taken, or reset because the
\* socket is closed, however many accept tasks and handlers share the loop and
\* however long the handlers stay.  A socket that was bound after start() has
\* no such task, and its clients wait for ever.
ClientsServed ==
  \A c \in Clients :
    client[c].st = "backlog" /\ m_started /\ pc[client[c].of] # "none"
      ~> client[c].st # "backlog" \/ crashed

\* A task takes connections from its own socket, except for one: when stop()
\* closed its socket while it was about to accept, and a later bind() got the
\* number that it still uses.  After that it has ended, or the process has.
StealsOnce ==
  \A i \in Listeners :
    Cardinality({c \in Clients : client[c].by = i /\ client[c].of # i}) <= 1

\* stop() loses the accept tasks that wait: closing a socket wakes nobody and
\* takes its channel from the poller, so such a task never runs again, never
\* sees m_started, and keeps the descriptor of the Socket it has made.
StopLosesWaiters ==
  [][m_started /\ ~m_started'
       => \A i \in m_socket_vec : pc[i] = "wait"
            => /\ pc'[i] = "wait"
               /\ \A f \in Fds : channelMap'[f] # i
               /\ fds'[call[i].new].use = "new"]_vars

\* What a handler asked for is what fcntl(F_GETFL) shows it, and the kernel
\* never blocks the thread of the loop in a call on the socket, unless it was
\* asked for with ioctl(FIONBIO).
ModeKept ==
  \A c \in Clients : client[c].st = "handled" =>
    /\ getMode(client[c].fd) = (asked[c] \in {"fcntl on", "ioctl on"})
    /\ ~fds[client[c].fd].nonblock <=> asked[c] = "ioctl off"
==============================================================================
