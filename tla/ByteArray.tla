------------------------------ MODULE ByteArray ------------------------------
(***************************************************************************)
(* ByteArray (net/ByteArray.cpp) and the two SocketStream operations that  *)
(* lend its memory to the kernel.                                          *)
(*                                                                         *)
(* The memory is a list of nodes of BaseSize bytes.  Each of the two       *)
(* pointers is a position in the stream of bytes and a node: every loop of *)
(* the code starts at the node, at the offset pos % BaseSize, and walks    *)
(* the list.  A node is its number in the list (m_root is 1), 0 is         *)
(* nullptr, and the byte at offset o of node c has the address             *)
(* (c - 1) * BaseSize + o.  A null pointer that the code dereferences ends *)
(* the process: `failed'.                                                  *)
(*                                                                         *)
(* A byte is stamped with the position it was written at, so one that is   *)
(* lost, repeated or moved shows; one that was not written since the last  *)
(* clear() is Junk.  Typed values are encoded by ByteCodec.                *)
(***************************************************************************)
EXTENDS ByteCodec

CONSTANTS
  BaseSize,      \* m_baseSize
  MaxPos,        \* bound: how far the write position goes before a clear()
  MaxLen,        \* bound: the largest request
  MaxString      \* bound: the longest string

ASSUME ByteArrayAssumption ==
  /\ BaseSize \in Nat \ {0}
  /\ MaxPos \in Nat /\ MaxLen \in Nat /\ MaxString \in Nat

VARIABLES
  m_writePos, m_readPos,   \* [pos, cur]
  m_capacity,
  nodes,                   \* the length of the list from m_root
  mem,                     \* the byte at each address, or Junk
  iov,                     \* the loan to recvmsg or sendmsg: [dir, from, len]
  typed,                   \* the typed value in the array: [kind, v, at]
  got,                     \* what reading it returned
  moved, failed            \* as in ByteQueue

pointers == <<m_writePos, m_readPos, m_capacity, nodes, mem>>
vars == <<m_writePos, m_readPos, m_capacity, nodes, mem, iov, typed, got,
          moved, failed>>

nullptr == 0
\* A byte: the position it was written at, and what it is when it encodes a
\* value.
Junk == <<0, 0>>
None == [kind |-> "none"]
NoLoan == [dir |-> "none", from |-> 0, len |-> 0]

Init ==
  /\ m_writePos = [pos |-> 0, cur |-> 1]
  /\ m_readPos = [pos |-> 0, cur |-> 1]
  /\ m_capacity = BaseSize
  /\ nodes = 1
  /\ mem = [a \in 0..(BaseSize - 1) |-> Junk]
  /\ iov = NoLoan
  /\ typed = None /\ got = None
  /\ moved = <<>> /\ failed = FALSE

------------------------------------------------------------------------------
(* Walking the list *)

getReadSize == m_writePos.pos - m_readPos.pos

\* The address a loop that starts at pointer p begins with.
Address(p) == (p.cur - 1) * BaseSize + (p.pos % BaseSize)

\* A loop over n bytes from p dereferences no null pointer when the list has
\* `count' nodes.  Even a loop over no bytes reads p.cur->size first.
Reaches(p, n, count) ==
  p.cur # nullptr /\ Address(p) + n <= count * BaseSize

\* Where the loop leaves p: it goes to the next node as soon as the last byte
\* of one is taken, which is nullptr behind the last node.
Advance(p, n, count) ==
  LET c == p.cur + ((p.pos % BaseSize) + n) \div BaseSize
  IN [pos |-> p.pos + n, cur |-> IF c > count THEN nullptr ELSE c]

\* The n bytes from address a on.
Bytes(a, n) == [i \in 1..n |-> mem[a + i - 1]]

------------------------------------------------------------------------------
(* Writing: functions of what a write changes *)

Store == [w |-> m_writePos, cap |-> m_capacity, nodes |-> nodes, mem |-> mem]
Broken == [w |-> nullptr]  \* after a null pointer

\* Mutant of addCapacity: room is compared with >, so a request that fits
\* exactly adds a node.
addCapacityEager(st, size) ==
  LET old_cap == st.cap - st.w.pos
      count == (size - old_cap) \div BaseSize + 1
      kept == st.w.cur * BaseSize
  IN IF old_cap > size THEN st
     ELSE IF st.w.cur = nullptr THEN Broken
     ELSE [w |-> st.w,
           cap |-> st.cap + count * BaseSize,
           nodes |-> st.w.cur + count,
           mem |-> [a \in 0..(kept + count * BaseSize - 1) |->
                      IF a < kept THEN st.mem[a] ELSE Junk]]

\* addCapacity(size): the new nodes are hung behind the node written to,
\* whatever was there, and m_capacity counts them on top of the old.
addCapacity(st, size) ==
  LET old_cap == st.cap - st.w.pos
      count == (size - old_cap + BaseSize - 1) \div BaseSize
      kept == st.w.cur * BaseSize
  IN IF old_cap >= size THEN st
     ELSE IF st.w.cur = nullptr THEN Broken
     ELSE [w |-> IF old_cap = 0 THEN [st.w EXCEPT !.cur = @ + 1] ELSE st.w,
           cap |-> st.cap + count * BaseSize,
           nodes |-> st.w.cur + count,
           mem |-> [a \in 0..(kept + count * BaseSize - 1) |->
                      IF a < kept THEN st.mem[a] ELSE Junk]]

\* addCapacity(size) and the check of the walk over that many bytes.
Room(st, size) ==
  LET g == addCapacity(st, size)
  IN IF g = Broken \/ ~Reaches(g.w, size, g.nodes) THEN Broken ELSE g

\* write(buf, size) of the bytes b; with size 0 it returns at once.
Written(st, b) ==
  LET g == Room(st, Len(b))
      a == Address(g.w)
  IN IF st = Broken \/ b = <<>> THEN st
     ELSE IF g = Broken THEN Broken
     ELSE [g EXCEPT !.w = Advance(g.w, Len(b), g.nodes),
                    !.mem = [x \in DOMAIN g.mem |->
                               IF x \in a..(a + Len(b) - 1) THEN b[x - a + 1]
                               ELSE g.mem[x]]]

------------------------------------------------------------------------------
(* Operations *)

Ready == ~failed /\ iov = NoLoan

Crash == failed' = TRUE
         /\ UNCHANGED <<pointers, iov, typed, got, moved>>

\* The state after writes that end in st.
Stored(st) ==
  /\ st # Broken
  /\ m_writePos' = st.w /\ m_capacity' = st.cap /\ nodes' = st.nodes /\ mem' = st.mem

\* n bytes from outside, stamped with the positions they will have.
Fresh(n) == [i \in 1..n |-> <<m_writePos.pos + i, 0>>]

\* write(buf, n), n > 0.
write(n) ==
  LET st == Written(Store, Fresh(n))
  IN /\ Ready /\ m_writePos.pos + n <= MaxPos
     /\ \/ /\ Stored(st) /\ moved' = Fresh(n)
           /\ UNCHANGED <<m_readPos, iov, typed, got, failed>>
        \/ st = Broken /\ Crash

\* fromFile of a file of n bytes: a write of BaseSize bytes until the end of
\* the file, the last one shorter.  A file that cannot be opened changes
\* nothing.
fromFile(n) ==
  LET pieces == [i \in 1..((n + BaseSize - 1) \div BaseSize) |->
                   SubSeq(Fresh(n), (i - 1) * BaseSize + 1, Min({i * BaseSize, n}))]
      st == FoldLeft(Written, Store, pieces)
  IN /\ Ready /\ m_writePos.pos + n <= MaxPos
     /\ \/ /\ Stored(st) /\ moved' = Fresh(n)
           /\ UNCHANGED <<m_readPos, iov, typed, got, failed>>
        \/ st = Broken /\ Crash

\* read(buf, size).  More than getReadSize() throws and changes nothing.
Get(n) ==
  /\ Reaches(m_readPos, n, nodes)
  /\ moved' = Bytes(Address(m_readPos), n)
  /\ m_readPos' = Advance(m_readPos, n, nodes)

read(n) ==
  /\ Ready /\ n <= getReadSize
  /\ \/ /\ Get(n)
        /\ UNCHANGED <<m_writePos, m_capacity, nodes, mem, iov, typed, got, failed>>
     \/ ~Reaches(m_readPos, n, nodes) /\ Crash

clear ==
  /\ Ready
  /\ m_writePos' = [pos |-> 0, cur |-> 1]
  /\ m_readPos' = [pos |-> 0, cur |-> 1]
  /\ m_capacity' = BaseSize
  /\ nodes' = 1
  /\ mem' = [a \in 0..(BaseSize - 1) |-> Junk]
  /\ typed' = None /\ got' = None
  /\ moved' = <<>>
  /\ UNCHANGED <<iov, failed>>

\* SocketStream::resv(ba, n) up to the call of recvmsg: getWriteBuffers.
resv(n) ==
  LET st == Room(Store, n)
  IN /\ Ready /\ m_writePos.pos + n <= MaxPos
     /\ \/ /\ Stored(st)
           /\ iov' = [dir |-> "recv", from |-> Address(st.w), len |-> n]
           /\ moved' = <<>>
           /\ UNCHANGED <<m_readPos, typed, got, failed>>
        \/ st = Broken /\ Crash

\* recvmsg filled k bytes of the loan, or none (an error, or the end of the
\* stream), and addWritePosition(k) follows.
Received(k) ==
  /\ ~failed /\ iov.dir = "recv" /\ k <= iov.len
  /\ iov' = NoLoan
  /\ IF k = 0
     THEN UNCHANGED <<m_writePos, mem, moved>>
     ELSE /\ mem' = [x \in DOMAIN mem |->
                       IF x \in iov.from..(iov.from + k - 1)
                       THEN Fresh(k)[x - iov.from + 1] ELSE mem[x]]
          /\ m_writePos' = Advance(m_writePos, k, nodes)
          /\ moved' = Fresh(k)
  /\ UNCHANGED <<m_readPos, m_capacity, nodes, typed, got, failed>>

\* SocketStream::send(ba, n) up to sendmsg: getReadBuffers, cut to what there
\* is.  With nothing to read the list of buffers is empty.
send(n) ==
  /\ Ready /\ getReadSize > 0
  /\ iov' = [dir |-> "send", from |-> Address(m_readPos),
             len |-> Min({n, getReadSize})]
  /\ moved' = <<>>
  /\ UNCHANGED <<pointers, typed, got, failed>>

\* Mutant of Sent: the read pointer goes on by what was asked for.
SentAll(k) ==
  /\ ~failed /\ iov.dir = "send" /\ k <= iov.len
  /\ iov' = NoLoan
  /\ IF k = 0
     THEN UNCHANGED <<m_readPos, moved>>
     ELSE /\ moved' = Bytes(iov.from, k)
          /\ m_readPos' = Advance(m_readPos, iov.len, nodes)
  /\ UNCHANGED <<m_writePos, m_capacity, nodes, mem, typed, got, failed>>

\* sendmsg took k bytes of the loan; addReadPosition(k).
Sent(k) ==
  /\ ~failed /\ iov.dir = "send" /\ k <= iov.len
  /\ iov' = NoLoan
  /\ IF k = 0
     THEN UNCHANGED <<m_readPos, moved>>
     ELSE /\ moved' = Bytes(iov.from, k)
          /\ m_readPos' = Advance(m_readPos, k, nodes)
  /\ UNCHANGED <<m_writePos, m_capacity, nodes, mem, typed, got, failed>>

------------------------------------------------------------------------------
(* Typed values: at most one between two calls of clear() *)

\* The calls of write(): two for a string, whose value is its length here.
Encoded(kind, v) ==
  LET at == m_writePos.pos
      code(b) == [i \in DOMAIN b |-> <<at + i, b[i]>>]
      len == LengthBytes(kind, v)
  IN IF kind \in Strings
     THEN <<code(len), [i \in 1..v |-> <<at + Len(len) + i, 0>>]>>
     ELSE <<code(NumberBytes(kind, v))>>

WriteValue(kind, v) ==
  LET calls == Encoded(kind, v)
      bytes == FlattenSeq(calls)
      st == FoldLeft(Written, Store, calls)
  IN /\ Ready /\ typed = None /\ got = None /\ m_writePos.pos + Len(bytes) <= MaxPos
     /\ \/ /\ Stored(st) /\ moved' = bytes
           /\ typed' = [kind |-> kind, v |-> v, at |-> m_writePos.pos]
           /\ UNCHANGED <<m_readPos, iov, got, failed>>
        \/ st = Broken /\ Crash

\* What the bytes in front of the read pointer are.
Rest == [i \in 1..getReadSize |-> mem[Address(m_readPos) + i - 1][2]]

ReadNumber ==
  LET rest == Rest
  IN /\ typed.kind \in Fixed \union Varint
     /\ Get(NumberLength(typed.kind, rest))
     /\ got' = [kind |-> typed.kind, v |-> NumberRead(typed.kind, rest), of |-> typed.v]
     /\ typed' = None
     /\ UNCHANGED failed

\* A string is read with two calls of read(), the second of them for `len'
\* bytes even when there are none: it starts where the first left the read
\* pointer.
ReadString ==
  LET rest == Rest
      k == LengthLength(typed.kind, rest)
      len == LengthRead(typed.kind, rest)
  IN /\ typed.kind \in Strings
     /\ IF Reaches(Advance(m_readPos, k, nodes), len, nodes)
        THEN /\ Get(k + len)
             /\ got' = [kind |-> typed.kind, v |-> len, of |-> typed.v]
             /\ typed' = None
             /\ UNCHANGED failed
        ELSE failed' = TRUE /\ UNCHANGED <<m_readPos, moved, got, typed>>

\* The read function of the kind, called when its value is next.
ReadValue ==
  /\ Ready /\ typed # None /\ typed.at = m_readPos.pos
  /\ ReadNumber \/ ReadString
  /\ UNCHANGED <<m_writePos, m_capacity, nodes, mem, iov>>

------------------------------------------------------------------------------
(* The const operations, as what they return; `Fails' is a null pointer. *)

Fails == <<<<0, 1>>>>

\* read(buf, n, position): the walk starts at the node of the read pointer,
\* at the offset of the position.
readAt(n, position) ==
  LET p == [pos |-> position, cur |-> m_readPos.cur]
  IN IF Reaches(p, n, nodes) THEN Bytes(Address(p), n) ELSE Fails

toString == IF getReadSize = 0 THEN <<>> ELSE readAt(getReadSize, m_readPos.pos)

\* getReadBuffers(buffers, len, position): the walk starts at m_root, and the
\* length is cut to getReadSize(), wherever the position is.
getReadBuffers(len, position) ==
  LET n == Min({len, getReadSize})
      p == [pos |-> position, cur |-> 1 + position \div BaseSize]
  IN IF n = 0 THEN <<>>
     ELSE IF Reaches(p, n, nodes) THEN Bytes(position, n) ELSE Fails

\* Mutant of toFile: the whole list is written.
toFileAll == Bytes(0, m_writePos.pos)

\* toFile: one write of each node.  The offset in the node is taken from the
\* length after that is cut to BaseSize.  A negative length writes nothing
\* and sets the stream's bad bit, after which nothing is written.
toFile ==
  LET file[c \in Nat, pos \in Int, size \in Int] ==
        LET diff == pos % BaseSize
            len == (IF size > BaseSize THEN BaseSize ELSE size) - diff
            next == IF c = nodes THEN nullptr ELSE c + 1
            rest == file[next, pos + len, size - len]
            here == Bytes((c - 1) * BaseSize + diff, len)
        IN IF size <= 0 THEN <<>>
           ELSE IF c = nullptr THEN Fails
           ELSE IF rest = Fails THEN Fails
           ELSE IF len < 0 THEN <<>>
           ELSE here \o rest
  IN file[m_readPos.cur, m_readPos.pos, getReadSize]

------------------------------------------------------------------------------
Next ==
  \/ \E n \in 1..MaxLen : write(n) \/ fromFile(n) \/ resv(n) \/ send(n)
  \/ \E n \in 0..MaxLen : read(n) \/ Received(n) \/ Sent(n)
  \/ \E kind \in Fixed \union Varint : \E v \in Values(kind) : WriteValue(kind, v)
  \/ \E kind \in Strings, v \in 0..MaxString : WriteValue(kind, v)
  \/ ReadValue
  \/ clear

Spec == Init /\ [][Next]_vars
==============================================================================
