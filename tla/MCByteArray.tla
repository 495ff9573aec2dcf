----------------------------- MODULE MCByteArray -----------------------------
(***************************************************************************)
(* The properties of ByteArray, checked on small nodes.                    *)
(***************************************************************************)
EXTENDS ByteArray

\* The bytes written and not read, by their positions in the stream.
Content == [i \in 1..getReadSize |-> mem[m_readPos.pos + i - 1]]

\* The bytes at n positions from `position' on.
Slice(position, n) == [i \in 1..n |-> mem[position + i - 1]]

Queue == INSTANCE ByteQueue WITH q <- Content

\* Whatever the sequence of writes, reads, receives, sends and clears, and
\* wherever they fall in the nodes, a byte that leaves the array is the oldest
\* one that has not left it: none is lost, repeated, reordered or left over
\* from before a clear().  The array may end the process (see below).
ImplementsQueue == Queue!QueueSpec

\* write(), getWriteBuffers() and all that use them find room for what is asked
\* for, wherever the pointers stand: with some capacity left, a request that
\* fits needs no new node, and a larger one gets its nodes behind the last one.
\* What happens in the other states is the next two properties' business.
RoomOtherwise ==
  Ready => \A n \in 1..MaxLen :
    LET free == m_capacity - m_writePos.pos
        inNode == BaseSize - (m_writePos.pos % BaseSize)
    IN free > 0 /\ (n <= free \/ free <= inNode) => Room(Store, n) # Broken

\* An array whose capacity is used up is given room for n bytes more, and the
\* write pointer goes to the first new node, as the comment in addCapacity says.
GrowsWhenFull ==
  Ready /\ m_capacity = m_writePos.pos => \A n \in 1..MaxLen : Room(Store, n) # Broken

\* An array with some capacity left is given room for n bytes, as the comment
\* on addCapacity says, also when whole nodes of it are unused.
GrowsWhenFree ==
  Ready /\ m_capacity > m_writePos.pos => \A n \in 1..MaxLen : Room(Store, n) # Broken

\* The const operations are right in these states: toString() wherever the
\* read pointer stands; the positional read(), which it uses, in the node of
\* the read pointer; the positional getReadBuffers() as long as the length,
\* which it cuts to what is unread and not to what follows the position, stays
\* within what was written; toFile() with the read pointer at the start of a
\* node or a node's worth unread.
LookupsRight ==
  ~failed =>
    /\ toString = Content
    /\ \A position \in 0..(m_writePos.pos - 1) :
         /\ position \div BaseSize = m_readPos.pos \div BaseSize
              => \A n \in 1..(m_writePos.pos - position) :
                   readAt(n, position) = Slice(position, n)
         /\ \A len \in 1..MaxLen :
              LET n == Min({len, getReadSize})
              IN position + n <= m_writePos.pos
                   => getReadBuffers(len, position) = Slice(position, n)
    /\ m_readPos.pos % BaseSize = 0 \/ getReadSize >= BaseSize => toFile = Content

\* The positional read() returns the bytes from the given position on, as its
\* documentation says, for every position and length that do not make it throw.
ReadsAnywhere ==
  ~failed =>
    \A position \in 0..(m_writePos.pos - 1) :
      \A n \in 1..(m_writePos.pos - position) :
        readAt(n, position) = Slice(position, n)

\* toFile() writes the data of the array to the file, as its documentation
\* says: what is unread, as toString() gives it.
FileIsContent == ~failed => toFile = Content

\* A value comes back as it was written, at whatever offset in the nodes it
\* was stored, for every number of the width, with two exceptions: an int32
\* written by writeFint32, which forgets to swap, comes back with its bytes
\* reversed, and a string too long for its length field is cut.
ValuesRoundTrip ==
  got # None =>
    got.v = CASE got.kind = "Fint32" ->
                   AsSigned(FromHost(Reverse(HostBytes(got.of % Word, WordBytes))))
              [] got.kind = "StringF" -> got.of % Byte ^ LenBytes
              [] OTHER -> got.of
==============================================================================
