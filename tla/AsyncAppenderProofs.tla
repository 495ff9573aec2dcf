------------------------ MODULE AsyncAppenderProofs ------------------------
(***************************************************************************)
(* The back end of the asynchronous appender never runs out of buffers:    *)
(* the assertions of AsyncAppender::run hold and DoubleBuffer::reset never *)
(* takes a buffer from an empty vector, for any number of producers, any   *)
(* line lengths, buffer size and drop limit.  And the log is kept: no      *)
(* accepted line is lost, doubled or moved, except by the drop limit.      *)
(***************************************************************************)
EXTENDS AsyncAppender, SequenceTheorems, TLAPS

Front == [buffer1 : Buffer, buffer2 : Buffer \cup {NoBuffer},
          buffer_vec : Seq(Buffer)]
Back == [buffer1 : Buffer \cup {NoBuffer}, buffer2 : Buffer \cup {NoBuffer},
         buffer_vec : Seq(Buffer)]

(* A producer past the check of m_started has a line to append. *)
CheckedInv == \A p \in checked : sent[p] \in 1..LinesPer

TypeInv == TypeOK /\ CheckedInv

(* The front gives up its standby buffer only together with a full one. *)
StandbyInv == front.buffer2 = NoBuffer => Len(front.buffer_vec) >= 1

(* What the back end holds in each part of its round. *)
RoundInv ==
    /\ thread \in InLoop => back = NewDoubleBuffer
    /\ thread \in {"trim", "write"} =>
          /\ back.buffer1 = NoBuffer
          /\ Len(back.buffer_vec) >= 1
          /\ back.buffer2 # NoBuffer => back.buffer2 = EmptyBuffer
          /\ back.buffer2 = NoBuffer => Len(back.buffer_vec) >= 2

BufferInv == StandbyInv /\ RoundInv

-----------------------------------------------------------------------------
(* The operations on buffers. *)

(* An empty buffer is a buffer. *)
LEMMA EmptyBufferType == EmptyBuffer \in Buffer
BY AppenderAssumption DEF EmptyBuffer, Buffer

(* FixedBuffer::append never overruns the buffer. *)
LEMMA AppendToType ==
    ASSUME NEW b \in Buffer, NEW l \in Lines, NEW len \in Nat
    PROVE  AppendTo(b, l, len) \in Buffer
<1>1. CASE Avail(b) >= len
  <2>1. b.length + len \in 0..BufferSize
    BY <1>1, AppenderAssumption DEF Avail, Buffer
  <2>2. Append(b.lines, l) \in Seq(Lines)
    BY DEF Buffer
  <2> QED BY <1>1, <2>1, <2>2 DEF AppendTo, Buffer
<1>2. CASE ~(Avail(b) >= len)
  BY <1>2 DEF AppendTo
<1> QED BY <1>1, <1>2

(* AsyncAppender::submitBuffer leaves a front with a current buffer and a     *)
(* buffer to write.                                                           *)
LEMMA SubmitType ==
    ASSUME NEW f \in Front
    PROVE  /\ SubmitBuffer(f) \in Front
           /\ Len(SubmitBuffer(f).buffer_vec) >= 1
<1>1. /\ Append(f.buffer_vec, f.buffer1) \in Seq(Buffer)
      /\ Len(Append(f.buffer_vec, f.buffer1)) >= 1
  BY DEF Front
<1>2. SubmitBuffer(f).buffer_vec = Append(f.buffer_vec, f.buffer1)
  BY DEF SubmitBuffer
<1>3. (IF f.buffer2 # NoBuffer THEN f.buffer2 ELSE EmptyBuffer) \in Buffer
  BY EmptyBufferType DEF Front
<1>4. SubmitBuffer(f) \in Front
  BY <1>1, <1>3 DEF SubmitBuffer, Front
<1> QED BY <1>1, <1>2, <1>4

(* A fresh double buffer can serve as front and as back. *)
LEMMA NewDoubleBufferType == NewDoubleBuffer \in Front /\ NewDoubleBuffer \in Back
<1>1. <<>> \in Seq(Buffer)
  OBVIOUS
<1> QED BY <1>1, EmptyBufferType DEF NewDoubleBuffer, Front, Back

(* Dropping keeps at least two buffers if there were two. *)
LEMMA KeptType ==
    ASSUME NEW v \in Seq(Buffer)
    PROVE  /\ Kept(v) \in Seq(Buffer)
           /\ Len(v) >= 1 => Len(Kept(v)) >= 1
           /\ Len(v) >= 2 => Len(Kept(v)) >= 2
<1>1. CASE Len(v) > DropLimit
  <2>1. Len(v) >= 2
    BY <1>1, AppenderAssumption
  <2>2. SubSeq(v, 1, 2) \in Seq(Buffer) /\ Len(SubSeq(v, 1, 2)) = 2
    BY <2>1
  <2> QED BY <1>1, <2>2 DEF Kept
<1>2. CASE ~(Len(v) > DropLimit)
  BY <1>2 DEF Kept
<1> QED BY <1>1, <1>2

(* What DoubleBuffer::reset returns. *)
LEMMA ResetType ==
    ASSUME NEW d \in Back
    PROVE  ResetBuffer(d) \in Back
<1>1. <<>> \in Seq(Buffer)
  OBVIOUS
<1> QED BY <1>1, EmptyBufferType DEF ResetBuffer, Back

-----------------------------------------------------------------------------
(* Types. *)

(* The parts of TypeOK the provers handle separately. *)
BufTypes == front \in Front /\ back \in Back /\ todo \in Seq(Buffer)
PcTypes ==
    /\ started \in BOOLEAN
    /\ thread \in {"none", "while", "testBuffer", "testStarted", "lock", "wait",
                   "trim", "write", "done"}
    /\ ctl \in {"idle", "submit", "join"}
LineTypes ==
    /\ checked \in SUBSET Producers
    /\ sent \in [Producers -> 0..LinesPer]
    /\ accepted \in Seq(Lines)
    /\ written \in Seq(Lines)
    /\ dropped \in SUBSET Lines

LEMMA TypeParts == TypeOK <=> BufTypes /\ PcTypes /\ LineTypes
BY DEF TypeOK, BufTypes, PcTypes, LineTypes, Front, Back

(* Lines found in buffers are lines. *)
LEMMA LinesOfType ==
    ASSUME NEW v \in Seq(Buffer)
    PROVE  LinesOf(v) \subseteq Lines
<1> SUFFICES ASSUME NEW i \in 1..Len(v), NEW j \in 1..Len(v[i].lines)
             PROVE  v[i].lines[j] \in Lines
  BY DEF LinesOf
<1>1. v[i] \in Buffer
  OBVIOUS
<1>2. v[i].lines \in Seq(Lines)
  BY <1>1 DEF Buffer
<1> QED BY <1>2

(* Every step keeps the types, and a producer past the check has a line. *)
LEMMA TypeInduction == TypeInv /\ RoundInv /\ [Next]_vars => TypeInv'
<1> SUFFICES ASSUME TypeInv, RoundInv, [Next]_vars
             PROVE  TypeInv'
  OBVIOUS
<1>0. BufTypes /\ PcTypes /\ LineTypes /\ CheckedInv
  BY TypeParts DEF TypeInv
<1> SUFFICES BufTypes' /\ PcTypes' /\ LineTypes' /\ CheckedInv'
  BY DEF TypeInv, TypeOK, BufTypes, PcTypes, LineTypes, Front, Back
<1>1. ASSUME NEW p \in Producers, DoAppend(p)
      PROVE  BufTypes' /\ PcTypes' /\ LineTypes' /\ CheckedInv'
  <2>1. sent[p] + 1 \in 1..LinesPer
    BY <1>0, <1>1, AppenderAssumption DEF DoAppend, LineTypes
  <2>2. sent' \in [Producers -> 0..LinesPer]
    BY <1>0, <1>1, <2>1 DEF DoAppend, LineTypes
  <2>3. checked' \in SUBSET Producers
    BY <1>0, <1>1 DEF DoAppend, LineTypes
  <2>4. CheckedInv'
    BY <1>0, <1>1, <2>1 DEF DoAppend, LineTypes, CheckedInv
  <2>5. BufTypes' /\ PcTypes'
    BY <1>0, <1>1 DEF DoAppend, BufTypes, PcTypes, bufVars
  <2>6. LineTypes'
    BY <1>0, <1>1, <2>2, <2>3 DEF DoAppend, LineTypes, history
  <2> QED BY <2>4, <2>5, <2>6
<1>2. ASSUME NEW p \in Producers, AppendLine(p)
      PROVE  BufTypes' /\ PcTypes' /\ LineTypes' /\ CheckedInv'
  <2> DEFINE l == <<p, sent[p]>>
             len == LineLength[sent[p]]
             f == IF Avail(front.buffer1) > len THEN front
                                                ELSE SubmitBuffer(front)
  <2>1. sent[p] \in 1..LinesPer
    BY <1>0, <1>2 DEF AppendLine, CheckedInv
  <2>2. l \in Lines /\ len \in Nat
    BY <2>1, AppenderAssumption DEF Lines
  <2>3. f \in Front
    BY <1>0, SubmitType DEF BufTypes
  <2>4. AppendTo(f.buffer1, l, len) \in Buffer
    BY <2>2, <2>3, AppendToType DEF Front
  <2>5. front' = [f EXCEPT !.buffer1 = AppendTo(f.buffer1, l, len)]
    BY <1>2 DEF AppendLine
  <2>6. front' \in Front
    BY <2>3, <2>4, <2>5 DEF Front
  <2>7. accepted' \in Seq(Lines)
    BY <1>0, <1>2, <2>2 DEF AppendLine, LineTypes
  <2>8. BufTypes' /\ PcTypes'
    BY <1>0, <1>2, <2>6 DEF AppendLine, BufTypes, PcTypes
  <2>9. LineTypes' /\ CheckedInv'
    BY <1>0, <1>2, <2>7 DEF AppendLine, LineTypes, CheckedInv
  <2> QED BY <2>8, <2>9
<1>3. CASE Start
  BY <1>0, <1>3, NewDoubleBufferType
     DEF Start, BufTypes, PcTypes, LineTypes, CheckedInv, history
<1>4. CASE StopFlag
  BY <1>0, <1>4
     DEF StopFlag, BufTypes, PcTypes, LineTypes, CheckedInv, bufVars, history
<1>5. CASE StopSubmit
  BY <1>0, <1>5, SubmitType
     DEF StopSubmit, BufTypes, PcTypes, LineTypes, CheckedInv, history
<1>6. CASE StopJoin
  BY <1>0, <1>6
     DEF StopJoin, BufTypes, PcTypes, LineTypes, CheckedInv, bufVars, history
<1>7. CASE While
  BY <1>0, <1>7
     DEF While, ReadFirst, ReadSecond, BufTypes, PcTypes, LineTypes, CheckedInv, bufVars, history
<1>8. CASE LockWait
  BY <1>0, <1>8
     DEF LockWait, BufTypes, PcTypes, LineTypes, CheckedInv, bufVars, history
<1>9. ASSUME thread \in {"lock", "wait"}, Swap
      PROVE  BufTypes' /\ PcTypes' /\ LineTypes' /\ CheckedInv'
  <2>1. /\ back.buffer1 = EmptyBuffer
        /\ back.buffer2 = EmptyBuffer
        /\ back.buffer_vec = <<>>
    BY <1>9 DEF RoundInv, InLoop, NewDoubleBuffer
  <2>2. front' \in Front
    BY <1>0, <1>9, <2>1, EmptyBufferType DEF Swap, BufTypes, Front
  <2>3. Append(front.buffer_vec, front.buffer1) \in Seq(Buffer)
    BY <1>0 DEF BufTypes, Front
  <2>4. back' \in Back
    BY <1>0, <1>9, <2>1, <2>3, EmptyBufferType DEF Swap, BufTypes, Back
  <2>5. todo' \in Seq(Buffer) /\ PcTypes'
    BY <1>0, <1>9 DEF Swap, BufTypes, PcTypes
  <2>6. LineTypes' /\ CheckedInv'
    BY <1>0, <1>9 DEF Swap, LineTypes, CheckedInv, history
  <2> QED BY <2>2, <2>4, <2>5, <2>6 DEF BufTypes
<1>10. CASE Trim
  <2>1. /\ Kept(back.buffer_vec) \in Seq(Buffer)
        /\ LinesOf(back.buffer_vec) \subseteq Lines
    BY <1>0, KeptType, LinesOfType DEF BufTypes, Back
  <2>2. back' \in Back /\ todo' \in Seq(Buffer) /\ front' \in Front
    BY <1>0, <1>10, <2>1 DEF Trim, BufTypes, Back
  <2>3. PcTypes'
    BY <1>0, <1>10 DEF Trim, PcTypes
  <2>4. LineTypes' /\ CheckedInv'
    BY <1>0, <1>10, <2>1 DEF Trim, LineTypes, CheckedInv
  <2> QED BY <2>2, <2>3, <2>4 DEF BufTypes
<1>11. CASE Write
  <2>1. Head(todo) \in Buffer /\ Tail(todo) \in Seq(Buffer)
    BY <1>0, <1>11 DEF Write, BufTypes
  <2>2. Head(todo).lines \in Seq(Lines)
    BY <2>1 DEF Buffer
  <2>3. written' \in Seq(Lines)
    BY <1>0, <1>11, <2>2 DEF Write, LineTypes
  <2>4. BufTypes' /\ PcTypes'
    BY <1>0, <1>11, <2>1 DEF Write, BufTypes, PcTypes
  <2>5. LineTypes' /\ CheckedInv'
    BY <1>0, <1>11, <2>3 DEF Write, LineTypes, CheckedInv
  <2> QED BY <2>4, <2>5
<1>12. CASE Reset
  BY <1>0, <1>12, ResetType
     DEF Reset, BufTypes, PcTypes, LineTypes, CheckedInv, history
<1>13. CASE UNCHANGED vars
  BY <1>0, <1>13
     DEF vars, BufTypes, PcTypes, LineTypes, CheckedInv, bufVars, history
<1> QED
  BY <1>1, <1>2, <1>3, <1>4, <1>5, <1>6, <1>7, <1>8, <1>9, <1>10, <1>11,
     <1>12, <1>13
     DEF Next, BackEnd, Stopping, LockSwap, WaitSwap

-----------------------------------------------------------------------------
(* Buffers. *)

(* Every step keeps a standby buffer or a full buffer in front, and two       *)
(* buffers to recycle in the back.                                            *)
LEMMA BufferInduction == TypeInv /\ BufferInv /\ [Next]_vars => BufferInv'
<1> SUFFICES ASSUME TypeInv, BufferInv, [Next]_vars
             PROVE  BufferInv'
  OBVIOUS
<1>0. /\ front \in Front /\ back \in Back
      /\ StandbyInv /\ RoundInv
  BY DEF TypeInv, TypeOK, BufferInv, Front, Back
<1>a. NoBuffer # EmptyBuffer
  BY EmptyBufferType, NoBufferAssumption
<1>1. ASSUME NEW p \in Producers, DoAppend(p)
      PROVE  BufferInv'
  BY <1>0, <1>1 DEF DoAppend, bufVars, BufferInv, StandbyInv, RoundInv, InLoop
<1>2. ASSUME NEW p \in Producers, AppendLine(p)
      PROVE  BufferInv'
  <2> DEFINE l == <<p, sent[p]>>
             len == LineLength[sent[p]]
             f == IF Avail(front.buffer1) > len THEN front
                                                ELSE SubmitBuffer(front)
  <2>1. f \in Front /\ (f.buffer2 = NoBuffer => Len(f.buffer_vec) >= 1)
    BY <1>0, SubmitType DEF StandbyInv
  <2>2. front' = [f EXCEPT !.buffer1 = AppendTo(f.buffer1, l, len)]
    BY <1>2 DEF AppendLine
  <2>3. front'.buffer2 = f.buffer2 /\ front'.buffer_vec = f.buffer_vec
    BY <2>1, <2>2 DEF Front
  <2>4. StandbyInv'
    BY <2>1, <2>3 DEF StandbyInv
  <2>5. RoundInv'
    BY <1>0, <1>2 DEF AppendLine, RoundInv, InLoop
  <2> QED BY <2>4, <2>5 DEF BufferInv
<1>3. CASE Start
  BY <1>0, <1>3 DEF Start, BufferInv, StandbyInv, RoundInv, InLoop
<1>4. CASE StopFlag
  BY <1>0, <1>4 DEF StopFlag, bufVars, BufferInv, StandbyInv, RoundInv, InLoop
<1>5. CASE StopSubmit
  <2>1. StandbyInv'
    BY <1>0, <1>5, SubmitType DEF StopSubmit, StandbyInv
  <2>2. RoundInv'
    BY <1>0, <1>5 DEF StopSubmit, RoundInv, InLoop
  <2> QED BY <2>1, <2>2 DEF BufferInv
<1>6. CASE StopJoin
  BY <1>0, <1>6 DEF StopJoin, bufVars, BufferInv, StandbyInv, RoundInv, InLoop
<1>7. CASE While
  BY <1>0, <1>7 DEF While, ReadFirst, ReadSecond, bufVars, BufferInv, StandbyInv, RoundInv, InLoop
<1>8. CASE LockWait
  BY <1>0, <1>8 DEF LockWait, bufVars, BufferInv, StandbyInv, RoundInv, InLoop
<1>9. ASSUME thread \in {"lock", "wait"}, Swap
      PROVE  BufferInv'
  <2>1. back.buffer2 = EmptyBuffer
    BY <1>0, <1>9 DEF RoundInv, InLoop, NewDoubleBuffer
  <2>2. front'.buffer2 # NoBuffer
    BY <1>a, <1>9, <2>1 DEF Swap
  <2>3. Len(Append(front.buffer_vec, front.buffer1))
            = Len(front.buffer_vec) + 1
    BY <1>0 DEF Front
  <2>4. /\ Len(front.buffer_vec) \in Nat
        /\ back'.buffer_vec = Append(front.buffer_vec, front.buffer1)
        /\ back'.buffer1 = NoBuffer
        /\ thread' = "trim"
    BY <1>0, <1>9 DEF Swap, Front
  <2>5. CASE front.buffer2 = NoBuffer
    <3>1. Len(back'.buffer_vec) >= 2
      BY <1>0, <2>3, <2>4, <2>5 DEF StandbyInv
    <3>2. back'.buffer2 = NoBuffer
      BY <1>9, <2>5 DEF Swap
    <3> QED BY <2>2, <2>4, <3>1, <3>2 DEF BufferInv, StandbyInv, RoundInv, InLoop
  <2>6. CASE front.buffer2 # NoBuffer
    <3>1. Len(back'.buffer_vec) >= 1
      BY <2>3, <2>4
    <3>2. back'.buffer2 = EmptyBuffer
      BY <1>9, <2>1, <2>6 DEF Swap
    <3> QED BY <1>a, <2>2, <2>4, <3>1, <3>2
            DEF BufferInv, StandbyInv, RoundInv, InLoop
  <2> QED BY <2>5, <2>6
<1>10. CASE Trim
  <2>1. /\ back'.buffer1 = back.buffer1 /\ back'.buffer2 = back.buffer2
        /\ back'.buffer_vec = Kept(back.buffer_vec)
        /\ thread = "trim" /\ thread' = "write" /\ front' = front
    BY <1>0, <1>10 DEF Trim, Back
  <2>2. /\ Len(back.buffer_vec) >= 1 => Len(back'.buffer_vec) >= 1
        /\ Len(back.buffer_vec) >= 2 => Len(back'.buffer_vec) >= 2
    BY <1>0, <2>1, KeptType DEF Back
  <2> QED BY <1>0, <2>1, <2>2 DEF BufferInv, StandbyInv, RoundInv, InLoop
<1>11. CASE Write
  BY <1>0, <1>11 DEF Write, BufferInv, StandbyInv, RoundInv, InLoop
<1>12. CASE Reset
  <2>1. back' = NewDoubleBuffer
    BY <1>0, <1>12 DEF Reset, ResetBuffer, NewDoubleBuffer, RoundInv, InLoop
  <2> QED BY <1>0, <1>12, <2>1 DEF Reset, BufferInv, StandbyInv, RoundInv, InLoop
<1>13. CASE UNCHANGED vars
  BY <1>0, <1>13 DEF vars, bufVars, BufferInv, StandbyInv, RoundInv, InLoop
<1> QED
  BY <1>1, <1>2, <1>3, <1>4, <1>5, <1>6, <1>7, <1>8, <1>9, <1>10, <1>11,
     <1>12, <1>13
     DEF Next, BackEnd, Stopping, LockSwap, WaitSwap

(* The invariant gives the assertions of run() and the precondition of        *)
(* reset().                                                                   *)
LEMMA BufferInvReady == TypeInv /\ BufferInv => BuffersReady
<1> SUFFICES ASSUME TypeInv, BufferInv
             PROVE  BuffersReady
  OBVIOUS
<1>1. RoundInv /\ back \in Back
  BY DEF BufferInv, TypeInv, TypeOK, Back
<1>2. ASSUME thread \in {"trim", "write"}
      PROVE  CanReset(back) /\ back.buffer_vec # <<>>
  <2>1. /\ back.buffer1 = NoBuffer /\ Len(back.buffer_vec) >= 1
        /\ back.buffer2 = NoBuffer => Len(back.buffer_vec) >= 2
        /\ Len(back.buffer_vec) \in Nat
    BY <1>1, <1>2 DEF RoundInv, InLoop, Back
  <2>2. /\ RecycledLen(back) >= 1
        /\ back.buffer2 = NoBuffer => RecycledLen(back) >= 2
    BY <2>1 DEF RecycledLen
  <2>3. Nulls(back) = {"buffer1", "buffer2"} => back.buffer2 = NoBuffer
    BY DEF Nulls
  <2>4. CanReset(back)
    BY <2>2, <2>3 DEF CanReset
  <2>5. back.buffer_vec # <<>>
    BY <2>1
  <2> QED BY <2>4, <2>5
<1> QED BY <1>1, <1>2 DEF BuffersReady, RoundInv, InLoop

(* The initial states satisfy both invariants. *)
LEMMA InitInv == Init => TypeInv /\ BufferInv
<1> SUFFICES ASSUME Init
             PROVE  TypeInv /\ BufferInv
  OBVIOUS
<1>1. /\ front = NewDoubleBuffer /\ back = NewDoubleBuffer /\ todo = <<>>
      /\ thread = "none" /\ ctl = "idle" /\ started \in BOOLEAN
  BY DEF Init
<1>2. BufTypes /\ PcTypes
  BY <1>1, NewDoubleBufferType DEF BufTypes, PcTypes
<1>3. LineTypes /\ CheckedInv
  BY AppenderAssumption DEF Init, LineTypes, CheckedInv
<1>4. StandbyInv /\ RoundInv
  BY <1>1, EmptyBufferType, NoBufferAssumption
     DEF StandbyInv, RoundInv, InLoop, NewDoubleBuffer
<1> QED BY <1>2, <1>3, <1>4, TypeParts DEF TypeInv, BufferInv

(* Type correctness of the appender; in particular no buffer is ever filled   *)
(* beyond kLargeBuffer (FixedBuffer::append) and the front always has a       *)
(* current buffer (AsyncAppender::append dereferences m_buffer.buffer1).      *)
THEOREM AppenderTypes == SafetySpec => []TypeOK
<1>1. TypeInv /\ BufferInv => TypeOK
  BY DEF TypeInv
<1>2. BufferInv => RoundInv
  BY DEF BufferInv
<1> QED BY InitInv, TypeInduction, BufferInduction, <1>1, <1>2, PTL
        DEF SafetySpec

(* The back end of AsyncAppender::run enters every round with two empty       *)
(* buffers, has something to write after every swap, and DoubleBuffer::reset  *)
(* always finds the buffers it takes from buffer_vec.                         *)
THEOREM AppenderBuffersReady == SafetySpec => []BuffersReady
<1>1. BufferInv => RoundInv
  BY DEF BufferInv
<1> QED BY InitInv, TypeInduction, BufferInduction, BufferInvReady, <1>1, PTL
        DEF SafetySpec


-----------------------------------------------------------------------------
(* The log as a value: w is what was written, v the buffers still to be    *)
(* written, acc the lines accepted and dr those dropped.                   *)

Place(w, v, i, j) == i \in 0..Len(v) /\ j \in 1..Len(Stage(w, v, i))
Before(a, i, b, j) == a < b \/ (a = b /\ i < j)

Once(acc) == \A g, h \in 1..Len(acc) : acc[g] = acc[h] => g = h
Complete(w, v, acc, dr) ==
    \A g \in 1..Len(acc) : acc[g] \in dr <=> ~Holds(w, v, acc[g])
Sound(w, v, acc) ==
    \A i, j : Place(w, v, i, j) => \E g \in 1..Len(acc) : acc[g] = Stage(w, v, i)[j]
Sorted(w, v, acc) ==
    \A a, i, b, j :
        Place(w, v, a, i) /\ Place(w, v, b, j) /\ Before(a, i, b, j) =>
            \A g, h \in 1..Len(acc) :
                acc[g] = Stage(w, v, a)[i] /\ acc[h] = Stage(w, v, b)[j] => g < h

Faithful(w, v, acc, dr) ==
    Once(acc) /\ Complete(w, v, acc, dr) /\ Sound(w, v, acc) /\ Sorted(w, v, acc)

-----------------------------------------------------------------------------
(* Sequences of buffers. *)

(* Concatenation is associative where it is needed. *)
LEMMA Regroup ==
    ASSUME NEW T, NEW x \in Seq(T), NEW y \in Seq(T), NEW b \in T
    PROVE  x \o y \o <<b>> = x \o (y \o <<b>>)
<1>1. PICK u : u = <<b>>
  OBVIOUS
<1>2. u \in Seq(T)
  BY <1>1
<1>3. PICK p, q, r, t : p = x \o y /\ q = y \o u /\ r = p \o u /\ t = x \o q
  OBVIOUS
<1>4. /\ p \in Seq(T) /\ Len(p) = Len(x) + Len(y)
      /\ \A i \in 1..(Len(x) + Len(y)) : p[i] = IF i <= Len(x) THEN x[i] ELSE y[i - Len(x)]
  BY <1>3, ConcatProperties
<1>5. /\ q \in Seq(T) /\ Len(q) = Len(y) + Len(u)
      /\ \A i \in 1..(Len(y) + Len(u)) : q[i] = IF i <= Len(y) THEN y[i] ELSE u[i - Len(y)]
  BY <1>2, <1>3, ConcatProperties
<1>6. /\ r \in Seq(T) /\ Len(r) = Len(p) + Len(u)
      /\ \A i \in 1..(Len(p) + Len(u)) : r[i] = IF i <= Len(p) THEN p[i] ELSE u[i - Len(p)]
  BY <1>2, <1>3, <1>4, ConcatProperties
<1>7. /\ t \in Seq(T) /\ Len(t) = Len(x) + Len(q)
      /\ \A i \in 1..(Len(x) + Len(q)) : t[i] = IF i <= Len(x) THEN x[i] ELSE q[i - Len(x)]
  BY <1>3, <1>5, ConcatProperties
<1>8. Len(x) \in Nat /\ Len(y) \in Nat /\ Len(u) \in Nat /\ Len(r) = Len(t)
  BY <1>2, <1>4, <1>5, <1>6, <1>7
<1>9. ASSUME NEW i \in 1..Len(r) PROVE r[i] = t[i]
  <2>1. CASE i <= Len(x)
    BY <1>4, <1>5, <1>6, <1>7, <1>8, <2>1
  <2>2. CASE i > Len(x) /\ i <= Len(x) + Len(y)
    <3>1. PICK k : k = i - Len(x)
      OBVIOUS
    <3>2. k \in 1..(Len(y) + Len(u)) /\ k <= Len(y)
      BY <1>8, <2>2, <3>1
    <3>3. q[k] = y[k]
      BY <1>5, <3>2
    <3>4. t[i] = q[k]
      BY <1>4, <1>5, <1>6, <1>7, <1>8, <2>2, <3>1
    <3>5. r[i] = p[i] /\ p[i] = y[k]
      BY <1>4, <1>6, <1>8, <2>2, <3>1
    <3> QED  BY <3>3, <3>4, <3>5
  <2>3. CASE i > Len(x) + Len(y)
    <3>a. PICK k : k = i - Len(x)
      OBVIOUS
    <3>1. k - Len(y) = i - Len(p) /\ k \in 1..(Len(y) + Len(u)) /\ ~(k <= Len(y))
      BY <1>4, <1>6, <1>8, <2>3, <3>a
    <3>2. r[i] = u[i - Len(p)]
      BY <1>4, <1>6, <1>8, <2>3
    <3>3. t[i] = q[k]
      BY <1>4, <1>5, <1>6, <1>7, <1>8, <2>3, <3>a
    <3>4. q[k] = u[k - Len(y)]
      BY <1>5, <3>1
    <3> QED  BY <3>1, <3>2, <3>3, <3>4
  <2> QED  BY <1>8, <2>1, <2>2, <2>3
<1>10. r = t
  BY <1>6, <1>7, <1>8, <1>9, SeqEqual
<1> QED  BY <1>1, <1>3, <1>10, Zenon

(* A sequence of one at the end is an element appended. *)
LEMMA AppendConcat ==
    ASSUME NEW T, NEW s \in Seq(T), NEW b \in T
    PROVE  s \o <<b>> = Append(s, b)
<1>1. <<b>> \in Seq(T) /\ Len(<<b>>) = 1 /\ <<b>>[1] = b
  OBVIOUS
<1>2. /\ s \o <<b>> \in Seq(T) /\ Len(s \o <<b>>) = Len(s) + 1
      /\ \A i \in 1..(Len(s) + 1) : (s \o <<b>>)[i] = IF i <= Len(s) THEN s[i] ELSE <<b>>[i - Len(s)]
  BY <1>1, ConcatProperties
<1>3. /\ Append(s, b) \in Seq(T) /\ Len(Append(s, b)) = Len(s) + 1
      /\ \A i \in 1..Len(s) : Append(s, b)[i] = s[i]
      /\ Append(s, b)[Len(s) + 1] = b /\ Len(s) \in Nat
  OBVIOUS
<1>4. PICK c, d : c = s \o <<b>> /\ d = Append(s, b)
  OBVIOUS
<1>5. \A i \in 1..Len(c) : c[i] = d[i]
  BY <1>1, <1>2, <1>3, <1>4
<1>6. c \in Seq(T) /\ d \in Seq(T) /\ Len(c) = Len(d)
  BY <1>2, <1>3, <1>4
<1>7. c = d
  BY <1>5, <1>6, SeqEqual
<1> QED  BY <1>4, <1>7

(* The current buffer moves to the end of buffer_vec and a new one follows. *)
LEMMA GrowMiddle ==
    ASSUME NEW T, NEW x \in Seq(T), NEW y \in Seq(T), NEW b \in T, NEW c \in T
    PROVE  x \o Append(y, b) \o <<c>> = Append(x \o y \o <<b>>, c)
<1>1. y \o <<b>> = Append(y, b) /\ y \o <<b>> \in Seq(T)
  BY AppendConcat
<1>2. x \o (y \o <<b>>) = x \o y \o <<b>>
  BY Regroup
<1>3. PICK s : s = x \o y \o <<b>>
  OBVIOUS
<1>4. s \in Seq(T)
  BY <1>3
<1>5. s \o <<c>> = Append(s, c)
  BY <1>4, AppendConcat
<1> QED  BY <1>1, <1>2, <1>3, <1>5, Zenon

(* The first of several buffers is the first of their front part. *)
LEMMA TailConcat ==
    ASSUME NEW T, NEW x \in Seq(T), NEW y \in Seq(T), NEW b \in T, x # <<>>
    PROVE  /\ (x \o y \o <<b>>)[1] = Head(x)
           /\ Tail(x \o y \o <<b>>) = Tail(x) \o y \o <<b>>
<1>1. PICK z : z = y \o <<b>>
  OBVIOUS
<1>2. z \in Seq(T)
  BY <1>1
<1>3. Tail(x) \in Seq(T) /\ Len(x) \in Nat \ {0} /\ Len(z) \in Nat
  BY <1>2
<1>4. x \o y \o <<b>> = x \o z /\ Tail(x) \o y \o <<b>> = Tail(x) \o z
  BY <1>1, <1>3, Regroup
<1>5. PICK s, t, u : s = x \o z /\ t = Tail(s) /\ u = Tail(x) \o z
  OBVIOUS
<1>6. /\ s \in Seq(T) /\ Len(s) = Len(x) + Len(z)
      /\ \A i \in 1..(Len(x) + Len(z)) : s[i] = IF i <= Len(x) THEN x[i] ELSE z[i - Len(x)]
  BY <1>2, <1>5, ConcatProperties
<1>7. s # <<>> /\ s[1] = Head(x)
  BY <1>3, <1>6
<1>8. /\ t \in Seq(T) /\ Len(t) = Len(x) + Len(z) - 1
      /\ \A i \in 1..Len(t) : t[i] = s[i + 1]
  BY <1>3, <1>5, <1>6, <1>7, HeadTailProperties
<1>9. PICK r : r = Tail(x)
  OBVIOUS
<1>10. r \in Seq(T) /\ Len(r) = Len(x) - 1 /\ \A i \in 1..Len(r) : r[i] = x[i + 1]
  BY <1>9, HeadTailProperties
<1>11. /\ u \in Seq(T) /\ Len(u) = Len(r) + Len(z)
       /\ \A i \in 1..(Len(r) + Len(z)) : u[i] = IF i <= Len(r) THEN r[i] ELSE z[i - Len(r)]
  BY <1>2, <1>5, <1>9, <1>10, ConcatProperties
<1>12. Len(t) = Len(u)
  BY <1>3, <1>8, <1>10, <1>11
<1>13. ASSUME NEW i \in 1..Len(t) PROVE t[i] = u[i]
  <2>1. i \in Nat /\ i >= 1 /\ i + 1 \in 1..(Len(x) + Len(z)) /\ i \in 1..(Len(r) + Len(z))
    BY <1>3, <1>8, <1>10
  <2>2. (i + 1) - Len(x) = i - Len(r) /\ (i + 1 <= Len(x) <=> i <= Len(r))
    BY <1>3, <1>10, <2>1
  <2>3. t[i] = IF i + 1 <= Len(x) THEN x[i + 1] ELSE z[(i + 1) - Len(x)]
    BY <1>6, <1>8, <2>1
  <2>4. u[i] = IF i <= Len(r) THEN r[i] ELSE z[i - Len(r)]
    BY <1>11, <2>1
  <2>5. CASE i <= Len(r)
    <3>1. r[i] = x[i + 1]
      BY <1>3, <1>10, <2>1, <2>5
    <3> QED  BY <2>2, <2>3, <2>4, <2>5, <3>1
  <2>6. CASE ~(i <= Len(r))
    BY <2>2, <2>3, <2>4, <2>6
  <2> QED  BY <2>5, <2>6
<1>14. t = u
  BY <1>8, <1>11, <1>12, <1>13, SeqEqual
<1> QED  BY <1>4, <1>5, <1>7, <1>14
(* The same facts, for sequences of buffers. *)
LEMMA BufferSeqs ==
    \A x, y \in Seq(Buffer) : \A b \in Buffer :
        /\ x \o y \o <<b>> = x \o (y \o <<b>>)
        /\ x \o <<b>> = Append(x, b)
        /\ x # <<>> => /\ (x \o y \o <<b>>)[1] = Head(x)
                       /\ Tail(x \o y \o <<b>>) = Tail(x) \o y \o <<b>>
<1> SUFFICES ASSUME NEW x \in Seq(Buffer), NEW y \in Seq(Buffer), NEW b \in Buffer
             PROVE  /\ x \o y \o <<b>> = x \o (y \o <<b>>)
                    /\ x \o <<b>> = Append(x, b)
                    /\ x # <<>> => /\ (x \o y \o <<b>>)[1] = Head(x)
                                   /\ Tail(x \o y \o <<b>>) = Tail(x) \o y \o <<b>>
  OBVIOUS
<1>1. x \o y \o <<b>> = x \o (y \o <<b>>)
  BY Regroup
<1>2. x \o <<b>> = Append(x, b)
  BY AppendConcat
<1>3. x # <<>> => /\ (x \o y \o <<b>>)[1] = Head(x)
                  /\ Tail(x \o y \o <<b>>) = Tail(x) \o y \o <<b>>
  BY TailConcat
<1> QED  BY <1>1, <1>2, <1>3

(* submitBuffer, seen from the buffers still to be written. *)
LEMMA GrowBuffers ==
    \A x, y \in Seq(Buffer) : \A b \in Buffer :
        x \o Append(y, b) \o <<EmptyBuffer>> = Append(x \o y \o <<b>>, EmptyBuffer)
<1>1. PICK e : e = EmptyBuffer
  OBVIOUS
<1>2. e \in Buffer
  BY <1>1, EmptyBufferType
<1>3. ASSUME NEW x \in Seq(Buffer), NEW y \in Seq(Buffer), NEW b \in Buffer
      PROVE  x \o Append(y, b) \o <<e>> = Append(x \o y \o <<b>>, e)
  BY <1>2, GrowMiddle
<1> QED  BY <1>1, <1>3

-----------------------------------------------------------------------------
(* How the parts of the log change. *)

(* LogPreserved is a statement about four values of the state. *)
LEMMA FaithfulLog == LogPreserved <=> Faithful(written, Pending, accepted, dropped)
<1> DEFINE S(i) == Stage(written, Pending, i)
<1>1. (\A i \in 0..Len(Pending) : \A j \in 1..Len(S(i)) :
          \E g \in 1..Len(accepted) : accepted[g] = S(i)[j])
      <=> Sound(written, Pending, accepted)
  BY DEF Sound, Place
<1>2. InOrder(written, Pending) <=> Sorted(written, Pending, accepted)
  BY DEF InOrder, Sorted, Place, Before
<1> QED  BY <1>1, <1>2 DEF LogPreserved, Faithful, Once, Complete

(* The parts of the log are sequences of lines. *)
LEMMA StageType ==
    ASSUME NEW w \in Seq(Lines), NEW v \in Seq(Buffer), NEW i \in 0..Len(v)
    PROVE  Stage(w, v, i) \in Seq(Lines) /\ Len(Stage(w, v, i)) \in Nat
<1>1. CASE i = 0
  BY <1>1 DEF Stage
<1>2. CASE i # 0
  <2>1. v[i] \in Buffer
    BY <1>2
  <2> QED  BY <1>2, <2>1 DEF Stage, Buffer
<1> QED  BY <1>1, <1>2

(* A place in the log has a line. *)
LEMMA PlaceType ==
    ASSUME NEW w \in Seq(Lines), NEW v \in Seq(Buffer), NEW i, NEW j, Place(w, v, i, j)
    PROVE  i \in 0..Len(v) /\ i \in Nat /\ j \in Nat /\ j >= 1 /\ Stage(w, v, i)[j] \in Lines
<1>1. i \in 0..Len(v) /\ Len(v) \in Nat /\ j \in 1..Len(Stage(w, v, i))
  BY DEF Place
<1>2. Stage(w, v, i) \in Seq(Lines) /\ Len(Stage(w, v, i)) \in Nat
  BY <1>1, StageType
<1> QED  BY <1>1, <1>2

(* The log holds the lines at its places. *)
LEMMA HoldsPlace ==
    ASSUME NEW w, NEW v, NEW l
    PROVE  Holds(w, v, l) <=> \E i, j : Place(w, v, i, j) /\ Stage(w, v, i)[j] = l
BY DEF Holds, Place

\* An empty buffer at the end changes nothing.
LEMMA GrowLog ==
    ASSUME NEW w \in Seq(Lines), NEW v \in Seq(Buffer), NEW acc \in Seq(Lines), NEW dr,
           Faithful(w, v, acc, dr)
    PROVE  Faithful(w, Append(v, EmptyBuffer), acc, dr)
<1> DEFINE v2 == Append(v, EmptyBuffer)
<1>1. /\ v2 \in Seq(Buffer) /\ Len(v2) = Len(v) + 1 /\ Len(v) \in Nat
      /\ \A i \in 1..Len(v) : v2[i] = v[i]
      /\ v2[Len(v) + 1] = EmptyBuffer
  BY EmptyBufferType
<1> HIDE DEF v2
<1>2. \A i \in 0..Len(v) : Stage(w, v2, i) = Stage(w, v, i)
  BY <1>1 DEF Stage
<1>3. Stage(w, v2, Len(v) + 1) = <<>>
  BY <1>1 DEF Stage, EmptyBuffer
<1>4. \A i, j : Place(w, v2, i, j) <=> Place(w, v, i, j)
  <2> SUFFICES ASSUME NEW i, NEW j PROVE Place(w, v2, i, j) <=> Place(w, v, i, j)
    OBVIOUS
  <2>1. CASE i \in 0..Len(v)
    BY <1>1, <1>2, <2>1 DEF Place
  <2>2. CASE i = Len(v) + 1
    BY <1>1, <1>3, <2>2 DEF Place
  <2>3. CASE i \notin 0..Len(v) /\ i # Len(v) + 1
    BY <1>1, <2>3 DEF Place
  <2> QED  BY <2>1, <2>2, <2>3
<1>5. \A i, j : Place(w, v, i, j) => Stage(w, v2, i)[j] = Stage(w, v, i)[j]
  BY <1>2 DEF Place
<1>6. Complete(w, v2, acc, dr)
  BY <1>4, <1>5, HoldsPlace DEF Faithful, Complete
<1>7. Sound(w, v2, acc)
  BY <1>4, <1>5 DEF Faithful, Sound
<1>8. Sorted(w, v2, acc)
  BY <1>4, <1>5 DEF Faithful, Sorted
<1> QED  BY <1>6, <1>7, <1>8 DEF Faithful, v2

\* A new line at the end of the last buffer is the last line accepted.
LEMMA AcceptLine ==
    ASSUME NEW w \in Seq(Lines), NEW v \in Seq(Buffer), NEW acc \in Seq(Lines), NEW dr,
           Faithful(w, v, acc, dr),
           NEW v2 \in Seq(Buffer), NEW l \in Lines, v # <<>>, Len(v2) = Len(v),
           \A i \in 1..(Len(v) - 1) : v2[i] = v[i],
           v2[Len(v)].lines = Append(v[Len(v)].lines, l),
           \A g \in 1..Len(acc) : acc[g] # l,
           l \notin dr
    PROVE  Faithful(w, v2, Append(acc, l), dr)
<1> DEFINE n == Len(v)
           acc2 == Append(acc, l)
           m == Len(v[n].lines)
<1>1. n \in Nat /\ n >= 1 /\ v[n] \in Buffer
  OBVIOUS
<1>2. v[n].lines \in Seq(Lines) /\ m \in Nat
  BY <1>1 DEF Buffer
<1>3. /\ Len(acc2) = Len(acc) + 1 /\ acc2[Len(acc) + 1] = l /\ Len(acc) \in Nat
      /\ \A g \in 1..Len(acc) : acc2[g] = acc[g]
  OBVIOUS
<1>4. \A i \in 0..(n - 1) : Stage(w, v2, i) = Stage(w, v, i)
  BY <1>1 DEF Stage
<1>5. /\ Stage(w, v2, n) = Append(v[n].lines, l)
      /\ Stage(w, v, n) = v[n].lines
  BY <1>1 DEF Stage
<1>6. /\ Len(Stage(w, v2, n)) = m + 1 /\ Stage(w, v2, n)[m + 1] = l
      /\ \A j \in 1..m : Stage(w, v2, n)[j] = Stage(w, v, n)[j]
  BY <1>2, <1>5
<1> HIDE DEF acc2, n, m
<1>7. \A i, j : Place(w, v2, i, j) <=> Place(w, v, i, j) \/ (i = n /\ j = m + 1)
  <2> SUFFICES ASSUME NEW i, NEW j
               PROVE  Place(w, v2, i, j) <=> Place(w, v, i, j) \/ (i = n /\ j = m + 1)
    OBVIOUS
  <2>1. CASE i \in 0..(n - 1)
    BY <1>1, <1>4, <2>1 DEF Place, n
  <2>2. CASE i = n
    BY <1>1, <1>2, <1>5, <1>6, <2>2 DEF Place, n, m
  <2>3. CASE i \notin 0..n
    BY <1>1, <2>3 DEF Place, n
  <2> QED  BY <1>1, <2>1, <2>2, <2>3
<1>8. \A i, j : Place(w, v, i, j) => Stage(w, v2, i)[j] = Stage(w, v, i)[j]
  <2> SUFFICES ASSUME NEW i, NEW j, Place(w, v, i, j)
               PROVE  Stage(w, v2, i)[j] = Stage(w, v, i)[j]
    OBVIOUS
  <2>1. CASE i = n
    BY <1>5, <1>6, <2>1 DEF Place, m
  <2>2. CASE i # n
    BY <1>1, <1>4, <2>2 DEF Place, n
  <2> QED  BY <2>1, <2>2
<1>9. \A i, j : Place(w, v, i, j) => Stage(w, v, i)[j] # l
  BY DEF Faithful, Sound
<1>10. \A i, j : Place(w, v, i, j) => Before(i, j, n, m + 1)
  BY <1>1, <1>2, <1>5 DEF Place, Before, n, m
<1>11. Once(acc2)
  BY <1>3 DEF Faithful, Once
<1>12. Complete(w, v2, acc2, dr)
  <2> SUFFICES ASSUME NEW g \in 1..Len(acc2)
               PROVE  acc2[g] \in dr <=> ~Holds(w, v2, acc2[g])
    BY DEF Complete
  <2>1. CASE g = Len(acc) + 1
    BY <1>3, <1>6, <1>7, <2>1, HoldsPlace
  <2>2. CASE g \in 1..Len(acc)
    <3>1. acc2[g] = acc[g] /\ acc[g] # l
      BY <1>3, <2>2
    <3>2. Holds(w, v2, acc[g]) <=> Holds(w, v, acc[g])
      <4>1. ASSUME NEW i, NEW j, Place(w, v2, i, j), Stage(w, v2, i)[j] = acc[g]
            PROVE  Place(w, v, i, j) /\ Stage(w, v, i)[j] = acc[g]
        <5>1. ~(i = n /\ j = m + 1)
          BY <1>6, <3>1, <4>1
        <5> QED  BY <1>7, <1>8, <4>1, <5>1
      <4>2. ASSUME NEW i, NEW j, Place(w, v, i, j), Stage(w, v, i)[j] = acc[g]
            PROVE  Place(w, v2, i, j) /\ Stage(w, v2, i)[j] = acc[g]
        BY <1>7, <1>8, <4>2
      <4>3. /\ Holds(w, v2, acc[g]) <=> \E i, j : Place(w, v2, i, j) /\ Stage(w, v2, i)[j] = acc[g]
            /\ Holds(w, v, acc[g]) <=> \E i, j : Place(w, v, i, j) /\ Stage(w, v, i)[j] = acc[g]
        BY HoldsPlace
      <4> QED  BY <4>1, <4>2, <4>3, Zenon
    <3> QED  BY <2>2, <3>1, <3>2 DEF Faithful, Complete
  <2> QED  BY <1>3, <2>1, <2>2
<1>13. Sound(w, v2, acc2)
  <2> SUFFICES ASSUME NEW i, NEW j, Place(w, v2, i, j)
               PROVE  \E g \in 1..Len(acc2) : acc2[g] = Stage(w, v2, i)[j]
    BY DEF Sound
  <2>1. CASE i = n /\ j = m + 1
    <3>1. Len(acc) + 1 \in 1..Len(acc2)
      BY <1>3
    <3> QED  BY <1>3, <1>6, <2>1, <3>1
  <2>2. CASE Place(w, v, i, j)
    <3>1. PICK g \in 1..Len(acc) : acc[g] = Stage(w, v, i)[j]
      BY <2>2 DEF Faithful, Sound
    <3> QED  BY <1>3, <1>8, <2>2, <3>1
  <2> QED  BY <1>7, <2>1, <2>2
<1>14. Sorted(w, v2, acc2)
  <2> SUFFICES ASSUME NEW a, NEW i, NEW b, NEW j,
                      Place(w, v2, a, i), Place(w, v2, b, j), Before(a, i, b, j),
                      NEW g \in 1..Len(acc2), NEW h \in 1..Len(acc2),
                      acc2[g] = Stage(w, v2, a)[i], acc2[h] = Stage(w, v2, b)[j]
               PROVE  g < h
    BY DEF Sorted
  <2>1. ~(a = n /\ i = m + 1)
    <3> SUFFICES ASSUME a = n, i = m + 1 PROVE FALSE
      OBVIOUS
    <3>1. CASE b = n /\ j = m + 1
      BY <1>1, <1>2, <3>1 DEF Before, n, m
    <3>2. CASE Place(w, v, b, j)
      <4>1. Before(b, j, n, m + 1) /\ b \in 0..n /\ j \in Nat
        BY <1>1, <1>10, <3>2, PlaceType DEF n
      <4> QED  BY <1>1, <1>2, <4>1 DEF Before, n, m
    <3> QED  BY <1>7, <3>1, <3>2
  <2>2. Place(w, v, a, i) /\ acc2[g] = Stage(w, v, a)[i] /\ acc2[g] # l
    BY <1>7, <1>8, <1>9, <2>1
  <2>3. g \in 1..Len(acc) /\ acc[g] = acc2[g]
    BY <1>3, <2>2
  <2>4. CASE h = Len(acc) + 1
    BY <1>3, <2>3, <2>4
  <2>5. CASE h \in 1..Len(acc)
    <3>1. acc2[h] = acc[h] /\ acc[h] # l
      BY <1>3, <2>5
    <3>2. Place(w, v, b, j) /\ acc[h] = Stage(w, v, b)[j]
      BY <1>6, <1>7, <1>8, <3>1
    <3> QED  BY <2>2, <2>3, <2>5, <3>2 DEF Faithful, Sorted
  <2> QED  BY <1>3, <2>4, <2>5
<1> QED  BY <1>11, <1>12, <1>13, <1>14 DEF Faithful, acc2

\* Writing the first buffer moves its lines behind what was written.
LEMMA WriteLog ==
    ASSUME NEW w \in Seq(Lines), NEW v \in Seq(Buffer), NEW acc \in Seq(Lines), NEW dr,
           Faithful(w, v, acc, dr), v # <<>>
    PROVE  Faithful(w \o v[1].lines, Tail(v), acc, dr)
<1> DEFINE k == Len(w)
           x == v[1].lines
           w2 == w \o x
           v2 == Tail(v)
<1>1. /\ Len(v) \in Nat /\ Len(v) >= 1 /\ k \in Nat
      /\ v[1] \in Buffer
      /\ v2 \in Seq(Buffer) /\ Len(v2) = Len(v) - 1
      /\ \A i \in 1..Len(v2) : v2[i] = v[i + 1]
  OBVIOUS
<1>2. x \in Seq(Lines) /\ Len(x) \in Nat
  BY <1>1 DEF Buffer
<1>3. /\ w2 \in Seq(Lines) /\ Len(w2) = k + Len(x)
      /\ \A j \in 1..k : w2[j] = w[j]
      /\ \A j \in 1..Len(x) : w2[k + j] = x[j]
  BY <1>2
<1>4. /\ Stage(w2, v2, 0) = w2 /\ Stage(w, v, 0) = w /\ Stage(w, v, 1) = x
      /\ \A i \in 1..Len(v2) : Stage(w2, v2, i) = Stage(w, v, i + 1)
  BY <1>1 DEF Stage
<1> HIDE DEF x, w2, v2, k
\* Where the line at <<i, j>> was before.
<1> DEFINE st(i, j) == IF i = 0 THEN (IF j <= k THEN 0 ELSE 1) ELSE i + 1
           ix(i, j) == IF i = 0 /\ j > k THEN j - k ELSE j
<1>5. ASSUME NEW i, NEW j, Place(w2, v2, i, j)
      PROVE  /\ Place(w, v, st(i, j), ix(i, j))
             /\ Stage(w2, v2, i)[j] = Stage(w, v, st(i, j))[ix(i, j)]
             /\ i \in Nat /\ j \in Nat /\ j >= 1
  <2>1. i \in 0..Len(v2) /\ i \in Nat /\ j \in Nat /\ j >= 1
    BY <1>1, <1>3, <1>5, PlaceType
  <2>2. CASE i = 0 /\ j <= k
    BY <1>1, <1>3, <1>4, <2>1, <2>2 DEF Place, k
  <2>3. CASE i = 0 /\ j > k
    <3>1. j \in 1..(k + Len(x))
      BY <1>3, <1>4, <1>5, <2>3 DEF Place
    <3>2. j - k \in 1..Len(x) /\ k + (j - k) = j
      BY <1>1, <1>2, <2>1, <2>3, <3>1
    <3>3. w2[j] = x[j - k]
      BY <1>3, <3>2
    <3> QED  BY <1>1, <1>4, <2>1, <2>3, <3>2, <3>3 DEF Place
  <2>4. CASE i # 0
    BY <1>1, <1>4, <1>5, <2>1, <2>4 DEF Place
  <2> QED  BY <1>1, <2>1, <2>2, <2>3, <2>4
<1>6. ASSUME NEW i, NEW j, Place(w, v, i, j)
      PROVE  \E a, b : Place(w2, v2, a, b) /\ Stage(w2, v2, a)[b] = Stage(w, v, i)[j]
  <2>1. i \in 0..Len(v) /\ i \in Nat /\ j \in Nat /\ j >= 1
    BY <1>1, <1>6, PlaceType
  <2>2. CASE i = 0
    <3>1. j \in 1..k
      BY <1>4, <1>6, <2>2 DEF Place, k
    <3>2. Place(w2, v2, 0, j) /\ Stage(w2, v2, 0)[j] = Stage(w, v, i)[j]
      BY <1>1, <1>2, <1>3, <1>4, <2>2, <3>1 DEF Place
    <3> QED  BY <3>2
  <2>3. CASE i = 1
    <3>1. j \in 1..Len(x)
      BY <1>4, <1>6, <2>3 DEF Place
    <3>2. Place(w2, v2, 0, k + j) /\ Stage(w2, v2, 0)[k + j] = Stage(w, v, i)[j]
      BY <1>1, <1>2, <1>3, <1>4, <2>3, <3>1 DEF Place
    <3> QED  BY <3>2
  <2>4. CASE i > 1
    <3>1. i - 1 \in 1..Len(v2) /\ (i - 1) + 1 = i
      BY <1>1, <2>1, <2>4
    <3>2. Stage(w2, v2, i - 1) = Stage(w, v, i)
      BY <1>4, <3>1
    <3>3. Place(w2, v2, i - 1, j) /\ Stage(w2, v2, i - 1)[j] = Stage(w, v, i)[j]
      BY <1>1, <1>6, <3>1, <3>2 DEF Place
    <3> QED  BY <3>3
  <2> QED  BY <2>1, <2>2, <2>3, <2>4
<1>7. ASSUME NEW a, NEW i, NEW b, NEW j, Place(w2, v2, a, i), Place(w2, v2, b, j),
             Before(a, i, b, j)
      PROVE  Before(st(a, i), ix(a, i), st(b, j), ix(b, j))
  <2>1. a \in Nat /\ i \in Nat /\ b \in Nat /\ j \in Nat /\ i >= 1 /\ j >= 1
    BY <1>5, <1>7
  <2> QED  BY <1>1, <1>7, <2>1 DEF Before
<1> HIDE DEF st, ix
<1>8. Complete(w2, v2, acc, dr)
  <2> SUFFICES ASSUME NEW g \in 1..Len(acc)
               PROVE  Holds(w2, v2, acc[g]) <=> Holds(w, v, acc[g])
    BY DEF Faithful, Complete
  <2>1. /\ Holds(w2, v2, acc[g]) <=> \E i, j : Place(w2, v2, i, j) /\ Stage(w2, v2, i)[j] = acc[g]
        /\ Holds(w, v, acc[g]) <=> \E i, j : Place(w, v, i, j) /\ Stage(w, v, i)[j] = acc[g]
    BY HoldsPlace
  <2>2. ASSUME Holds(w2, v2, acc[g]) PROVE Holds(w, v, acc[g])
    <3>1. PICK i, j : Place(w2, v2, i, j) /\ Stage(w2, v2, i)[j] = acc[g]
      BY <2>1, <2>2
    <3> QED  BY <1>5, <2>1, <3>1
  <2>3. ASSUME Holds(w, v, acc[g]) PROVE Holds(w2, v2, acc[g])
    <3>1. PICK i, j : Place(w, v, i, j) /\ Stage(w, v, i)[j] = acc[g]
      BY <2>1, <2>3
    <3>2. PICK a, b : Place(w2, v2, a, b) /\ Stage(w2, v2, a)[b] = Stage(w, v, i)[j]
      BY <1>6, <3>1
    <3> QED  BY <2>1, <3>1, <3>2
  <2> QED  BY <2>2, <2>3
<1>9. Sound(w2, v2, acc)
  BY <1>5 DEF Faithful, Sound
<1>10. Sorted(w2, v2, acc)
  <2> SUFFICES ASSUME NEW a, NEW i, NEW b, NEW j, Place(w2, v2, a, i), Place(w2, v2, b, j),
                      Before(a, i, b, j), NEW g \in 1..Len(acc), NEW h \in 1..Len(acc),
                      acc[g] = Stage(w2, v2, a)[i], acc[h] = Stage(w2, v2, b)[j]
               PROVE  g < h
    BY DEF Sorted
  <2>1. /\ Place(w, v, st(a, i), ix(a, i)) /\ acc[g] = Stage(w, v, st(a, i))[ix(a, i)]
        /\ Place(w, v, st(b, j), ix(b, j)) /\ acc[h] = Stage(w, v, st(b, j))[ix(b, j)]
        /\ Before(st(a, i), ix(a, i), st(b, j), ix(b, j))
    BY <1>5, <1>7
  <2> QED  BY <2>1 DEF Faithful, Sorted
<1> QED  BY <1>8, <1>9, <1>10 DEF Faithful, w2, v2, x

\* No line is in two places.
LEMMA DistinctPlaces ==
    ASSUME NEW w \in Seq(Lines), NEW v \in Seq(Buffer), NEW acc \in Seq(Lines), NEW dr,
           Faithful(w, v, acc, dr),
           NEW a, NEW i, NEW b, NEW j, Place(w, v, a, i), Place(w, v, b, j),
           Stage(w, v, a)[i] = Stage(w, v, b)[j]
    PROVE  a = b /\ i = j
<1>1. a \in Nat /\ i \in Nat /\ b \in Nat /\ j \in Nat
  BY PlaceType
<1>2. PICK g \in 1..Len(acc) : acc[g] = Stage(w, v, a)[i]
  BY DEF Faithful, Sound
<1>3. ~Before(a, i, b, j) /\ ~Before(b, j, a, i)
  <2>1. ~(g < g)
    OBVIOUS
  <2> QED  BY <1>2, <2>1 DEF Faithful, Sorted
<1> QED  BY <1>1, <1>3 DEF Before

(* The elements of a concatenation. *)
LEMMA ConcatFacts ==
    ASSUME NEW T, NEW z \in Seq(T), NEW y \in Seq(T)
    PROVE  /\ z \o y \in Seq(T) /\ Len(z \o y) = Len(z) + Len(y)
           /\ \A i \in 1..Len(z) : (z \o y)[i] = z[i]
           /\ \A i \in 1..Len(y) : (z \o y)[Len(z) + i] = y[i]
<1>1. z \o y \in Seq(T) /\ Len(z \o y) = Len(z) + Len(y)
  OBVIOUS
<1>2. \A i \in 1..Len(z) : (z \o y)[i] = z[i]
  OBVIOUS
<1>3. ASSUME NEW i \in 1..Len(y)
      PROVE  (z \o y)[Len(z) + i] = y[i]
  OBVIOUS
<1> QED  BY <1>1, <1>2, <1>3

(* The lines of a sequence of buffers. *)
LEMMA LinesOfMember ==
    ASSUME NEW v, NEW l
    PROVE  l \in LinesOf(v) <=>
               \E i \in 1..Len(v) : \E j \in 1..Len(v[i].lines) : v[i].lines[j] = l
<1> DEFINE L(i) == {v[i].lines[j] : j \in 1..Len(v[i].lines)}
<1>1. l \in LinesOf(v) <=> \E i \in 1..Len(v) : l \in L(i)
  BY Zenon DEF LinesOf
<1>2. \A i : l \in L(i) <=> \E j \in 1..Len(v[i].lines) : v[i].lines[j] = l
  BY Zenon
<1> HIDE DEF L
<1> QED  BY <1>1, <1>2, Zenon

\* Erasing all but the first two buffers of a round, of which x is the list,
\* drops the lines of the others.
LEMMA DropLog ==
    ASSUME NEW w \in Seq(Lines), NEW x \in Seq(Buffer), NEW y \in Seq(Buffer),
           NEW acc \in Seq(Lines), NEW dr, Len(x) > 2,
           Faithful(w, x \o y, acc, dr)
    PROVE  Faithful(w, SubSeq(x, 1, 2) \o y, acc,
                    dr \cup (LinesOf(x) \ LinesOf(SubSeq(x, 1, 2))))
<1> DEFINE d == Len(x) - 2
           v == x \o y
<1>1. Len(x) \in Nat /\ Len(y) \in Nat /\ d \in Nat /\ d > 0 /\ Len(x) = d + 2
  OBVIOUS
<1>a. PICK z : z = SubSeq(x, 1, 2)
  OBVIOUS
<1>2. z \in Seq(Buffer) /\ Len(z) = 2 /\ \A i \in 1..2 : z[i] = x[i]
  BY <1>1, <1>a
<1> DEFINE v2 == z \o y
           dr2 == dr \cup (LinesOf(x) \ LinesOf(z))
<1>3. /\ v \in Seq(Buffer) /\ Len(v) = d + 2 + Len(y)
      /\ \A i \in 1..Len(x) : v[i] = x[i]
      /\ \A i \in 1..Len(y) : v[Len(x) + i] = y[i]
  BY <1>1
<1>4. /\ v2 \in Seq(Buffer) /\ Len(v2) = 2 + Len(y)
      /\ \A i \in 1..2 : v2[i] = z[i]
      /\ \A i \in 1..Len(y) : v2[2 + i] = y[i]
  <2>1. z \in Seq(Buffer)
    BY <1>2
  <2>2. v2 \in Seq(Buffer) /\ Len(v2) = Len(z) + Len(y)
    BY <2>1
  <2>3. \A i \in 1..Len(z) : v2[i] = z[i]
    BY <2>1
  <2>4. \A i \in 1..Len(y) : v2[Len(z) + i] = y[i]
    BY <2>1, ConcatFacts
  <2> HIDE DEF v2
  <2> QED  BY <1>2, <2>2, <2>3, <2>4
<1> HIDE DEF v, v2, d
<1> DEFINE st(i) == IF i <= 2 THEN i ELSE i + d
<1>5. ASSUME NEW i \in 0..Len(v2)
      PROVE  Stage(w, v2, i) = Stage(w, v, st(i)) /\ st(i) \in 0..Len(v)
  <2>1. CASE i = 0
    BY <1>1, <1>3, <2>1 DEF Stage
  <2>2. CASE i \in 1..2
    BY <1>1, <1>2, <1>3, <1>4, <2>2 DEF Stage
  <2>3. CASE i > 2
    <3>1. i - 2 \in 1..Len(y) /\ 2 + (i - 2) = i /\ Len(x) + (i - 2) = i + d
      BY <1>1, <1>4, <2>3
    <3>2. v2[i] = y[i - 2] /\ v[i + d] = y[i - 2]
      BY <1>3, <1>4, <3>1
    <3> QED  BY <1>1, <1>3, <2>3, <3>1, <3>2 DEF Stage
  <2> QED  BY <1>1, <1>4, <2>1, <2>2, <2>3
<1>6. ASSUME NEW i, NEW j, Place(w, v2, i, j)
      PROVE  /\ Place(w, v, st(i), j) /\ Stage(w, v2, i)[j] = Stage(w, v, st(i))[j]
             /\ i \in Nat /\ j \in Nat
  <2>1. i \in 0..Len(v2) /\ i \in Nat /\ j \in Nat
    BY <1>4, <1>6, PlaceType
  <2> HIDE DEF st
  <2> QED  BY <1>5, <1>6, <2>1 DEF Place
<1>7. ASSUME NEW i, NEW j, Place(w, v, i, j)
      PROVE  \/ i \in 3..Len(x)
             \/ \E a : Place(w, v2, a, j) /\ Stage(w, v2, a)[j] = Stage(w, v, i)[j]
  <2>1. i \in 0..Len(v) /\ i \in Nat /\ j \in Nat
    BY <1>3, <1>7, PlaceType
  <2>2. CASE i <= 2
    <3>1. i \in 0..Len(v2) /\ st(i) = i
      BY <1>1, <1>4, <2>1, <2>2
    <3> HIDE DEF st
    <3>2. Place(w, v2, i, j) /\ Stage(w, v2, i)[j] = Stage(w, v, i)[j]
      BY <1>5, <1>7, <3>1 DEF Place
    <3> QED  BY <3>2
  <2>3. CASE i > Len(x)
    <3>1. i - d \in 0..Len(v2) /\ st(i - d) = i
      BY <1>1, <1>3, <1>4, <2>1, <2>3
    <3> HIDE DEF st
    <3>2. Place(w, v2, i - d, j) /\ Stage(w, v2, i - d)[j] = Stage(w, v, i)[j]
      BY <1>5, <1>7, <3>1 DEF Place
    <3> QED  BY <3>2
  <2> QED  BY <1>1, <2>1, <2>2, <2>3
\* The lines of x are those at the places of its buffers.
<1>8. ASSUME NEW l
      PROVE  /\ l \in LinesOf(x) <=>
                    \E i \in 1..Len(x) : \E j : Place(w, v, i, j) /\ Stage(w, v, i)[j] = l
             /\ l \in LinesOf(z) <=>
                    \E i \in 1..2 : \E j : Place(w, v, i, j) /\ Stage(w, v, i)[j] = l
  <2>1. \A i \in 1..Len(x) : Stage(w, v, i) = x[i].lines /\ i \in 0..Len(v)
    BY <1>1, <1>3 DEF Stage
  <2>2. \A i \in 1..2 : i \in 1..Len(x) /\ z[i] = x[i]
    BY <1>1, <1>2
  <2>3. l \in LinesOf(x) <=> \E i \in 1..Len(x) : \E j \in 1..Len(x[i].lines) : x[i].lines[j] = l
    BY LinesOfMember
  <2>4. l \in LinesOf(z) <=> \E i \in 1..2 : \E j \in 1..Len(x[i].lines) : x[i].lines[j] = l
    <3>1. l \in LinesOf(z) <=> \E i \in 1..Len(z) : \E j \in 1..Len(z[i].lines) : z[i].lines[j] = l
      BY LinesOfMember, Zenon
    <3> QED  BY <1>2, <2>2, <3>1
  <2> QED  BY <2>1, <2>2, <2>3, <2>4 DEF Place
<1>9. ASSUME NEW a, NEW i, NEW b, NEW j, Place(w, v2, a, i), Place(w, v2, b, j),
             Before(a, i, b, j)
      PROVE  Before(st(a), i, st(b), j)
  <2>1. a \in Nat /\ i \in Nat /\ b \in Nat /\ j \in Nat
    BY <1>6, <1>9
  <2> QED  BY <1>1, <1>9, <2>1 DEF Before
<1>10. \A a \in Nat : st(a) \notin 3..Len(x)
  BY <1>1
<1> HIDE DEF st
<1>11. Faithful(w, v, acc, dr)
  BY DEF v
<1>12. Complete(w, v2, acc, dr2)
  <2> SUFFICES ASSUME NEW g \in 1..Len(acc)
               PROVE  acc[g] \in dr2 <=> ~Holds(w, v2, acc[g])
    BY DEF Complete
  <2>1. /\ Holds(w, v2, acc[g]) <=> \E i, j : Place(w, v2, i, j) /\ Stage(w, v2, i)[j] = acc[g]
        /\ Holds(w, v, acc[g]) <=> \E i, j : Place(w, v, i, j) /\ Stage(w, v, i)[j] = acc[g]
        /\ acc[g] \in dr <=> ~Holds(w, v, acc[g])
    BY <1>11, HoldsPlace DEF Faithful, Complete
  <2>2. ASSUME acc[g] \in dr2, Holds(w, v2, acc[g]) PROVE FALSE
    <3>1. PICK a, b : Place(w, v2, a, b) /\ Stage(w, v2, a)[b] = acc[g]
      BY <2>1, <2>2
    <3>2. Place(w, v, st(a), b) /\ Stage(w, v, st(a))[b] = acc[g] /\ st(a) \notin 3..Len(x)
      BY <1>6, <1>10, <3>1
    <3>3. acc[g] \in LinesOf(x) /\ acc[g] \notin LinesOf(z)
      BY <2>1, <2>2, <3>2
    <3>a. PICK i \in 1..Len(x) : \E j : Place(w, v, i, j) /\ Stage(w, v, i)[j] = acc[g]
      BY <1>8, <3>3
    <3>4. PICK j : Place(w, v, i, j) /\ Stage(w, v, i)[j] = acc[g]
      BY <3>a
    <3>5. i = st(a) /\ j = b
      BY <1>3, <1>11, <3>2, <3>4, DistinctPlaces
    <3>6. i \in 1..2
      BY <1>1, <3>2, <3>5
    <3> QED  BY <1>8, <3>3, <3>4, <3>6
  <2>3. ASSUME acc[g] \notin dr2, ~Holds(w, v2, acc[g]) PROVE FALSE
    <3>1. PICK i, j : Place(w, v, i, j) /\ Stage(w, v, i)[j] = acc[g]
      BY <2>1, <2>3
    <3>2. i \in 3..Len(x)
      BY <1>7, <2>1, <2>3, <3>1
    <3>3. acc[g] \in LinesOf(x)
      BY <1>1, <1>8, <3>1, <3>2
    <3>a. PICK a \in 1..2 : \E b : Place(w, v, a, b) /\ Stage(w, v, a)[b] = acc[g]
      BY <1>8, <2>3, <3>3
    <3>4. PICK b : Place(w, v, a, b) /\ Stage(w, v, a)[b] = acc[g]
      BY <3>a
    <3>5. a = i
      BY <1>3, <1>11, <3>1, <3>4, DistinctPlaces
    <3> QED  BY <1>1, <3>2, <3>5
  <2> QED  BY <2>2, <2>3
<1>13. Sound(w, v2, acc)
  BY <1>6, <1>11 DEF Faithful, Sound
<1>14. Sorted(w, v2, acc)
  <2> SUFFICES ASSUME NEW a, NEW i, NEW b, NEW j, Place(w, v2, a, i), Place(w, v2, b, j),
                      Before(a, i, b, j), NEW g \in 1..Len(acc), NEW h \in 1..Len(acc),
                      acc[g] = Stage(w, v2, a)[i], acc[h] = Stage(w, v2, b)[j]
               PROVE  g < h
    BY DEF Sorted
  <2>1. /\ Place(w, v, st(a), i) /\ acc[g] = Stage(w, v, st(a))[i]
        /\ Place(w, v, st(b), j) /\ acc[h] = Stage(w, v, st(b))[j]
        /\ Before(st(a), i, st(b), j)
    BY <1>6, <1>9
  <2> QED  BY <1>11, <2>1 DEF Faithful, Sorted
<1> QED  BY <1>a, <1>11, <1>12, <1>13, <1>14 DEF Faithful, v2

-----------------------------------------------------------------------------
(* What the log rests on. *)

\* The standby buffer of the front is empty.
FrontInv == front.buffer2 # NoBuffer => front.buffer2 = EmptyBuffer

\* Only while it writes has the back end buffers still to write.
TodoInv == thread # "write" => todo = <<>>

\* A producer's line in the lock was not accepted before.
FreshInv ==
    \A k \in 1..Len(accepted) :
        /\ accepted[k][2] <= sent[accepted[k][1]]
        /\ accepted[k][1] \in checked => accepted[k][2] < sent[accepted[k][1]]

\* Only accepted lines are dropped.
DropInv == \A l \in dropped : \E k \in 1..Len(accepted) : accepted[k] = l

LogInv == FrontInv /\ TodoInv /\ FreshInv /\ DropInv /\ LogPreserved

(* Every step keeps the standby buffer empty. *)
LEMMA FrontStep == TypeInv /\ BufferInv /\ FrontInv /\ [Next]_vars => FrontInv'
<1> SUFFICES ASSUME TypeInv, BufferInv, FrontInv, [Next]_vars
             PROVE  FrontInv'
  OBVIOUS
<1>0. front \in Front /\ back \in Back /\ RoundInv
  BY DEF TypeInv, TypeOK, BufferInv, Front, Back
<1>1. ASSUME NEW p \in Producers, AppendLine(p)
      PROVE  FrontInv'
  <2> DEFINE l == <<p, sent[p]>>
             len == LineLength[sent[p]]
             f == IF Avail(front.buffer1) > len THEN front
                                                ELSE SubmitBuffer(front)
  <2>1. f \in Front /\ (f.buffer2 = front.buffer2 \/ f.buffer2 = NoBuffer)
    BY <1>0, SubmitType DEF SubmitBuffer
  <2>2. front' = [f EXCEPT !.buffer1 = AppendTo(f.buffer1, l, len)]
    BY <1>1 DEF AppendLine
  <2>3. front'.buffer2 = f.buffer2
    BY <2>1, <2>2 DEF Front
  <2> QED BY <2>1, <2>3 DEF FrontInv
<1>2. CASE StopSubmit
  BY <1>2 DEF StopSubmit, SubmitBuffer, FrontInv
<1>3. ASSUME thread \in {"lock", "wait"}, Swap
      PROVE  FrontInv'
  <2>1. back.buffer2 = EmptyBuffer
    BY <1>0, <1>3 DEF RoundInv, InLoop, NewDoubleBuffer
  <2> QED BY <1>3, <2>1 DEF Swap, FrontInv
<1>4. CASE front' = front
  BY <1>4 DEF FrontInv
<1>5. ASSUME NEW p \in Producers, DoAppend(p)
      PROVE  front' = front
  BY <1>5 DEF DoAppend, bufVars
<1>6. Start \/ StopFlag \/ StopJoin \/ While \/ LockWait \/ Trim \/ Write \/ Reset \/ UNCHANGED vars
      => front' = front
  BY DEF Start, StopFlag, StopJoin, While, ReadFirst, ReadSecond, LockWait, Trim, Write, Reset, vars, bufVars
<1> QED
  BY <1>1, <1>2, <1>3, <1>4, <1>5, <1>6 DEF Next, BackEnd, Stopping, LockSwap, WaitSwap

(* Every step but the writing ones leaves nothing to write. *)
LEMMA TodoStep == TypeInv /\ TodoInv /\ [Next]_vars => TodoInv'
<1> SUFFICES ASSUME TypeInv, TodoInv, [Next]_vars
             PROVE  TodoInv'
  OBVIOUS
<1>1. ASSUME NEW p \in Producers, DoAppend(p) \/ AppendLine(p)
      PROVE  TodoInv'
  BY <1>1 DEF DoAppend, AppendLine, bufVars, TodoInv
<1>2. CASE Start \/ StopFlag \/ StopSubmit \/ StopJoin \/ UNCHANGED vars
  BY <1>2 DEF Start, StopFlag, StopSubmit, StopJoin, vars, bufVars, TodoInv
<1>3. CASE While \/ LockWait \/ LockSwap \/ WaitSwap
  BY <1>3 DEF While, ReadFirst, ReadSecond, LockWait, LockSwap, WaitSwap, Swap, bufVars, TodoInv
<1>4. CASE Trim \/ Write \/ Reset
  BY <1>4 DEF Trim, Write, Reset, TodoInv
<1> QED  BY <1>1, <1>2, <1>3, <1>4 DEF Next, BackEnd, Stopping

(* Every step keeps the line of a producer in the lock new. *)
LEMMA FreshStep == TypeInv /\ FreshInv /\ [Next]_vars => FreshInv'
<1> SUFFICES ASSUME TypeInv, FreshInv, [Next]_vars
             PROVE  FreshInv'
  OBVIOUS
<1>0. /\ accepted \in Seq(Lines) /\ sent \in [Producers -> 0..LinesPer]
      /\ checked \in SUBSET Producers /\ LinesPer \in Nat
      /\ \A p \in checked : sent[p] \in 1..LinesPer
  BY AppenderAssumption DEF TypeInv, TypeOK, CheckedInv
<1>a. ASSUME NEW k \in 1..Len(accepted)
      PROVE  accepted[k][1] \in Producers /\ accepted[k][2] \in Nat
  <2>1. accepted[k] \in Producers \X (1..LinesPer)
    BY <1>0 DEF Lines
  <2> QED  BY <1>0, <2>1
<1>1. ASSUME NEW p \in Producers, DoAppend(p)
      PROVE  FreshInv'
  <2>1. /\ sent' = [sent EXCEPT ![p] = sent[p] + 1] /\ p \notin checked
        /\ checked' \subseteq checked \cup {p} /\ accepted' = accepted
    BY <1>1 DEF DoAppend, history
  <2> SUFFICES ASSUME NEW k \in 1..Len(accepted)
               PROVE  /\ accepted[k][2] <= sent'[accepted[k][1]]
                      /\ accepted[k][1] \in checked' => accepted[k][2] < sent'[accepted[k][1]]
    BY <2>1 DEF FreshInv
  <2>2. accepted[k][1] \in Producers /\ accepted[k][2] \in Nat
    BY <1>a
  <2>3. /\ accepted[k][2] <= sent[accepted[k][1]]
        /\ accepted[k][1] \in checked => accepted[k][2] < sent[accepted[k][1]]
    BY DEF FreshInv
  <2>4. CASE accepted[k][1] = p
    BY <1>0, <2>1, <2>2, <2>3, <2>4
  <2>5. CASE accepted[k][1] # p
    BY <1>0, <2>1, <2>2, <2>3, <2>5
  <2> QED  BY <2>4, <2>5
<1>2. ASSUME NEW p \in Producers, AppendLine(p)
      PROVE  FreshInv'
  <2> DEFINE l == <<p, sent[p]>>
  <2>1. /\ accepted' = Append(accepted, l) /\ checked' = checked \ {p} /\ sent' = sent
        /\ p \in checked
    BY <1>2 DEF AppendLine
  <2>2. l \in Lines
    BY <1>0, <2>1 DEF Lines
  <2>3. /\ Len(accepted') = Len(accepted) + 1 /\ accepted'[Len(accepted) + 1] = l
        /\ \A k \in 1..Len(accepted) : accepted'[k] = accepted[k]
        /\ Len(accepted) \in Nat
    BY <1>0, <2>1, <2>2
  <2> SUFFICES ASSUME NEW k \in 1..Len(accepted')
               PROVE  /\ accepted'[k][2] <= sent[accepted'[k][1]]
                      /\ accepted'[k][1] \in checked' => accepted'[k][2] < sent[accepted'[k][1]]
    BY <2>1 DEF FreshInv
  <2>4. CASE k = Len(accepted) + 1
    BY <1>0, <2>1, <2>3, <2>4
  <2>5. CASE k \in 1..Len(accepted)
    BY <2>1, <2>3, <2>5 DEF FreshInv
  <2> QED  BY <2>3, <2>4, <2>5
<1>3. CASE UNCHANGED <<accepted, sent, checked>>
  BY <1>3 DEF FreshInv
<1>4. Start \/ StopFlag \/ StopSubmit \/ StopJoin \/ UNCHANGED vars => UNCHANGED <<accepted, sent, checked>>
  BY DEF Start, StopFlag, StopSubmit, StopJoin, vars, history
<1>5. BackEnd => UNCHANGED <<accepted, sent, checked>>
  BY DEF BackEnd, While, ReadFirst, ReadSecond, LockWait, LockSwap, WaitSwap, Swap, Trim, Write, Reset, history
<1> QED  BY <1>1, <1>2, <1>3, <1>4, <1>5 DEF Next, Stopping

\* Every line in the log was accepted.
LEMMA LinesAccepted ==
    ASSUME NEW w \in Seq(Lines), NEW x \in Seq(Buffer), NEW y \in Seq(Buffer),
           NEW acc \in Seq(Lines), NEW dr, Faithful(w, x \o y, acc, dr), NEW l \in LinesOf(x)
    PROVE  \E k \in 1..Len(acc) : acc[k] = l
<1>1. PICK i \in 1..Len(x) : \E j \in 1..Len(x[i].lines) : x[i].lines[j] = l
  BY LinesOfMember
<1>2. PICK j \in 1..Len(x[i].lines) : x[i].lines[j] = l
  BY <1>1
<1>3. (x \o y)[i] = x[i] /\ i # 0 /\ i \in 0..Len(x \o y)
  <2>1. Len(x) \in Nat /\ Len(y) \in Nat
    OBVIOUS
  <2> QED  BY <2>1, ConcatFacts
<1>4. Stage(w, x \o y, i) = x[i].lines
  BY <1>3 DEF Stage
<1>5. Place(w, x \o y, i, j) /\ Stage(w, x \o y, i)[j] = l
  BY <1>2, <1>3, <1>4 DEF Place
<1> QED  BY <1>5 DEF Faithful, Sound

(* Every step drops accepted lines only. *)
LEMMA DropStep == TypeInv /\ DropInv /\ LogPreserved /\ [Next]_vars => DropInv'
<1> SUFFICES ASSUME TypeInv, DropInv, LogPreserved, [Next]_vars
             PROVE  DropInv'
  OBVIOUS
<1>0. /\ accepted \in Seq(Lines) /\ written \in Seq(Lines)
      /\ front \in Front /\ back \in Back /\ todo \in Seq(Buffer)
      /\ sent \in [Producers -> 0..LinesPer]
  BY DEF TypeInv, TypeOK, Front, Back
<1>1. ASSUME NEW p \in Producers, AppendLine(p)
      PROVE  DropInv'
  <2> DEFINE l == <<p, sent[p]>>
  <2>1. accepted' = Append(accepted, l) /\ dropped' = dropped
    BY <1>1 DEF AppendLine
  <2>2. l \in Lines
    BY <1>1 DEF AppendLine, TypeInv, CheckedInv, Lines
  <2>3. Len(accepted) \in Nat /\ Len(accepted') = Len(accepted) + 1
        /\ \A k \in 1..Len(accepted) : accepted'[k] = accepted[k]
    BY <1>0, <2>1, <2>2
  <2>4. \A k \in 1..Len(accepted) : k \in 1..Len(accepted')
    BY <2>3
  <2> QED  BY <2>1, <2>3, <2>4 DEF DropInv
<1>2. CASE Trim
  <2>1. dropped' \subseteq dropped \cup LinesOf(back.buffer_vec) /\ accepted' = accepted
    BY <1>2 DEF Trim
  <2> DEFINE y == front.buffer_vec \o <<front.buffer1>>
  <2>2. y \in Seq(Buffer) /\ back.buffer_vec \in Seq(Buffer)
    BY <1>0 DEF Front, Back
  <2>3. Pending = back.buffer_vec \o y
    <3>1. Pending = (back.buffer_vec \o front.buffer_vec) \o <<front.buffer1>>
      BY <1>2 DEF Trim, Pending
    <3>2. front.buffer_vec \in Seq(Buffer) /\ front.buffer1 \in Buffer
      BY <1>0 DEF Front
    <3> QED  BY <2>2, <3>1, <3>2, BufferSeqs, Zenon
  <2>4. Faithful(written, back.buffer_vec \o y, accepted, dropped)
    BY <2>3, FaithfulLog
  <2> HIDE DEF y
  <2>5. \A l \in LinesOf(back.buffer_vec) : \E k \in 1..Len(accepted) : accepted[k] = l
    BY <1>0, <2>2, <2>4, LinesAccepted
  <2> QED  BY <2>1, <2>5 DEF DropInv
<1>3. CASE UNCHANGED <<accepted, dropped>>
  BY <1>3 DEF DropInv
<1>4. ASSUME NEW p \in Producers, DoAppend(p)
      PROVE  UNCHANGED <<accepted, dropped>>
  BY <1>4 DEF DoAppend, history
<1>5. Start \/ StopFlag \/ StopSubmit \/ StopJoin \/ UNCHANGED vars => UNCHANGED <<accepted, dropped>>
  BY DEF Start, StopFlag, StopSubmit, StopJoin, vars, history
<1>6. While \/ LockWait \/ LockSwap \/ WaitSwap \/ Write \/ Reset => UNCHANGED <<accepted, dropped>>
  BY DEF While, ReadFirst, ReadSecond, LockWait, LockSwap, WaitSwap, Swap, Write, Reset, history
<1> QED  BY <1>1, <1>2, <1>3, <1>4, <1>5, <1>6 DEF Next, Stopping, BackEnd

(* FaithfulLog after a step. *)
LEMMA FaithfulNext == LogPreserved' <=> Faithful(written', Pending', accepted', dropped')
<1>1. (LogPreserved <=> Faithful(written, Pending, accepted, dropped))'
  BY FaithfulLog, PTL
<1>2. Faithful(written, Pending, accepted, dropped)' <=> Faithful(written', Pending', accepted', dropped')
  BY DEF Faithful, Once, Complete, Holds, Sound, Sorted, Place, Before, Stage
<1> QED  BY <1>1, <1>2

\* The buffers to write, in the parts that change together.
LEMMA PendingParts ==
    ASSUME TypeInv
    PROVE  /\ Pending \in Seq(Buffer)
           /\ front.buffer_vec \in Seq(Buffer) /\ front.buffer1 \in Buffer
           /\ back.buffer_vec \in Seq(Buffer) /\ todo \in Seq(Buffer)
           /\ accepted \in Seq(Lines) /\ written \in Seq(Lines)
<1>1. /\ front.buffer_vec \in Seq(Buffer) /\ front.buffer1 \in Buffer
      /\ back.buffer_vec \in Seq(Buffer) /\ todo \in Seq(Buffer)
      /\ accepted \in Seq(Lines) /\ written \in Seq(Lines)
  BY DEF TypeInv, TypeOK
<1> QED  BY <1>1 DEF Pending

(* AsyncAppender::append keeps the log, with and without submitBuffer. *)
LEMMA AppendLineLog ==
    ASSUME TypeInv, BufferInv, LogInv, NEW p \in Producers, AppendLine(p)
    PROVE  LogPreserved'
<1> DEFINE l == <<p, sent[p]>>
           len == LineLength[sent[p]]
           f == IF Avail(front.buffer1) > len THEN front
                                              ELSE SubmitBuffer(front)
<1>1. sent[p] \in 1..LinesPer /\ l \in Lines /\ len \in 0..(BufferSize - 1) /\ BufferSize \in Nat
  BY AppenderAssumption DEF AppendLine, TypeInv, CheckedInv, Lines
<1>2. /\ front' = [f EXCEPT !.buffer1 = AppendTo(f.buffer1, l, len)]
      /\ accepted' = Append(accepted, l) /\ written' = written /\ dropped' = dropped
      /\ UNCHANGED <<back, todo, thread>> /\ p \in checked
  BY DEF AppendLine
<1>3. front \in Front /\ f \in Front
  BY SubmitType DEF TypeInv, TypeOK, Front
<1>4. PICK q : q = IF thread = "trim" THEN back.buffer_vec ELSE todo
  OBVIOUS
<1>5. q \in Seq(Buffer)
  BY <1>4, PendingParts
<1>6. PICK v : v = q \o f.buffer_vec \o <<f.buffer1>>
  OBVIOUS
<1>7. Faithful(written, Pending, accepted, dropped)
  BY FaithfulLog DEF LogInv
<1>8. Pending = q \o front.buffer_vec \o <<front.buffer1>>
  BY <1>4 DEF Pending
\* The line fits: an empty buffer takes any line.
<1>9. Faithful(written, v, accepted, dropped) /\ Avail(f.buffer1) >= len
  <2>1. CASE Avail(front.buffer1) > len
    <3>1. f = front
      BY <2>1
    <3>2. front.buffer1.length \in 0..BufferSize
      BY <1>3 DEF Front, Buffer
    <3>3. v = Pending
      BY <1>6, <1>8, <3>1
    <3>4. Avail(f.buffer1) >= len
      BY <1>1, <2>1, <3>1, <3>2 DEF Avail
    <3> QED  BY <1>7, <3>3, <3>4
  <2>2. CASE ~(Avail(front.buffer1) > len)
    <3>1. f = SubmitBuffer(front)
      BY <2>2
    <3>2. f.buffer1 = EmptyBuffer /\ f.buffer_vec = Append(front.buffer_vec, front.buffer1)
      BY <3>1 DEF SubmitBuffer, LogInv, FrontInv
    <3>3. v = Append(Pending, EmptyBuffer)
      <4>1. front.buffer_vec \in Seq(Buffer) /\ front.buffer1 \in Buffer
        BY PendingParts
      <4>2. q \o Append(front.buffer_vec, front.buffer1) \o <<EmptyBuffer>>
                = Append(q \o front.buffer_vec \o <<front.buffer1>>, EmptyBuffer)
        BY <1>5, <4>1, GrowBuffers, Zenon
      <4> QED  BY <1>6, <1>8, <3>2, <4>2
    <3>4. Faithful(written, v, accepted, dropped)
      BY <1>7, <3>3, GrowLog, PendingParts
    <3>5. Avail(f.buffer1) = BufferSize
      BY <1>1, <3>2 DEF Avail, EmptyBuffer
    <3> QED  BY <1>1, <3>4, <3>5
  <2> QED  BY <2>1, <2>2
<1> HIDE DEF f, len
<1>10. PICK c : c = AppendTo(f.buffer1, l, len)
  OBVIOUS
<1>11. c \in Buffer /\ c.lines = Append(f.buffer1.lines, l)
  <2>1. len \in Nat /\ f.buffer1 \in Buffer
    BY <1>1, <1>3 DEF Front
  <2> QED  BY <1>1, <1>9, <1>10, <2>1, AppendToType DEF AppendTo
<1>12. front'.buffer_vec = f.buffer_vec /\ front'.buffer1 = c
  BY <1>2, <1>3, <1>10 DEF Front
<1>13. PICK v2 : v2 = q \o f.buffer_vec \o <<c>>
  OBVIOUS
<1>14. Pending' = v2
  BY <1>2, <1>4, <1>12, <1>13 DEF Pending
<1>15. /\ v \in Seq(Buffer) /\ v2 \in Seq(Buffer) /\ v # <<>> /\ Len(v2) = Len(v)
       /\ \A i \in 1..(Len(v) - 1) : v2[i] = v[i]
       /\ v2[Len(v)] = c /\ v[Len(v)] = f.buffer1
  <2>1. PICK u : u = q \o f.buffer_vec
    OBVIOUS
  <2>2. u \in Seq(Buffer) /\ f.buffer1 \in Buffer
    BY <1>3, <1>5, <2>1 DEF Front
  <2>3. v = Append(u, f.buffer1) /\ v2 = Append(u, c)
    BY <1>6, <1>11, <1>13, <2>1, <2>2, AppendConcat
  <2> QED  BY <1>11, <2>2, <2>3
<1>16. \A g \in 1..Len(accepted) : accepted[g] # l
  <2> SUFFICES ASSUME NEW g \in 1..Len(accepted), accepted[g] = l PROVE FALSE
    OBVIOUS
  <2>1. accepted[g][2] < sent[accepted[g][1]] \/ accepted[g][1] \notin checked
    BY DEF LogInv, FreshInv
  <2> QED  BY <1>1, <1>2, <2>1
<1>17. l \notin dropped
  BY <1>16 DEF LogInv, DropInv
<1>18. Faithful(written, v2, Append(accepted, l), dropped)
  BY <1>1, <1>9, <1>11, <1>15, <1>16, <1>17, AcceptLine, PendingParts
<1> QED  BY <1>2, <1>14, <1>18, FaithfulNext

(* A step that only puts an empty buffer at the end keeps the log. *)
LEMMA GrowStep ==
    ASSUME TypeInv, LogInv, UNCHANGED history, Pending' = Append(Pending, EmptyBuffer)
    PROVE  LogPreserved'
<1>1. Faithful(written, Pending, accepted, dropped)
  BY FaithfulLog DEF LogInv
<1>2. Faithful(written, Append(Pending, EmptyBuffer), accepted, dropped)
  BY <1>1, GrowLog, PendingParts
<1> QED  BY <1>2, FaithfulNext DEF history

(* A step that leaves the log alone keeps it. *)
LEMMA StillStep ==
    ASSUME LogInv, UNCHANGED history, Pending' = Pending
    PROVE  LogPreserved'
<1>1. Faithful(written, Pending, accepted, dropped)
  BY FaithfulLog DEF LogInv
<1> QED  BY <1>1, FaithfulNext DEF history

(* The critical section of stop() keeps the log. *)
LEMMA SubmitLog ==
    ASSUME TypeInv, LogInv, StopSubmit
    PROVE  LogPreserved'
<1>1. PICK q : q = IF thread = "trim" THEN back.buffer_vec ELSE todo
  OBVIOUS
<1>2. /\ front'.buffer_vec = Append(front.buffer_vec, front.buffer1)
      /\ front'.buffer1 = EmptyBuffer
  BY DEF StopSubmit, SubmitBuffer, LogInv, FrontInv
<1>3. Pending' = q \o Append(front.buffer_vec, front.buffer1) \o <<EmptyBuffer>>
  BY <1>1, <1>2 DEF StopSubmit, Pending
<1>4. Pending = q \o front.buffer_vec \o <<front.buffer1>>
  BY <1>1 DEF Pending
<1>5. q \in Seq(Buffer)
  BY <1>1, PendingParts
<1>6. Pending' = Append(Pending, EmptyBuffer)
  <2>1. front.buffer_vec \in Seq(Buffer) /\ front.buffer1 \in Buffer
    BY PendingParts
  <2>2. q \o Append(front.buffer_vec, front.buffer1) \o <<EmptyBuffer>>
            = Append(q \o front.buffer_vec \o <<front.buffer1>>, EmptyBuffer)
    BY <1>5, <2>1, GrowBuffers, Zenon
  <2> QED  BY <1>3, <1>4, <2>2
<1>7. UNCHANGED history
  BY DEF StopSubmit, history
<1> QED  BY <1>6, <1>7, GrowStep

(* The swap of run() keeps the log. *)
LEMMA SwapLog ==
    ASSUME TypeInv, BufferInv, LogInv, thread \in {"lock", "wait"}, Swap
    PROVE  LogPreserved'
<1>1. todo = <<>> /\ back = NewDoubleBuffer
  BY DEF LogInv, TodoInv, BufferInv, RoundInv, InLoop
<1>2. /\ front'.buffer_vec = <<>> /\ front'.buffer1 = EmptyBuffer
      /\ back'.buffer_vec = Append(front.buffer_vec, front.buffer1) /\ thread' = "trim"
  BY <1>1 DEF Swap, NewDoubleBuffer
<1>3. PICK s : s = Append(front.buffer_vec, front.buffer1)
  OBVIOUS
<1>a. s = front.buffer_vec \o <<front.buffer1>>
  BY <1>3, PendingParts, BufferSeqs, Zenon
<1>4. s \in Seq(Buffer)
  BY <1>3, PendingParts
<1>5. Pending = <<>> \o front.buffer_vec \o <<front.buffer1>>
  BY <1>1 DEF Pending
<1>6. Pending = s
  <2>1. <<>> \o front.buffer_vec = front.buffer_vec
    BY PendingParts, ConcatEmptySeq
  <2> QED  BY <1>a, <1>5, <2>1, Zenon
<1>7. Pending' = s \o <<>> \o <<EmptyBuffer>>
  BY <1>2, <1>3 DEF Pending
<1>8. Pending' = Append(s, EmptyBuffer)
  <2>1. s \o <<>> = s
    BY <1>4, ConcatEmptySeq
  <2>2. s \o <<EmptyBuffer>> = Append(s, EmptyBuffer)
    BY <1>4, AppendConcat, EmptyBufferType
  <2> QED  BY <1>7, <2>1, <2>2, Zenon
<1>9. UNCHANGED history
  BY DEF Swap
<1> QED  BY <1>6, <1>8, <1>9, GrowStep

(* The drop limit takes out what it drops and nothing else. *)
LEMMA TrimLog ==
    ASSUME TypeInv, LogInv, Trim
    PROVE  LogPreserved'
<1>1. PICK x, y : x = back.buffer_vec /\ y = front.buffer_vec \o <<front.buffer1>>
  OBVIOUS
<1>2. x \in Seq(Buffer) /\ y \in Seq(Buffer)
  BY <1>1, PendingParts
<1>3. Kept(x) \in Seq(Buffer)
  BY <1>2, KeptType
<1>4. Pending = x \o front.buffer_vec \o <<front.buffer1>>
  BY <1>1 DEF Pending, Trim
<1>5. Pending = x \o y
  <2>1. front.buffer_vec \in Seq(Buffer) /\ front.buffer1 \in Buffer
    BY PendingParts
  <2>2. x \o front.buffer_vec \o <<front.buffer1>> = x \o (front.buffer_vec \o <<front.buffer1>>)
    BY <1>2, <2>1, BufferSeqs, Zenon
  <2> QED  BY <1>1, <1>4, <2>2
<1>6. Pending' = Kept(x) \o front.buffer_vec \o <<front.buffer1>>
  BY <1>1 DEF Pending, Trim
<1>7. Pending' = Kept(x) \o y
  BY <1>1, <1>3, <1>6, PendingParts, BufferSeqs, Zenon
<1>8. /\ written' = written /\ accepted' = accepted
      /\ dropped' = dropped \cup (LinesOf(x) \ LinesOf(Kept(x)))
  BY <1>1 DEF Trim
<1>9. Faithful(written, x \o y, accepted, dropped)
  BY <1>5, FaithfulLog DEF LogInv
<1>10. Faithful(written, Kept(x) \o y, accepted, dropped \cup (LinesOf(x) \ LinesOf(Kept(x))))
  <2>1. CASE Len(x) > DropLimit
    <3>1. Len(x) > 2
      BY <1>2, <2>1, AppenderAssumption
    <3>2. Kept(x) = SubSeq(x, 1, 2)
      BY <2>1 DEF Kept
    <3> QED  BY <1>2, <1>9, <3>1, <3>2, PendingParts, DropLog
  <2>2. CASE ~(Len(x) > DropLimit)
    <3>1. Kept(x) = x
      BY <2>2 DEF Kept
    <3>2. dropped \cup (LinesOf(x) \ LinesOf(x)) = dropped
      OBVIOUS
    <3> QED  BY <1>9, <3>1, <3>2
  <2> QED  BY <2>1, <2>2
<1> QED  BY <1>7, <1>8, <1>10, FaithfulNext

(* Writing a buffer keeps the log. *)
LEMMA WriteStep ==
    ASSUME TypeInv, LogInv, Write
    PROVE  LogPreserved'
<1>1. /\ todo # <<>> /\ written' = written \o Head(todo).lines
      /\ todo' = Tail(todo) /\ accepted' = accepted /\ dropped' = dropped
      /\ thread = "write" /\ thread' = "write" /\ front' = front
  BY DEF Write
<1>2. Pending = todo \o front.buffer_vec \o <<front.buffer1>>
  BY <1>1 DEF Pending
<1>3. Pending' = Tail(todo) \o front.buffer_vec \o <<front.buffer1>>
  BY <1>1 DEF Pending
<1>4. Pending[1] = Head(todo) /\ Pending' = Tail(Pending)
  BY <1>1, <1>2, <1>3, PendingParts, BufferSeqs, Zenon
<1>5. Pending # <<>>
  BY <1>1, <1>2, PendingParts
<1>6. Faithful(written, Pending, accepted, dropped)
  BY FaithfulLog DEF LogInv
<1>7. Faithful(written \o Pending[1].lines, Tail(Pending), accepted, dropped)
  BY <1>5, <1>6, PendingParts, WriteLog
<1> QED  BY <1>1, <1>4, <1>7, FaithfulNext

(* Every step keeps the log and what it rests on. *)
LEMMA LogStep == TypeInv /\ BufferInv /\ LogInv /\ [Next]_vars => LogInv'
<1> SUFFICES ASSUME TypeInv, BufferInv, LogInv, [Next]_vars
             PROVE  LogInv'
  OBVIOUS
<1>1. FrontInv' /\ TodoInv' /\ FreshInv' /\ DropInv'
  BY FrontStep, TodoStep, FreshStep, DropStep DEF LogInv
<1>2. ASSUME NEW p \in Producers, DoAppend(p)
      PROVE  LogPreserved'
  BY <1>2, StillStep DEF DoAppend, bufVars, Pending
<1>3. CASE Start
  <2>1. todo' = todo /\ Pending' = Pending /\ UNCHANGED history
    BY <1>3 DEF Start, LogInv, TodoInv, Pending
  <2> QED  BY <1>1, <2>1, StillStep DEF LogInv
<1>4. CASE StopFlag \/ StopJoin \/ While \/ LockWait \/ Reset
  <2>1. Pending' = Pending /\ UNCHANGED history
    BY <1>4 DEF StopFlag, StopJoin, While, ReadFirst, ReadSecond, LockWait, Reset, bufVars, Pending
  <2> QED  BY <1>1, <2>1, StillStep DEF LogInv
<1>5. CASE UNCHANGED vars
  <2>1. Pending' = Pending /\ UNCHANGED history
    BY <1>5 DEF vars, bufVars, Pending
  <2> QED  BY <1>1, <2>1, StillStep DEF LogInv
<1> QED
  BY <1>1, <1>2, <1>3, <1>4, <1>5, AppendLineLog, SubmitLog, SwapLog, TrimLog, WriteStep
     DEF LogInv, Next, BackEnd, Stopping, LockSwap, WaitSwap

(* The initial log is empty. *)
LEMMA LogInit == Init => LogInv
<1> SUFFICES ASSUME Init PROVE LogInv
  OBVIOUS
<1>1. FrontInv /\ TodoInv /\ FreshInv /\ DropInv
  BY DEF Init, FrontInv, TodoInv, FreshInv, DropInv, NewDoubleBuffer
<1>2. Pending = <<EmptyBuffer>>
  BY EmptyBufferType DEF Init, NewDoubleBuffer, Pending
<1>3. written = <<>> /\ accepted = <<>> /\ Len(accepted) = 0
  BY DEF Init
<1>4. \A i, j : ~Place(written, Pending, i, j)
  BY <1>2, <1>3 DEF Place, Stage, EmptyBuffer
<1>5. Faithful(written, Pending, accepted, dropped)
  BY <1>3, <1>4 DEF Faithful, Once, Complete, Sound, Sorted
<1> QED  BY <1>1, <1>5, FaithfulLog DEF LogInv

(* The double buffers keep the log (AsyncAppender::append, submitBuffer, run, *)
(* stop): what was written, followed by what is buffered, is what was         *)
(* accepted, in that order and each line once, but for the lines the drop     *)
(* limit erased - for any number of producers, lines, restarts and rounds.    *)
THEOREM AppenderKeepsLog == SafetySpec => []LogPreserved
<1>1. LogInv => LogPreserved
  BY DEF LogInv
<1>2. BufferInv => RoundInv
  BY DEF BufferInv
<1> QED BY InitInv, LogInit, TypeInduction, BufferInduction, LogStep, <1>1, <1>2, PTL
        DEF SafetySpec
=============================================================================
