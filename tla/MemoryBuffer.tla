----------------------------- MODULE MemoryBuffer -----------------------------
(***************************************************************************)
(* CMemoryBuffer, the buffer between the thread that receives a stream by   *)
(* RTSP (CMemorySink calls PutBuffer) and Kodi's player thread (CMemoryReader *)
(* calls ReadFromBuffer; CRTSPClient::Stop and Play call Clear).            *)
(*                                                                         *)
(* A byte is its position in the stream.  m_BufferLock is held from the     *)
(* first to the last step of a put, and while a read copies; the tests of   *)
(* m_BytesInBuffer that a read makes before are outside of it, so every     *)
(* value that m_BytesInBuffer takes within a put can be seen there.         *)
(***************************************************************************)
EXTENDS Integers, Sequences

CONSTANTS
  Capacity,     \* MAX_MEMORY_BUFFER_SIZE, 12 MB
  MaxChunk,     \* the largest frame CMemorySink hands over: 20000 bytes
  Requests,     \* how much a read may ask for
  StreamLength  \* bound on the bytes that arrive

ASSUME SizesAssumption ==
  /\ Capacity \in Nat /\ MaxChunk \in Nat \ {0} /\ MaxChunk <= Capacity
  /\ Requests \subseteq Nat \ {0} /\ StreamLength \in Nat

VARIABLES
  m_Array,           \* BufferItems, with the position of their first byte
  m_BytesInBuffer,
  lock,              \* m_BufferLock: "none" or the thread that holds it
  received,          \* the number of bytes put so far
  writer, reader,    \* the points the two threads are at
  request,           \* lDataLength of the read
  bytesWritten, out  \* what it has copied, and where in the stream that ended

bufferVars == <<m_Array, m_BytesInBuffer, received>>
readVars == <<reader, request, bytesWritten, out>>
vars == <<bufferVars, lock, writer, readVars>>

Item == [start : Nat, nDataLength : Nat, nOffset : Nat]
Unread(item) == item.nDataLength - item.nOffset

Init ==
  /\ m_Array = <<>> /\ m_BytesInBuffer = 0 /\ lock = "none" /\ received = 0
  /\ writer = "idle" /\ reader = "idle"
  /\ request = 0 /\ bytesWritten = 0 /\ out = 0

-----------------------------------------------------------------------------
(* PutBuffer                                                               *)

PutBuffer(length) ==
  /\ writer = "idle" /\ lock = "none"
  /\ received + length <= StreamLength
  /\ lock' = "writer" /\ writer' = "put"
  /\ m_Array' = Append(m_Array, [start |-> received, nDataLength |-> length, nOffset |-> 0])
  /\ m_BytesInBuffer' = m_BytesInBuffer + length
  /\ received' = received + length
  /\ UNCHANGED readVars

\* Mutant: an off-by-one in the limit.
FullLate == m_BytesInBuffer > Capacity + 1

Full == m_BytesInBuffer > Capacity

\* Mutants: the whole length of the item is taken off; the newest item goes.
DropOldestWhole ==
  /\ writer = "put" /\ Full
  /\ m_BytesInBuffer' = m_BytesInBuffer - Head(m_Array).nDataLength
  /\ m_Array' = Tail(m_Array)
  /\ UNCHANGED <<received, lock, writer, readVars>>

DropNewest ==
  /\ writer = "put" /\ Full
  /\ m_BytesInBuffer' = m_BytesInBuffer - Unread(m_Array[Len(m_Array)])
  /\ m_Array' = SubSeq(m_Array, 1, Len(m_Array) - 1)
  /\ UNCHANGED <<received, lock, writer, readVars>>

\* What the reader has left of the oldest item is dropped.
DropOldest ==
  /\ writer = "put" /\ Full
  /\ m_BytesInBuffer' = m_BytesInBuffer - Unread(Head(m_Array))
  /\ m_Array' = Tail(m_Array)
  /\ UNCHANGED <<received, lock, writer, readVars>>

\* notify_one wakes the reader if it is in wait_for already.  The pause of 10 ms after a
\* drop is part of the time the writer may spend anywhere.
PutReturns ==
  /\ writer = "put" /\ ~Full
  /\ lock' = "none" /\ writer' = "idle"
  /\ reader' = IF m_BytesInBuffer > 0 /\ reader = "waiting" THEN "test" ELSE reader
  /\ UNCHANGED <<bufferVars, request, bytesWritten, out>>

-----------------------------------------------------------------------------
(* ReadFromBuffer                                                          *)

ReadFromBuffer(lDataLength) ==
  /\ reader = "idle"
  /\ request' = lDataLength /\ reader' = "test"
  /\ UNCHANGED <<bufferVars, lock, writer, bytesWritten, out>>

\* The condition of the loop, read without the lock.
TestBytes ==
  /\ reader = "test"
  /\ reader' = IF m_BytesInBuffer < request THEN "wantWait" ELSE "wantCopy"
  /\ UNCHANGED <<bufferVars, lock, writer, request, bytesWritten, out>>

Wait ==
  /\ reader = "wantWait" /\ lock = "none"
  /\ reader' = "waiting"
  /\ UNCHANGED <<bufferVars, lock, writer, request, bytesWritten, out>>

\* Mutants: wait instead of wait_for; an "if" where there is a loop.
WakeUpNever ==
  /\ reader = "waiting" /\ reader' = "waiting"
  /\ UNCHANGED <<bufferVars, lock, writer, request, bytesWritten, out>>

WakeUpUntested ==
  /\ reader = "waiting" /\ lock = "none"
  /\ reader' = "wantCopy"
  /\ UNCHANGED <<bufferVars, lock, writer, request, bytesWritten, out>>

\* After 5 seconds, or spuriously.
WakeUp ==
  /\ reader = "waiting" /\ lock = "none"
  /\ reader' = "test"
  /\ UNCHANGED <<bufferVars, lock, writer, request, bytesWritten, out>>

LockForCopy ==
  /\ reader = "wantCopy" /\ lock = "none"
  /\ lock' = "reader" /\ reader' = "copy"
  /\ bytesWritten' = 0
  /\ UNCHANGED <<bufferVars, writer, request, out>>

CopyLength ==
  LET left == request - bytesWritten
  IN  IF Unread(Head(m_Array)) < left THEN Unread(Head(m_Array)) ELSE left

\* Mutant: the item's offset is not moved on.
RestOfArrayUnmoved == IF CopyLength >= Unread(Head(m_Array)) THEN Tail(m_Array) ELSE m_Array

RestOfArray ==
  IF CopyLength >= Unread(Head(m_Array))
  THEN Tail(m_Array)
  ELSE [m_Array EXCEPT ![1].nOffset = @ + CopyLength]

\* Mutant: the lock is taken for each item.
CopyItemUnlocking ==
  /\ reader = "copy" /\ lock # "writer"
  /\ bytesWritten < request /\ m_Array # <<>>
  /\ lock' = "none"
  /\ bytesWritten' = bytesWritten + CopyLength
  /\ out' = Head(m_Array).start + Head(m_Array).nOffset + CopyLength
  /\ m_BytesInBuffer' = m_BytesInBuffer - CopyLength
  /\ m_Array' = RestOfArray
  /\ UNCHANGED <<received, writer, reader, request>>

CopyItem ==
  /\ reader = "copy"
  /\ bytesWritten < request /\ m_Array # <<>>
  /\ bytesWritten' = bytesWritten + CopyLength
  /\ out' = Head(m_Array).start + Head(m_Array).nOffset + CopyLength
  /\ m_BytesInBuffer' = m_BytesInBuffer - CopyLength
  /\ m_Array' = RestOfArray
  /\ UNCHANGED <<received, lock, writer, reader, request>>

\* The copy is complete, or the buffer has run empty under it: then the read reports 0
\* bytes and what it has copied is lost.
ReadReturns ==
  /\ reader = "copy"
  /\ bytesWritten = request \/ m_Array = <<>>
  /\ lock' = "none" /\ reader' = "idle"
  /\ UNCHANGED <<bufferVars, writer, request, bytesWritten, out>>

-----------------------------------------------------------------------------

\* The player's thread stops or restarts the stream, between two reads.
Clear ==
  /\ reader = "idle" /\ lock = "none"
  /\ m_Array' = <<>> /\ m_BytesInBuffer' = 0
  /\ UNCHANGED <<received, lock, writer, readVars>>

ReaderStep == TestBytes \/ Wait \/ WakeUp \/ LockForCopy \/ CopyItem \/ ReadReturns
WriterStep == DropOldest \/ PutReturns

Next ==
  \/ \E length \in 1 .. MaxChunk : PutBuffer(length)
  \/ \E lDataLength \in Requests : ReadFromBuffer(lDataLength)
  \/ WriterStep \/ ReaderStep \/ Clear

Spec == Init /\ [][Next]_vars

\* Both threads are scheduled while they are in a call; the sender owes nothing.
FairSpec == Spec /\ WF_vars(ReaderStep) /\ WF_vars(WriterStep)

-----------------------------------------------------------------------------

\* The types of the variables; m_BytesInBuffer, a size_t, is never taken below zero.
TypeOK ==
  /\ m_Array \in Seq(Item) /\ m_BytesInBuffer \in Nat
  /\ lock \in {"none", "reader", "writer"} /\ received \in Nat
  /\ writer \in {"idle", "put"}
  /\ reader \in {"idle", "test", "wantWait", "waiting", "wantCopy", "copy"}
  /\ request \in Nat /\ bytesWritten \in Nat /\ out \in Nat

\* The oldest byte that has not been read.
FirstUnread == IF m_Array = <<>> THEN received ELSE Head(m_Array).start + Head(m_Array).nOffset

\* m_BytesInBuffer, kept by hand in four places, is the number of bytes from the oldest
\* unread one to the newest: nothing is missing in between.
BytesCounted == m_BytesInBuffer = received - FirstUnread

\* PutBuffer never leaves more than MAX_MEMORY_BUFFER_SIZE bytes behind.
BufferBounded == writer = "idle" => m_BytesInBuffer <= Capacity

\* A request that fits beside one frame is served although its test was made without the
\* lock: no drop in between can make the array run empty under the copy.
Fits(length) == length <= Capacity - MaxChunk + 1
NothingWasted == reader = "copy" /\ Fits(request) /\ m_Array = <<>> => bytesWritten = request

\* The test of m_BytesInBuffer without the lock relies on all of this: the count never wraps
\* below zero, it is that of the bytes, it is bounded, and what it promised is still there.
CountIsRight == TypeOK /\ BytesCounted /\ BufferBounded /\ NothingWasted

\* The bytes of one read follow each other in the stream: no drop gets in between.
ReadHasNoHole == reader = "copy" /\ bytesWritten > 0 => FirstUnread = out

\* A read whose bytes have arrived returns even if no frame arrives any more, although
\* the notification can pass between the reader's test and its wait.
ReadEnds == reader # "idle" /\ m_BytesInBuffer >= request /\ Fits(request) ~> reader = "idle"

\* The promise to the reader.
Fifo == INSTANCE LossyFifo WITH
          lo <- FirstUnread, hi <- received,
          out <- IF reader = "copy" /\ bytesWritten = 0 THEN FirstUnread ELSE out,
          reading <- reader = "copy"
FifoSpec == Fifo!Spec
=============================================================================
