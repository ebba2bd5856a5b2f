-------------------------- MODULE MemoryBufferProofs --------------------------
(***************************************************************************)
(* Proofs about MemoryBuffer, for every capacity, frame size and request.   *)
(*                                                                         *)
(* The inductive invariant says that the items of m_Array are consecutive   *)
(* pieces of the stream that end at the last byte received (Chain), that    *)
(* m_BytesInBuffer counts what they hold, who has the lock (LockOK), and    *)
(* that a request that fits has had enough bytes from its test on (Enough). *)
(***************************************************************************)
EXTENDS MemoryBuffer, TLAPS

Ends(item) == item.start + item.nDataLength

Chain ==
  /\ \A i \in 1 .. Len(m_Array) :
       /\ m_Array[i].nOffset < m_Array[i].nDataLength
       /\ m_Array[i].nDataLength <= MaxChunk
       /\ Ends(m_Array[i]) <= received
       /\ i > 1 => m_Array[i].nOffset = 0
       /\ i < Len(m_Array) => Ends(m_Array[i]) = m_Array[i + 1].start
       /\ i = Len(m_Array) => Ends(m_Array[i]) = received

LockOK ==
  /\ lock = "writer" <=> writer = "put"
  /\ lock = "reader" <=> reader = "copy"

Enough ==
  /\ reader # "idle" => request > 0
  /\ reader = "wantCopy" => m_BytesInBuffer > 0
  /\ reader = "wantCopy" /\ Fits(request) => m_BytesInBuffer >= request
  /\ reader = "copy" => /\ bytesWritten <= request
                        /\ bytesWritten = 0 => m_BytesInBuffer > 0
                        /\ Fits(request) => m_BytesInBuffer >= request - bytesWritten

Inductive ==
  /\ TypeOK /\ Chain /\ LockOK /\ BytesCounted /\ BufferBounded
  /\ Enough /\ ReadHasNoHole

-----------------------------------------------------------------------------

\* The oldest unread byte is the first of the array's bytes, and the array is empty when
\* no byte is counted.
LEMMA HeadOfChain ==
  ASSUME TypeOK, Chain, m_Array # <<>>
  PROVE  /\ Len(m_Array) \in Nat \ {0} /\ Head(m_Array) = m_Array[1] /\ m_Array[1] \in Item
         /\ Unread(m_Array[1]) \in 1 .. MaxChunk
         /\ FirstUnread = m_Array[1].start + m_Array[1].nOffset
         /\ FirstUnread \in Nat /\ FirstUnread < received
<1>1. Len(m_Array) \in Nat \ {0} /\ Head(m_Array) = m_Array[1] /\ m_Array[1] \in Item
  BY DEF TypeOK
<1>2. /\ m_Array[1].start \in Nat /\ m_Array[1].nOffset \in Nat /\ m_Array[1].nDataLength \in Nat
      /\ received \in Nat
  BY <1>1 DEF Item, TypeOK
<1>3. /\ m_Array[1].nOffset < m_Array[1].nDataLength /\ m_Array[1].nDataLength <= MaxChunk
      /\ m_Array[1].start + m_Array[1].nDataLength <= received
  BY <1>1 DEF Chain, Ends
<1>4. FirstUnread = m_Array[1].start + m_Array[1].nOffset
  BY <1>1 DEF FirstUnread
<1>5. Unread(m_Array[1]) = m_Array[1].nDataLength - m_Array[1].nOffset
  BY DEF Unread
<1> QED
  BY <1>1, <1>2, <1>3, <1>4, <1>5, SizesAssumption

\* Without its first item the array is still a chain, and starts where that item ended.
LEMMA TailOfChain ==
  ASSUME TypeOK, Chain, m_Array # <<>>, m_Array' = Tail(m_Array), received' = received
  PROVE  /\ m_Array' \in Seq(Item) /\ Chain'
         /\ FirstUnread' = Ends(m_Array[1])
<1>1. /\ Len(m_Array) \in Nat \ {0} /\ Tail(m_Array) \in Seq(Item)
      /\ Len(Tail(m_Array)) = Len(m_Array) - 1
      /\ \A i \in 1 .. Len(m_Array) - 1 : Tail(m_Array)[i] = m_Array[i + 1]
  BY DEF TypeOK
<1>2. Chain'
  <2> SUFFICES ASSUME NEW i \in 1 .. Len(m_Array) - 1
               PROVE  /\ m_Array'[i].nOffset < m_Array'[i].nDataLength
                      /\ m_Array'[i].nDataLength <= MaxChunk
                      /\ Ends(m_Array'[i]) <= received'
                      /\ i > 1 => m_Array'[i].nOffset = 0
                      /\ i < Len(m_Array') => Ends(m_Array'[i]) = m_Array'[i + 1].start
                      /\ i = Len(m_Array') => Ends(m_Array'[i]) = received'
    BY <1>1 DEF Chain, Ends
  <2>1. PICK j \in 1 .. Len(m_Array) : j = i + 1
    BY <1>1
  <2>2. m_Array'[i] = m_Array[j] /\ j > 1
    BY <1>1, <2>1
  <2>3. i < Len(m_Array') <=> j < Len(m_Array)
    BY <1>1, <2>1
  <2>4. i < Len(m_Array') => m_Array'[i + 1] = m_Array[j + 1]
    BY <1>1, <2>1
  <2>5. i = Len(m_Array') <=> j = Len(m_Array)
    BY <1>1, <2>1
  <2>6. /\ m_Array[j].nOffset < m_Array[j].nDataLength
        /\ m_Array[j].nDataLength <= MaxChunk
        /\ Ends(m_Array[j]) <= received
        /\ j > 1 => m_Array[j].nOffset = 0
        /\ j < Len(m_Array) => Ends(m_Array[j]) = m_Array[j + 1].start
        /\ j = Len(m_Array) => Ends(m_Array[j]) = received
    BY <2>1 DEF Chain
  <2> QED
    BY <2>2, <2>3, <2>4, <2>5, <2>6
<1>3. CASE Len(m_Array) = 1
  BY <1>1, <1>3 DEF Chain, FirstUnread, Ends
<1>4. CASE Len(m_Array) > 1
  <2>1. /\ 1 \in 1 .. Len(m_Array) - 1 /\ 1 < Len(m_Array)
        /\ 1 \in 1 .. Len(m_Array) /\ 2 \in 1 .. Len(m_Array) /\ 2 > 1 /\ 1 + 1 = 2
    BY <1>1, <1>4
  <2>2. /\ Tail(m_Array) # <<>> /\ Head(Tail(m_Array)) = m_Array[2]
        /\ m_Array[2] \in Item
    <3> DEFINE rest == Tail(m_Array)
    <3>1. rest[1] = m_Array[2] /\ Len(rest) # 0 /\ rest \in Seq(Item)
      BY <1>1, <1>4, <2>1
    <3>2. m_Array[2] \in Item
      BY <2>1 DEF TypeOK
    <3> HIDE DEF rest
    <3>3. rest # <<>> /\ Head(rest) = rest[1]
      BY <3>1
    <3> QED
      BY <3>1, <3>2, <3>3 DEF rest
  <2>3. m_Array[2].nOffset = 0 /\ Ends(m_Array[1]) = m_Array[2].start
    BY <2>1 DEF Chain
  <2>4. m_Array[2].start \in Nat
    BY <2>2 DEF Item
  <2> QED
    BY <1>1, <1>2, <2>2, <2>3, <2>4 DEF FirstUnread
<1> QED
  BY <1>1, <1>2, <1>3, <1>4

\* A frame of the receiver is appended whole, behind the last byte of the chain.
LEMMA PutBufferStep ==
  ASSUME Inductive, NEW length \in 1 .. MaxChunk, PutBuffer(length)
  PROVE  Inductive'
<1> USE SizesAssumption
<1>1. /\ TypeOK /\ Chain /\ LockOK /\ BytesCounted /\ BufferBounded /\ Enough /\ ReadHasNoHole
      /\ length \in Nat /\ length > 0 /\ MaxChunk \in Nat
  BY DEF Inductive
<1> DEFINE new == [start |-> received, nDataLength |-> length, nOffset |-> 0]
<1>2. /\ new \in Item /\ received' = received + length
      /\ m_Array' = Append(m_Array, new) /\ m_BytesInBuffer' = m_BytesInBuffer + length
      /\ writer' = "put" /\ lock = "none" /\ lock' = "writer" /\ UNCHANGED readVars
  BY <1>1 DEF PutBuffer, Item, TypeOK
<1>3. /\ m_Array' \in Seq(Item) /\ Len(m_Array') = Len(m_Array) + 1 /\ Len(m_Array) \in Nat
      /\ \A i \in 1 .. Len(m_Array) : m_Array'[i] = m_Array[i]
      /\ m_Array'[Len(m_Array) + 1] = new
  BY <1>1, <1>2 DEF TypeOK
<1>4. TypeOK'
  BY <1>1, <1>2, <1>3 DEF TypeOK, readVars
<1>5. Chain'
  <2> SUFFICES ASSUME NEW i \in 1 .. Len(m_Array) + 1
               PROVE  /\ m_Array'[i].nOffset < m_Array'[i].nDataLength
                      /\ m_Array'[i].nDataLength <= MaxChunk
                      /\ Ends(m_Array'[i]) <= received'
                      /\ i > 1 => m_Array'[i].nOffset = 0
                      /\ i < Len(m_Array') => Ends(m_Array'[i]) = m_Array'[i + 1].start
                      /\ i = Len(m_Array') => Ends(m_Array'[i]) = received'
    BY <1>3 DEF Chain, Ends
  <2>1. CASE i \in 1 .. Len(m_Array)
    <3>1. m_Array'[i] = m_Array[i] /\ m_Array[i] \in Item
      BY <1>1, <1>3, <2>1 DEF TypeOK
    <3>2. Ends(m_Array[i]) \in Nat
      BY <3>1 DEF Ends, Item
    <3>3. i < Len(m_Array) => m_Array'[i + 1] = m_Array[i + 1]
      BY <1>3, <2>1
    <3>4. i = Len(m_Array) => m_Array'[i + 1].start = received
      BY <1>3, <2>1
    <3> QED
      BY <1>1, <1>2, <1>3, <2>1, <3>1, <3>2, <3>3, <3>4 DEF Chain, TypeOK
  <2>2. CASE i = Len(m_Array) + 1
    BY <1>1, <1>2, <1>3, <2>2 DEF Ends, TypeOK
  <2> QED
    BY <1>3, <2>1, <2>2
<1>6. FirstUnread' = FirstUnread
  <2>1. m_Array' # <<>> /\ Head(m_Array') = m_Array'[1]
    BY <1>3
  <2>2. CASE m_Array = <<>>
    <3>1. m_Array'[1] = new
      BY <1>3, <2>2
    <3> QED
      BY <1>1, <2>1, <2>2, <3>1 DEF FirstUnread, TypeOK
  <2>3. CASE m_Array # <<>>
    BY <1>1, <1>3, <2>1, <2>3, HeadOfChain DEF FirstUnread
  <2> QED
    BY <2>2, <2>3
<1>7. FirstUnread \in Nat
  BY <1>1, HeadOfChain DEF FirstUnread, TypeOK
<1>8. BytesCounted' /\ LockOK' /\ BufferBounded'
  BY <1>1, <1>2, <1>6, <1>7 DEF BytesCounted, LockOK, BufferBounded, readVars, TypeOK
<1>9. Enough' /\ ReadHasNoHole'
  BY <1>1, <1>2, <1>6 DEF Enough, Fits, ReadHasNoHole, LockOK, TypeOK, readVars
<1> QED
  BY <1>4, <1>5, <1>8, <1>9 DEF Inductive

\* The drop of the oldest frame takes the head of the chain and its unread bytes.
LEMMA DropOldestStep ==
  ASSUME Inductive, DropOldest
  PROVE  Inductive'
<1> USE SizesAssumption
<1>1. TypeOK /\ Chain /\ LockOK /\ BytesCounted /\ BufferBounded /\ Enough /\ ReadHasNoHole
  BY DEF Inductive
<1>2. /\ writer = "put" /\ m_BytesInBuffer > Capacity
      /\ m_BytesInBuffer' = m_BytesInBuffer - Unread(Head(m_Array))
      /\ m_Array' = Tail(m_Array)
      /\ UNCHANGED <<received, lock, writer, reader, request, bytesWritten, out>>
  BY DEF DropOldest, Full, readVars
<1>3. m_Array # <<>>
  BY <1>1, <1>2 DEF BytesCounted, FirstUnread, TypeOK
<1>4. /\ Head(m_Array) = m_Array[1] /\ m_Array[1] \in Item
      /\ Unread(m_Array[1]) \in 1 .. MaxChunk
      /\ FirstUnread = m_Array[1].start + m_Array[1].nOffset /\ FirstUnread \in Nat
  BY <1>1, <1>3, HeadOfChain
<1>5. m_Array' \in Seq(Item) /\ Chain' /\ FirstUnread' = Ends(m_Array[1])
  BY <1>1, <1>2, <1>3, TailOfChain
<1>6. TypeOK'
  BY <1>1, <1>2, <1>4, <1>5 DEF TypeOK
<1>7. FirstUnread' = FirstUnread + Unread(m_Array[1])
  BY <1>4, <1>5 DEF Ends, Unread, Item
<1>8. BytesCounted' /\ LockOK' /\ BufferBounded'
  BY <1>1, <1>2, <1>4, <1>7 DEF BytesCounted, LockOK, BufferBounded, TypeOK
<1>9. reader # "copy"
  BY <1>1, <1>2 DEF LockOK
<1>10. Enough' /\ ReadHasNoHole'
  BY <1>1, <1>2, <1>4, <1>9 DEF Enough, Fits, ReadHasNoHole, TypeOK
<1> QED
  BY <1>5, <1>6, <1>8, <1>10 DEF Inductive

\* The copy of one item: the bytes move from the array's head to the reader.
LEMMA CopyItemStep ==
  ASSUME Inductive, CopyItem
  PROVE  Inductive'
<1> USE SizesAssumption
<1>1. TypeOK /\ Chain /\ LockOK /\ BytesCounted /\ BufferBounded /\ Enough /\ ReadHasNoHole
  BY DEF Inductive
<1>2. /\ reader = "copy" /\ bytesWritten < request /\ m_Array # <<>>
      /\ bytesWritten' = bytesWritten + CopyLength
      /\ out' = Head(m_Array).start + Head(m_Array).nOffset + CopyLength
      /\ m_BytesInBuffer' = m_BytesInBuffer - CopyLength
      /\ m_Array' = RestOfArray
      /\ UNCHANGED <<received, lock, writer, reader, request>>
  BY DEF CopyItem
<1>3. /\ Len(m_Array) \in Nat \ {0} /\ Head(m_Array) = m_Array[1] /\ m_Array[1] \in Item
      /\ Unread(m_Array[1]) \in 1 .. MaxChunk
      /\ FirstUnread = m_Array[1].start + m_Array[1].nOffset
      /\ FirstUnread \in Nat /\ FirstUnread < received
  BY <1>1, <1>2, HeadOfChain
<1>4. /\ CopyLength \in Nat \ {0} /\ CopyLength <= Unread(m_Array[1])
      /\ CopyLength <= request - bytesWritten
  BY <1>1, <1>2, <1>3 DEF CopyLength, TypeOK
<1>5. FirstUnread + Unread(m_Array[1]) = Ends(m_Array[1]) /\ Ends(m_Array[1]) <= received
  BY <1>1, <1>3 DEF Unread, Ends, Item, Chain
<1>6. /\ m_Array' \in Seq(Item) /\ Chain'
      /\ FirstUnread' = FirstUnread + CopyLength
  <2>1. CASE CopyLength >= Unread(m_Array[1])
    <3>1. m_Array' = Tail(m_Array) /\ CopyLength = Unread(m_Array[1])
      BY <1>2, <1>3, <1>4, <2>1 DEF RestOfArray
    <3> QED
      BY <1>1, <1>2, <1>5, <3>1, TailOfChain
  <2>2. CASE CopyLength < Unread(m_Array[1])
    <3>1. /\ m_Array' = [m_Array EXCEPT ![1].nOffset = @ + CopyLength]
      BY <1>2, <1>3, <1>4, <2>2 DEF RestOfArray
    <3>2. /\ 1 \in DOMAIN m_Array /\ DOMAIN m_Array = 1 .. Len(m_Array)
          /\ m_Array[1].nOffset \in Nat /\ m_Array[1].nOffset + CopyLength \in Nat
          /\ m_Array[1].start \in Nat /\ m_Array[1].nDataLength \in Nat
      BY <1>1, <1>3, <1>4 DEF TypeOK, Item
    <3> DEFINE head == [m_Array[1] EXCEPT !.nOffset = @ + CopyLength]
    <3>3. /\ head \in Item /\ head.nOffset = m_Array[1].nOffset + CopyLength
          /\ head.start = m_Array[1].start /\ head.nDataLength = m_Array[1].nDataLength
      BY <1>3, <3>2 DEF Item
    <3> HIDE DEF head
    <3>4. m_Array' = [m_Array EXCEPT ![1] = head]
      BY <3>1 DEF head
    <3>5. /\ m_Array' \in Seq(Item) /\ Len(m_Array') = Len(m_Array)
          /\ m_Array'[1] = head
          /\ \A i \in 1 .. Len(m_Array) : i # 1 => m_Array'[i] = m_Array[i]
      BY <1>1, <1>3, <3>2, <3>3, <3>4 DEF TypeOK
    <3>6. m_Array'[1].nOffset < m_Array'[1].nDataLength
      <4>1. Unread(m_Array[1]) = m_Array[1].nDataLength - m_Array[1].nOffset
        BY DEF Unread
      <4>2. head.nOffset < head.nDataLength
        BY <1>4, <2>2, <3>2, <3>3, <4>1
      <4> QED
        BY <3>5, <4>2
    <3>7. Chain'
      <4> SUFFICES ASSUME NEW i \in 1 .. Len(m_Array)
                   PROVE  /\ m_Array'[i].nOffset < m_Array'[i].nDataLength
                          /\ m_Array'[i].nDataLength <= MaxChunk
                          /\ Ends(m_Array'[i]) <= received'
                          /\ i > 1 => m_Array'[i].nOffset = 0
                          /\ i < Len(m_Array') => Ends(m_Array'[i]) = m_Array'[i + 1].start
                          /\ i = Len(m_Array') => Ends(m_Array'[i]) = received'
        BY <3>5 DEF Chain, Ends
      <4>1. /\ m_Array[i].nOffset < m_Array[i].nDataLength
            /\ m_Array[i].nDataLength <= MaxChunk
            /\ Ends(m_Array[i]) <= received
            /\ i > 1 => m_Array[i].nOffset = 0
            /\ i < Len(m_Array) => Ends(m_Array[i]) = m_Array[i + 1].start
            /\ i = Len(m_Array) => Ends(m_Array[i]) = received
        BY <1>1 DEF Chain
      <4>2. i < Len(m_Array) => m_Array'[i + 1] = m_Array[i + 1]
        BY <1>3, <3>5
      <4>3. CASE i = 1
        <5>1. Ends(head) = Ends(m_Array[1])
          BY <3>3 DEF Ends
        <5>2. m_Array'[i] = head
          BY <3>5, <4>3
        <5> QED
          BY <1>2, <3>3, <3>5, <3>6, <4>1, <4>2, <4>3, <5>1, <5>2
      <4>4. CASE i # 1
        <5>1. m_Array'[i] = m_Array[i]
          BY <3>5, <4>4
        <5> QED
          BY <1>2, <3>5, <4>1, <4>2, <5>1
      <4> QED
        BY <4>3, <4>4
    <3>8. m_Array' # <<>> /\ Head(m_Array') = m_Array'[1]
      BY <1>3, <3>5
    <3>9. FirstUnread' = head.start + head.nOffset
      BY <3>5, <3>8 DEF FirstUnread
    <3> QED
      BY <1>3, <1>4, <3>2, <3>3, <3>5, <3>7, <3>9
  <2> QED
    BY <1>3, <1>4, <2>1, <2>2
<1>7. /\ m_BytesInBuffer' = received - FirstUnread - CopyLength
      /\ FirstUnread + CopyLength <= received /\ received \in Nat
  BY <1>1, <1>2, <1>3, <1>4, <1>5 DEF TypeOK, BytesCounted
<1>8. m_BytesInBuffer' \in Nat /\ BytesCounted'
  BY <1>2, <1>3, <1>4, <1>6, <1>7 DEF BytesCounted
<1>9. bytesWritten' \in Nat /\ out' \in Nat
  BY <1>1, <1>2, <1>3, <1>4 DEF TypeOK
<1>10. TypeOK'
  BY <1>1, <1>2, <1>6, <1>8, <1>9 DEF TypeOK
<1>11. LockOK' /\ BufferBounded'
  BY <1>1, <1>2, <1>4 DEF LockOK, BufferBounded, TypeOK
<1>12. Enough' /\ ReadHasNoHole'
  BY <1>1, <1>2, <1>3, <1>4, <1>6 DEF Enough, Fits, ReadHasNoHole, TypeOK
<1> QED
  BY <1>6, <1>8, <1>10, <1>11, <1>12 DEF Inductive

\* The steps that leave the buffer as it is.
LEMMA OtherSteps ==
  ASSUME Inductive,
         \/ \E lDataLength \in Requests : ReadFromBuffer(lDataLength)
         \/ PutReturns \/ TestBytes \/ Wait \/ WakeUp \/ LockForCopy \/ ReadReturns
         \/ UNCHANGED vars
  PROVE  Inductive'
<1> USE SizesAssumption
<1>1. TypeOK /\ Chain /\ LockOK /\ BytesCounted /\ BufferBounded /\ Enough /\ ReadHasNoHole
  BY DEF Inductive
<1>2. UNCHANGED bufferVars => Chain' /\ BytesCounted' /\ FirstUnread' = FirstUnread
  BY <1>1 DEF Chain, BytesCounted, FirstUnread, bufferVars
<1> USE DEF TypeOK, LockOK, BufferBounded, Enough, Fits, ReadHasNoHole, readVars
<1>3. ASSUME NEW lDataLength \in Requests, ReadFromBuffer(lDataLength) PROVE Inductive'
  BY <1>1, <1>2, <1>3 DEF ReadFromBuffer, bufferVars, Inductive
<1>4. CASE PutReturns
  BY <1>1, <1>2, <1>4 DEF PutReturns, Full, bufferVars, Inductive
<1>5. CASE TestBytes
  BY <1>1, <1>2, <1>5 DEF TestBytes, bufferVars, Inductive
<1>6. CASE Wait \/ WakeUp
  BY <1>1, <1>2, <1>6 DEF Wait, WakeUp, bufferVars, Inductive
<1>7. CASE LockForCopy
  BY <1>1, <1>2, <1>7 DEF LockForCopy, bufferVars, Inductive
<1>8. CASE ReadReturns
  BY <1>1, <1>2, <1>8 DEF ReadReturns, bufferVars, Inductive
<1>9. CASE UNCHANGED vars
  BY <1>1, <1>2, <1>9 DEF vars, bufferVars, Inductive
<1> QED
  BY <1>3, <1>4, <1>5, <1>6, <1>7, <1>8, <1>9

\* Clear leaves no byte in the array, and none counted.
LEMMA ClearStep ==
  ASSUME Inductive, Clear
  PROVE  Inductive'
<1>1. /\ reader = "idle" /\ lock = "none" /\ m_Array' = <<>> /\ m_BytesInBuffer' = 0
      /\ UNCHANGED <<received, lock, writer, reader, request, bytesWritten, out>>
  BY DEF Clear, readVars
<1>2. TypeOK' /\ Chain'
  BY <1>1 DEF Inductive, TypeOK, Chain
<1>3. LockOK' /\ BytesCounted' /\ BufferBounded' /\ Enough' /\ ReadHasNoHole'
  BY <1>1, SizesAssumption
  DEF Inductive, TypeOK, LockOK, BytesCounted, FirstUnread, BufferBounded, Enough, ReadHasNoHole
<1> QED
  BY <1>2, <1>3 DEF Inductive

-----------------------------------------------------------------------------

\* The inductive invariant holds in every behaviour of the buffer.
THEOREM InductiveHolds == Spec => []Inductive
<1>1. Init => Inductive
  BY SizesAssumption
  DEF Init, Inductive, TypeOK, Chain, LockOK, BytesCounted, FirstUnread, BufferBounded, Enough,
      ReadHasNoHole
<1>2. Inductive /\ [Next]_vars => Inductive'
  BY PutBufferStep, DropOldestStep, CopyItemStep, OtherSteps, ClearStep
  DEF Next, WriterStep, ReaderStep
<1> QED
  BY <1>1, <1>2, PTL DEF Spec

\* The variables keep their types: m_BytesInBuffer never wraps around.
THEOREM TypeCorrect == Spec => []TypeOK
<1>1. Inductive => TypeOK
  BY DEF Inductive
<1> QED
  BY <1>1, InductiveHolds, PTL

\* m_BytesInBuffer is the number of bytes from the oldest unread one to the newest.
THEOREM BytesCountedHolds == Spec => []BytesCounted
<1>1. Inductive => BytesCounted
  BY DEF Inductive
<1> QED
  BY <1>1, InductiveHolds, PTL

\* A put never leaves more than the capacity behind.
THEOREM BufferBoundedHolds == Spec => []BufferBounded
<1>1. Inductive => BufferBounded
  BY DEF Inductive
<1> QED
  BY <1>1, InductiveHolds, PTL

\* A read that fits never finds the array empty before it is complete.
THEOREM NothingWastedHolds == Spec => []NothingWasted
<1>1. Inductive => NothingWasted
  <2> SUFFICES ASSUME Inductive, reader = "copy", Fits(request), m_Array = <<>>
               PROVE  bytesWritten = request
    BY DEF NothingWasted
  <2>1. m_BytesInBuffer = 0
    BY DEF Inductive, TypeOK, BytesCounted, FirstUnread
  <2> QED
    BY <2>1 DEF Inductive, TypeOK, Enough
<1> QED
  BY <1>1, InductiveHolds, PTL

\* All of it together.
THEOREM CountIsRightHolds == Spec => []CountIsRight
<1>1. TypeOK /\ BytesCounted /\ BufferBounded /\ NothingWasted => CountIsRight
  BY DEF CountIsRight
<1> QED
  BY <1>1, TypeCorrect, BytesCountedHolds, BufferBoundedHolds, NothingWastedHolds, PTL

\* The bytes of one read follow each other in the stream.
THEOREM ReadHasNoHoleHolds == Spec => []ReadHasNoHole
<1>1. Inductive => ReadHasNoHole
  BY DEF Inductive
<1> QED
  BY <1>1, InductiveHolds, PTL

\* Subtraction in Nat read backwards, for the goals where the solvers meet it beside records.
LEMMA Difference == \A a, b, c \in Nat : c = b - a => a = b - c
  OBVIOUS

\* The buffer is a lossy FIFO: every step of the two threads is a step of LossyFifo or none.
THEOREM ImplementsFifo == Spec => FifoSpec
<1>1. Init => Fifo!Init
  BY DEF Init, Fifo!Init, FirstUnread
<1>range. TypeOK /\ Chain => FirstUnread \in Nat /\ received \in Nat /\ FirstUnread <= received
  BY HeadOfChain DEF FirstUnread, TypeOK
<1>next. (TypeOK /\ Chain => FirstUnread \in Nat /\ received \in Nat /\ FirstUnread <= received)'
  BY <1>range, PTL
<1>2. Inductive /\ [Next]_vars => [Fifo!Next]_(Fifo!vars)
  <2> SUFFICES ASSUME Inductive, [Next]_vars
               PROVE  [Fifo!Next]_(Fifo!vars)
    OBVIOUS
  <2> USE SizesAssumption
  <2>1. TypeOK /\ Chain /\ LockOK /\ BytesCounted /\ BufferBounded /\ Enough /\ ReadHasNoHole
    BY DEF Inductive
  <2>2. FirstUnread \in Nat /\ received \in Nat /\ FirstUnread <= received
    BY <2>1, <1>range
  <2>3. UNCHANGED bufferVars => FirstUnread' = FirstUnread /\ received' = received
    BY DEF FirstUnread, bufferVars
  <2>4. ASSUME NEW length \in 1 .. MaxChunk, PutBuffer(length) PROVE Fifo!Arrive
    <3>1. reader # "copy" /\ received' = received + length /\ UNCHANGED readVars
      BY <2>1, <2>4 DEF PutBuffer, LockOK
    <3>2. Inductive'
      BY <2>4, PutBufferStep
    <3>3. m_BytesInBuffer' = m_BytesInBuffer + length /\ m_BytesInBuffer \in Nat
      BY <2>1, <2>4 DEF PutBuffer, TypeOK
    <3>4. FirstUnread' = FirstUnread
      <4>1. FirstUnread' \in Nat
        BY <3>2, <1>next DEF Inductive
      <4>2. m_BytesInBuffer' = received' - FirstUnread' /\ m_BytesInBuffer = received - FirstUnread
        BY <2>1, <3>2 DEF Inductive, BytesCounted
      <4>3. received' \in Nat /\ m_BytesInBuffer' \in Nat /\ length \in Nat
        BY <3>2 DEF Inductive, TypeOK
      <4>4. FirstUnread' = received' - m_BytesInBuffer'
        BY <4>1, <4>2, <4>3, Difference, Zenon
      <4>5. FirstUnread = received - m_BytesInBuffer
        BY <2>2, <3>3, <4>2
      <4> QED
        BY <2>2, <3>1, <3>3, <4>3, <4>4, <4>5
    <3> QED
      BY <2>2, <3>1, <3>4 DEF Fifo!Arrive, readVars
  <2>5. CASE DropOldest
    <3>1. /\ writer = "put" /\ m_BytesInBuffer > Capacity /\ m_Array # <<>>
          /\ m_Array' = Tail(m_Array)
          /\ UNCHANGED <<received, reader, bytesWritten, out>>
      BY <2>1, <2>2, <2>5 DEF DropOldest, Full, readVars, BytesCounted, FirstUnread, TypeOK
    <3>2. FirstUnread' = Ends(m_Array[1])
      BY <2>1, <3>1, TailOfChain
    <3>3. /\ FirstUnread = m_Array[1].start + m_Array[1].nOffset /\ m_Array[1] \in Item
          /\ Unread(m_Array[1]) \in 1 .. MaxChunk
      BY <2>1, <3>1, HeadOfChain
    <3>4. FirstUnread' = FirstUnread + Unread(m_Array[1])
      BY <3>2, <3>3 DEF Ends, Unread, Item
    <3>5. Ends(m_Array[1]) <= received
      BY <2>1, <3>1, HeadOfChain DEF Chain
    <3>6. reader # "copy"
      BY <2>1, <3>1 DEF LockOK
    <3>7. received - FirstUnread > Capacity
      BY <2>1, <3>1 DEF BytesCounted
    <3>8. Fifo!Lose
      BY <2>2, <3>1, <3>2, <3>3, <3>4, <3>5, <3>6, <3>7 DEF Fifo!Lose
    <3> QED
      BY <3>8 DEF Fifo!Next
  <2>6. CASE CopyItem
    <3>1. /\ reader = "copy" /\ m_Array # <<>> /\ UNCHANGED <<reader, received>>
          /\ bytesWritten' = bytesWritten + CopyLength
          /\ out' = Head(m_Array).start + Head(m_Array).nOffset + CopyLength
          /\ m_BytesInBuffer' = m_BytesInBuffer - CopyLength
      BY <2>6 DEF CopyItem
    <3>2. /\ Head(m_Array) = m_Array[1]
          /\ FirstUnread = m_Array[1].start + m_Array[1].nOffset
          /\ Unread(m_Array[1]) \in 1 .. MaxChunk
      BY <2>1, <3>1, HeadOfChain
    <3>3. Inductive'
      BY <2>6, CopyItemStep
    <3>4. CopyLength \in Nat \ {0}
      BY <2>1, <2>6, <3>2 DEF CopyItem, CopyLength, TypeOK
    <3>5. FirstUnread' \in Nat /\ FirstUnread' <= received'
      BY <3>3, <1>next DEF Inductive
    <3>6. FirstUnread' = FirstUnread + CopyLength
      <4>1. m_BytesInBuffer' = received' - FirstUnread' /\ m_BytesInBuffer = received - FirstUnread
        BY <2>1, <3>3 DEF Inductive, BytesCounted
      <4>2. received' \in Nat /\ m_BytesInBuffer' \in Nat /\ m_BytesInBuffer \in Nat
        BY <2>1, <3>3 DEF Inductive, TypeOK
      <4>3. FirstUnread' = received' - m_BytesInBuffer'
        BY <3>5, <4>1, <4>2, Difference, Zenon
      <4>4. FirstUnread = received - m_BytesInBuffer
        BY <2>2, <4>1, <4>2
      <4> QED
        BY <2>2, <3>1, <3>4, <4>2, <4>3, <4>4
    <3>7. bytesWritten \in Nat /\ (bytesWritten = 0 \/ FirstUnread = out)
      BY <2>1, <3>1 DEF TypeOK, ReadHasNoHole
    <3>8. Fifo!Take
      BY <2>2, <3>1, <3>2, <3>4, <3>5, <3>6, <3>7 DEF Fifo!Take
    <3> QED
      BY <3>8 DEF Fifo!Next
  <2>7. CASE LockForCopy
    BY <2>1, <2>3, <2>7 DEF LockForCopy, LockOK, Fifo!Next, Fifo!BeginRead, bufferVars
  <2>8. CASE ReadReturns
    <3>1. bytesWritten # 0
      BY <2>1, <2>8 DEF ReadReturns, Enough, BytesCounted, FirstUnread, TypeOK
    <3> QED
      BY <2>3, <2>8, <3>1 DEF ReadReturns, Fifo!Next, Fifo!EndRead, bufferVars
  <2>9. CASE Clear
    BY <2>9 DEF Clear, readVars, FirstUnread, Fifo!Next, Fifo!Clear
  <2>10. ASSUME \/ \E lDataLength \in Requests : ReadFromBuffer(lDataLength)
                \/ PutReturns \/ TestBytes \/ Wait \/ WakeUp \/ UNCHANGED vars
         PROVE  UNCHANGED Fifo!vars
    BY <2>3, <2>10 DEF ReadFromBuffer, PutReturns, TestBytes, Wait, WakeUp, vars, bufferVars, readVars,
       Fifo!vars
  <2> QED
    BY <2>4, <2>5, <2>6, <2>7, <2>8, <2>9, <2>10 DEF Next, WriterStep, ReaderStep, Fifo!Next
<1> QED
  BY <1>1, <1>2, InductiveHolds, PTL DEF Spec, FifoSpec, Fifo!Spec
=============================================================================
