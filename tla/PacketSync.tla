------------------------------ MODULE PacketSync ------------------------------
(***************************************************************************)
(* CPacketSync cuts the bytes that CDeMultiplexer::ReadFromFile has read    *)
(* into transport packets.  The reads are of any length, the packets begin  *)
(* anywhere in them, and a payload may contain the byte that begins one.    *)
(*                                                                         *)
(* A byte is the number of its place in the stream: packet b \div PacketLen, *)
(* offset b % PacketLen.                                                    *)
(***************************************************************************)
EXTENDS Integers, Sequences

CONSTANTS
  PacketLen,  \* TS_PACKET_LEN
  Bytes,      \* bound: the length of the stream
  Reads,      \* how many bytes ReadFromFile may get at once
  Look,       \* the bytes of payloads that look like TS_PACKET_SYNC: no two of them are a
              \* packet apart, which would be a packet to anyone
  Places      \* where a seek or a zap may go

VARIABLES
  place,   \* the next byte that the reader gives
  temp,    \* m_tempBuffer up to m_tempBufferPos
  packets, \* what the last OnRawData gave to OnTsPacket
  last,    \* the packet before these, if all has been whole since
  clean,   \* the bytes of temp are those before place
  whole    \* they were when packets began, and the read was long enough for them

vars == <<place, temp, packets, last, clean, whole>>

Stale == -1  \* a byte of the buffer that the read has not filled
NoPacket == <<>>

IsSync(b) == b % PacketLen = 0 \/ b \in Look

\* Mutant: one TS_PACKET_SYNC is enough.
InSyncAtOnce(data, o) == IsSync(data[o + 1])

\* Two of them, a packet apart.
InSync(data, o) == IsSync(data[o + 1]) /\ IsSync(data[o + PacketLen + 1])

\* The first loop of OnRawData from each offset: where it finds packets, and where it ends.
Scans(data) ==
  LET scan[i \in 0 .. Len(data) + PacketLen] ==
        IF i + PacketLen >= Len(data) THEN [starts |-> <<>>, end |-> i]
        ELSE IF InSync(data, i)
             THEN [scan[i + PacketLen] EXCEPT !.starts = <<i>> \o @]
             ELSE scan[i + 1]
  IN  scan

Scan(data, offset) == Scans(data)[offset]

\* The second loop: what remains, from the first TS_PACKET_SYNC on.
Remainder(data, offset) ==
  LET at == {i \in offset .. Len(data) - 1 : IsSync(data[i + 1])}
  IN  IF at = {} THEN <<>>
      ELSE SubSeq(data, (CHOOSE i \in at : \A j \in at : i <= j) + 1, Len(data))

Missing == PacketLen - Len(temp)
TooShort(data) == temp # <<>> /\ Len(data) <= Missing

\* The packet that began in an earlier read: its missing bytes, if what follows them looks
\* like the next packet.  After a read that is too short the test is of a stale byte.
FromTemp(data) ==
  LET filled == [i \in 1..Missing |-> IF i <= Len(data) THEN data[i] ELSE Stale]
      completed == [packets |-> <<temp \o filled>>, offset |-> Missing]
      dropped == [packets |-> <<>>, offset |-> 0]
  IN  IF temp = <<>> THEN {dropped}
      ELSE IF TooShort(data) THEN {completed, dropped}
      ELSE IF IsSync(data[Missing + 1]) THEN {completed} ELSE {dropped}

OnRawData(data) ==
  \E first \in FromTemp(data) :
    LET found == Scan(data, first.offset)
    IN  /\ packets' = first.packets \o
                      [k \in DOMAIN found.starts |->
                         SubSeq(data, found.starts[k] + 1, found.starts[k] + PacketLen)]
        /\ temp' = Remainder(data, found.end)

ReadFromFile(n) ==
  LET data == [i \in 1..n |-> place + i - 1] IN
  /\ place + n <= Bytes
  /\ place' = place + n
  /\ OnRawData(data)
  /\ clean' = TRUE
  /\ whole' = (clean /\ ~TooShort(data))
  /\ last' = IF ~whole' THEN NoPacket
             ELSE IF packets # <<>> /\ whole THEN packets[Len(packets)] ELSE last

\* A seek, a zap or frames that the memory buffer has dropped.  Nothing calls Reset.
Jump(to) ==
  /\ place # to
  /\ place' = to
  /\ clean' = (temp = <<>>) /\ packets' = <<>> /\ last' = NoPacket
  /\ UNCHANGED <<temp, whole>>

Init ==
  /\ place \in Places
  /\ temp = <<>> /\ packets = <<>> /\ last = NoPacket
  /\ clean = TRUE /\ whole = FALSE

Next ==
  \/ \E n \in Reads : ReadFromFile(n)
  \/ \E to \in Places : Jump(to)

Spec == Init /\ [][Next]_vars

-----------------------------------------------------------------------------

\* Whatever the reads are cut into, the demultiplexer gets the packets of the stream, whole,
\* in their order and without one missing, up to a seek or a zap, which may join two halves,
\* or a read that ends within the packet before.
PacketsIntact ==
  whole =>
    /\ \A k \in DOMAIN packets :
         /\ packets[k][1] % PacketLen = 0
         /\ packets[k] = [i \in 1..PacketLen |-> packets[k][1] + i - 1]
         /\ k > 1 => packets[k][1] = packets[k - 1][1] + PacketLen
    /\ last # NoPacket /\ packets # <<>> => packets[1][1] = last[1] + PacketLen
=============================================================================
