---------------------------- MODULE SectionDecoder ----------------------------
(***************************************************************************)
(* CSectionDecoder puts the sections of one pid (a PAT or a PMT) together   *)
(* from the payloads of its packets.  The server packs them as the standard *)
(* allows: a section begins anywhere, also in its first bytes cut by the    *)
(* end of a packet, and several share one.  Packets get lost on the way, or *)
(* come damaged, those of other pids too.                                   *)
(***************************************************************************)
EXTENDS Integers, Sequences

CONSTANTS
  Payload,      \* bytes of a packet after its header (184)
  MaxLoops,     \* the limit of the loop in OnTsPacket (100)
  MaxSections,  \* bound: sections sent
  Totals,       \* the sizes of sections, section_length + 3: 12 or more, a PAT or a PMT has a
                \* header of 8 and a CRC of 4 bytes
  Contents,     \* what a section says, [section -> [byte -> 0 .. 255]] but for its length
  MaxLost       \* bound: packets lost or damaged

VARIABLES
  totals, sent,      \* the size of each section begun, the bytes sent of the last one
  data, section_length,  \* m_section: Data up to BufferPos, and its length once known
  got,               \* the sections given to OnNewSection; 0 is what nobody sent
  lost,              \* packets lost or damaged
  behind,            \* so many packets that begin a section may be misread; 3 is any number
  strayed,           \* it has been 3
  good,              \* the last section has come whole so far, and nothing was behind when it began
  due                \* the sections for which this was so to their end

vars == <<totals, sent, data, section_length, got, lost, behind, strayed, good, due>>

\* A byte: number k of the t bytes of section s, the pointer field (s = 0) or stuffing (s = -1).
SectionBytes(s, t, from, n) == [i \in 1..n |-> [s |-> s, k |-> from + i - 1, t |-> t]]
PointerField(k) == <<[s |-> 0, k |-> k, t |-> 0]>>
Stuffing(n) == [i \in 1..n |-> [s |-> -1, k |-> 255, t |-> 0]]

\* Its value.  The length has 12 bits, above them are section_syntax_indicator, which is set, a 0
\* and two reserved bits.
LengthHigh(t) == 176 + (t - 3) \div 256
LengthLow(t) == (t - 3) % 256

ByteAt(b) ==
  CASE b.s <= 0 -> b.k
    [] b.s > 0 /\ b.k = 1 -> LengthHigh(b.t)
    [] b.s > 0 /\ b.k = 2 -> LengthLow(b.t)
    [] OTHER -> Contents[b.s][b.k]

LengthOf(high, low) == (ByteAt(high) % 16) * 256 + ByteAt(low)
Unknown == -1

-----------------------------------------------------------------------------
(* CSection and the parts of CSectionDecoder::OnTsPacket                    *)

Empty == [data |-> <<>>, length |-> Unknown]

\* DecodeHeader, as far as the length goes.
DecodeHeader(section) ==
  IF Len(section.data) >= 8 /\ section.length = Unknown
  THEN [section EXCEPT !.length = LengthOf(section.data[2], section.data[3])]
  ELSE section

\* What the header says of its length may be cut off between its bytes.
CalcSectionLength(section, packet, start) ==
  IF section.length # Unknown THEN section.length
  ELSE CASE Len(section.data) = 1 -> LengthOf(packet[start + 1], packet[start + 2])
         [] Len(section.data) = 2 -> LengthOf(section.data[2], packet[start + 1])
         [] OTHER -> LengthOf(section.data[2], section.data[3])

SectionComplete(section) ==
  LET n == Len(section.data)
  IN  \/ n < 8 /\ section.length > 0 /\ n - 3 > section.length
      \/ n >= 8 /\ n - 3 >= section.length

\* Mutant: a section takes the packet to its end.
AvailableAll(start, length) == Payload - start

\* How much of a section of that length there is from start on: length and 3 bytes more.
Available(start, length) ==
  IF length > Unknown /\ start + length < Payload - 3 THEN length + 3 ELSE Payload - start

SnapshotSectionLength(packet, start) ==
  IF start >= Payload - 4 THEN Unknown ELSE LengthOf(packet[start + 2], packet[start + 3])

BytesOf(packet, start, n) == SubSeq(packet, start + 1, start + n)

StartNewSection(st, packet) ==
  LET n == Available(st.start, SnapshotSectionLength(packet, st.start))
  IN  [st EXCEPT !.section = DecodeHeader([data |-> BytesOf(packet, st.start, n), length |-> Unknown]),
                 !.start = @ + n]

\* AppendSection; its length of -3 is no byte at all.
AppendSection(st, packet, length) ==
  LET n == IF st.start + length < Payload - 3 THEN length + 3 ELSE Payload - st.start
  IN  [st EXCEPT !.section.data = @ \o BytesOf(packet, st.start, n), !.start = @ + n]

\* The section goes on in this packet, at most to where the pointer field says that the
\* next one begins: there it is incomplete, and a length is made up that ends it.
ContinueSection(st, packet) ==
  LET length == CalcSectionLength(st.section, packet, st.start)
      known == [st EXCEPT !.section.length = length]
      rest == length - Len(st.section.data)
      cut == AppendSection(known, packet, st.pointer - st.start)
  IN  IF length = 0 THEN [st EXCEPT !.section = Empty, !.ended = TRUE]
      ELSE IF st.pointer # 0 /\ st.start + rest > st.pointer
      THEN [cut EXCEPT !.section.length = Len(cut.section.data) - 1, !.start = st.pointer]
      ELSE AppendSection(known, packet, rest)

\* The CRC is right for the bytes of one section, in their order.
IsWhole(section) ==
  LET first == section.data[1]
  IN  /\ first.s > 0 /\ section.length + 3 = first.t
      /\ SubSeq(section.data, 1, first.t) = SectionBytes(first.s, first.t, 0, first.t)

\* Only a section with section_syntax_indicator has a CRC.
Unchecked(section) == Len(section.data) < 8 \/ ByteAt(section.data[2]) < 128

Complete(st) ==
  LET section == DecodeHeader(st.section)
  IN  IF ~(SectionComplete(section) /\ section.length > 0) THEN [st EXCEPT !.section = section]
      ELSE IF IsWhole(section) THEN [st EXCEPT !.section = Empty, !.out = Append(@, section.data[1].s)]
      ELSE IF Unchecked(section) THEN [st EXCEPT !.section = Empty, !.out = Append(@, 0)]
      ELSE [st EXCEPT !.section = Empty, !.ended = TRUE]

\* One round of the loop, as long as there is something left of the packet.
Round(st, packet, unitStart) ==
  LET next == IF st.section.data # <<>> THEN ContinueSection(st, packet)
              ELSE IF unitStart /\ ByteAt(packet[st.start + 1]) # 255 THEN StartNewSection(st, packet)
              ELSE [st EXCEPT !.ended = TRUE]
  IN  IF st.ended \/ st.start >= Payload THEN [st EXCEPT !.ended = TRUE]
      ELSE IF next.ended THEN next
      ELSE [Complete(next) EXCEPT !.pointer = 0]

First(section, packet, unitStart) ==
  LET pointer == ByteAt(packet[1]) + 1
  IN  [section |-> section, out |-> <<>>, ended |-> FALSE,
       start |-> IF ~unitStart THEN 0 ELSE IF section.data = <<>> THEN pointer ELSE 1,
       pointer |-> IF unitStart THEN pointer ELSE 0]

\* What the rounds lead to, one by one.
Rounds(section, packet, unitStart) ==
  LET round[i \in 0..MaxLoops + 1] ==
        IF i = 0 THEN First(section, packet, unitStart) ELSE Round(round[i - 1], packet, unitStart)
  IN  round

\* OnTsPacket for a packet of the pid without an error.
Decoded(section, packet, unitStart) ==
  LET last == Rounds(section, packet, unitStart)[MaxLoops + 1]
  IN  IF last.ended THEN last ELSE [last EXCEPT !.section = Empty]

-----------------------------------------------------------------------------
(* The server, the way and the packets' arrival                             *)

Left == IF totals = <<>> THEN 0 ELSE totals[Len(totals)] - sent

\* What is in a packet before the last section that it begins.
Before(new) == 1 + Left + (IF Len(new) = 2 THEN new[1] ELSE 0)

\* The server sends the rest of the last section and begins new ones, of which only the last
\* need not fit.
Begin(new) ==
  /\ IF new = <<>> THEN Left > 0
     ELSE Before(new) < Payload /\ Len(totals) + Len(new) <= MaxSections
  /\ totals' = totals \o new
  /\ LET room == IF new = <<>> THEN Payload ELSE Payload - Before(new)
         ready == IF new = <<>> THEN Left ELSE new[Len(new)]
     IN  sent' = (IF new = <<>> THEN sent ELSE 0) + (IF ready < room THEN ready ELSE room)

PacketOf(new) ==
  LET rest == SectionBytes(Len(totals), totals[Len(totals)], sent, Left)
      section(j) == IF j > Len(new) THEN <<>> ELSE SectionBytes(Len(totals) + j, new[j], 0, new[j])
      all == (IF new = <<>> THEN <<>> ELSE PointerField(Left)) \o rest \o section(1) \o section(2)
  IN  SubSeq(all \o Stuffing(Payload), 1, Payload)

\* The sections that end in the packet and should be there after it.
DueAfter(new) ==
  LET ends == {s \in DOMAIN totals' : s < Len(totals') \/ sent' = totals'[s]}
      healthy == {s \in ends : IF s > Len(totals) THEN behind = 0
                               ELSE s = Len(totals) /\ Left > 0 /\ good}
  IN  due \cup healthy

Arrives(new) ==
  LET decoded == Decoded([data |-> data, length |-> section_length], PacketOf(new), new # <<>>)
  IN  /\ Begin(new)
      /\ data' = decoded.section.data /\ section_length' = decoded.section.length
      /\ got' = got \o decoded.out
      /\ due' = DueAfter(new)
      /\ good' = IF new = <<>> THEN good ELSE behind = 0
      /\ behind' = IF new # <<>> /\ behind \in {1, 2} THEN behind - 1 ELSE behind
      /\ UNCHANGED <<lost, strayed>>

\* A packet does not come.  What is there of the section that goes on in it is taken for the
\* beginning of what comes, and when that is one byte, its length and
\* section_syntax_indicator are read from anywhere.
Lost(new) ==
  /\ lost < MaxLost /\ lost' = lost + 1
  /\ Begin(new)
  /\ behind' = IF Left = 0 THEN behind ELSE IF sent = 1 \/ behind = 3 THEN 3 ELSE 2
  /\ strayed' = (strayed \/ behind' = 3)
  /\ good' = FALSE
  /\ UNCHANGED <<data, section_length, got, due>>

\* A packet comes with its TransportError bit, of this pid or of another.
Damaged(new, mine) ==
  /\ lost < MaxLost /\ lost' = lost + 1
  /\ IF mine THEN Begin(new) ELSE new = <<>> /\ UNCHANGED <<totals, sent>>
  /\ data' = <<>> /\ section_length' = Unknown
  /\ behind' = 0 /\ good' = FALSE
  /\ UNCHANGED <<got, strayed, due>>

Init ==
  /\ totals = <<>> /\ sent = 0
  /\ data = <<>> /\ section_length = Unknown
  /\ got = <<>> /\ lost = 0 /\ behind = 0 /\ strayed = FALSE /\ good = FALSE /\ due = {}

News == {<<>>} \cup {<<n>> : n \in Totals} \cup (Totals \X Totals)

Next ==
  \E new \in News : Arrives(new) \/ Lost(new) \/ \E mine \in BOOLEAN : Damaged(new, mine)

Spec == Init /\ [][Next]_vars

-----------------------------------------------------------------------------

\* However the server cuts and joins them, every section comes out, once and in order, and nothing
\* else does.  A lost packet costs the section that it cuts and those that begin in the next
\* two packets that begin one; only after the first byte of a section it may be any number,
\* and what is no section may come out.
SectionsArrive ==
  /\ \A i, j \in DOMAIN got : i < j /\ got[i] > 0 /\ got[j] > 0 => got[i] < got[j]
  /\ \A s \in due : \E i \in DOMAIN got : got[i] = s
  /\ (\E i \in DOMAIN got : got[i] = 0) => strayed
=============================================================================
