---------------------------- MODULE RtpReception ----------------------------
(***************************************************************************)
(* MultiFramedRTPSource with its ReorderingPacketBuffer, and the            *)
(* RTPReceptionStats of the sender: the datagrams of the transport stream   *)
(* come out of order, twice or not at all, and their numbers wrap around.   *)
(***************************************************************************)
EXTENDS Integers, Sequences, FiniteSets, SequencesExt, FiniteSetsExt

CONSTANTS
  Half,            \* half of the sequence numbers (32768)
  InitialSeq,      \* the first one
  fThresholdTime,  \* how long a packet waits for those before it
  MaxSent, MaxClock  \* bounds

VARIABLES
  sent, net,   \* the packets sent, numbered from 1, and those under way
  copies,      \* how many of each have come
  clock,
  queue,       \* from fHeadPacket on
  fHaveSeenFirstPacket, fNextExpectedSeqNo,
  fNeedDelivery,
  scheduled,   \* FramedSource::afterGetting waits in the event loop
  out,         \* the packets given to the sink
  begin, inTime,  \* the first packet to come, those that came after no later one was used
  stats, report   \* and what the last report should have said

receiver == <<queue, fHaveSeenFirstPacket, fNextExpectedSeqNo, fNeedDelivery, scheduled, out>>
history == <<copies, begin, inTime>>
vars == <<sent, net, clock, receiver, history, stats, report>>

Numbers == 2 * Half
SeqNo(n) == (InitialSeq + n - 1) % Numbers

\* Mutant: as numbers.
PlainLT(s1, s2) == s1 < s2

seqNumLT(s1, s2) ==
  LET diff == s2 - s1 IN (diff > 0 /\ diff < Half) \/ (diff < 0 /\ diff < -Half)

-----------------------------------------------------------------------------
(* ReorderingPacketBuffer                                                   *)

\* storePacket: the queue with the packet in its place, unless it comes too late or twice.
Stored(packet, expected) ==
  LET behind == {i \in DOMAIN queue : seqNumLT(packet.seq, queue[i].seq)}
      place == IF behind = {} THEN Len(queue) + 1 ELSE Min(behind)
  IN  IF seqNumLT(packet.seq, expected) \/ \E i \in DOMAIN queue : queue[i].seq = packet.seq
      THEN queue
      ELSE InsertAt(queue, place, packet)

\* getNextCompletedPacket: the one expected, or the first one when it has waited too long.
IsCompleted(head, expected) == head.seq = expected \/ clock - head.time > fThresholdTime

\* doGetNextFrame1 gives one packet: a packet of a transport stream is a frame of its own.
\* When the queue is empty then, the sink asks at once for the next, which is not there;
\* otherwise it is called from the event loop.
Deliver(q, expected, need) ==
  IF need /\ q # <<>> /\ IsCompleted(Head(q), expected)
  THEN /\ out' = Append(out, Head(q).n)
       /\ queue' = Tail(q)
       /\ fNextExpectedSeqNo' = (Head(q).seq + 1) % Numbers
       /\ fNeedDelivery' = (Tail(q) = <<>>) /\ scheduled' = (Tail(q) # <<>>)
  ELSE /\ queue' = q /\ fNextExpectedSeqNo' = expected /\ fNeedDelivery' = need
       /\ scheduled' = ~need
       /\ UNCHANGED out

-----------------------------------------------------------------------------
(* RTPReceptionStats                                                        *)

NoStats == [base |-> 0, highest |-> 0, total |-> 0, since |-> 0, lastReset |-> 0]

\* Mutant: the numbers never wrap around.
HighestPlain(highest, seq) ==
  IF seqNumLT(highest % Numbers, seq) THEN (highest \div Numbers) * Numbers + seq ELSE highest

\* The highest number so far with the count of its cycles.
Highest(highest, seq) ==
  LET old == highest % Numbers
      new == (highest \div Numbers + (IF seq < old THEN 1 ELSE 0)) * Numbers + seq
  IN  IF seqNumLT(old, seq) /\ new > highest THEN new ELSE highest

\* RTPReceptionStatsDB::noteIncomingPacket, also for a packet that comes twice.
NoteIncomingPacket(seq) ==
  LET known == IF fHaveSeenFirstPacket THEN stats
               ELSE [NoStats EXCEPT !.base = seq - 1, !.highest = seq, !.lastReset = seq]
  IN  stats' = [known EXCEPT !.highest = Highest(@, seq), !.total = @ + 1, !.since = @ + 1]

Came == {n \in 1..MaxSent : copies[n] > 0}
Newest == Max(Came)

\* enqueueReportBlock and reset, for a source that has sent since the last report.
Report ==
  LET expected == stats.highest - stats.lastReset
      lost == expected - stats.since
  IN  /\ stats.since > 0
      /\ report' = [totNumLost |-> stats.highest - stats.base - stats.total,
                    lossFraction |-> IF expected = 0 \/ lost < 0 THEN 0 ELSE ((lost * 256) \div expected) % 256,
                    missing |-> Cardinality((begin .. Newest) \ Came),
                    before |-> Cardinality({n \in Came : n < begin}),
                    twice |-> Cardinality({n \in Came : copies[n] > 1})]
      /\ stats' = [stats EXCEPT !.since = 0, !.lastReset = stats.highest]
      /\ UNCHANGED <<sent, net, clock, receiver, history>>

-----------------------------------------------------------------------------

Used == IF out = <<>> THEN begin - 1 ELSE Last(out)

\* What is under way is within half of the numbers, and so is a loss.
Send ==
  /\ sent < MaxSent /\ \A n \in net \cup {Used} : sent - n < Half - 2
  /\ sent' = sent + 1 /\ net' = net \cup {sent'}
  /\ UNCHANGED <<clock, receiver, history, stats, report>>

Lose(n) ==
  /\ n \in net /\ net' = net \ {n}
  /\ UNCHANGED <<sent, clock, receiver, history, stats, report>>

\* networkReadHandler, for a packet with a right header; a copy of it may still be under way.
Arrive(n, again) ==
  LET expected == IF fHaveSeenFirstPacket THEN fNextExpectedSeqNo ELSE SeqNo(n)
      packet == [seq |-> SeqNo(n), n |-> n, time |-> clock]
  IN  /\ n \in net /\ copies[n] < 2
      /\ net' = IF again THEN net ELSE net \ {n}
      /\ copies' = [copies EXCEPT ![n] = @ + 1]
      /\ NoteIncomingPacket(SeqNo(n))
      /\ fHaveSeenFirstPacket' = TRUE
      /\ begin' = IF fHaveSeenFirstPacket THEN begin ELSE n
      /\ inTime' = IF fHaveSeenFirstPacket /\ n <= Used THEN inTime ELSE inTime \cup {n}
      /\ Deliver(Stored(packet, expected), expected, fNeedDelivery)
      /\ UNCHANGED <<sent, clock, report>>

\* The sink has taken the last packet and asks for the next: doGetNextFrame.
AfterGetting ==
  /\ scheduled
  /\ Deliver(queue, fNextExpectedSeqNo, TRUE)
  /\ UNCHANGED <<sent, net, clock, fHaveSeenFirstPacket, history, stats, report>>

Tick ==
  /\ clock < MaxClock /\ clock' = clock + 1
  /\ UNCHANGED <<sent, net, receiver, history, stats, report>>

NoReport == [totNumLost |-> 0, lossFraction |-> 0, missing |-> 0, before |-> 0, twice |-> 0]

Init ==
  /\ sent = 0 /\ net = {} /\ clock = 0
  /\ queue = <<>> /\ fHaveSeenFirstPacket = FALSE /\ fNextExpectedSeqNo = 0
  /\ fNeedDelivery = TRUE /\ scheduled = FALSE /\ out = <<>>
  /\ copies = [n \in 1..MaxSent |-> 0] /\ begin = 1 /\ inTime = {}
  /\ stats = NoStats /\ report = NoReport

Next ==
  \/ Send
  \/ \E n \in net : Lose(n)
  \/ \E n \in net, again \in BOOLEAN : Arrive(n, again)
  \/ AfterGetting
  \/ Tick
  \/ Report

Spec == Init /\ [][Next]_vars

-----------------------------------------------------------------------------

\* The sink gets the packets in the order sent, none twice; one that has come before any
\* later one was used is never dropped, whatever came twice and wherever the numbers wrap.
FramesInOrder ==
  /\ \A i, j \in DOMAIN out : i < j => out[i] < out[j]
  /\ \A n \in inTime : (\E i \in DOMAIN out : out[i] = n) \/ (\E i \in DOMAIN queue : queue[i].n = n)

\* The count of numbers goes on over the wrap: what a report calls lost are the packets that
\* have not come, less what came before the first and what came twice.
LossReported ==
  /\ fHaveSeenFirstPacket => stats.highest - stats.base = Newest - begin + 1
  /\ report.totNumLost = report.missing - report.before - report.twice

\* The two wherever the numbers wrap around: 16 bits in the packets, 32 in the statistics.
RightAcrossTheWrap == FramesInOrder /\ LossReported
=============================================================================
