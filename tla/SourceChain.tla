----------------------------- MODULE SourceChain -----------------------------
(***************************************************************************)
(* From the packets in their order (RtpReception) to the memory buffer:     *)
(* SimpleRTPSource, MPEG2TransportStreamFramer and CMemorySink call each    *)
(* other back, each read is asked for in the callback of the one before.    *)
(* All of it is one thread: call says that a callback is under way, nothing *)
(* else comes between.  A byte is known by its packet and place, and by     *)
(* being 0x47 or not.                                                       *)
(***************************************************************************)
EXTENDS Integers, Sequences, SequencesExt, FiniteSetsExt

CONSTANTS
  TransportPacketSize,  \* TRANSPORT_PACKET_SIZE
  BufferSize,           \* fileSinkBufferSize
  Payloads,             \* what a datagram can carry: which of its bytes are 0x47
  MaxAtOnce, MaxPayloads  \* bounds

VARIABLES
  came,         \* the payloads so far
  chainQueue,   \* those in the reordering buffer
  reading,      \* fAreDoingNetworkReads
  awaiting,     \* those of the source and the framer with fIsCurrentlyAwaitingData
  chainNeeds,   \* fNeedDelivery
  room,         \* fMaxSize of the source
  frame,        \* the first fFrameSize bytes of the sink's buffer
  afterGetting, \* "no", "call" (under way) or "task" (waits in the event loop)
  fSource,      \* the sink is attached
  submitted,    \* the bytes given to the memory buffer
  internalError \* two reads at a time: the process is aborted

sink == <<fSource, submitted>>
vars == <<came, chainQueue, reading, awaiting, chainNeeds, room, frame, afterGetting, sink, internalError>>

Chain == {"source", "framer"}
PayloadOf(n, shape) == [i \in DOMAIN shape |-> [n |-> n, i |-> i, sync |-> shape[i]]]
Idle == afterGetting # "call" /\ ~internalError

-----------------------------------------------------------------------------
(* MultiFramedRTPSource                                                     *)

\* BufferedPacket::use: what there is room for; the rest of the packet is lost.
Used(packet, size) == SubSeq(packet, 1, Min({size, Len(packet)}))

\* doGetNextFrame1 gives one packet.  The framer is called at once when no other is queued, by
\* the event loop otherwise.
DoGetNextFrame1(q, need, buf, size) ==
  IF need /\ q # <<>>
  THEN /\ frame' = buf \o Used(Head(q), size)
       /\ chainQueue' = Tail(q) /\ chainNeeds' = FALSE
       /\ afterGetting' = IF Tail(q) = <<>> THEN "call" ELSE "task"
  ELSE /\ frame' = buf /\ chainQueue' = q /\ chainNeeds' = need
       /\ afterGetting' = IF afterGetting = "task" /\ ~need THEN "task" ELSE "no"

\* networkReadHandler, with the packet that is expected and those that have waited for it.
NetworkReadHandler(shapes) ==
  LET payloads == [k \in DOMAIN shapes |-> PayloadOf(Len(came) + k, shapes[k])] IN
  /\ Idle /\ reading /\ Len(came) + Len(shapes) <= MaxPayloads
  /\ came' = came \o payloads
  /\ DoGetNextFrame1(chainQueue \o payloads, chainNeeds, frame, room)
  /\ UNCHANGED <<reading, awaiting, room, sink, internalError>>

\* getNextFrame of the source by the framer, into what follows buf; reads are the sources that
\* are being read (fIsCurrentlyAwaitingData), again those that are to be read now.
ReadSource(reads, again, buf, size) ==
  /\ internalError' = (reads \cap again # {})
  /\ awaiting' = reads \cup again
  /\ room' = size
  /\ DoGetNextFrame1(chainQueue, TRUE, buf, size)

-----------------------------------------------------------------------------
(* MPEG2TransportStreamFramer, called by FramedSource::afterGetting         *)

\* An integral number of packets.
WholePackets == SubSeq(frame, 1, (Len(frame) \div TransportPacketSize) * TransportPacketSize)

\* Mutant: the flag is reset after the callback, which reads again.
AwaitingAfterCallback(finished) == awaiting

\* FramedSource::afterGetting resets the flag before it calls back.
Awaiting(finished) == awaiting \ finished

Syncs(data) == {i \in DOMAIN data : data[i].sync}

\* onSourceClosure: the sink is detached.
Detached == fSource' = FALSE /\ afterGetting' = "no"

\* handleClosure.  The source goes on reading the network, its packets are never asked for.
Closes ==
  /\ Syncs(WholePackets) = {}
  /\ awaiting' = {} /\ frame' = WholePackets /\ Detached
  /\ UNCHANGED <<chainQueue, chainNeeds, room, submitted, internalError>>

\* Data before the first sync byte: the rest moves to the front, and the source is asked for as
\* much as has been left out.
Shifts ==
  LET first == Min(Syncs(WholePackets)) IN
  /\ Syncs(WholePackets) # {} /\ first > 1
  /\ ReadSource(Awaiting({"source"}), {"source"}, SubSeq(WholePackets, first, Len(WholePackets)), first - 1)
  /\ UNCHANGED sink

\* CMemorySink::afterGettingFrame, addData, continuePlaying
Submits ==
  /\ Syncs(WholePackets) # {} /\ WholePackets[1].sync
  /\ submitted' = submitted \o WholePackets
  /\ ReadSource(Awaiting(Chain), Chain, <<>>, BufferSize)
  /\ UNCHANGED fSource

AfterGetting ==
  /\ afterGetting # "no" /\ ~internalError
  /\ Closes \/ Shifts \/ Submits
  /\ UNCHANGED <<came, reading>>

-----------------------------------------------------------------------------

\* doStopGettingFrames of the source.
StopsReading == reading' = FALSE /\ chainQueue' = <<>> /\ chainNeeds' = FALSE

\* closeMediaSinks: ~MediaSink, stopPlaying, stopGettingFrames of the framer and of the source.
\* The source's task goes with the source, before the event loop runs again.  After a closure
\* the source is not stopped before the session goes.
CloseSink ==
  /\ Idle /\ fSource /\ Detached
  /\ awaiting' = {} /\ StopsReading
  /\ UNCHANGED <<came, room, frame, submitted, internalError>>

\* startPlaying
Init ==
  /\ came = <<>> /\ chainQueue = <<>> /\ reading = TRUE
  /\ awaiting = Chain /\ chainNeeds = TRUE
  /\ room = BufferSize /\ frame = <<>> /\ afterGetting = "no"
  /\ fSource = TRUE /\ submitted = <<>> /\ internalError = FALSE

Next ==
  \/ \E shapes \in SeqOf(Payloads, MaxAtOnce) \ {<<>>} : NetworkReadHandler(shapes)
  \/ AfterGetting
  \/ CloseSink

Spec == Init /\ [][Next]_vars

-----------------------------------------------------------------------------

IsWhole(payload) ==
  /\ payload # <<>> /\ Len(payload) % TransportPacketSize = 0 /\ payload[1].sync

BytesIn(payloads) == UNION {ToSet(payload) : payload \in ToSet(payloads)}
UnderWay == ToSet(frame) \cup BytesIn(chainQueue)

\* However the callbacks nest, no source is read twice at a time, the buffer gets whole packets
\* and their bytes in order and once; as long as the sink has not been detached a datagram of whole
\* packets that follows another such gets there completely: what is broken costs the next at most.
DataReachesBuffer ==
  /\ ~internalError
  /\ Len(submitted) % TransportPacketSize = 0
  /\ \A i, j \in DOMAIN submitted : i < j =>
       \/ submitted[i].n < submitted[j].n
       \/ submitted[i].n = submitted[j].n /\ submitted[i].i < submitted[j].i
  /\ fSource => \A n \in DOMAIN came :
       IsWhole(came[n]) /\ (n = 1 \/ IsWhole(came[n - 1])) => ToSet(came[n]) \subseteq ToSet(submitted) \cup UnderWay
=============================================================================
