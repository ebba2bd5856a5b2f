--------------------------------- MODULE Input ---------------------------------
(***************************************************************************)
(* The stages that the stream goes through, from the RTSP requests down to  *)
(* the tables of a channel, each on its own in one state space: part says   *)
(* which of them a behaviour is of, the others stay as they begin.  The     *)
(* hash table is the one this module extends.                              *)
(***************************************************************************)
EXTENDS HashTable, Sequences, FiniteSets, TLC

CONSTANTS
  Servers, Subsessions, WithBody, MaxRequests,                              \* RtspRequests
  Sockets, FewSockets, Tasks, Delays, MaxClock,                             \* EventLoop, with tasks
  FewTasks, FewDelays, ShortClock,                                          \* and with sockets
  Half, InitialSeq, fThresholdTime, MaxSent,                                \* RtpReception
  SSRC, FirstIntervals, Intervals, membershipReapPeriod, MaxCount, MaxByes, \* Rtcp
  PacketLen, Bytes, Reads, Look, Places,                                    \* PacketSync
  Payload, MaxLoops, MaxSections, Totals, Contents, MaxLost,                \* SectionDecoder
  Channels, Versions, MaxTunes,                                             \* Demultiplexer
  Descriptions, Ports, MaxOpens,                                            \* MediaSession
  TransportPacketSize, BufferSize, Payloads, MaxAtOnce, MaxPayloads         \* SourceChain

\* RtpReception: there are numbers (65536 of them).
ASSUME ReceptionAssumption == Half \in Nat \ {0} /\ InitialSeq \in Nat /\ MaxSent \in Nat

\* EventLoop: scheduleDelayedTask makes a delay below zero 0, and a client has so many sockets.
ASSUME LoopAssumption == Delays \subseteq Nat /\ IsFiniteSet(Sockets)

\* Rtcp: what a random interval may be has a bound, and the period (5 in the code) is a number.
ASSUME RtcpAssumption ==
  /\ FirstIntervals \subseteq Nat /\ Intervals \subseteq Nat
  /\ \E longest \in FirstIntervals \cup Intervals :
       \A interval \in FirstIntervals \cup Intervals : interval <= longest
  /\ membershipReapPeriod \in Nat

\* RtspRequests: a body has been asked for.
ASSUME RequestsAssumption ==
  MaxRequests \in Nat /\ WithBody \subseteq {"DESCRIBE", "SETUP"} /\ "none" \notin Servers

\* Demultiplexer: a version does not come again before the next zap, and a PMT is a sequence of
\* streams with a sequence of descriptors each.
ASSUME TablesAssumption ==
  /\ MaxTunes \in Nat \ {0} /\ Versions \in Nat /\ MaxTunes < Versions
  /\ \A c \in Channels :
       /\ c.pids \in Seq(Nat)
       /\ \A pid \in DOMAIN c.pmts :
            /\ pid \in Nat
            /\ c.pmts[pid] \in Seq([pid : Nat, type : STRING, descriptors : Seq([tag : STRING, lang : STRING])])

\* MediaSession: 0 is no port, and a line has the fields that the parser makes of it.
ASSUME MediaAssumption ==
  /\ Ports \subseteq Nat \ {0}
  /\ \A lines \in Descriptions :
       /\ Len(lines) \in Nat /\ DOMAIN lines = 1 .. Len(lines)
       /\ \A i \in DOMAIN lines : lines[i].port \in Nat /\ lines[i].payload \in Int

\* PacketSync: what has TS_PACKET_SYNC at both ends of a packet's length is a packet.
ASSUME PacketsAssumption ==
  /\ PacketLen \in Nat \ {0} /\ Reads \subseteq Nat /\ Places \subseteq Nat
  /\ \A b \in Look : b + PacketLen \notin Look

\* SectionDecoder: a PAT or a PMT has a header, a CRC and a length of 12 bits, its table_id is not the
\* byte of stuffing; a packet is not all header (184 bytes of payload and 100 loops in the code).
ASSUME SectionsAssumption ==
  /\ Payload \in Nat /\ Payload >= 16 /\ MaxLoops \in Nat /\ MaxLoops >= 3
  /\ MaxSections \in Nat /\ Totals \subseteq 12 .. 4098
  /\ \A s \in 1 .. MaxSections, t \in Totals :
       /\ Contents[s][0] # 255
       /\ \A k \in 0 .. t - 1 : Contents[s][k] \in 0 .. 255

\* SourceChain: a packet fits into the sink's buffer (MAX_PACKET_SIZE is 10000, fileSinkBufferSize 20000).
ASSUME ChainAssumption ==
  /\ TransportPacketSize \in Nat \ {0} /\ BufferSize \in Nat /\ MaxAtOnce \in Nat
  /\ Payloads \subseteq Seq(BOOLEAN) /\ \A shape \in Payloads : Len(shape) <= BufferSize

VARIABLES
  part,
  stage, left, call, fCSeq, fLastSessionId, connected, watched, unanswered, wire, codes, result,
  clock, fDelayQueue, fLastSyncTime, due, setBack, fReadHandlers, fLastHandledSocketNum, readable, passed,
  rtpSent, net, copies, rtpClock, queue, fHaveSeenFirstPacket, fNextExpectedSeqNo, fNeedDelivery,
  scheduled, out, begin, inTime, stats, report,
  elapsed, toGo, fIsInitial, fPrevNumMembers, fOutgoingReportCount, members, sources, silence, spoke, byes,
  place, temp, packets, last, clean, whole,
  totals, sent, data, section_length, got, lost, behind, strayed, good, dueSections,
  tunes, at, m_iPatTableVersion, m_pmtParsers, m_bGotNewChannel, waiting, patOf, endedBy,
  step, opens, session, current, tried, bound, taken,
  came, chainQueue, reading, awaiting, chainNeeds, room, frame, afterGetting, fSource, submitted, internalError

requests == <<stage, left, call, fCSeq, fLastSessionId, connected, watched, unanswered, wire, codes, result>>
loop == <<clock, fDelayQueue, fLastSyncTime, due, setBack, fReadHandlers, fLastHandledSocketNum, readable, passed>>
reception == <<rtpSent, net, copies, rtpClock, queue, fHaveSeenFirstPacket, fNextExpectedSeqNo, fNeedDelivery,
               scheduled, out, begin, inTime, stats, report>>
reports == <<elapsed, toGo, fIsInitial, fPrevNumMembers, fOutgoingReportCount, members, sources, silence, spoke, byes>>
packetSync == <<place, temp, packets, last, clean, whole>>
decoder == <<totals, sent, data, section_length, got, lost, behind, strayed, good, dueSections>>
parsers == <<tunes, at, m_iPatTableVersion, m_pmtParsers, m_bGotNewChannel, waiting, patOf, endedBy>>
media == <<step, opens, session, current, tried, bound, taken>>
chain == <<came, chainQueue, reading, awaiting, chainNeeds, room, frame, afterGetting, fSource, submitted, internalError>>

-----------------------------------------------------------------------------

Requests == INSTANCE RtspRequests
\* Mostly of tasks, and mostly of sockets.
TasksLoop == INSTANCE EventLoop WITH Sockets <- FewSockets
SocketsLoop == INSTANCE EventLoop WITH Tasks <- FewTasks, Delays <- FewDelays, MaxClock <- ShortClock
Reception == INSTANCE RtpReception WITH sent <- rtpSent, clock <- rtpClock
Reports == INSTANCE Rtcp
Packets == INSTANCE PacketSync
Sections == INSTANCE SectionDecoder WITH due <- dueSections
Tables == INSTANCE Demultiplexer
Sessions == INSTANCE MediaSession
Chain == INSTANCE SourceChain

Parts == {"requests", "tasks", "sockets", "reception", "reports", "packets", "sections", "tables",
          "media", "chain", "hashTable"}

InputInit ==
  /\ part \in Parts
  /\ Requests!Init /\ Reception!Init /\ Sections!Init
  /\ IF part = "sockets" THEN SocketsLoop!Init ELSE TasksLoop!Init
  /\ Reports!Init /\ (part # "reports" => toGo = 1)
  /\ Packets!Init /\ (part # "packets" => place = 0)
  /\ Tables!Init /\ (part # "tables" => tunes = <<CHOOSE c \in Channels : TRUE>>)
  /\ Sessions!Init /\ (part # "media" => taken = {})
  /\ Chain!Init
  /\ Init

Others ==
  /\ UNCHANGED part
  /\ IF part = "requests" THEN TRUE ELSE UNCHANGED requests
  /\ IF part \in {"tasks", "sockets"} THEN TRUE ELSE UNCHANGED loop
  /\ IF part = "reception" THEN TRUE ELSE UNCHANGED reception
  /\ IF part = "reports" THEN TRUE ELSE UNCHANGED reports
  /\ IF part = "packets" THEN TRUE ELSE UNCHANGED packetSync
  /\ IF part = "sections" THEN TRUE ELSE UNCHANGED decoder
  /\ IF part = "tables" THEN TRUE ELSE UNCHANGED parsers
  /\ IF part = "media" THEN TRUE ELSE UNCHANGED media
  /\ IF part = "chain" THEN TRUE ELSE UNCHANGED chain
  /\ IF part = "hashTable" THEN TRUE ELSE UNCHANGED vars

InputNext ==
  \/ part = "requests" /\ Requests!Next /\ Others
  \/ part = "tasks" /\ TasksLoop!Next /\ Others
  \/ part = "sockets" /\ SocketsLoop!Next /\ Others
  \/ part = "reception" /\ Reception!Next /\ Others
  \/ part = "reports" /\ Reports!Next /\ Others
  \/ part = "packets" /\ Packets!Next /\ Others
  \/ part = "sections" /\ Sections!Next /\ Others
  \/ part = "tables" /\ Tables!Next /\ Others
  \/ part = "media" /\ Sessions!Next /\ Others
  \/ part = "chain" /\ Chain!Next /\ Others
  \/ part = "hashTable" /\ Next /\ Others

inputVars == <<part, requests, loop, reception, reports, packetSync, decoder, parsers, media, chain, vars>>

InputSpec == InputInit /\ [][InputNext]_inputVars

-----------------------------------------------------------------------------

\* getResponse1: undisturbed, the result of a request is what the server has answered to it.
ResultIsTheServers == part = "requests" => Requests!ResultIsTheServers

\* DelayQueue: tasks run when their delay is over and in the order of it.
TasksInTime == part = "tasks" => TasksLoop!TasksInTime

\* SingleStep: no socket with data is passed over for ever, while the handler called last stays.
NoSocketStarves == part = "sockets" => SocketsLoop!NoSocketStarves

\* ReorderingPacketBuffer, RTPReceptionStats: the packets in their order, none twice, none that
\* came in time dropped, and what a report calls lost is what has not come.
RightAcrossTheWrap == part = "reception" => Reception!RightAcrossTheWrap

\* OnExpire, RTCPMemberDatabase: the server hears of the client within every longest interval,
\* and who reports is not forgotten.
NobodyIsForgotten == part = "reports" => Reports!NobodyIsForgotten

\* CPacketSync: the packets of the stream, however the reads cut it.
PacketsIntact == part = "packets" => Packets!PacketsIntact

\* CSectionDecoder: the sections, however the packets cut them, nothing else, and after a loss again.
SectionsArrive == part = "sections" => Sections!SectionsArrive

\* CPatParser, CPmtParser, RequestNewPat: no table of the channel before the last PAT is left nor
\* ends the wait, and a language belongs to the stream it was given for.
TablesAreTheChannels == part = "tables" => Tables!TablesAreTheChannels

\* initiate, deInitiate, setupStreams: no socket is left behind, and the ports that the SETUPs name
\* are the client's own.
PortsAreRight == part = "media" => Sessions!PortsAreRight

\* The framer and the sink: datagrams of whole packets get into the buffer, whatever broken one
\* came before, as long as the sink is attached.
DataReachesBuffer == part = "chain" => Chain!DataReachesBuffer
=============================================================================
