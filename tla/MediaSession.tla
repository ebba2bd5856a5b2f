---------------------------- MODULE MediaSession ----------------------------
(***************************************************************************)
(* The session of a stream on the client's side: the description that the   *)
(* server answers (MediaSession::initializeWithSDP), and for each of its    *)
(* subsessions the pair of UDP sockets that receive it                      *)
(* (MediaSubsession::initiate), which OpenStream asks for one after another *)
(* before it sends the SETUPs, and which shutdown closes.  The ports are    *)
(* the kernel's, and other programs take and release them at any time.      *)
(*                                                                          *)
(* A line of the description is a record by what the parser makes of it.    *)
(***************************************************************************)
EXTENDS Integers, Sequences, FiniteSets

CONSTANTS
  Ports,          \* the UDP ports of the machine, 0 is none of them
  Descriptions,   \* the descriptions a server answers: sequences of lines
  MaxOpens        \* bound: OpenStreams of a behaviour

VARIABLES
  step,       \* where OpenStream is: "closed", "initiate", "rtp", "rtcp", "source", "receivers", "open"
  opens,
  session,    \* m_session: its subsessions in their order
  current,    \* the iterator: the subsession that is initiated
  tried,      \* socketHashTable: the ports whose sockets are kept until a pair is found
  bound,      \* the kernel's: the client's sockets as <<subsession, port>>
  taken       \* the ports that other programs are bound to

vars == <<step, opens, session, current, tried, bound, taken>>

None == 0

Init ==
  /\ step = "closed" /\ opens = 0
  /\ session = <<>> /\ current = 1
  /\ tried = {} /\ bound = {}
  /\ taken \in {{}} \cup {{p} : p \in Ports}

-----------------------------------------------------------------------------
(* The description.                                                         *)

\* lookupPayloadFormat, of the static payload types.
LookupPayloadFormat(payload) == CASE payload = 33 -> "MP2T" [] payload = 14 -> "MPA" [] OTHER -> "unknown"

\* A subsession as its "m=" line makes it.
NewSubsession(line) ==
  [protocol |-> line.protocol, payload |-> line.payload, codec |-> "unknown", given |-> line.port # 0,
   clientPort |-> line.port, rtp |-> None, rtcp |-> None, source |-> FALSE, rtcpInstance |-> FALSE]

\* parseSDPAttribute_rtpmap.
RtpMap(subsession, line) ==
  IF line.payload = subsession.payload THEN [subsession EXCEPT !.codec = line.codec] ELSE subsession

\* What initializeWithSDP has after a line: ok, that it goes on; the list of subsessions; within, that
\* lines are of the last of them, not in front of the first nor behind a bad "m=" line.
\* The end of a subsession's lines: an unnamed codec is looked up, and must be known.
Completed(parsed) ==
  LET n == Len(parsed.list)
      codec == LookupPayloadFormat(parsed.list[n].payload)
  IN IF ~parsed.within \/ parsed.list[n].codec # "unknown" THEN parsed
     ELSE [parsed EXCEPT !.ok = codec # "unknown", !.list[n].codec = codec]

\* A letter and "=", or nothing.
ParseSDPLine(line) == line.kind # "malformed"

Line(parsed, line) ==
  CASE ~ParseSDPLine(line) -> [parsed EXCEPT !.ok = FALSE]
    [] line.kind = "m" ->
         LET before == Completed(parsed)
         IN IF line.protocol = "bad" THEN [before EXCEPT !.within = FALSE]
            ELSE [before EXCEPT !.within = TRUE, !.list = Append(@, NewSubsession(line))]
    [] line.kind = "rtpmap" /\ parsed.within ->
         [parsed EXCEPT !.list[Len(parsed.list)] = RtpMap(@, line)]
    [] OTHER -> parsed

NothingParsed == [ok |-> TRUE, list |-> <<>>, within |-> FALSE]

\* After each number of lines.
AfterLines(lines) ==
  LET after[i \in 0..Len(lines)] ==
        IF i = 0 THEN NothingParsed
        ELSE LET before == after[i - 1] IN IF before.ok THEN Line(before, lines[i]) ELSE before
  IN  after

InitializeWithSDP(lines) ==
  LET end == AfterLines(lines)[Len(lines)]
  IN IF end.ok THEN Completed(end) ELSE end

\* OpenStream with the answer to DESCRIBE: without a session that has subsessions it shuts down.
Describe(lines) ==
  /\ step = "closed" /\ opens < MaxOpens /\ opens' = opens + 1
  /\ LET parsed == InitializeWithSDP(lines)
         usable == parsed.ok /\ parsed.list # <<>>
     IN /\ session' = IF usable THEN parsed.list ELSE <<>>
        /\ step' = IF usable THEN "initiate" ELSE "closed"
  /\ current' = 1
  /\ UNCHANGED <<tried, bound, taken>>

-----------------------------------------------------------------------------
(* The sockets.                                                             *)

HeldPorts == {s[2] : s \in bound}
Free == Ports \ (taken \cup HeldPorts)

\* setupDatagramSocket with SO_REUSEADDR: next to the client's own that were bound so.
\* Without the port the socket stays unbound, and the Groupsock does not say so.
Reusable == Free \cup {s[2] : s \in {own \in bound : session[own[1]].given}}

WithPorts(subsession, port, rtp, rtcp) ==
  [subsession EXCEPT !.clientPort = port, !.rtp = rtp, !.rtcp = rtcp]

\* Mutant: the port number stays.
FailedKeepsPort == [session[current] EXCEPT !.rtp = None, !.rtcp = None]

\* A failed initiate leaves neither sockets nor a port, so that no SETUP is sent for it.
FailedSubsession == WithPorts(session[current], None, None, None)

\* The loop of OpenStream goes on with the next subsession; after the last it needs one that works.
Continue(subsessions, sockets) ==
  /\ session' = subsessions /\ bound' = sockets /\ tried' = {}
  /\ IF current < Len(session) THEN step' = "initiate" /\ current' = current + 1
     ELSE step' = "receivers" /\ UNCHANGED current

\* Ports that the description names: the even one and the next.
GivenPorts ==
  /\ step = "initiate" /\ session[current].clientPort # 0
  /\ LET even == session[current].clientPort - (session[current].clientPort % 2)
         rtp == IF even \in Reusable THEN even ELSE None
         rtcp == IF even + 1 \in Reusable THEN even + 1 ELSE None
     IN /\ session' = [session EXCEPT ![current] = WithPorts(@, even, rtp, rtcp)]
        /\ bound' = bound \cup ({current} \X ({rtp, rtcp} \ {None}))
  /\ step' = "source"
  /\ UNCHANGED <<opens, current, tried, taken>>

\* No ports are named: sockets of the kernel's choice until one of them is even.
Ephemeral ==
  /\ step = "initiate" /\ session[current].clientPort = 0
  /\ step' = "rtp"
  /\ UNCHANGED <<opens, session, current, tried, bound, taken>>

IsOdd(port) == port % 2 # 0

RtpSocket(port) ==
  /\ step = "rtp" /\ port \in Free
  /\ bound' = bound \cup {<<current, port>>}
  /\ session' = [session EXCEPT ![current] = WithPorts(@, port, port, @.rtcp)]
  /\ IF IsOdd(port) THEN tried' = tried \cup {port} /\ UNCHANGED step
     ELSE step' = "rtcp" /\ UNCHANGED tried
  /\ UNCHANGED <<opens, current, taken>>

\* Mutant: only the table is deleted.
CleanUpTable(sockets) == sockets

\* The sockets of the table are deleted.
CleanUp(sockets) == sockets \ ({current} \X tried)

\* The kernel has no port: getSourcePort fails, and with it initiate.
NoRtpSocket ==
  /\ step = "rtp" /\ Free = {}
  /\ Continue([session EXCEPT ![current] = FailedSubsession], CleanUp(bound))
  /\ UNCHANGED <<opens, taken>>

\* The Groupsock of the next port is never NULL: when the port is taken the subsession goes on with
\* an unbound socket, and the branch that would try another pair is not reached.  The port can be
\* that of a socket in the table, too: odd ones are kept there until the end.
RtcpSocket ==
  /\ step = "rtcp"
  /\ LET next == session[current].rtp + 1
         rtcp == IF next \in Free THEN next ELSE None
     IN /\ session' = [session EXCEPT ![current] = WithPorts(@, @.clientPort, @.rtp, rtcp)]
        /\ bound' = CleanUp(bound) \cup ({current} \X ({rtcp} \ {None}))
  /\ tried' = {} /\ step' = "source"
  /\ UNCHANGED <<opens, current, taken>>

\* A read source there is for UDP, and by RTP for an MPEG-2 transport stream alone.
HasReadSource(subsession) == subsession.protocol = "UDP" \/ subsession.codec = "MP2T"

\* The RTCP instance comes with an RTP source.
WithRtcpInstance(subsession) == [subsession EXCEPT !.source = TRUE, !.rtcpInstance = subsession.protocol = "RTP"]

\* The end of initiate.
CreateSource ==
  /\ step = "source"
  /\ IF HasReadSource(session[current])
     THEN Continue([session EXCEPT ![current] = WithRtcpInstance(@)], bound)
     ELSE Continue([session EXCEPT ![current] = FailedSubsession], bound \ ({current} \X Ports))
  /\ UNCHANGED <<opens, taken>>

\* deInitiate, of all subsessions with the session.
Shutdown == session' = <<>> /\ bound' = {} /\ step' = "closed"

\* The SETUPs are for the subsessions with a port; without one OpenStream has made no progress.
SetupStreams ==
  /\ step = "receivers"
  /\ IF \E i \in 1..Len(session) : session[i].source THEN step' = "open" /\ UNCHANGED <<session, bound>>
     ELSE Shutdown
  /\ UNCHANGED <<opens, current, tried, taken>>

Close ==
  /\ step = "open" /\ Shutdown
  /\ UNCHANGED <<opens, current, tried, taken>>

-----------------------------------------------------------------------------
(* Other programs.                                                          *)

Take(port) ==
  /\ port \in Free /\ taken' = taken \cup {port}
  /\ UNCHANGED <<step, opens, session, current, tried, bound>>

Release(port) ==
  /\ port \in taken /\ taken' = taken \ {port}
  /\ UNCHANGED <<step, opens, session, current, tried, bound>>

Next ==
  \/ \E lines \in Descriptions : Describe(lines)
  \/ GivenPorts
  \/ Ephemeral
  \/ \E port \in Ports : RtpSocket(port) \/ Take(port) \/ Release(port)
  \/ NoRtpSocket
  \/ RtcpSocket
  \/ CreateSource
  \/ SetupStreams
  \/ Close

-----------------------------------------------------------------------------

\* MediaSubsession::initiate, deInitiate: whatever fails and whenever, the client holds the sockets
\* of its subsessions, those of the pair it is looking for, and no others.
NoSocketLeft ==
  bound = (UNION {{i} \X ({session[i].rtp, session[i].rtcp} \ {None}) : i \in 1..Len(session)})
          \cup ({current} \X tried)

\* Every SETUP of a subsession without a port in the description names a port that the client holds,
\* an even one, that no other subsession of the session receives on; RTCP is on the next or on none.
SetupPortsAreHeld ==
  step = "open" =>
    \A i \in 1..Len(session) : ~session[i].given /\ session[i].clientPort # 0 =>
      /\ session[i].source /\ session[i].rtp = session[i].clientPort
      /\ session[i].rtp % 2 = 0 /\ <<i, session[i].rtp>> \in bound
      /\ session[i].rtcp \in {None, session[i].rtp + 1}
      /\ \A j \in 1..Len(session) \ {i} :
           session[j].rtp # session[i].rtp /\ session[j].rtcp # session[i].rtp

\* Both together: the client holds the ports that it names, and no others.
PortsAreRight == NoSocketLeft /\ SetupPortsAreHeld
=============================================================================
