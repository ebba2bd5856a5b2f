------------------------------ MODULE LiveStream ------------------------------
(***************************************************************************)
(* The streams of cPVRClientMediaPortal in TSReader mode: OpenLiveStream,   *)
(* CloseLiveStream, GetChannelStreamProperties, OpenRecordedStream,          *)
(* CloseRecordedStream and Disconnect over one CTsReader, with the timeshift *)
(* that the server runs for this client.                                    *)
(*                                                                         *)
(* Kodi's player makes these calls one after the other, so each is a step;  *)
(* Connection models what goes on inside a SendCommand.  Here the           *)
(* connection is what IsUp() says, and it may change between two calls and  *)
(* within one: commands may stay unanswered.                                *)
(***************************************************************************)
EXTENDS Naturals

CONSTANTS
  Channels,     \* the uids of the channels
  Streams,      \* the timeshift buffers of the server: their file names or rtsp urls
  Recording,    \* the name of a recording's file or url
  None,         \* no channel, no reader, no timeshift
  Faults,       \* a subset of {"lost", "refused", "short", "open"}
  RtspModes     \* the values of the setting "usertsp", a subset of BOOLEAN

\* What a CTsReader was made for; whether m_fileName still says so; whether it reads.
Reader == [name : Streams \cup {Recording}, found : BOOLEAN, open : BOOLEAN]
Timeshift == [stream : Streams, channel : Channels]

ASSUME StreamsAssumption ==
  /\ None \notin Channels \cup Reader \cup Timeshift
  /\ Recording \notin Streams
  /\ RtspModes \subseteq BOOLEAN

VARIABLES
  up,                     \* IsUp()
  useRtsp, fast,          \* the settings "usertsp" and "fastchannelswitch"
  m_iCurrentChannel,      \* None for -1
  m_bTimeShiftStarted, m_bSkipCloseLiveStream,
  m_tsreader,             \* None, or what it has been opened on and with what success
  leaked,                 \* a CTsReader has been forgotten without being closed
  server,                 \* None, or the timeshift: its stream and its channel
  kodi, next,             \* what the player holds open; the channel it is switching to
  playing,                \* the channel for which the last OpenLiveStream returned true
  quiet                   \* so far: the connection lasted, every answer was readable, a
                          \* refusal ended the timeshift, no channel was selected again

settings == <<useRtsp, fast>>
flags == <<m_bTimeShiftStarted, m_bSkipCloseLiveStream>>
player == <<kodi, next>>
vars == <<up, settings, m_iCurrentChannel, flags, m_tsreader, leaked, server, player, playing, quiet>>

Lossy == "lost" \in Faults

\* What a CTsReader can be after Open(name).  When TranslatePath finds no such file, m_fileName is
\* empty; a file that is there and cannot be opened leaves it the name.
OpenOutcomes(name) ==
  {[name |-> name, found |-> TRUE, open |-> TRUE]} \cup
    IF "open" \in Faults THEN [name : {name}, found : BOOLEAN, open : {FALSE}] ELSE {}

-----------------------------------------------------------------------------
(* CloseLiveStream                                                         *)

\* "StopTimeshift:\n", with running on the server: it ends unless the command is lost.
StopTimeshift(running) ==
  \/ server' = None /\ UNCHANGED <<up, quiet>>
  \/ Lossy /\ server' \in {None, running} /\ up' \in BOOLEAN /\ quiet' = FALSE

\* Mutants: the reader is left to the next OpenLiveStream; the channel is not forgotten.
CloseStreamKeepingReader ==
  /\ UNCHANGED m_tsreader
  /\ StopTimeshift(server)
  /\ m_bTimeShiftStarted' = FALSE
  /\ m_iCurrentChannel' = None

CloseStreamKeepingChannel ==
  /\ m_tsreader' = None
  /\ StopTimeshift(server)
  /\ m_bTimeShiftStarted' = FALSE
  /\ UNCHANGED m_iCurrentChannel

\* The body of CloseLiveStream: the reader first, then the timeshift.
CloseStream ==
  /\ m_tsreader' = None
  /\ StopTimeshift(server)
  /\ m_bTimeShiftStarted' = FALSE
  /\ m_iCurrentChannel' = None

CloseLiveStream ==
  /\ kodi = "live"
  /\ kodi' = "none"
  /\ IF up /\ m_bTimeShiftStarted /\ ~m_bSkipCloseLiveStream
     THEN CloseStream
     ELSE UNCHANGED <<up, m_tsreader, server, m_bTimeShiftStarted, m_iCurrentChannel, quiet>>
  /\ playing' = None
  /\ UNCHANGED <<settings, m_bSkipCloseLiveStream, leaked, next>>

-----------------------------------------------------------------------------
(* OpenLiveStream                                                          *)

\* No connection: the reader and the timeshift of the last channel are left alone.
OpenOffline(c) ==
  /\ ~up
  /\ m_iCurrentChannel' = None
  /\ m_bTimeShiftStarted' = FALSE /\ m_bSkipCloseLiveStream' = FALSE
  /\ playing' = None
  /\ UNCHANGED <<up, m_tsreader, server, quiet>>

\* The uid is the current one: "Skipping re-tune."
SkipRetune(c) ==
  /\ up /\ c = m_iCurrentChannel
  /\ playing' = c
  /\ UNCHANGED <<up, m_iCurrentChannel, flags, m_tsreader, server, quiet>>

\* "TimeshiftChannel:" is answered by an error or not at all: the reader is deleted.
TimeshiftFails(c) ==
  /\ up /\ c # m_iCurrentChannel
  /\ \/ "refused" \in Faults /\ server' \in {None, server}
        /\ quiet' = (quiet /\ server' = None) /\ UNCHANGED up
     \/ Lossy /\ up' \in BOOLEAN /\ quiet' = FALSE
        /\ server' \in {server} \cup [stream : Streams, channel : {c}]
  /\ m_iCurrentChannel' = None
  /\ m_bTimeShiftStarted' = FALSE /\ m_bSkipCloseLiveStream' = FALSE
  /\ m_tsreader' = None
  /\ playing' = None

\* Fewer than four fields, such as the late answer to another command.
TimeshiftUnreadable(c) ==
  /\ up /\ c # m_iCurrentChannel /\ "short" \in Faults /\ quiet' = FALSE
  /\ server' \in {server} \cup [stream : Streams, channel : {c}]
  /\ m_iCurrentChannel' = None
  /\ m_bTimeShiftStarted' = FALSE /\ m_bSkipCloseLiveStream' = FALSE
  /\ playing' = None
  /\ UNCHANGED <<up, m_tsreader>>

\* Mutant: an open reader is taken to be on the right file.
ReaderOutcomesNoZap(stream) ==
  IF m_tsreader = None THEN OpenOutcomes(stream) ELSE {m_tsreader}

\* What becomes of the reader once the server reads the channel into stream.  A reader
\* there is goes on with what it has when it reads by rtsp; otherwise OnZap translates the
\* name, closes and opens the reader if that is not m_fileName, and only moves in the file if it
\* is: as are two files that cannot be found.
ReaderOutcomes(stream) ==
  LET unfound == {reader \in OpenOutcomes(stream) : ~reader.found}
  IN  CASE m_tsreader = None -> OpenOutcomes(stream)
        [] m_tsreader # None /\ useRtsp -> {m_tsreader}
        [] m_tsreader # None /\ ~useRtsp ->
             IF ~m_tsreader.found THEN {m_tsreader} \cup (OpenOutcomes(stream) \ unfound)
             ELSE IF m_tsreader.name = stream THEN {m_tsreader} \cup unfound
             ELSE OpenOutcomes(stream)

\* A reader that is there already never fails by rtsp, or in a timeshift file.
ReaderFailed(reader) ==
  IF reader = m_tsreader THEN ~useRtsp /\ reader.name = Recording ELSE ~reader.open

\* Mutant: the failure of the reader does not stop the timeshift.
GiveUpOnly(running, reader) ==
  /\ playing' = None /\ m_iCurrentChannel' = None
  /\ m_tsreader' = None /\ m_bTimeShiftStarted' = FALSE
  /\ server' = running /\ UNCHANGED <<up, quiet>>

\* Mutant: the reader is deleted even if CloseLiveStream does nothing.
GiveUpDeleting(running, reader) ==
  /\ playing' = None /\ m_iCurrentChannel' = None
  /\ m_tsreader' = None
  /\ \/ m_bTimeShiftStarted' = FALSE /\ StopTimeshift(running)
     \/ /\ Lossy /\ up' = FALSE /\ quiet' = FALSE
        /\ m_bTimeShiftStarted' = TRUE /\ server' = running

\* The reader could not be opened: CloseLiveStream, which does nothing if the
\* connection has been lost meanwhile.
GiveUp(running, reader) ==
  /\ playing' = None /\ m_iCurrentChannel' = None
  /\ \/ m_tsreader' = None /\ m_bTimeShiftStarted' = FALSE /\ StopTimeshift(running)
     \/ /\ Lossy /\ up' = FALSE /\ quiet' = FALSE
        /\ m_tsreader' = reader /\ m_bTimeShiftStarted' = TRUE /\ server' = running

\* The timeshift runs: m_bTimeShiftStarted is set, then the reader is opened or moved.
Tuned(c) ==
  /\ up /\ c # m_iCurrentChannel
  /\ m_bSkipCloseLiveStream' = FALSE
  /\ \E stream \in Streams : \E reader \in ReaderOutcomes(stream) :
       LET running == [stream |-> stream, channel |-> c]
       IN  IF ReaderFailed(reader)
           THEN GiveUp(running, reader)
           ELSE /\ m_tsreader' = reader /\ playing' = c /\ UNCHANGED <<up, quiet>>
                /\ server' = running
                /\ m_bTimeShiftStarted' = TRUE /\ m_iCurrentChannel' = c

OpenLiveStream(c) ==
  /\ kodi = "none" /\ next = c
  /\ kodi' = "live" /\ next' = None
  /\ \/ OpenOffline(c) \/ SkipRetune(c)
     \/ TimeshiftFails(c) \/ TimeshiftUnreadable(c) \/ Tuned(c)
  /\ UNCHANGED <<settings, leaked>>

\* Kodi asks for the properties of the channel it is going to open; what it holds open
\* is closed in between.  With fast channel switching that CloseLiveStream is to do nothing.
GetChannelStreamProperties(c) ==
  /\ next = None
  /\ next' = c
  /\ quiet' = (quiet /\ c # playing)
  /\ m_bSkipCloseLiveStream' = (m_bSkipCloseLiveStream \/ (m_bTimeShiftStarted /\ fast))
  /\ UNCHANGED <<up, settings, m_iCurrentChannel, m_bTimeShiftStarted, m_tsreader, leaked,
                 server, kodi, playing>>

-----------------------------------------------------------------------------
(* Recordings                                                              *)

\* The reader of the recording takes the place of whatever reader there is.
OpenRecordedStream ==
  /\ kodi = "none" /\ next = None
  /\ kodi' = "recording"
  /\ m_bTimeShiftStarted' = FALSE
  /\ \/ up /\ m_tsreader' \in OpenOutcomes(Recording) /\ leaked' = (leaked \/ m_tsreader # None)
     \/ ~up /\ UNCHANGED <<m_tsreader, leaked>>
     \/ {"refused", "lost"} \cap Faults # {} /\ UNCHANGED <<m_tsreader, leaked>>
  /\ UNCHANGED <<up, settings, m_iCurrentChannel, m_bSkipCloseLiveStream, server, next, playing, quiet>>

CloseRecordedStream ==
  /\ kodi = "recording"
  /\ kodi' = "none"
  /\ m_tsreader' = IF up THEN None ELSE m_tsreader
  /\ UNCHANGED <<up, settings, m_iCurrentChannel, flags, leaked, server, next, playing, quiet>>

-----------------------------------------------------------------------------
(* The connection, the settings and the end                                *)

\* The background thread or a call of another thread finds the connection lost; the
\* server's timeshift may end with it.
ConnectionLost ==
  /\ Lossy /\ up
  /\ up' = FALSE /\ server' \in {server, None} /\ quiet' = FALSE
  /\ UNCHANGED <<settings, m_iCurrentChannel, flags, m_tsreader, leaked, player, playing>>

Reconnected ==
  /\ ~up
  /\ up' = TRUE
  /\ UNCHANGED <<settings, m_iCurrentChannel, flags, m_tsreader, leaked, server, player, playing,
                 quiet>>

\* CSettings::SetSetting.
SetFastChannelSwitch ==
  /\ fast' = ~fast
  /\ UNCHANGED <<up, useRtsp, m_iCurrentChannel, flags, m_tsreader, leaked, server, player,
                 playing, quiet>>

\* The destructor: the timeshift is stopped if this client has started it and the server
\* says that it runs.
Disconnect ==
  /\ kodi # "gone"
  /\ kodi' = "gone" /\ next' = None /\ playing' = None
  /\ IF up /\ m_bTimeShiftStarted /\ server # None
     THEN \/ m_tsreader' = None /\ server' = None /\ UNCHANGED quiet
          \/ /\ Lossy /\ quiet' = FALSE
             /\ m_tsreader' \in {m_tsreader, None} /\ UNCHANGED server
     ELSE UNCHANGED <<m_tsreader, server, quiet>>
  /\ up' = FALSE
  /\ UNCHANGED <<settings, m_iCurrentChannel, flags, leaked>>

Init ==
  /\ up \in IF Lossy THEN BOOLEAN ELSE {TRUE}
  /\ useRtsp \in RtspModes /\ fast \in BOOLEAN
  /\ m_iCurrentChannel = None
  /\ m_bTimeShiftStarted = FALSE /\ m_bSkipCloseLiveStream = FALSE
  /\ m_tsreader = None /\ leaked = FALSE
  /\ server = None
  /\ kodi = "none" /\ next = None /\ playing = None
  /\ quiet = up

Next ==
  \/ \E c \in Channels : OpenLiveStream(c) \/ (kodi # "gone" /\ GetChannelStreamProperties(c))
  \/ CloseLiveStream \/ OpenRecordedStream \/ CloseRecordedStream
  \/ (kodi # "gone" /\ (ConnectionLost \/ Reconnected \/ SetFastChannelSwitch))
  \/ Disconnect

Spec == Init /\ [][Next]_vars

-----------------------------------------------------------------------------

\* The types of the variables; a reader is for a file or url even if it could not be opened.
TypeOK ==
  /\ up \in BOOLEAN /\ useRtsp \in BOOLEAN /\ fast \in BOOLEAN
  /\ m_iCurrentChannel \in Channels \cup {None}
  /\ m_bTimeShiftStarted \in BOOLEAN /\ m_bSkipCloseLiveStream \in BOOLEAN
  /\ m_tsreader \in Reader \cup {None} /\ leaked \in BOOLEAN
  /\ server \in Timeshift \cup {None}
  /\ kodi \in {"none", "live", "recording", "gone"}
  /\ next \in Channels \cup {None} /\ playing \in Channels \cup {None}
  /\ quiet \in BOOLEAN

\* GetStreamTimes uses m_tsreader without a test when m_bTimeShiftStarted is set: between
\* Kodi's calls there always is a reader then, whatever has failed before.
TimesAreSafe == m_bTimeShiftStarted /\ kodi # "gone" => m_tsreader # None

\* A tune that reports success has the reader on the timeshift of that channel, even if
\* an earlier reader, timeshift or recording has been left behind by a lost connection.  There is
\* one that has not: a reader was left whose file could not be found, and the new one cannot be
\* either, so that OnZap takes the two for the same.
TuneReadsItsChannel ==
  [][\A c \in Channels :
       playing' = c /\ playing # c /\ m_iCurrentChannel # c /\ ~useRtsp
         => /\ server'.channel = c
            /\ \/ m_tsreader'.found /\ m_tsreader'.name = server'.stream
               \/ m_tsreader' = m_tsreader /\ ~m_tsreader.found]_vars

\* Nothing lost so far: what Kodi shows as channel c is channel c: the server is on it and the reader reads,
\* until Kodi closes it.  By rtsp a switch without a close keeps the url of the first channel.
StreamIsCurrent ==
  quiet /\ playing # None /\ ~useRtsp =>
    /\ server # None /\ server.channel = playing
    /\ m_tsreader = [name |-> server.stream, found |-> TRUE, open |-> TRUE]

\* "Stop timeshifting at the backend side on buffer open failure", and after every other
\* end: as long as nothing has been lost, when Kodi has nothing open and is not switching the
\* server has no timeshift and the client no reader; after Disconnect the server has none in
\* any case.
StopStops ==
  quiet =>
    /\ kodi = "none" /\ next = None => server = None /\ m_tsreader = None
    /\ kodi = "gone" => server = None

\* As long as nothing has been lost no reader, with its files or its thread, is forgotten
\* without being closed.
NoReaderLeaked == quiet => ~leaked

\* What the two say together: a stream that ends leaves nothing behind, here or at the server.
NothingLeftBehind == StopStops /\ NoReaderLeaked
=============================================================================
