--------------------------- MODULE LiveStreamProofs ---------------------------
(***************************************************************************)
(* Proofs about LiveStream, for every set of channels and streams.          *)
(*                                                                         *)
(* Whatever fails, the flag m_bTimeShiftStarted has a reader beside it and  *)
(* is clear while a recording is open (FlagOK).  As long as nothing has     *)
(* been lost (quiet), the flag, the channel, the reader and the server's    *)
(* timeshift come and go together (TogetherOK), and the flag that ignores a *)
(* close is set only during a switch (SkipOK).                              *)
(***************************************************************************)
EXTENDS LiveStream, TLAPS

FlagOK ==
  /\ m_bTimeShiftStarted /\ kodi # "gone" => m_tsreader # None
  /\ kodi = "recording" => ~m_bTimeShiftStarted

ReaderTypes ==
  /\ m_tsreader \in Reader \cup {None}
  /\ server \in Timeshift \cup {None}
ChannelTypes ==
  /\ m_iCurrentChannel \in Channels \cup {None}
  /\ kodi \in {"none", "live", "recording", "gone"}
  /\ next \in Channels \cup {None} /\ playing \in Channels \cup {None}
FlagTypes ==
  /\ up \in BOOLEAN /\ useRtsp \in BOOLEAN /\ fast \in BOOLEAN
  /\ m_bTimeShiftStarted \in BOOLEAN /\ m_bSkipCloseLiveStream \in BOOLEAN
  /\ leaked \in BOOLEAN /\ quiet \in BOOLEAN

\* Every successful or failed Open gives a reader.
LEMMA OpenGivesReader ==
  ASSUME NEW name \in Streams \cup {Recording}, NEW reader \in OpenOutcomes(name)
  PROVE  reader \in Reader /\ reader.name = name /\ reader # None /\ (reader.open => reader.found)
<1> DEFINE good == [name |-> name, found |-> TRUE, open |-> TRUE]
           bad == [name : {name}, found : BOOLEAN, open : {FALSE}]
<1>1. reader = good \/ reader \in bad
  BY DEF OpenOutcomes
<1>2. CASE reader = good
  <2>1. reader \in Reader
    BY <1>2, TRUE \in BOOLEAN DEF Reader
  <2>2. reader.found = TRUE /\ reader.name = name
    BY <1>2
  <2> QED BY <2>1, <2>2, StreamsAssumption
<1>3. CASE reader \in bad
  <2>1. reader.open = FALSE /\ reader.name = name /\ reader \in Reader
    BY <1>3 DEF Reader
  <2> QED BY <2>1, StreamsAssumption
<1> QED BY <1>1, <1>2, <1>3

\* So does every tune, whether the reader is new, moved or kept.
LEMMA TuneGivesReader ==
  ASSUME ReaderTypes, NEW stream \in Streams, NEW reader \in ReaderOutcomes(stream)
  PROVE  reader \in Reader /\ reader # None
  BY OpenGivesReader, StreamsAssumption DEF ReaderTypes, ReaderOutcomes

\* No step takes the reader or the timeshift out of its type.
LEMMA ReaderStep ==
  ASSUME ReaderTypes, ChannelTypes, [Next]_vars
  PROVE  ReaderTypes'
<1> USE DEF ReaderTypes
<1>1. ASSUME NEW c \in Channels, OpenLiveStream(c)
      PROVE  ReaderTypes'
  <2>1. CASE OpenOffline(c) \/ SkipRetune(c)
    BY <2>1 DEF OpenOffline, SkipRetune
  <2>2. CASE TimeshiftFails(c)
    BY <2>2 DEF TimeshiftFails, Timeshift
  <2>3. CASE TimeshiftUnreadable(c)
    BY <2>3 DEF TimeshiftUnreadable, Timeshift
  <2>4. CASE Tuned(c)
    <3>1. PICK stream \in Streams : \E reader \in ReaderOutcomes(stream) :
            LET running == [stream |-> stream, channel |-> c]
            IN  GiveUp(running, reader) \/ (m_tsreader' = reader /\ server' = running)
      BY <2>4 DEF Tuned
    <3>2. PICK reader \in ReaderOutcomes(stream) :
            LET running == [stream |-> stream, channel |-> c]
            IN  GiveUp(running, reader) \/ (m_tsreader' = reader /\ server' = running)
      BY <3>1
    <3>3. reader \in Reader /\ [stream |-> stream, channel |-> c] \in Timeshift
      BY <3>2, TuneGivesReader DEF Timeshift
    <3> QED
      BY <3>2, <3>3 DEF GiveUp, StopTimeshift
  <2> QED
    BY <1>1, <2>1, <2>2, <2>3, <2>4 DEF OpenLiveStream
<1>2. CASE CloseLiveStream
  BY <1>2 DEF CloseLiveStream, CloseStream, StopTimeshift
<1>3. CASE OpenRecordedStream
  BY <1>3, OpenGivesReader DEF OpenRecordedStream
<1>4. CASE CloseRecordedStream
  BY <1>4 DEF CloseRecordedStream
<1>5. CASE ConnectionLost \/ Reconnected \/ SetFastChannelSwitch
  BY <1>5 DEF ConnectionLost, Reconnected, SetFastChannelSwitch
<1>6. CASE Disconnect
  BY <1>6 DEF Disconnect
<1>7. ASSUME NEW c \in Channels, GetChannelStreamProperties(c)
      PROVE  ReaderTypes'
  BY <1>7 DEF GetChannelStreamProperties
<1>8. CASE UNCHANGED vars
  BY <1>8 DEF vars
<1> QED
  BY <1>1, <1>2, <1>3, <1>4, <1>5, <1>6, <1>7, <1>8 DEF Next

\* Nor the channels and the player's state.
LEMMA ChannelStep ==
  ASSUME ChannelTypes, [Next]_vars
  PROVE  ChannelTypes'
<1> USE DEF ChannelTypes
<1>1. ASSUME NEW c \in Channels, OpenLiveStream(c)
      PROVE  ChannelTypes'
  <2>1. CASE OpenOffline(c) \/ SkipRetune(c)
    BY <1>1, <2>1 DEF OpenLiveStream, OpenOffline, SkipRetune
  <2>2. CASE TimeshiftFails(c) \/ TimeshiftUnreadable(c)
    BY <1>1, <2>2 DEF OpenLiveStream, TimeshiftFails, TimeshiftUnreadable
  <2>3. CASE Tuned(c)
    BY <1>1, <2>3 DEF OpenLiveStream, Tuned, GiveUp
  <2> QED
    BY <1>1, <2>1, <2>2, <2>3 DEF OpenLiveStream
<1>2. CASE CloseLiveStream
  BY <1>2 DEF CloseLiveStream, CloseStream
<1>3. CASE OpenRecordedStream \/ CloseRecordedStream
  BY <1>3 DEF OpenRecordedStream, CloseRecordedStream
<1>4. CASE ConnectionLost \/ Reconnected \/ SetFastChannelSwitch \/ Disconnect
  BY <1>4 DEF ConnectionLost, Reconnected, SetFastChannelSwitch, Disconnect, player
<1>5. ASSUME NEW c \in Channels, GetChannelStreamProperties(c)
      PROVE  ChannelTypes'
  BY <1>5 DEF GetChannelStreamProperties
<1>6. CASE UNCHANGED vars
  BY <1>6 DEF vars, player
<1> QED
  BY <1>1, <1>2, <1>3, <1>4, <1>5, <1>6 DEF Next

\* Nor the flags.
LEMMA FlagTypesStep ==
  ASSUME FlagTypes, [Next]_vars
  PROVE  FlagTypes'
<1> USE DEF FlagTypes
<1>1. ASSUME NEW c \in Channels, OpenLiveStream(c)
      PROVE  FlagTypes'
  <2>1. CASE OpenOffline(c) \/ SkipRetune(c)
    BY <1>1, <2>1 DEF OpenLiveStream, OpenOffline, SkipRetune, settings, flags
  <2>2. CASE TimeshiftFails(c) \/ TimeshiftUnreadable(c)
    BY <1>1, <2>2 DEF OpenLiveStream, TimeshiftFails, TimeshiftUnreadable, settings
  <2>3. CASE Tuned(c)
    BY <1>1, <2>3 DEF OpenLiveStream, Tuned, GiveUp, StopTimeshift, settings
  <2> QED
    BY <1>1, <2>1, <2>2, <2>3 DEF OpenLiveStream
<1>2. CASE CloseLiveStream
  BY <1>2 DEF CloseLiveStream, CloseStream, StopTimeshift, settings
<1>3. CASE OpenRecordedStream \/ CloseRecordedStream
  BY <1>3 DEF OpenRecordedStream, CloseRecordedStream, settings, flags
<1>4. CASE ConnectionLost \/ Reconnected \/ SetFastChannelSwitch \/ Disconnect
  BY <1>4 DEF ConnectionLost, Reconnected, SetFastChannelSwitch, Disconnect, settings, flags
<1>5. ASSUME NEW c \in Channels, GetChannelStreamProperties(c)
      PROVE  FlagTypes'
  BY <1>5 DEF GetChannelStreamProperties, settings
<1>6. CASE UNCHANGED vars
  BY <1>6 DEF vars, settings, flags
<1> QED
  BY <1>1, <1>2, <1>3, <1>4, <1>5, <1>6 DEF Next

\* No step leaves the flag set without a reader, or set during a recording.
LEMMA FlagStep ==
  ASSUME ReaderTypes, FlagOK, [Next]_vars
  PROVE  FlagOK'
<1> USE DEF FlagOK
<1>1. ASSUME NEW c \in Channels, OpenLiveStream(c)
      PROVE  FlagOK'
  <2>1. CASE OpenOffline(c) \/ SkipRetune(c)
    BY <1>1, <2>1 DEF OpenLiveStream, OpenOffline, SkipRetune, flags
  <2>2. CASE TimeshiftFails(c) \/ TimeshiftUnreadable(c)
    BY <1>1, <2>2 DEF OpenLiveStream, TimeshiftFails, TimeshiftUnreadable
  <2>3. CASE Tuned(c)
    BY <1>1, <2>3, TuneGivesReader DEF OpenLiveStream, Tuned, GiveUp
  <2> QED
    BY <1>1, <2>1, <2>2, <2>3 DEF OpenLiveStream
<1>2. CASE CloseLiveStream
  BY <1>2 DEF CloseLiveStream, CloseStream
<1>3. CASE OpenRecordedStream \/ CloseRecordedStream
  BY <1>3 DEF OpenRecordedStream, CloseRecordedStream, flags
<1>4. CASE ConnectionLost \/ Reconnected \/ SetFastChannelSwitch \/ Disconnect
  BY <1>4 DEF ConnectionLost, Reconnected, SetFastChannelSwitch, Disconnect, flags, player
<1>5. ASSUME NEW c \in Channels, GetChannelStreamProperties(c)
      PROVE  FlagOK'
  BY <1>5 DEF GetChannelStreamProperties
<1>6. CASE UNCHANGED vars
  BY <1>6 DEF vars, flags, player
<1> QED
  BY <1>1, <1>2, <1>3, <1>4, <1>5, <1>6 DEF Next

Always == ReaderTypes /\ ChannelTypes /\ FlagTypes /\ FlagOK

\* What holds of the client whatever fails.
THEOREM AlwaysHolds == Spec => []Always
<1>1. Init => Always
  <2> SUFFICES ASSUME Init PROVE Always
    OBVIOUS
  <2>1. ReaderTypes /\ ChannelTypes /\ FlagOK
    BY DEF Init, ReaderTypes, ChannelTypes, FlagOK
  <2>2. FlagTypes
    BY StreamsAssumption DEF Init, FlagTypes
  <2> QED
    BY <2>1, <2>2 DEF Always
<1>2. Always /\ [Next]_vars => Always'
  BY ReaderStep, ChannelStep, FlagTypesStep, FlagStep DEF Always
<1> QED
  BY <1>1, <1>2, PTL DEF Spec

\* The variables keep their types: a CTsReader always has the name of its file or url.
THEOREM TypeCorrect == Spec => []TypeOK
<1>1. Always => TypeOK
  BY DEF Always, ReaderTypes, ChannelTypes, FlagTypes, TypeOK
<1> QED
  BY <1>1, AlwaysHolds, PTL

\* GetStreamTimes finds a reader whenever m_bTimeShiftStarted is set.
THEOREM TimesAreSafeHolds == Spec => []TimesAreSafe
<1>1. Always => TimesAreSafe
  BY DEF Always, FlagOK, TimesAreSafe
<1> QED
  BY <1>1, AlwaysHolds, PTL

\* A tune that reports success reads the timeshift of its channel.
THEOREM TuneReadsItsChannelHolds == Spec => TuneReadsItsChannel
<1> DEFINE Tune == \A c \in Channels :
                     playing' = c /\ playing # c /\ m_iCurrentChannel # c /\ ~useRtsp
                       => /\ server'.channel = c
                          /\ \/ m_tsreader'.found /\ m_tsreader'.name = server'.stream
                             \/ m_tsreader' = m_tsreader /\ ~m_tsreader.found
<1>1. Always /\ [Next]_vars => [Tune]_vars
  <2> SUFFICES ASSUME Always, Next, NEW c \in Channels, playing' = c, playing # c,
                      m_iCurrentChannel # c, ~useRtsp
               PROVE  /\ server'.channel = c
                      /\ \/ m_tsreader'.found /\ m_tsreader'.name = server'.stream
                         \/ m_tsreader' = m_tsreader /\ ~m_tsreader.found
    OBVIOUS
  <2>1. PICK d \in Channels : OpenLiveStream(d)
    BY StreamsAssumption DEF Next, CloseLiveStream, OpenRecordedStream, CloseRecordedStream,
          ConnectionLost, Reconnected, SetFastChannelSwitch, Disconnect, GetChannelStreamProperties
  <2>2. Tuned(d) /\ d = c
    BY <2>1, StreamsAssumption DEF OpenLiveStream, OpenOffline, SkipRetune, TimeshiftFails,
          TimeshiftUnreadable, Tuned, GiveUp
  <2>3. PICK stream \in Streams : \E reader \in ReaderOutcomes(stream) :
          /\ ~ReaderFailed(reader)
          /\ m_tsreader' = reader /\ server' = [stream |-> stream, channel |-> d]
    BY <2>2, StreamsAssumption DEF Tuned, GiveUp
  <2>4. ASSUME NEW reader \in ReaderOutcomes(stream), ~ReaderFailed(reader)
        PROVE  (reader.found /\ reader.name = stream) \/ (reader = m_tsreader /\ ~m_tsreader.found)
    BY <2>4, OpenGivesReader DEF ReaderOutcomes, ReaderFailed
  <2> QED
    BY <2>2, <2>3, <2>4
<1>2. TuneReadsItsChannel <=> [][Tune]_vars
  BY PTL DEF TuneReadsItsChannel
<1> QED
  BY <1>1, <1>2, AlwaysHolds, PTL DEF Spec

-----------------------------------------------------------------------------

Idle == /\ m_tsreader = None /\ server = None
        /\ m_iCurrentChannel = None /\ playing = None

TogetherOK ==
  /\ kodi # "gone" => up
  /\ ~leaked
  /\ kodi = "gone" => server = None /\ playing = None
  /\ kodi # "gone" /\ m_bTimeShiftStarted =>
       m_iCurrentChannel # None /\ server # None /\ server.channel = m_iCurrentChannel
  /\ kodi \in {"none", "live"} /\ ~m_bTimeShiftStarted => Idle
  /\ kodi = "recording" =>
       server = None /\ m_iCurrentChannel = None /\ playing = None
  /\ playing # None => kodi = "live" /\ playing = m_iCurrentChannel
  /\ kodi = "live" /\ m_bTimeShiftStarted => playing = m_iCurrentChannel
  /\ m_bTimeShiftStarted /\ ~useRtsp /\ kodi # "gone" =>
       m_tsreader = [name |-> server.stream, found |-> TRUE, open |-> TRUE]

SkipOK ==
  /\ m_bSkipCloseLiveStream /\ kodi # "gone" => next # None
  /\ kodi = "none" /\ m_bTimeShiftStarted => m_bSkipCloseLiveStream
  /\ next # None => next # m_iCurrentChannel

QuietOK == quiet => TogetherOK /\ SkipOK

\* What has been lost stays lost.
LEMMA QuietOnce ==
  ASSUME Always, [Next]_vars, quiet'
  PROVE  quiet
<1> USE DEF Always, FlagTypes
<1>1. ASSUME NEW c \in Channels, OpenLiveStream(c)
      PROVE  quiet
  <2>1. CASE OpenOffline(c) \/ SkipRetune(c)
    BY <2>1 DEF OpenOffline, SkipRetune
  <2>2. CASE TimeshiftFails(c) \/ TimeshiftUnreadable(c)
    BY <2>2 DEF TimeshiftFails, TimeshiftUnreadable
  <2>3. CASE Tuned(c)
    BY <2>3 DEF Tuned, GiveUp, StopTimeshift
  <2> QED
    BY <1>1, <2>1, <2>2, <2>3 DEF OpenLiveStream
<1>2. CASE CloseLiveStream
  BY <1>2 DEF CloseLiveStream, CloseStream, StopTimeshift
<1>3. CASE OpenRecordedStream \/ CloseRecordedStream
  BY <1>3 DEF OpenRecordedStream, CloseRecordedStream
<1>4. CASE ConnectionLost \/ Reconnected \/ SetFastChannelSwitch \/ Disconnect
  BY <1>4 DEF ConnectionLost, Reconnected, SetFastChannelSwitch, Disconnect
<1>5. ASSUME NEW c \in Channels, GetChannelStreamProperties(c)
      PROVE  quiet
  BY <1>5 DEF GetChannelStreamProperties
<1>6. CASE UNCHANGED vars
  BY <1>6 DEF vars
<1> QED
  BY <1>1, <1>2, <1>3, <1>4, <1>5, <1>6 DEF Next

\* If nothing is lost, a tune that Kodi asks for has two outcomes.
LEMMA QuietTune ==
  ASSUME quiet, quiet', Always, QuietOK, NEW c \in Channels, OpenLiveStream(c)
  PROVE  /\ c # m_iCurrentChannel /\ up /\ up'
         /\ kodi = "none" /\ kodi' = "live" /\ next' = None /\ leaked' = leaked
         /\ useRtsp' = useRtsp /\ ~m_bSkipCloseLiveStream'
         /\ \/ /\ m_tsreader' = None /\ server' = None /\ m_iCurrentChannel' = None
               /\ playing' = None /\ ~m_bTimeShiftStarted'
            \/ /\ m_iCurrentChannel' = c /\ playing' = c /\ m_bTimeShiftStarted'
               /\ server' \in Timeshift /\ server'.channel = c
               /\ ~useRtsp => m_tsreader' = [name |-> server'.stream, found |-> TRUE, open |-> TRUE]
<1> USE DEF Always, QuietOK, TogetherOK, SkipOK, FlagTypes
<1>1. /\ up /\ c # m_iCurrentChannel /\ kodi = "none" /\ kodi' = "live" /\ next' = None
      /\ leaked' = leaked /\ useRtsp' = useRtsp
  BY StreamsAssumption DEF OpenLiveStream, settings
<1>2. TimeshiftFails(c) \/ Tuned(c)
  BY <1>1 DEF OpenLiveStream, OpenOffline, SkipRetune, TimeshiftUnreadable
<1>3. CASE TimeshiftFails(c)
  BY <1>1, <1>3 DEF TimeshiftFails
<1>4. CASE Tuned(c)
  <2>1. PICK stream \in Streams : \E reader \in ReaderOutcomes(stream) :
          LET running == [stream |-> stream, channel |-> c]
          IN  IF ReaderFailed(reader)
              THEN GiveUp(running, reader)
              ELSE /\ m_tsreader' = reader /\ playing' = c /\ UNCHANGED up
                   /\ server' = running
                   /\ m_bTimeShiftStarted' = TRUE /\ m_iCurrentChannel' = c
    BY <1>4 DEF Tuned
  <2>2. PICK reader \in ReaderOutcomes(stream) :
          LET running == [stream |-> stream, channel |-> c]
          IN  IF ReaderFailed(reader)
              THEN GiveUp(running, reader)
              ELSE /\ m_tsreader' = reader /\ playing' = c /\ UNCHANGED up
                   /\ server' = running
                   /\ m_bTimeShiftStarted' = TRUE /\ m_iCurrentChannel' = c
    BY <2>1
  <2>3. ~m_bSkipCloseLiveStream'
    BY <1>4 DEF Tuned
  <2>4. CASE ReaderFailed(reader)
    BY <1>1, <2>2, <2>3, <2>4 DEF GiveUp, StopTimeshift
  <2>5. CASE ~ReaderFailed(reader)
    <3>1. ~useRtsp => reader = [name |-> stream, found |-> TRUE, open |-> TRUE]
      <4> SUFFICES ASSUME ~useRtsp PROVE reader = [name |-> stream, found |-> TRUE, open |-> TRUE]
        OBVIOUS
      <4>1. m_tsreader # None => m_tsreader.found /\ m_tsreader.open
        BY <1>1 DEF Idle
      <4>2. CASE reader = m_tsreader /\ m_tsreader # None
        <5>1. m_tsreader.name = stream
          BY <4>1, <4>2, <2>2, OpenGivesReader DEF ReaderOutcomes
        <5>2. m_bTimeShiftStarted
          BY <1>1, <4>2 DEF Idle
        <5> QED
          BY <1>1, <4>2, <5>1, <5>2
      <4>3. CASE ~(reader = m_tsreader /\ m_tsreader # None)
        <5>1. reader \in OpenOutcomes(stream) /\ reader # m_tsreader
          BY <4>1, <4>3, <2>2, OpenGivesReader DEF ReaderOutcomes
        <5>2. reader.open
          BY <5>1, <2>5 DEF ReaderFailed
        <5>3. reader = [name |-> stream, found |-> TRUE, open |-> TRUE]
          BY <5>1, <5>2 DEF OpenOutcomes
        <5> QED
          BY <5>3
      <4> QED
        BY <4>2, <4>3
    <3>2. [stream |-> stream, channel |-> c] \in Timeshift
      BY DEF Timeshift
    <3> QED
      BY <1>1, <2>2, <2>3, <2>5, <3>1, <3>2
  <2> QED
    BY <2>4, <2>5
<1> QED
  BY <1>2, <1>3, <1>4

\* A step that loses nothing keeps the flag, the channel, the reader and the timeshift
\* together.
LEMMA QuietStep ==
  ASSUME Always, QuietOK, [Next]_vars
  PROVE  QuietOK'
<1> SUFFICES ASSUME quiet' PROVE TogetherOK' /\ SkipOK'
  BY DEF QuietOK
<1>0. quiet
  BY QuietOnce
<1> USE <1>0 DEF Always, QuietOK, TogetherOK, SkipOK, Idle
<1>1. ASSUME NEW c \in Channels, OpenLiveStream(c)
      PROVE  TogetherOK' /\ SkipOK'
  <2>1. c # None
    BY StreamsAssumption
  <2> QED
    BY <1>1, QuietTune, StreamsAssumption
<1>2. CASE CloseLiveStream
  BY <1>2, StreamsAssumption DEF CloseLiveStream, CloseStream, StopTimeshift, settings, FlagTypes,
        ChannelTypes
<1>3. CASE OpenRecordedStream
  BY <1>3 DEF OpenRecordedStream, settings, FlagTypes
<1>4. CASE CloseRecordedStream
  BY <1>4 DEF CloseRecordedStream, settings, flags, FlagOK
<1>5. CASE Reconnected \/ SetFastChannelSwitch
  BY <1>5 DEF Reconnected, SetFastChannelSwitch, settings, flags, player
<1>6. CASE Disconnect
  BY <1>6, StreamsAssumption DEF Disconnect, settings, flags, ChannelTypes, FlagTypes
<1>7. ASSUME NEW c \in Channels, GetChannelStreamProperties(c), kodi # "gone"
      PROVE  TogetherOK' /\ SkipOK'
  BY <1>7, StreamsAssumption DEF GetChannelStreamProperties, settings, FlagTypes, ChannelTypes
<1>8. CASE UNCHANGED vars
  BY <1>8 DEF vars, settings, flags, player
<1> QED
  BY <1>1, <1>2, <1>3, <1>4, <1>5, <1>6, <1>7, <1>8 DEF Next, ConnectionLost

\* What holds of the client and the server as long as nothing has been lost.
THEOREM QuietHolds == Spec => [](Always /\ QuietOK)
<1>1. Init => QuietOK
  BY StreamsAssumption DEF Init, QuietOK, TogetherOK, SkipOK, Idle
<1>2. Always /\ QuietOK /\ [Next]_vars => QuietOK'
  BY QuietStep
<1> QED
  BY <1>1, <1>2, AlwaysHolds, PTL DEF Spec

\* As long as nothing has been lost every end of a stream stops the timeshift and the reader.
THEOREM StopStopsHolds == Spec => []StopStops
<1>1. Always /\ QuietOK => StopStops
  BY DEF QuietOK, TogetherOK, SkipOK, Idle, StopStops
<1> QED
  BY <1>1, QuietHolds, PTL

\* As long as nothing has been lost no reader is forgotten.
THEOREM NoReaderLeakedHolds == Spec => []NoReaderLeaked
<1>1. Always /\ QuietOK => NoReaderLeaked
  BY DEF QuietOK, TogetherOK, NoReaderLeaked
<1> QED
  BY <1>1, QuietHolds, PTL

\* Both together.
THEOREM NothingLeftBehindHolds == Spec => []NothingLeftBehind
<1>1. StopStops /\ NoReaderLeaked => NothingLeftBehind
  BY DEF NothingLeftBehind
<1> QED
  BY <1>1, StopStopsHolds, NoReaderLeakedHolds, PTL

\* As long as nothing has been lost what Kodi shows as a channel is that channel.
THEOREM StreamIsCurrentHolds == Spec => []StreamIsCurrent
<1>1. Always /\ QuietOK => StreamIsCurrent
  BY StreamsAssumption DEF QuietOK, TogetherOK, SkipOK, Idle, StreamIsCurrent
<1> QED
  BY <1>1, QuietHolds, PTL
=============================================================================
