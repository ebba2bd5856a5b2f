# A TLA+ verification of pvr.mediaportal.tvserver

Kodi's PVR client for the MediaPortal TV Server: TLA+ models of its concurrent and stateful
parts, TLC runs that check them on small instances, and TLAPS proofs of the properties that
matter most for every value of the parameters. Paths are relative to the repository; the C++
of the client is in `src/`, its stream reader in `src/lib/tsreader/`, the bundled live555 in
`src/lib/live555/`, and every definition of the models is mapped to its lines in
`PROJECT.json`.

## 1. The system

Kodi loads the client as a library and calls it from several threads: the player (live and
recorded streams), the user interface, the EPG and timer updates, and the signal poll. The
client talks to the TVServerKodi plugin of the TV server by one TCP connection, one text line
per command and one per answer, and reads the picture from a file that the server writes or
by RTSP.

| Component | State | Operations | Hard about it |
|---|---|---|---|
| Command connection (`pvrclient-mediaportal.cpp` 56-400, 2355-2387, `Socket.cpp`) | `m_mutex`, `m_connectionMutex`, `m_state`, `m_running`, `m_thread`, the socket | `SendCommand`, `TryConnect`, `Connect`, `Process`, `Disconnect` | two mutexes taken in both orders, reconnects from within a command and from a background thread, answers that come late, a peer that vanishes |
| Live and recorded streams (`pvrclient-mediaportal.cpp` 1668-2317) | `m_iCurrentChannel`, `m_bTimeShiftStarted`, `m_bSkipCloseLiveStream`, `m_tsreader` | open, close, read, the stream properties | flags that must agree with the server after every partial failure |
| TsReader (`TSReader.cpp`) | the reader, its name, `m_State` | `Open`, `OnZap`, `Read`, `Pause`, `Close` | one object over three kinds of reader |
| RTSP client (`MepoRTSPClient.cpp`) | `m_session`, `m_running`, `m_BufferThreadActive`, `m_thread` | `OpenStream`, `Play`, `Pause`, `Continue`, `Stop`, the buffer thread | start and stop of a thread under a flag that is not atomic |
| RTSP memory buffer (`MemoryBuffer.cpp`, `MemorySink.cpp`, `MemoryReader.cpp`) | `m_Array`, `m_BytesInBuffer`, a lock and a condition | put, read, clear | a counter tested without its lock, drops under a slow reader |
| Timeshift files (`MultiFileReader.cpp`, `FileReader.cpp`) | the list of files, positions | read, seek, zap, refresh | a ring of files rewritten by another process, no lock between the two |
| Demultiplexer (`DeMultiplexer.cpp`, `PacketSync.cpp`, `SectionDecoder.cpp`, `PatParser.cpp`, `PmtParser.cpp`) | partial packets and sections, the tables of a channel | feed bytes, wait for a channel | resynchronisation, sections across packets, tables of the channel before |
| live555 (`src/lib/live555/`) | sockets, delayed tasks, the RTP queue, RTCP members | requests, the event loop, reception, reports | numbers that wrap around, callbacks within callbacks, late answers |
| Timers (`timers.cpp`, `GUIDialogRecordSettings.cpp`) | the dialog | conversions between Kodi's timers and the server's schedules, add, update, delete | an edit must keep what Kodi does not show; programs of a series have no schedule of their own |
| Recordings, channels, EPG, cards, genres | lists, the last recording | import, delete, rename, play | what was cached or loaded earlier and is stale; parser objects used for line after line |
| Signal (`GetSignalStatus`) | a counter and the last answer | poll | the answer of the channel before |
| Settings, utilities | the settings | load, change | options that change between two calls that must agree |

They interact so: every API call goes `IsUp()`, `SendCommand`, parse. The streams call
`SendCommand` to start and stop the server's timeshift and own one `CTsReader`. The TsReader
owns either a `MultiFileReader` or an `CRTSPClient` with a `CMemoryBuffer` between the RTSP
thread and the player, and a `CDeMultiplexer` that reads from the first to find the begin of a
channel. The RTSP thread is live555's event loop: sockets and delayed tasks call the RTP source,
it calls the framer, the framer the sink, and the sink fills the buffer. `Connect` loads the
cards that the TsReader and the recordings use to translate paths.

What makes them correct: commands and answers pair up; no thread waits for itself or for
ever; the background thread brings a lost connection back and is gone at the end; a byte
stream has no holes but those a full buffer makes at its old end; flags, reader and the
server's timeshift agree after every call; files are read consistently while they change;
packets, sections and tables come out whole, in order and of the right channel; and what Kodi
shows, records or deletes is what the server has, or will be told to it.

`PROJECT.json` lists under "hazards" what can go wrong in each of these, at its line, with the
properties that would notice.

## 2. Plan

| | Module | Models | State |
|---|---|---|---|
| 1 | `Connection`, `ConnectionProofs` | the command connection and its threads | checked, safety proved |
| 2 | `MemoryBuffer` implements `LossyFifo`, `MemoryBufferProofs` | the RTSP buffer | checked, refinement proved |
| 3 | `LiveStream`, `LiveStreamProofs` | live and recorded streams over an abstract connection | checked (TSReader mode), proved |
| 4 | `RtspClient`, `RtspClientProofs` | the life of the buffer thread: open, pause, continue, stop, destruction | checked, safety proved |
| 5 | `MultiFileReader`, `MultiFileReaderProofs` | the timeshift ring against its writer | checked, safety proved |
| 6 | `PacketSync`, `SectionDecoder`, `Demultiplexer` | bytes to packets, packets to sections, sections to the tables of a channel | checked, safety proved |
| 7 | `RtspRequests`, `EventLoop`, `RtpReception`, `Rtcp`, `MediaSession`, `SourceChain` | live555 as the client uses it | checked, safety proved |
| 8 | `HashTable` implements `Dictionary` | live555's table | checked, refinement proved |
| 9 | `Timers` | conversions, the timer calls, the recording dialog | checked, proved |
| 10 | `Recordings`, `Guide`, `SignalStatus` | the lists of Kodi against the server's data | checked, proved |
| 11 | `Input`, `InputProofs`, `DataPathProofs`; `Backend`, `BackendProofs` | the modules of 6 to 8, and of 9 and 10, side by side | |

`LiveStream` uses the connection by what `IsUp()` says and by commands that may stay without
an answer; `Connection` is the detail behind both. `MemoryBuffer` is the link between the two
threads of `RtspClient`, filled by what `SourceChain` submits. `SourceChain` gets the packets in
the order that `RtpReception` gives them, `Demultiplexer` the sections that `SectionDecoder`
puts together from the packets of `PacketSync`.

`Input` and `Backend` hold the modules of lines 6 to 8 and 9 to 10, whose parts do not share
state: the variable `part` says which of them a behaviour is of. A property of a part is the
module's own, restricted to its part. `MCInput` and `MCBackend` only give the constants their
values.

Worth doing next: a composition of `SourceChain` with `MemoryBuffer`.

## 3. The models

### Connection

A thread's stack is at most `SendCommand`, `Connect`, `SendCommand`. `pc` is the point in its
top frame, `inSend` and `inConnect` say what is below: `t \in inSend` when its `TryConnect`
was called by `SendCommand`, `t \in inConnect` when its `SendCommand` was called by `Connect`.

| Action | Code |
|---|---|
| `Call`, `LockCommand` | `IsUp()`, then the lock of `m_mutex`; `GetSignalStatus` calls without `IsUp` |
| `SendOk`, `SendFails` | `Socket::send`, which closes a socket that has something to read |
| `Receive`, `ReceiveTimeout`, `ReceiveEof`, `ReceiveError` | one round of `Socket::ReadLine`, with its count of retries |
| `LockConnection`, `Dial`, `DialSucceeds`, `DialFails` | `Connect` up to the TCP connection |
| `HelloFails`, `HelloAccepted`, `CardsLoaded`, `ReturnFromConnect` | the handshake and its results |
| `StartBg`, `Spawn` | the unlocked test of `m_running` and the start of `Process` in `TryConnect` |
| `BgLoop`, `BgWakes`, `BgReport` | `Process` |
| `BeginDisconnect`, `Join`, `StopTimeshift`, `Leave` | `Disconnect` |
| `ServerAnswers`, `LinkBreaks`, `ServerReturns` | the server and the network (external) |

An answer is "own" or "late" (given to a command that had given up). A broken link is an end
of file (the plugin closed it) or silence (the host vanished).

The environment's constants: `Faults`, `MaxFaults` (broken links), `MaxLate` (answers still
on their way). `Benign` makes an outage spare a handshake in progress and last until the
client has noticed it; it is TRUE where a liveness property is checked, because a link that
breaks during the handshake makes the client wait for itself (finding 1's second form), and
an outage nobody has noticed is no outage to repair. `TimeshiftAtExit` lets `Disconnect` find
a timeshift to stop. With a connection lost by then, the `SendCommand` of `Disconnect` starts
`Process` again after the join, and the destructor of the running `m_thread` ends Kodi (a hazard
in `PROJECT.json`). The runs and proofs have it; `ThreadIsJoined` and `NoCloseUnderReader`
exempt this one restart, which `RestartedByDisconnect` names by the failed command that shows it.

A handshake is not alone on the connection. `Process` holds `m_connectionMutex` and wants
`m_mutex` for its hello; a call whose `IsUp()` came before the loss, or `GetSignalStatus`, which does
not ask, may hold `m_mutex` and want `m_connectionMutex`. That deadlock is in the code and in the
model, and no property of a passing run can exclude it. `HandshakeMeetsOnlyTheLate` says how far it
goes: two threads of Kodi never cross in this way, and a call that asks `IsUp()` while `Process`
connects stays out.

### MemoryBuffer and LossyFifo

A byte is its position in the stream, an item of `m_Array` is a start, a length and the offset
read so far. `PutBuffer`, `DropOldest`, `PutReturns` are the steps of a put, all under
`m_BufferLock`; `TestBytes`, `Wait`, `WakeUp`, `LockForCopy`, `CopyItem`, `ReadReturns` those
of a read, whose test of `m_BytesInBuffer` is outside the lock. `LossyFifo` says what the
reader may rely on: a window on the stream that loses only its oldest bytes, only when too
many wait, never in the middle of a read. `FifoSpec` is the refinement: `lo` is the first
unread byte, `hi` what has been received.

### LiveStream

One step per call of Kodi's player, which makes them one after the other. `up` is `IsUp()` and
may change between and within calls. `m_tsreader` is what `CTsReader` was made for, whether
`m_fileName` still says so (`found`: an `Open` whose file cannot be found leaves it empty) and whether
it reads (`open`). `server` is the timeshift the server runs for this client. Kodi is
modelled by what the code says of it (`pvrclient-mediaportal.cpp` 2283-2307): the stream
properties first, then the close of what is open, then the open.

`Faults`: "lost" (connection and answers), "refused" (an error as answer), "short" (fewer than
four fields), "open" (the file cannot be opened). A refusal may end the timeshift that the
server runs or leave it, which the repository does not tell. `quiet` says whether nothing has
been lost so far: the connection lasted, every answer was readable, a refusal ended the
timeshift, and no channel was selected again. The properties about what the server and Kodi
agree on hold as long as it is TRUE; the other two hold whatever happens. Not modelled: ffmpeg
mode, web streams (Kodi plays their url itself), a change of "usertsp" during a stream.

### RtspClient

Kodi's player thread is in one call at a time, at the point `caller`; the buffer thread is in
`CRTSPClient::Process`, at the point `process`. `objects` are the objects of the stream that
exist: a `CTsReader` that could not be opened is deleted by its caller, so it does not appear.

| Action | Code |
|---|---|
| `Open`, `OpenStream`, `OpenStreamFails`, `Play`, `PlayFails` | `CTsReader::Open`, `CRTSPClient::OpenStream`, `Play`; the result of `Play` is ignored |
| `StartThread`, `Started` | `StartBufferThread`: the thread runs before the caller has set `m_BufferThreadActive` |
| `ProcessStarts`, `ProcessTests`, `SingleStep`, `LoopReturns`, `ProcessEnds` | `Process` and the `doEventLoop` of the bundled live555, which handles a limited number of events |
| `Pause`, `PauseJoins`, `PauseSession`, `Continue`, `ContinueSession` | `CTsReader::Pause`, `CRTSPClient::Pause`, `Continue` |
| `Close`, `StopTests`, `StopJoins`, `Shutdown`, `DeleteClient` | `CTsReader::Close`, `Stop`, `StopBufferThread` with its second test of `m_BufferThreadActive`, `shutdown`, the destructor |
| `FailedTune` | the deletion of the reader in `OpenLiveStream` when a tune fails |

`m_BufferThreadActive` is a plain bool that two threads use: a read sees the value before or
after a concurrent write, which is what the interleaving of the steps gives. `alive` becomes
FALSE when a joinable `std::thread` is destroyed or assigned, which ends the process. That
happens in one legal order of events (a hazard in `PROJECT.json`): `StopBufferThread` resets
`m_running`, `Process` ends, and the test that follows skips the join. The properties speak of
the process while it lives.

`FailedTunes` are the states of the open stream in which a tune may fail. "Running" is
finding 4; the other run and the proofs of what the thread uses have "Paused" only.

The branch of `Play` for an active thread is left out: only `Open` calls `Play`, on a new
client. What the player reads is `MemoryBuffer`.

### MultiFileReader

The server (external) writes the stream to files with `Names` names in turn and lists `Keep` of
them in the .tsbuffer file. Reader and server share nothing but these files, so `Server` steps
(write, roll, publish) come between any two file accesses of the reader. A position is a
coordinate of the reader: `base[n] - origin` is where it should have file number `n`. The
stream is counted in units, and what a read has brought (`copied`) is remembered by the unit it
really was, since a name may stand for another file by then.

| Action | Code |
|---|---|
| `OpenFile`, `Opened`, `OpenTimesOut`, `CloseFile` | `OpenFile` with its wait for the first data, `CloseFile` |
| `ReadHeader`, `ReadList`, `ReadFooter` | the three reads of `RefreshTSBufferFile`, the comparison, the next of its tries, before which the .tsbuffer file is opened again, or not if that fails |
| `NotRefreshed` | its early returns: the .tsbuffer file is not open, too short, or its length cannot be read |
| `ApplyCounts`, `AppendFile` | the removal of the files that left, the files that came, with their lengths or with 0 where `GetFileLength` fails |
| `Read`, `ReadsNothing`, `ReadsFile` | `Read`: the refresh, the file of the position, the change of files, the rest in the next file; with an open that fails, and a file's `Read` that fails or comes short while the position moves on |
| `Seek`, `SetFilePointer`, `Zap`, `SetCurrentFilePointer`, `OnChannelChange` | `SetFilePointer`, `CTsReader::OnZap` with the answer of the server, `SetCurrentFilePointer`, the change of channel in the next read |
| `GetFileSize`, `Sized` | the length |

`Fault` is what may go wrong: an open, a read, a reopen or a measurement, `MaxFaults` of them.
`m_TSBufferFile` is FALSE once the .tsbuffer file could not be opened again: every later `Read`
returns at once, for good. `lapped` records that the server has removed all files of the reader's
list, `mismeasured` that the list has a length which could not be read, after which the coordinates
are not the stream's until the list has been empty, `refreshed` that the refresh of this call found
matching counters. `moved` says that there is no read to go on from: after a seek, a zap, a lap or a
read of an old list, until the next read. `RingAssumption` says that a name that a
call finds in the list means the file it stands for until the call ends: `Keep` files listed,
`RollsPerCall` new ones during a call and one not listed yet need more names than that.

### PacketSync, SectionDecoder, Demultiplexer

`PacketSync` is `CPacketSync::OnRawData` behind `ReadFromFile`: reads of any length, the rest
kept in `m_tempBuffer`, bytes in payloads that look like the sync byte (`Look`, no two of them
a packet apart), seeks and zaps that join two halves. `SectionDecoder` is `OnTsPacket` and what
it calls, down to the header that is cut by the end of a packet, and the loop limit. A byte is
known by its place in its section; its value counts only where the code reads it: the two bytes
of a length, the pointer field, stuffing, and the bytes (`Contents`) that are read in the place of
those once a packet is lost. A CRC is right for the bytes of one section only, and is only looked
at when byte 1 has `section_syntax_indicator`, as the code has it. `due` are the sections that
the code lets a receiver demand, and what a loss costs is more than it looks like:

- A packet of any pid with its `TransportError` bit, or without a sync byte, resets the decoder: the
  section under way is lost, the next one is read.
- What is there of a section when a packet is lost is completed from the next packets. Where the
  next one begins, it gets a length that ends it there and 2 or 3 bytes of that next one, its CRC
  fails, and with it goes the rest of the packet. When the pointer field says the last byte of the
  packet, it takes that byte and the next packet that begins a section too: `behind` is 2.
- Where only the first byte of a section was there, `section_syntax_indicator` is read from
  anywhere: what is no section may go to the parsers, and the next section is looked for in the
  middle of another. No number of packets ends that (`strayed`); a damaged one does.

`Demultiplexer` is `Start` and
`RequestNewPat` with the two parsers: PAT versions, PMTs of several programs, languages that
come before or after the codec they belong to, a zap into a stream whose PAT is still the one
before. `endedBy` remembers which table ended the wait: until the new PAT comes, that of the
channel before does, and from then on only a newer one.

### live555

`RtspRequests`: one request at a time and its response, which `getResponse1` takes whatever its
CSeq; redirections, timeouts, responses that come after their timeout, bodies of accepted and of
refused responses. Its property speaks of requests that nothing older disturbs, because a late answer
is indeed taken for the next one, and because a `SETUP` that is refused for its missing Session
leaves the body of its response in the socket (`RTSPClient.cpp` 983-994): the next request is then
refused whatever the server says.
`EventLoop`: `SingleStep`, the socket it serves next, the delta coded `DelayQueue`, a clock set
back. `RtpReception`: `MultiFramedRTPSource` with the reordering buffer and the reception
statistics, over a network that loses, repeats and reorders. `Rtcp`: `OnExpire` with its
reconsideration, the member table and what a BYE does to both. `MediaSession`: a description
to subsessions, and the search for pairs of UDP ports while other programs take and release
them. `SourceChain`: the reads and callbacks of source, framer and sink, the task that
`FramedSource::afterGetting` leaves to the event loop, and broken datagrams.

Times are integers, and a draw of a random interval is a member of a set. Sequence numbers
wrap at `2 * Half`, which the run reaches, and no two packets on their way are more than half of
the numbers apart.

### HashTable and Dictionary

`BasicHashTable` with its rebuild: a chain is a set of entries, the hash a parameter. The mask
is a remainder because the sizes are powers of two in the code. `Dictionary` is what the users
of the table rely on: a value per key, `Add` returns the one before, `RemoveNext` any.
`found` is what the last call has returned.

### Timers

`schedules` are the server's, `kodi` the timers that Kodi has read last; Kodi acts on the
latter while other clients change the former, and the answer to a command may be lost.
`AddTimer`, `UpdateTimer` (as `Disable`, `Enable`, `EditMargin`, `EditLifetime`),
`DeleteTimer`, `GetTimers` convert by the tables of `timers.cpp`, and the old series dialog is
its spin controls, those of type, keep method and margin, `Ok`, `Cancel` and a window that cannot be
loaded. Times have parts of a day (`Day`), so that a keep date can lose them, and a schedule has the
priority that another client gave it, which `XBMC2MepoPriority` makes 0 with any edit (`timers.cpp`
490). `Records` and `Others` are the server. `unseen` says that a change has happened that Kodi cannot know of.

### Recordings, Guide, SignalStatus

`Recordings` has the cards across reconnects, the folders of a recording, the one recording that
`GetRecordingInfo` keeps, and what is then played and cut: a url as it is, or the file on the
share that `TranslatePath` finds among the cards of all connections so far. A path is a sequence
of names and separators, and a name two parts of it, so that a cut or a replacement in the wrong
place shows. `Guide` imports channels, groups and members, each from a lineup that may have
changed since the other, and the programs of a channel with one `cEpg` that is reset between
lines. `Loaded` and `SetSetting` are the settings that decide what is imported, at the start
and when users change them between two of these calls. `SignalStatus` is the counter of
`GetSignalStatus` against tunes and answers that come after them.

## 4. The runs

| Run | Bounds | Shows |
|---|---|---|
| `connection_concurrent` | three threads of Kodi, two of them pollers, `Process`, two broken links of any kind, one retry, one late answer, a timeshift at exit | `OneOnTheWire`, `ThreadIsJoined`, `HandshakeMeetsOnlyTheLate`, `NoCloseUnderReader` |
| `connection_outage` | one thread, one outage of the host, two retries, a timeshift at exit, fair | `CallsReturn`, `OutageEnds` |
| `connection_reconnect` | one thread, the plugin closes the connection once | finding 1: `NoThreadWaitsForItself` is violated |
| `connection_second_outage` | one thread, two outages, fair | finding 2: `OutageEnds` is violated |
| `connection_eof` | one thread, the plugin closes the connection once, fair | finding 3: `CallsReturn` is violated |
| `memory_buffer` | 4 bytes capacity, frames of 1 to 3, requests of 1 to 4, 11 bytes, fair | `CountIsRight`, `ReadEnds`, `FifoSpec` |
| `live` | three channels, two files, every fault, both kinds of reader | `TimesAreSafe`, `StreamIsCurrent`, `NothingLeftBehind`, `TuneReadsItsChannel` |
| `rtsp_client` | an event loop of ten events, tunes that fail while paused, fair | `ThreadsApart`, `PauseAgrees`, `CallsReturn` |
| `rtsp_failed_tune` | an event loop of three events, tunes that fail at any time | finding 4: `FailedTuneSurvived` is violated |
| `timeshift` | five files of 1, 2, 1, 1, 1 units, two listed, four names, one roll per call, requests of 2, one seek, zap or question for the length, two tries, one fault of any kind, fair | `ListIsTrue`, `ReadsTheStream`, `ZapLands`, `CatchesUp` |
| `input` | see below | `ResultIsTheServers`, `TasksInTime`, `NoSocketStarves`, `RightAcrossTheWrap`, `NobodyIsForgotten`, `PacketsIntact`, `SectionsArrive`, `TablesAreTheChannels`, `PortsAreRight`, `DataReachesBuffer`, `TableIsDictionary` |
| `backend` | see below | `OneEpisodeOnly`, `EditKeepsTheRest`, `DialogStoresWhatItShows`, `ListIsCurrent`, `RecordingsAsStored`, `OfTheOneAsked`, `MembersExist`, `ProgramsAreTheirOwn`, `SignalNotStale` |

Why the bounds are enough.

- *Connection.* The creator, two more threads of Kodi, which may poll, and the background thread are
  every pair of roles that can meet at the two mutexes, two callers behind a third included, and
  the proofs lift the safety properties to any number. Two broken links
  are the second outage after a first repair. One retry shows the count reaching zero, two
  show that it is kept between rounds.
- *Buffer.* A capacity of 4 with frames of up to 3 makes puts that drop one item, several items
  and half-read items, and requests that fit beside a frame (1, 2) and that do not (3, 4); 11
  bytes fill the buffer more than twice.
- *Streams.* Two files are the zap within a file and across files; three channels are a switch
  away and on. Ten events let the buffer thread be anywhere in its loop at each step of a
  call; the proofs lift the length.
- *Timeshift.* Five files over four names bring a name back; the file of two units is read in
  the middle, and a request of 2 spans two files. One fault, of any kind and at any place, shows what
  the code goes on with. The proofs lift all of it for safety.
- *Input.* Six RTSP requests are an open with two subsessions, or redirections and late answers.
  Three tasks and three sockets, in two instances of `EventLoop`, are an entry or a handler
  between two others. Eight sequence numbers from 6 on wrap at the third of five packets. Four
  bytes of a packet, reads of 1 to 12 bytes and 24 bytes of stream are every cut before, at and
  behind a packet. A payload of 16 bytes and sections of 12, 14, 17 and 45 are several sections
  in a packet, cuts in every byte of a header, one byte of a section at the end of a packet, and a
  section across three packets that ends before the last byte of the third; six loops are more
  than a packet's sections. The other bytes of the sections are those that make a short length, no
  `section_syntax_indicator` and stuffing. Five ports are two pairs and one that is odd to them.
  Four keys in a hash table that begins with one bucket are two rebuilds.
- *Backend.* One schedule at a time, of two ever, lets an id go and another come; two programs
  of one series are the one deleted and the one that must stay. Another client's schedule has a
  priority and a keep date of three days and a part of one: what an edit takes away shows. Two
  recordings on two cards, which get another share, or their first, between two connections. Two lineups and two settings of the
  groups, and one change of lineup or settings (`MaxChanges`): `MembersExist` compares answers
  read before and after it. Two lines of the guide, of a full one, a short one and one that fails
  at its air date, are every order in which one could show what another left. Signal: two channels.

CHECK_DEADLOCK is off in every run: the client ends (`Disconnect`), the streams and lists are
bounded, and a thread that waits for itself is what `NoThreadWaitsForItself` is about.

### Fairness

`Connection`: each thread that can take a step of its call takes one (`Step`, `BgStep`: the
operating system's scheduler), the server answers what it has received and returns from an
outage (`ServerAnswers`, `ServerReturns`). None for Kodi's calls, for broken links, or for
errors reported on a silent link. `MemoryBuffer`: both threads finish what they are in; none
for arriving frames, so `ReadEnds` promises a return only for bytes that are there.
`RtspClient`: both threads are scheduled; an event of the loop always comes, because the RTCP
reports of a session are due every few seconds even if no packet arrives. `MultiFileReader`:
the server goes on writing up to its bound, a call that has begun goes on, and Kodi goes on
reading; none for seeks, zaps, faults. `input` and `backend` have safety only and no fairness.

### Findings

1. *A lost connection is never repaired by the command that notices it.* `SendCommand` holds
   `m_mutex` while it calls `TryConnect`; the hello in `Connect` locks it again. `NothingIsResent`
   proves the other side: the resend is dead code.
2. *Only the first outage is repaired.* `Process` ends after one successful connection and
   `m_running` stays TRUE, so `TryConnect` never starts it again (changelog.txt:283).
3. *An end of file keeps `ReadLine` busy for ever*, with `m_mutex` held.
4. *A failed tune ends Kodi when the last channel still plays by RTSP.* The reader is deleted
   (changelog.txt:170) but not closed, and its buffer thread is running.

Further remarks from the modelling, which no run claims:

- Selecting the current channel again under fast switching leaves `m_bSkipCloseLiveStream` set,
  so a later stop is ignored; `quiet` excludes it.
- The answer to `GetCardSettings` may be missing: the client is then connected with the cards
  of no or of an earlier connection (`pvrclient-mediaportal.cpp` 305). On every reconnect
  `Cards::ParseLines` appends to the cards it has.
- A lost answer to `AddSchedule` makes Kodi report an error although the schedule exists, and an
  unanswered `ListSchedules` empties Kodi's list.
- The search for a recording's share takes the first card whose folder is found anywhere in the
  path (`TSReader.cpp` 136): of two cards, one with a folder whose name begins the other's, the
  wrong share may be taken. `RecordingsAssumption` excludes such folders.
- `SplitFilePath` cuts one character more than the folder (`recordings.cpp` 246), which is the
  separator; a folder that ends with it, as the root of a drive does ("drive letter + :\",
  line 235), loses the first letter of what follows. The folders of the model do not end with it.
- A ";" between groups in the settings separates them only after a restart: `Load` turns it into
  "|", `SetSetting` takes the text as it is (`settings.cpp` 82, 261).
- The group filter takes a group whose name is a part of the setting
  (`pvrclient-mediaportal.cpp` 935).
- The framer closes the sink for good after one datagram without a sync byte
  (`MPEG2TransportStreamFramer.cpp` 110, 121), while the source goes on queueing.
- A server that falls silent makes a read of the RTSP buffer wait for ever.
- `CTsReader::OnZap` compares the translated names (`TSReader.cpp` 353), and both are empty when neither
  file can be found: a tune then reports success with a reader that reads nothing. Such a reader is
  left by an open that failed when the close after it finds no connection.
- `GetRecordingEdl` uses `m_tsreader` without a test (`pvrclient-mediaportal.cpp` 2510): a call while
  no recording is open, and every call in ffmpeg mode, ends the process. The model does not go on
  from there.
- `MultiFileReader` ignores that a length could not be read (517, 604) and that its .tsbuffer file
  could not be opened again (464): the coordinates are wrong, or nothing is read any more, until the
  stream is opened anew.
- A `SETUP` refused for its missing Session header leaves the body of its response for the next
  request to read.
- `RequestNewPat` ends with the old channel's parser when a packet comes before the new PAT; what is
  called back is used for nothing but the end of the wait.
- Editing a timer in Kodi makes the priority of its schedule 0.
- `HashTable::Add` returns the old value also when it is the new one, other than `HashTable.hh` 36
  says; nothing in the client depends on it.

## 5. Proofs

Assumed are only the named assumptions on the constants and, where a theorem says so,
restrictions on the environment. Every run evaluates the assumptions of its constants.

| Assumption | Why it holds |
|---|---|
| `ThreadsAssumption`, `BoundsAssumption`, `SizesAssumption`, `StreamsAssumption` | the threads, the bounds and the sizes are what their names say |
| `RingAssumption` | the server uses a name again only after more files than a call of the reader sees |
| `TimersAssumption` | times are after the epoch, ids count from 1 and stay below the numbers that Kodi gives the programs of a series (`timers.h`: 0x7FFFFFF and up), and what the server sends in a field is one of its values |
| `LoopAssumption` | `scheduleDelayedTask` makes a delay below zero 0 (`BasicTaskScheduler0.cpp` 58); a process has finitely many sockets |
| `ReceptionAssumption`, `RtcpAssumption` | there are sequence numbers; what a random interval may be has an upper bound |
| `RequestsAssumption` | bodies come with responses to `DESCRIBE` and `SETUP` only, whatever their code; a server has a name |
| `MediaAssumption` | 0 is no port, and a parsed line has its fields |
| `SectionsAssumption` | a packet has 184 bytes of payload, the loop 100 rounds (16 and 3 are enough); a section has 12 bytes or more and no more than its 12 bits of length can say; no section begins with the stuffing byte 0xFF, and bytes are below 256 |
| `PacketsAssumption` | no two bytes of payloads a packet's length apart both look like the sync byte: what begins and ends like a packet is one, to the code as to everybody |
| `ChainAssumption` | a datagram (at most `MAX_PACKET_SIZE` 10000, `MultiFramedRTPSource.cpp` 306) fits into the sink's buffer (`fileSinkBufferSize` 20000, `MepoRTSPClient.cpp` 44) |
| `TablesAssumption` | within the tunes of a behaviour a PAT version does not come twice; a PMT is a sequence of streams with a sequence of descriptors each |
| `GuideAssumption` | settings are switches |
| `RecordingsAssumption` | a file or folder of the server's Windows has no backslash in its name; a card's folder is a path below a drive (`recordings.cpp` 235: three letters and more) and is found in the paths of its own recordings only, since `find` looks for it anywhere in the path; the times of a cut are numbers |
| `HashAssumption` | hashes are natural numbers, so that the mask gives a bucket; it stands in the theorems because it ranges over all sizes |

`ConnectionProofs`. The inductive invariant is `TypeOK` with `StackOK` (which frames a point
may have below it), `LocksOK` (each mutex is held by exactly the thread with the frame that
locks it), `FirstConnectOK` and `CreatingOK` (nothing else runs during the first `TryConnect`, so
that outside `SendCommand` nobody else is in it), `ThreadOK` (`m_running`, `m_thread` and `Process` go
together), `SocketOK` (while `Process` is about to connect, only a thread that waits for
itself has the socket open) and `StateOK` (until `Process` reports, the state is not CONNECTED). None of the properties is inductive alone: that two threads are
never on the wire needs `LocksOK`, which needs `StackOK`; that `m_thread` is not overwritten
needs `OneStarter`, which needs `FirstConnectOK`. Proved: `TypeCorrect`, `OneOnTheWireHolds`,
`OneStarterAlways`, `NoThreadOverwrittenHolds`, `ExitLeavesNoThreadHolds`, together
`ThreadIsJoinedHolds`; `NoCloseUnderReaderHolds` (an action property), `NothingIsResent`.
`HandshakeMeetsOnlyTheLateHolds`: that two callers do not cross follows from `LocksOK` with
`CreatingOK`, since a caller comes to `Connect` from `SendCommand` only, with `m_mutex` held, but for
the creator, who is alone then. All are for any number of threads and pollers, any faults and a
timeshift at the exit.

`MemoryBufferProofs`. The invariant says that the items form a chain (each starts where the
one before it ends, the last one ends at the last byte received), that the counter is the
length of the chain, that the lock is held where it should be, and that a read past its test
still has enough bytes. Proved: `TypeCorrect` (the counter, a `size_t`, never wraps),
`BytesCountedHolds`, `BufferBoundedHolds`, `NothingWastedHolds`, together `CountIsRightHolds`;
`ReadHasNoHoleHolds`, and `ImplementsFifo`: each step is a step of `LossyFifo` or a stutter.

`LiveStreamProofs`. `Always` (types, and the flag with its reader) holds whatever fails:
`TypeCorrect`, `TimesAreSafeHolds`, `TuneReadsItsChannelHolds`. As long as `quiet` holds flag,
channel, reader and timeshift come and go together (`TogetherOK`) and the skip flag is set only
during a switch (`SkipOK`): `StopStopsHolds`, `NoReaderLeakedHolds`, together
`NothingLeftBehindHolds`; `StreamIsCurrentHolds`.

`RtspClientProofs`. `ThreadOK` says at which points of a call there may be a thread and how
far it can have come, and what the flags say of it; with it `TypeCorrect` and
`ActiveMeansJoinableHolds` hold whatever tunes fail. The flag alone is not inductive: that a
call starts a thread only where there is none needs the state of the reader, and that none
runs at the shutdown needs to know that only a reset `m_running` ends it. `StreamOK` adds the
objects and the paused state, for tunes that fail while paused: `OneThreadInLive555Holds`,
`ThreadHasItsObjectsHolds`, together `ThreadsApartHolds`; `PauseAgreesHolds`.

`MultiFileReaderProofs`. `ServerOK` says what the server has written, in which file and under
which name; `CallOK` what a point of a call knows; `RefreshOK` how far the server may be ahead of
each of the three reads, where `RingAssumption` is needed so that a name read within a call
means the file listed; `ListOK` that the files are consecutive in number and coordinate and agree
with the server, and that they are the stream's unless a length could not be read; `HoleOK` where
the next read goes on, by what was wanted of the last one and not by what it got. `ListIsTrue` is not inductive: that the
list agrees after `ApplyCounts` and `AppendFile` rests on what was read two steps before and on
what the server may have done since. Nor is `NoHole`: the place of the next read depends on the
file that is open and on the last zap. Proved: `InvariantHolds`, `ListIsTrueHolds`,
`ReadsTheStreamHolds` (an action property). `ZapInv` adds `HandleOK` (which file is open, where its
coordinates begin, and that the server names no older one) and `PlaceOK` (a reader that has not been
moved is in the file it read last, or before its list); without them the reader could already be in a
file behind the zap. It gives `ZapLandsHolds` (an action property).

`InputProofs` is on live555's machines, a part at a time, `DataPathProofs` on the way of the data from
the datagram to the tables; each invariant is for its part only. In `InputProofs`:

- *Hash table*: `TableSound`, each key is in the chains once, in the bucket of its hash at the
  present size; `Refinement`, every call, with the rebuild it may make, is the call of the
  dictionary.
- *RTCP*: `TimerInv` (what is left of an interval and what has passed of it make no more than the
  longest) and `MemberInv` (a member that has reported within the period is in the table with that
  report) give `ReportersStay`.
- *Requests*: `StageInv` (the request that an `OpenStream` is at), `WireInv` (what is in the socket:
  a body is behind its response, alone only where a refused `SETUP` has left it, and when neither
  `DESCRIBE` nor `SETUP` waits the last response has none) and `ResultInv` (what the
  call has read so far is of its own response, if none was outstanding) give `ResponsesAreMatched`.
- *Sessions*: `MediaInv` (a subsession's fields, and where the search for a pair is), `BoundInv` (a
  bound port is held by no other program) and `OwnInv` (the bound ports are exactly those of the
  subsessions and of the search, each held once) give `SocketsAreTheSessions`. That the ports are
  right is not inductive: the sockets of a failed try are in no subsession.
- *Sockets*: `Registered` (every socket once among the handlers) and `InTurn` (how often a socket has
  been passed over and how far it is behind the one handled last, counting every handler that can still
  come in front, make no more than twice the other sockets: `Ahead`) give `EverySocketIsServed`. The
  count alone is not inductive: handlers come and go between two steps. Where the handler called last
  goes, the code loses its place in the round, and the count begins anew.
- *Tasks*: `TasksInv` says that, while the system clock has not been set back, the queue is in the
  order of the times and each entry holds what is left after the one before it (`OnTime`), so that the
  sums of its entries are the times (`TimeIs`): `TasksRunInTime`. The fold that sums them up is
  reasoned about by the least place where it would go wrong.
- *Section decoder*: `SectionsInv` says of what there is of a section, the one begun last in the stream
  and how much of it has been sent, that it is `InStep` (all that has been sent of that section, and its
  length if two bytes are there), nothing, or `IsLate` (a section whose rest is lost, kept until
  its length is reached); `MayMisread` which of them is possible with each `behind`. What has come out
  is in order (`GotInv`), and each section that is due has. `InStep` alone is not
  inductive: a loss leaves a decoder that is late for a packet or two, and only the length it has
  says when it ends. A packet comes in three shapes (`Packs`: the rest of a section, one begin behind it,
  two); for a decoder in step, with nothing, and late, the rounds of the loop over it are followed one by
  one (`RestComes`, `NewComes`, `NewsCome`), with the two bytes of a length read where they
  lie, in the same packet or not. For a packet that need not fit to what is there, `RoundIsGood` shows
  what each round keeps whatever it reads: only whole sections with a right CRC come out, in the order
  of their ends. `SectionsComeOut`.

In `DataPathProofs`:

- *Source chain*: `CallInv` (who is called by whom), `OrderInv` (what waits, is in the framer or has
  been submitted is what came, in order), `FrameInv` (the frame begins with a packet and fits) and
  `ArrivedInv` (nothing whole that follows a whole datagram is missing) give
  `DatagramsReachTheBuffer`.
- *Packets*: `PacketInv` says that the rest kept between two reads is what is behind the last packet given,
  however it was cut, and where a jump has joined two halves; the scan within a read, a recursive
  function, is reasoned about by the least place where it would go wrong. `PacketsStayIntact`.
- *Reception*: `WithinHalf` (what is on its way and what has been used lie within half of the
  numbers, so that `seqNumLT` is the order of the packets: `NumbersInOrder`), `Reordered` (the sink has
  an increasing sequence up to the last packet used, the queue one behind it, all of it has come, and
  what came in time is in one of them), `Started` (the first packet) and `Counted` (the extended
  highest number less the base is how far the stream has come; what has been received is what has
  come, and again what has come twice) give `ReceptionSurvivesTheWrap`. That the network keeps
  packets within half of the numbers is the guard of `Send`: beyond it no receiver can tell.

- *Tables*: `TablesInv` says that each parser is for a pid that the last PAT lists, that what it has
  found it has read since that PAT, and that an audio stream's language is one that a descriptor of that
  stream gives in the very PMT it was read from; so nothing outlives the PAT of the channel zapped
  to. `WaitInv` says that what ended the wait is no older than the PAT that was the last one then:
  `ChannelsKeepTheirTables`. What a PMT is parsed to is a fold over streams and, in each,
  over descriptors; `FoldExists` and `FoldEnds` reason about it by its history, a value for each step.

Induction on the steps of a scan, on the index of a handler or on a sequence number is done by the
least element of a set of natural numbers (`LeastOf`), which needs no operator as a parameter.

`BackendProofs`. `TimersInv` (what the server's schedules are, and that a timer Kodi has read has the
type its schedule still has, or is a program of one that is none itself) gives
`OneEpisodeIsStopped` and `EditsKeepTheRest`; `Evolves` is what any step leaves of a schedule that
Kodi has read. `TimerListIsCurrent` is inductive as it stands: each step either tells Kodi or is one
it cannot know of. `DialogInv` relates the spin controls to the settings that they stand for, so that
`DialogIsStored`. `GuideInv` says that a list has all that was kept of the
lineup and the settings it was read with, and a member was kept of its own: `MembersAreChannels`.
`LinesRead` is the parse of the guide line by line with the object that all lines share; that it is
as left by `Reset` before each of them, and that the programs so far are those of the good lines so far,
is what no line disturbs (`ProgramsAre`): `EachProgramIsItsLine`. `SignalInv` counts the calls since the tune: `SignalIsNotStale`.

`RecordingsInv` is of both parts of `Recordings`, which have the same actions (`SameActions`) and
other constants: each recording has the path that it was made with (`StoredOK`), Kodi's list is
what is read now unless a change has been told or missed (`ShownOK`), and what is selected, plays or
was read for cuts is of the recording asked for (`SelectedOK`, `PlayingOK`), under a name that no
step takes from it (`NamesStay`). What a path is parsed to needs no induction, since a path is
written as a closed form (`Joined`, three letters for each name): `SplitIs` shows that what
`SplitFilePath` cuts off is the folder and the file, `TranslatedIs` that what `TranslatePath`
replaces is the folder.
Every action is one of five kinds of steps (`Move`), and each keeps the invariant:
`RecordingsAreShown` and `AskedIsPlayed`.

The two theorems on timers are of action properties, of the form `[][A]_vars`.

Only model-checked: liveness (both `CallsReturn`, `OutageEnds`, `ReadEnds`, `CatchesUp`), which the
prover does not reach. Every invariant and every action property that a passing run checks is a
theorem, too.

The type invariants of `Connection`, `MemoryBuffer`, `LiveStream` and `RtspClient` are proved
(`TypeCorrect`) and have no run of their own any more.

## 6. Not modelled

- ffmpeg mode of the live streams and web streams: Kodi or ffmpeg reads them.
- live555: authentication, RTP over TCP, raw UDP sources, `OutPacketBuffer` and what else only a
  sender needs, codecs other than MPEG-2 transport streams, address classes and string
  helpers. The client uses none of them.
- The network share of a live stream (`TranslatePath` with a card's id), the checks of files that
  only the Windows builds make, and the start time of a stream.
- Settings but those of `Guide` (they are constants of the modules), string, path and date
  helpers, the user interface but for the recording dialog.
- The guide's lines whose start time is 0 (`pvrclient-mediaportal.cpp` 632), and `OnNewChannel`
  beyond the flag it sets: it uses nothing of the tables.
- In the modelled parts: the contents of commands and answers beyond what decides the control
  flow or a property, log messages, sleeps (a sleep is time the thread may spend anywhere), and
  `CMemoryBuffer::Run(false)`, which nothing calls.
