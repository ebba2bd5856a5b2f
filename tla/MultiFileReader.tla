---------------------------- MODULE MultiFileReader ----------------------------
(***************************************************************************)
(* The timeshift of a live stream as CTsReader reads it without RTSP: the   *)
(* server writes it to a ring of files and lists these in the .tsbuffer     *)
(* file, and MultiFileReader follows the list.  Server and reader share     *)
(* nothing but the files, so the server goes on between any two accesses.   *)
(*                                                                         *)
(* The stream is counted in units from its first one.  File number n is the *)
(* n-th file the server has written; its name comes back Names files later. *)
(* A position of the reader is a coordinate: 0 is the first unit of the     *)
(* oldest file in the list when the list was empty before.                  *)
(***************************************************************************)
EXTENDS Integers, Sequences

CONSTANTS
  MaxFiles,      \* bound: files written in all
  Lengths,       \* the units of each file in the end
  Keep,          \* files in the list
  Names,         \* names in the ring
  RollsPerCall,  \* bound: new files during one call of the reader
  Requests,      \* the lengths that Kodi and the demultiplexer read
  Moves,         \* seeks: records of a method and a distance
  MaxMoves,      \* bound: seeks, zaps and questions for the length
  Tries,         \* the 10 attempts of RefreshTSBufferFile
  MaxFaults      \* bound: reads, opens and measurements of length that fail

None == 0        \* no file
Methods == {"begin", "current", "end"}

\* The name of a file in the list that a call has read is not reused before the end of the
\* call: of the new files one may not be listed when it begins.
ASSUME RingAssumption ==
  /\ {MaxFiles, Keep, Names, Tries} \subseteq Nat \ {0}
  /\ Lengths \in [1..MaxFiles -> Nat \ {0}]
  /\ {RollsPerCall, MaxMoves, MaxFaults} \subseteq Nat
  /\ Keep + RollsPerCall < Names
  /\ Requests \subseteq Nat \ {0}
  /\ Moves \subseteq [method : Methods, n : Int]

VARIABLES
  \* the server
  written, removed,  \* the file it writes, how many files it has removed
  base, size,        \* per file: the units before it, the units in it
  tsbuffer,          \* the .tsbuffer file: position, filesAdded, filesRemoved
  \* MultiFileReader
  m_tsFiles, m_filesAdded, m_filesRemoved, m_startPosition, m_endPosition,
  m_currentPosition, m_lastZapPosition,
  m_TSFileId, m_TSFile, m_currentFileStartOffset,
  m_TSBufferFile,        \* the .tsbuffer file is open
  tries, header, list,   \* locals of RefreshTSBufferFile
  pc, call,              \* where the reader is, and in which call
  zapping,               \* OnZap has moved and not yet called OnChannelChange
  \* what has happened
  rolls, moves, faults,  \* new files during this call, seeks and zaps, faults
  origin,                \* the unit at coordinate 0
  copied,                \* the last units read: first unit, coordinate, how many, asked
  moved,                 \* none to go on from: a seek, a zap, a lap, a read of an old list
  lapped,                \* all the files of the list went between two refreshes
  mismeasured,           \* the coordinates contain a length that could not be read
  refreshed              \* the last refresh succeeded

server == <<written, removed, base, size, tsbuffer>>
window == <<m_tsFiles, m_filesAdded, m_filesRemoved, m_startPosition, m_endPosition, origin,
            lapped, mismeasured, refreshed>>
position == <<m_currentPosition, m_lastZapPosition>>
handle == <<m_TSFileId, m_TSFile, m_currentFileStartOffset>>
refresh == <<m_TSBufferFile, tries, header, list>>
caller == <<pc, call, zapping, moves>>
reading == <<copied, moved>>
vars == <<server, window, position, handle, refresh, caller, reading, rolls, faults>>

-----------------------------------------------------------------------------
(* The server                                                              *)

\* A unit goes to the file first; the .tsbuffer file follows.
Write ==
  /\ size[written] < Lengths[written]
  /\ size' = [size EXCEPT ![written] = @ + 1]
  /\ UNCHANGED <<written, removed, base, tsbuffer>>

\* The next file, once the last one is in the list; beyond Keep files the oldest leaves.
Roll ==
  /\ written < MaxFiles /\ size[written] = Lengths[written]
  /\ tsbuffer.added = written
  /\ written' = written + 1
  /\ removed' = IF written + 1 - removed > Keep THEN removed + 1 ELSE removed
  /\ base' = [base EXCEPT ![written + 1] = base[written] + size[written]]
  /\ UNCHANGED <<size, tsbuffer>>

\* The .tsbuffer file is written as a whole.
Publish ==
  /\ tsbuffer' = [position |-> size[written], added |-> written, removed |-> removed]
  /\ tsbuffer' # tsbuffer
  /\ UNCHANGED <<written, removed, base, size>>

Server ==
  /\ \/ Write /\ UNCHANGED rolls
     \/ Publish /\ UNCHANGED rolls
     \/ Roll /\ IF pc \in {"closed", "idle", "gone"}
                THEN UNCHANGED rolls  \* between calls there may be any number
                ELSE rolls < RollsPerCall /\ rolls' = rolls + 1
  /\ UNCHANGED <<window, position, handle, refresh, caller, reading, faults>>

\* What is read under the name of file n: the last file that got that name.
Holder(n) ==
  CHOOSE k \in 1..written :
    /\ k % Names = n % Names
    /\ \A other \in k + 1 .. written : other % Names # n % Names

-----------------------------------------------------------------------------
(* RefreshTSBufferFile, the first step of every call                        *)

Nothing == [unit |-> 0, at |-> 0, n |-> 0, asked |-> 0]

\* An open, a read or a measurement that fails.
Fault == faults < MaxFaults /\ faults' = faults + 1

Begin(op, method, n, id) ==
  /\ call' = [op |-> op, method |-> method, n |-> n, id |-> id]
  /\ pc' = "header" /\ tries' = Tries

NoCall == [op |-> "none", method |-> "begin", n |-> 0, id |-> None]

\* The smallest and largest coordinates.  The length of the last file is what the
\* .tsbuffer file says.
NoHeader == [position |-> 0, added |-> 0, removed |-> 0]
NoList == [removed |-> 0, added |-> 0]

SetPositions(fs, current) ==
  LET last == [fs[Len(fs)] EXCEPT !.length = current]
      first == IF Len(fs) = 1 THEN last ELSE fs[1]
  IN  /\ pc' = "body" /\ refreshed' = TRUE
      /\ header' = NoHeader /\ list' = NoList
      /\ IF fs = <<>>
         THEN m_tsFiles' = fs /\ m_startPosition' = 0 /\ m_endPosition' = 0
         ELSE /\ m_tsFiles' = [fs EXCEPT ![Len(fs)] = last]
              /\ m_startPosition' = IF m_lastZapPosition > first.start
                                    THEN m_lastZapPosition ELSE first.start
              /\ m_endPosition' = last.start + current

ReadHeader ==
  /\ pc = "header" /\ m_TSBufferFile
  /\ IF tsbuffer.added = m_filesAdded /\ tsbuffer.removed = m_filesRemoved
     THEN SetPositions(m_tsFiles, tsbuffer.position)
     ELSE /\ pc' = "list" /\ header' = tsbuffer
          /\ UNCHANGED <<list, m_tsFiles, m_startPosition, m_endPosition, refreshed>>
  /\ UNCHANGED <<server, m_filesAdded, m_filesRemoved, origin, lapped, mismeasured, position,
                 handle, m_TSBufferFile, tries, call, zapping, moves, reading, rolls, faults>>

\* S_FALSE before anything is read: the .tsbuffer file is not open, or too short, or its
\* length cannot be read.  OpenFile waits; the other calls go on with the old list.
NotRefreshed ==
  /\ pc = "header"
  /\ IF m_TSBufferFile THEN Fault ELSE UNCHANGED faults
  /\ pc' = (IF call.op = "open" THEN "opening" ELSE "body") /\ refreshed' = FALSE
  /\ UNCHANGED <<server, m_tsFiles, m_filesAdded, m_filesRemoved, m_startPosition,
                 m_endPosition, origin, lapped, mismeasured, position, handle, refresh, call,
                 zapping, moves, reading, rolls>>

ReadList ==
  /\ pc = "list" /\ pc' = "footer"
  /\ list' = [removed |-> tsbuffer.removed, added |-> tsbuffer.added]
  /\ UNCHANGED <<server, window, position, handle, m_TSBufferFile, tries, header, call, zapping,
                 moves, reading, rolls, faults>>

\* Close and open the .tsbuffer file and read it again.  E_FAIL after the last time, which
\* the callers ignore.
Retry(reopened) ==
  /\ m_TSBufferFile' = reopened
  /\ tries' = tries - 1 /\ header' = NoHeader /\ list' = NoList
  /\ IF tries > 1
     THEN pc' = "header" /\ UNCHANGED refreshed
     ELSE pc' = "body" /\ refreshed' = FALSE
  /\ UNCHANGED <<server, m_tsFiles, m_filesAdded, m_filesRemoved, m_startPosition,
                 m_endPosition, origin, lapped, mismeasured, position, handle, call, zapping,
                 moves, reading, rolls>>

\* Mutant: the footer is not compared.
FooterIgnored == TRUE

FooterAgrees == tsbuffer.added = header.added /\ tsbuffer.removed = header.removed

ReadFooter ==
  /\ pc = "footer"
  /\ IF FooterAgrees
     THEN pc' = "apply" /\ UNCHANGED <<server, window, position, handle, refresh, call, zapping,
                                       moves, reading, rolls, faults>>
     ELSE \/ Retry(TRUE) /\ UNCHANGED faults
          \/ Retry(FALSE) /\ Fault

\* Each of the three reads may fail or come short.
ReadFails ==
  /\ pc \in {"header", "list", "footer"} /\ m_TSBufferFile
  /\ Fault
  /\ \E reopened \in BOOLEAN : Retry(reopened)

\* 0 if the file cannot be opened; nobody looks at the result.
GetFileLength(n, opened) == IF opened THEN size[Holder(n)] ELSE 0

\* Mutant: the last file keeps the length that it had at the last refresh.
ApplyCountsOnly ==
  /\ pc = "apply" /\ pc' = "append"
  /\ m_tsFiles' = SubSeq(m_tsFiles, header.removed - m_filesRemoved + 1, Len(m_tsFiles))
  /\ LET lap == m_tsFiles # <<>> /\ m_tsFiles' = <<>>
     IN  /\ lapped' = (lapped \/ lap) /\ moved' = (moved \/ lap)
         /\ copied' = IF lap THEN Nothing ELSE copied
  /\ mismeasured' = (mismeasured /\ m_tsFiles' # <<>>)
  /\ UNCHANGED <<server, m_filesAdded, m_filesRemoved, m_startPosition, m_endPosition, origin,
                 refreshed, position, handle, refresh, call, zapping, moves, rolls, faults>>

\* Files leave at the front; the last one has become longer since, unless it is still last.
\* A list that is empty then starts the coordinates again.
ApplyCounts ==
  /\ pc = "apply" /\ pc' = "append"
  /\ \E opened \in BOOLEAN :
       LET gone == header.removed - m_filesRemoved
           kept == SubSeq(m_tsFiles, gone + 1, Len(m_tsFiles))
           measures == kept # <<>> /\ header.added > m_filesAdded
           lap == m_tsFiles # <<>> /\ kept = <<>>
       IN  /\ IF opened THEN UNCHANGED faults ELSE measures /\ Fault
           /\ m_tsFiles' = IF measures
                           THEN [kept EXCEPT ![Len(kept)].length =
                                               GetFileLength(kept[Len(kept)].number, opened)]
                           ELSE kept
           /\ mismeasured' = ((mismeasured /\ kept # <<>>) \/ ~opened)
           /\ lapped' = (lapped \/ lap) /\ moved' = (moved \/ lap)
           /\ copied' = IF lap THEN Nothing ELSE copied
  /\ UNCHANGED <<server, m_filesAdded, m_filesRemoved, m_startPosition, m_endPosition, origin,
                 refreshed, position, handle, refresh, call, zapping, moves, rolls>>

\* One round of the loop over the new names.
NewFile(k, opened) ==
  [number |-> list.removed + k,
   id |-> header.removed + k,
   start |-> IF k = 1 THEN 0 ELSE m_tsFiles[k - 1].start + m_tsFiles[k - 1].length,
   length |-> GetFileLength(list.removed + k, opened)]

\* The length of the last one is soon the position in the .tsbuffer file, whatever was read.
AppendFile ==
  LET k == Len(m_tsFiles) + 1
      listed == list.added - list.removed
  IN
  /\ pc = "append"
  /\ IF k <= listed
     THEN /\ \E opened \in BOOLEAN :
               /\ IF opened THEN UNCHANGED faults ELSE Fault
               /\ m_tsFiles' = Append(m_tsFiles, NewFile(k, opened))
               /\ mismeasured' = (mismeasured \/ (~opened /\ k < listed))
          /\ origin' = IF k = 1 THEN base[Holder(list.removed + 1)] ELSE origin
          /\ UNCHANGED <<m_filesAdded, m_filesRemoved, m_startPosition, m_endPosition,
                         refreshed, pc, header, list>>
     ELSE /\ m_filesAdded' = header.added /\ m_filesRemoved' = header.removed
          /\ SetPositions(m_tsFiles, header.position)
          /\ UNCHANGED <<origin, mismeasured, faults>>
  /\ UNCHANGED <<server, lapped, position, handle, m_TSBufferFile, tries, call, zapping, moves,
                 reading, rolls>>

-----------------------------------------------------------------------------
(* Opening and closing                                                     *)

\* OpenFile waits for a .tsbuffer file that is long enough, for MAX_BUFFER_TIMEOUT.  CTsReader
\* makes a new reader for a new attempt, with the .tsbuffer file open.
OpenFile ==
  /\ pc \in {"closed", "opening"}
  /\ m_TSBufferFile' = (pc = "closed" \/ m_TSBufferFile)
  /\ IF tsbuffer.added > 0
     THEN m_TSBufferFile' /\ Begin("open", "begin", 0, None)
     ELSE pc = "closed" /\ pc' = "opening" /\ UNCHANGED <<call, tries>>
  /\ UNCHANGED <<server, window, position, handle, header, list, zapping, moves, reading,
                 rolls, faults>>

OpenTimesOut ==
  /\ pc = "opening" /\ (tsbuffer.added = 0 \/ ~m_TSBufferFile)
  /\ pc' = "closed"
  /\ UNCHANGED <<server, window, position, handle, refresh, call, zapping, moves, reading,
                 rolls, faults>>

\* CTsReader::Close deletes the reader after it; the next Open makes a new one, which finds
\* the server as one does that is opened late.
CloseFile ==
  /\ pc = "idle" /\ ~zapping
  /\ pc' = "gone"
  /\ m_tsFiles' = <<>>
  /\ m_TSFileId' = None /\ m_TSFile' = None
  /\ UNCHANGED <<server, m_filesAdded, m_filesRemoved, m_startPosition, m_endPosition, origin,
                 lapped, mismeasured, refreshed, position, m_currentFileStartOffset, refresh, call,
                 zapping, moves, reading, rolls, faults>>

-----------------------------------------------------------------------------
(* The calls of Kodi and of the demultiplexer                               *)

CallFrame == UNCHANGED <<server, window, position, handle, m_TSBufferFile, header, list, zapping,
                         reading, rolls, faults>>

\* S_FALSE at once when the .tsbuffer file is not open.
Read(n) ==
  /\ pc = "idle" /\ m_TSBufferFile
  /\ Begin("read", "begin", n, None)
  /\ UNCHANGED moves
  /\ CallFrame

Move ==
  /\ pc = "idle" /\ ~zapping /\ moves < MaxMoves
  /\ moves' = moves + 1

\* SeekLiveStream and the end of CTsReader::Open.
Seek(move) ==
  /\ Move
  /\ Begin("seek", move.method, move.n, None)
  /\ CallFrame

\* CTsReader::OnZap on the same timeshift.  The server says at which position of which file
\* the new channel begins; an older one says only the position, or nothing.
OnZap(pos, id) ==
  /\ Move
  /\ IF pos > 0 THEN Begin("zap", "end", pos, id)
                ELSE Begin("zap", IF pos < 0 THEN "begin" ELSE "end", 0, None)
  /\ CallFrame

\* LengthLiveStream.
GetFileSize ==
  /\ Move
  /\ Begin("size", "begin", 0, None)
  /\ CallFrame

\* The end of OnZap, after RequestNewPat has read what it wanted.
OnChannelChange ==
  /\ pc = "idle" /\ zapping
  /\ zapping' = FALSE
  /\ m_lastZapPosition' = m_currentPosition
  /\ UNCHANGED <<server, window, m_currentPosition, handle, refresh, pc, call, moves, reading,
                 rolls, faults>>

-----------------------------------------------------------------------------
(* What the calls do after the refresh                                      *)

Returns ==
  /\ pc' = "idle" /\ call' = NoCall /\ tries' = 0 /\ rolls' = 0
  /\ UNCHANGED <<server, window, m_TSBufferFile, header, list, moves>>

\* A call that makes another one.
Continues == UNCHANGED <<server, window, m_TSBufferFile, header, list, moves, rolls>>

\* CTsReader::Open goes on to the oldest unit, when it has found its packets.
Opened ==
  /\ pc = "body" /\ call.op = "open"
  /\ m_currentPosition' = 0 /\ m_lastZapPosition' = 0
  /\ Returns
  /\ UNCHANGED <<handle, zapping, reading, faults>>

Sized ==
  /\ pc = "body" /\ call.op = "size"
  /\ Returns
  /\ UNCHANGED <<position, handle, zapping, reading, faults>>

\* The end of a file name's life in m_TSFile: closed, and opened by the next name.  25
\* attempts may fail; then there is no file.
OpensFile(f, opened) ==
  IF opened
  THEN m_TSFile' = f.number /\ UNCHANGED faults
  ELSE m_TSFile' = None /\ Fault

\* Mutant: the end of a file belongs to it.
FilesAtOrBefore(coordinate) ==
  {i \in DOMAIN m_tsFiles :
     /\ coordinate <= m_tsFiles[i].start + m_tsFiles[i].length
     /\ \A j \in 1 .. i - 1 : coordinate > m_tsFiles[j].start + m_tsFiles[j].length}

\* The file of the list that holds a coordinate, if any.
FilesAt(coordinate) ==
  {i \in DOMAIN m_tsFiles :
     /\ coordinate < m_tsFiles[i].start + m_tsFiles[i].length
     /\ \A j \in 1 .. i - 1 : coordinate >= m_tsFiles[j].start + m_tsFiles[j].length}

\* Mutants: a position is not clamped; a reader left behind goes to the live end.
ClampedNever(coordinate) == coordinate

ClampedToEnd(coordinate) ==
  IF coordinate < m_startPosition THEN m_endPosition ELSE coordinate

Clamped(coordinate) ==
  IF coordinate < m_startPosition THEN m_startPosition ELSE coordinate

\* Nothing there yet: no file, or beyond the end of the last one.
ReadsNothing ==
  /\ pc = "body" /\ call.op = "read"
  /\ FilesAt(Clamped(m_currentPosition)) = {}
  /\ m_currentPosition' = Clamped(m_currentPosition)
  /\ Returns
  /\ UNCHANGED <<m_lastZapPosition, handle, zapping, reading, faults>>

\* The file has changed and the new one cannot be opened, or none has been open since an
\* earlier failure: "can't open", "SEEK FAILED".
ReadFailsAt(i, current) ==
  /\ \/ m_TSFileId # m_tsFiles[i].id /\ OpensFile(m_tsFiles[i], FALSE)
     \/ m_TSFileId = m_tsFiles[i].id /\ m_TSFile = None /\ UNCHANGED <<m_TSFile, faults>>
  /\ m_currentPosition' = current
  /\ Returns
  /\ UNCHANGED <<m_lastZapPosition, m_TSFileId, m_currentFileStartOffset, zapping,
                 reading>>

\* Up to the end of the file and then, by another Read, from the next one.  The position
\* moves on by what was wanted, also when the file's Read fails or comes short.
ReadsFrom(i, current) ==
  LET f == m_tsFiles[i]
      seek == current - f.start
      rest == f.length - seek
      n == IF call.n > rest THEN rest ELSE call.n
      source == Holder(m_TSFile')
      left == IF size[source] > seek THEN size[source] - seek ELSE 0
      there == IF n > left THEN left ELSE n
  IN  /\ IF m_TSFileId = f.id
         THEN m_TSFile # None /\ UNCHANGED handle
         ELSE /\ m_TSFile' = f.number
              /\ m_TSFileId' = f.id /\ m_currentFileStartOffset' = f.start
      /\ \E got \in 0..n :
           /\ \/ got = there /\ UNCHANGED faults
              \/ got < there /\ Fault
           /\ copied' = IF refreshed
                        THEN [unit |-> base[source] + seek, at |-> current, n |-> got, asked |-> n]
                        ELSE Nothing
      /\ moved' = ~refreshed
      /\ m_currentPosition' = current + n
      /\ IF call.n > n /\ m_TSBufferFile
         THEN /\ Begin("read", "begin", call.n - n, None)
              /\ Continues
         ELSE Returns
      /\ UNCHANGED <<m_lastZapPosition, zapping>>

ReadsFile ==
  /\ pc = "body" /\ call.op = "read"
  /\ LET current == Clamped(m_currentPosition) IN
     \E i \in FilesAt(current) : ReadFailsAt(i, current) \/ ReadsFrom(i, current)

\* SetFilePointer, within what there is.
Target(method, n) ==
  LET to == n + CASE method = "begin" -> m_startPosition
                  [] method = "current" -> m_currentPosition
                  [] method = "end" -> m_endPosition
      above == Clamped(to)
  IN  IF above > m_endPosition THEN m_endPosition ELSE above

\* A zap without a file id goes to the begin or the end, and from the end back to the
\* position, if there is one, by another call.
SetFilePointer ==
  /\ pc = "body" /\ (call.op = "seek" \/ (call.op = "zap" /\ call.id = None))
  /\ m_currentPosition' = Target(call.method, IF call.op = "zap" THEN 0 ELSE call.n)
  /\ moved' = TRUE /\ copied' = Nothing
  /\ zapping' = (zapping \/ call.op = "zap")
  /\ IF call.op = "zap" /\ call.n > 0 /\ m_currentPosition' > call.n
     THEN /\ Begin("seek", "current", call.n - m_currentPosition', None)
          /\ Continues
     ELSE Returns
  /\ UNCHANGED <<m_lastZapPosition, handle, faults>>

\* The file with the id; the last one when there is none.
FileOf(id) ==
  LET having == {i \in DOMAIN m_tsFiles : m_tsFiles[i].id = id}
  IN  m_tsFiles[IF having = {} THEN Len(m_tsFiles) ELSE CHOOSE i \in having : TRUE]

\* Mutant: the file is not changed.
SwitchesFileNever(id, pos) == FALSE

\* The file is changed only for a move forward.  An open that fails is not noticed.
SwitchesFile(id, pos) ==
  /\ m_TSFileId # id
  /\ m_currentPosition < FileOf(id).start + pos

SetCurrentFilePointer ==
  /\ pc = "body" /\ call.op = "zap" /\ call.id # None
  /\ moved' = TRUE /\ copied' = Nothing /\ zapping' = TRUE
  /\ \/ /\ m_tsFiles = <<>> /\ m_TSFileId # call.id
        /\ UNCHANGED <<m_currentPosition, handle, faults>>
     \/ /\ m_tsFiles # <<>> \/ m_TSFileId = call.id
        /\ IF SwitchesFile(call.id, call.n)
           THEN LET f == FileOf(call.id)
                IN  /\ \E opened \in BOOLEAN : OpensFile(f, opened)
                    /\ m_TSFileId' = f.id /\ m_currentFileStartOffset' = f.start
           ELSE UNCHANGED <<handle, faults>>
        /\ LET to == m_currentFileStartOffset' + call.n
           IN  m_currentPosition' = IF to > m_endPosition THEN m_endPosition ELSE to
  /\ Returns
  /\ UNCHANGED m_lastZapPosition

-----------------------------------------------------------------------------

Init ==
  /\ written = 1 /\ removed = 0
  /\ base = [n \in 1..MaxFiles |-> 0] /\ size = [n \in 1..MaxFiles |-> 0]
  /\ tsbuffer = [position |-> 0, added |-> 0, removed |-> 0]
  /\ m_tsFiles = <<>> /\ m_filesAdded = 0 /\ m_filesRemoved = 0
  /\ m_startPosition = 0 /\ m_endPosition = 0
  /\ m_currentPosition = 0 /\ m_lastZapPosition = 0
  /\ m_TSFileId = None /\ m_TSFile = None /\ m_currentFileStartOffset = 0
  /\ zapping = FALSE
  /\ origin = 0 /\ lapped = FALSE /\ mismeasured = FALSE /\ refreshed = FALSE
  /\ copied = Nothing /\ moved = TRUE
  /\ m_TSBufferFile = FALSE
  /\ tries = 0 /\ header = NoHeader /\ list = NoList
  /\ pc = "closed" /\ call = NoCall
  /\ rolls = 0 /\ moves = 0 /\ faults = 0

\* The positions a server answers to a tune: the end of its timeshift, or none.
Zap ==
  \/ OnZap(size[written], written) \/ OnZap(size[written], None)
  \/ OnZap(-1, None) \/ OnZap(0, None)

Refresh == ReadHeader \/ NotRefreshed \/ ReadList \/ ReadFooter \/ ApplyCounts \/ AppendFile

Body == Opened \/ Sized \/ ReadsNothing \/ ReadsFile \/ SetFilePointer \/ SetCurrentFilePointer

Next ==
  \/ Server
  \/ OpenFile \/ OpenTimesOut \/ CloseFile
  \/ (\E n \in Requests : Read(n)) \/ (\E move \in Moves : Seek(move)) \/ Zap
  \/ GetFileSize \/ OnChannelChange
  \/ Refresh \/ ReadFails
  \/ Body

Spec == Init /\ [][Next]_vars

\* The scheduler, the clock, the server and a Kodi that goes on reading are fair.
Fairness ==
  /\ WF_vars(Server)
  /\ WF_vars(OpenFile) /\ WF_vars(OpenTimesOut)
  /\ WF_vars(Refresh) /\ WF_vars(Body)
  /\ WF_vars(\E n \in Requests : Read(n)) /\ WF_vars(OnChannelChange)

FairSpec == Spec /\ Fairness

-----------------------------------------------------------------------------

Files == [number : 1..MaxFiles, id : 1..MaxFiles, start : Nat, length : Nat]

\* The types of the variables.
TypeOK ==
  /\ written \in 1..MaxFiles /\ removed \in 0..MaxFiles
  /\ base \in [1..MaxFiles -> Nat] /\ size \in [1..MaxFiles -> Nat]
  /\ tsbuffer \in [position : Nat, added : 0..MaxFiles, removed : 0..MaxFiles]
  /\ m_tsFiles \in Seq(Files)
  /\ m_filesAdded \in 0..MaxFiles /\ m_filesRemoved \in 0..MaxFiles
  /\ m_startPosition \in Nat /\ m_endPosition \in Nat
  /\ m_currentPosition \in Nat /\ m_lastZapPosition \in Nat
  /\ m_TSFileId \in 0..MaxFiles /\ m_TSFile \in 0..MaxFiles /\ m_currentFileStartOffset \in Nat
  /\ tries \in 0..Tries
  /\ pc \in {"closed", "opening", "idle", "header", "list", "footer", "apply", "append", "body", "gone"}
  /\ call.op \in {"none", "open", "read", "seek", "zap", "size"}
  /\ origin \in Nat /\ zapping \in BOOLEAN /\ m_TSBufferFile \in BOOLEAN
  /\ moved \in BOOLEAN /\ lapped \in BOOLEAN /\ mismeasured \in BOOLEAN /\ refreshed \in BOOLEAN

\* Whatever the server does between the three reads of a refresh, and whatever fails: the
\* reader numbers the files as the server does (the ids of the server's zap positions mean the
\* same files), one file's coordinates begin where the last one's end, and they are those of
\* the stream unless the length of a file that is in them could not be read.
ListIsTrue ==
  /\ TypeOK
  /\ \A i \in DOMAIN m_tsFiles :
       LET f == m_tsFiles[i]
       IN  /\ f.id = f.number
           /\ i > 1 => f.start = m_tsFiles[i - 1].start + m_tsFiles[i - 1].length
           /\ ~mismeasured => /\ f.start + origin = base[f.number]
                              /\ i < Len(m_tsFiles) => f.length = Lengths[f.number]

\* What Kodi gets for a coordinate is the unit of the stream that belongs there, although
\* names come back and files grow while they are read, and all of what was wanted of the file
\* unless the file's own Read fails; after a length that could not be read the coordinates
\* are others.
TrueContent ==
  [][pc = "body" /\ copied' # copied /\ ~moved' =>
       /\ copied'.n = copied'.asked \/ faults' # faults
       /\ ~mismeasured => copied'.unit = copied'.at + origin]_vars

\* Reads go through the stream without a hole or a repetition, across files and refreshes: a
\* Read that fails loses what was wanted from it and nothing else.  But for seeks and zaps,
\* for reads of a list that could not be refreshed or measured, for the first read after the
\* reader has been lapped, and for units that the server has removed meanwhile.
NoHole ==
  [][pc = "body" /\ copied' # copied /\ ~moved /\ ~moved' /\ ~mismeasured =>
       \/ copied'.unit = copied.unit + copied.asked
       \/ copied'.at = m_startPosition /\ copied'.unit > copied.unit + copied.asked]_vars

\* Both together: Kodi gets the stream.
ReadsTheStream == TrueContent /\ NoHole

\* A zap goes to where the server says that the new channel begins, or to the end of what
\* is known of it, as long as the list has the file and its coordinates are the stream's, and
\* nothing has been sought since the last read.
ZapLands ==
  [][SetCurrentFilePointer /\ refreshed /\ ~mismeasured /\ ~moved
       /\ (\E i \in DOMAIN m_tsFiles : m_tsFiles[i].id = call.id) =>
       LET to == base[call.id] + call.n - origin
       IN  m_currentPosition' = IF to > m_endPosition THEN m_endPosition ELSE to]_vars

AtEnd == m_currentPosition + origin = base[written] + size[written]

\* A Kodi that goes on reading gets to the last unit of the stream, after any seek, zap,
\* refresh, read or open of a file that failed; not if the reader has been lapped, if a length
\* could not be read, or if a file is not open any more: the .tsbuffer file, which every Read
\* then refuses to go without, or the file that the reader takes to be open.
CatchesUp ==
  \/ <>[]AtEnd
  \/ <>(lapped \/ mismeasured \/ pc = "gone")
  \/ <>[](pc # "closed" /\ pc # "opening" /\ ~m_TSBufferFile)
  \/ <>[](m_TSFileId # None /\ m_TSFile = None)
=============================================================================
