------------------------------- MODULE Recordings -------------------------------
(***************************************************************************)
(* The recordings of the TV server as Kodi shows and plays them:            *)
(* cRecording, the folders of CCards, and the recording calls of the client. *)
(* GetRecordingInfo keeps the recording that was asked for last.  Times,     *)
(* genres and the other fields that are only copied are left out.           *)
(***************************************************************************)
EXTENDS Integers, SequencesExt, FiniteSetsExt, TLC

CONSTANTS
  Builds,     \* of TVServerKodi
  Modes,      \* settings: records [ffmpeg, rtsp, resolve]
  CardLists,  \* the settings of the cards that the server may have: sequences of records of
              \* the folder and of its share in the network (unc), which may be missing
  Programs,   \* what it may record: [folder, below, title, episode, stream, dated]
  Titles, Positions,
  EdlLines,   \* lines of .edl files: [fields, start, stop, type]
  MaxId, MaxConnects  \* bounds: recordings ever, and connections

VARIABLES
  config,     \* the build and the settings
  settings,   \* of the cards, at the server
  cards,      \* m_cCards
  connects,
  recordings, \* the server's: record id is at place id
  kodi,       \* the recordings that Kodi has read last
  update,     \* Kodi has been told to read them again
  unseen,     \* a change that Kodi cannot know of since it read its recordings
  selected,   \* m_lastSelectedRecording
  playing,    \* the file or url that m_tsreader, or Kodi itself, has been given
  edl         \* the cuts that Kodi has read

vars == <<config, settings, cards, connects, recordings, kodi, update, unseen, selected, playing, edl>>

Empty == <<>>             \* ""
Separator == "\\"         \* a backslash; two of them begin the name of a share
Unc == "\\\\"
NoEpisode == ""
EdlComBreak == 3          \* the last type of a cut

None == [index |-> -1]
Nothing == [asked |-> -1, file |-> Empty]
NoEdl == [asked |-> -1, file |-> Empty, entries |-> <<>>]

-----------------------------------------------------------------------------
(* cRecording and CCards                                                   *)

\* A name is its first letter and the rest: a cut in the wrong place takes one of the two.
NameOf(name) == <<name \o "_", name>>

FileName(id) == "file" \o ToString(id)

\* Each name behind a separator.
Joined(names) ==
  [i \in 1 .. 3 * Len(names) |->
     LET name == NameOf(names[(i + 2) \div 3])
     IN  CASE i % 3 = 1 -> Separator
           [] i % 3 = 2 -> name[1]
           [] OTHER -> name[2]]

\* The full path as the server tells it.
PathOf(program, id) == program.folder \o Joined(Append(program.below, FileName(id)))

FoundIn(path, folder) ==
  \E from \in DOMAIN path : IsPrefix(folder, SubSeq(path, from, Len(path)))

\* Mutant: the separator stays.
BelowWithSeparator(path, folder) == SubSeq(path, Len(folder) + 1, Len(path))

\* The base path is cut off the front, wherever the folder has been found.
Below(path, folder) == SubSeq(path, Len(folder) + 2, Len(path))

\* m_directory: what remains of the path up to its last separator.
SplitFilePath(path) ==
  LET known == {i \in DOMAIN cards : Len(cards[i].folder) >= 3 /\ FoundIn(path, cards[i].folder)}
      rest == Below(path, cards[Min(known)].folder)
      ends == {i \in DOMAIN rest : rest[i] = Separator}
  IN  IF known = {} \/ ends = {} THEN Empty ELSE SubSeq(rest, 1, Max(ends) - 1)

\* A line whose dates cannot be converted ends the parsing behind the index.
ParseLine(id) ==
  LET r == recordings[id] IN
  [index |-> id, dated |-> r.dated,
   stream |-> IF r.dated THEN r.stream ELSE Empty,
   filePath |-> IF r.dated THEN r.path ELSE Empty]

\* GetRecordings: Kodi shows one level of folders; in the folder of a series the title is that
\* of the episode, too.
Tag(id, directory) ==
  LET r == recordings[id]
      ofSeries == directory = NameOf(r.title) /\ r.episode # NoEpisode
  IN  [id |-> id,
       directory |-> [i \in DOMAIN directory |-> IF directory[i] = Separator THEN " - " ELSE directory[i]],
       title |-> IF ofSeries THEN <<r.title, r.episode>> ELSE <<r.title>>,
       watched |-> r.watched, stop |-> r.stop]

Stored == {id \in DOMAIN recordings : ~recordings[id].deleted}
Listed == {id \in Stored : recordings[id].dated}

-----------------------------------------------------------------------------
(* The files that the reader can open                                      *)

\* The share gets the scheme of Kodi's file system, with the user in it.
ToKodiPath(path) ==
  IF path = Empty \/ path[1] # Unc THEN path
  ELSE [i \in DOMAIN path |-> CASE path[i] = Unc -> "smb://"
                               [] path[i] = Separator -> "/"
                               [] OTHER -> path[i]]

\* Mutant: the share takes the place of the drive's letter only.
ReplacedDrive(path, folder, unc) == unc \o SubSeq(path, 2, Len(path))

\* StringUtils::Replace; a folder is in a path once.
Replaced(path, folder, unc) ==
  LET at == Min({from \in DOMAIN path : IsPrefix(folder, SubSeq(path, from, Len(path)))})
  IN  SubSeq(path, 1, at - 1) \o unc \o SubSeq(path, at + Len(folder), Len(path))

\* TranslatePath without a card's id: the first share found, or else the path itself, if Kodi can
\* see the file there, or nothing.
TranslatePath(path) ==
  LET shared == {i \in DOMAIN cards : cards[i].unc # Empty /\ FoundIn(path, cards[i].folder)}
      card == cards[Min(shared)]
  IN  IF shared = {} THEN {ToKodiPath(path), Empty}
      ELSE {ToKodiPath(Replaced(path, card.folder, card.unc))}

\* CTsReader::Open: a url is opened as it is.
Opened(file) == IF file[1] = "rtsp" THEN {file} ELSE TranslatePath(file)

-----------------------------------------------------------------------------
(* The calls of Kodi                                                       *)

\* SendCommand and the answer "True", a refusal, or an answer that does not come.
Commanded(command) ==
  \/ command /\ update' = TRUE /\ UNCHANGED unseen
  \/ command /\ unseen' = TRUE /\ UNCHANGED update
  \/ UNCHANGED <<recordings, update, unseen>>

Change(id, r) == id \in Stored /\ recordings' = [recordings EXCEPT ![id] = r]

\* CCards::ParseLines: the list of the connection before stays in front.
ParseCards == cards \o settings

\* LoadCardSettings; Kodi reads its recordings when it is connected.
Connect ==
  /\ connects < MaxConnects
  /\ connects' = connects + 1
  /\ \/ cards' = ParseCards
     \/ UNCHANGED cards
  /\ update' = TRUE
  /\ UNCHANGED <<config, settings, recordings, kodi, unseen, selected, playing, edl>>

\* No answer is an empty list to Kodi.
GetRecordings ==
  /\ \/ kodi' = {Tag(id, SplitFilePath(recordings[id].path)) : id \in Listed} /\ unseen' = FALSE
     \/ kodi' = {} /\ unseen' = TRUE
  /\ update' = FALSE
  /\ UNCHANGED <<config, settings, cards, connects, recordings, selected, playing, edl>>

Sent(id, r) ==
  /\ Commanded(Change(id, r))
  /\ UNCHANGED <<config, settings, cards, connects, kodi, selected, playing, edl>>

DeleteRecording(tag) == Sent(tag.id, [recordings[tag.id] EXCEPT !.deleted = TRUE])
RenameRecording(tag, title) == Sent(tag.id, [recordings[tag.id] EXCEPT !.title = title])
SetRecordingPlayCount(tag, count) ==
  config.build >= 117 /\ Sent(tag.id, [recordings[tag.id] EXCEPT !.watched = count])
SetRecordingLastPlayedPosition(tag, position) ==
  config.build >= 121 /\ Sent(tag.id, [recordings[tag.id] EXCEPT !.stop = Max({position, 0})])

\* Mutant: whatever was selected last.
IsSelectedAny(id) == selected # None

IsSelected(id) == selected # None /\ selected.index = id

\* The answers to GetRecordingInfo.  What could not be parsed stays selected.
Infos(id) ==
  IF IsSelected(id) THEN {selected}
  ELSE {None} \cup (IF id \in Stored THEN {ParseLine(id)} ELSE {})

\* selected before this call, or all of the line has been parsed.
IsInfo(info) == info # None /\ (info.dated \/ info = selected)

\* The file or, by rtsp, the url; the other one when it is missing.
FileOf(info) ==
  LET wanted == IF config.rtsp THEN info.stream ELSE info.filePath IN
  IF wanted # Empty THEN wanted ELSE IF config.rtsp THEN info.filePath ELSE info.stream

\* A new reader is there whether or not it could open the file.
OpenRecordedStream(tag) ==
  /\ ~config.ffmpeg
  /\ \E info \in Infos(tag.id) :
       /\ selected' = info
       /\ IF IsInfo(info) /\ FileOf(info) # Empty
          THEN \E file \in Opened(FileOf(info)) : playing' = [asked |-> tag.id, file |-> file]
          ELSE UNCHANGED playing
       /\ update' = (update \/ (IsInfo(info) /\ FileOf(info) = Empty))
  /\ UNCHANGED <<config, settings, cards, connects, recordings, kodi, unseen, edl>>

CloseRecordedStream ==
  /\ playing # Nothing
  /\ playing' = Nothing
  /\ UNCHANGED <<config, settings, cards, connects, recordings, kodi, update, unseen, selected, edl>>

\* In ffmpeg mode Kodi plays the url itself.
GetRecordingStreamProperties(tag) ==
  /\ \E info \in Infos(tag.id) :
       /\ selected' = info
       /\ playing' = IF IsInfo(info) /\ config.ffmpeg
                     THEN [asked |-> tag.id, file |-> info.stream] ELSE playing
  /\ UNCHANGED <<config, settings, cards, connects, recordings, kodi, update, unseen, edl>>

\* A line of the file: start and stop, never negative and never the wrong way round.
EntryOf(line) ==
  LET start == Max({line.start, 0})
      stop == Max({line.stop, 0})
  IN  [start |-> Min({start, stop}), stop |-> Max({Min({start, stop}), stop}), type |-> line.type]

\* Each at the line that it is of; other lines are ignored.
EntriesOf(lines) ==
  LET good == {i \in DOMAIN lines : lines[i].fields >= 2 /\ lines[i].type <= EdlComBreak}
  IN  [i \in good |-> EntryOf(lines[i])]

\* The file is next to the recording.  m_tsreader is used without a test: a call without a reader,
\* in ffmpeg mode every call, is the end of the process, and no behaviour goes on from there.
GetRecordingEdl(tag, lines) ==
  /\ playing # Nothing /\ ~config.ffmpeg
  /\ \E info \in Infos(tag.id) :
       /\ selected' = info
       /\ IF IsInfo(info)
          THEN \E file \in TranslatePath(info.filePath) :
                 edl' = IF file = Empty THEN edl
                        ELSE [asked |-> tag.id, file |-> file, entries |-> EntriesOf(lines)]
          ELSE UNCHANGED edl
  /\ UNCHANGED <<config, settings, cards, connects, recordings, kodi, update, unseen, playing>>

-----------------------------------------------------------------------------
(* The server                                                              *)

Record(program) ==
  LET id == Len(recordings) + 1 IN
  /\ id <= MaxId
  /\ recordings' = Append(recordings,
       [path |-> PathOf(program, id), below |-> program.below, folder |-> program.folder,
        stream |-> IF program.stream THEN <<"rtsp", id>> ELSE Empty, title |-> program.title,
        episode |-> program.episode, dated |-> program.dated,
        deleted |-> FALSE, watched |-> 0, stop |-> 0])

Others ==
  /\ \/ \E program \in Programs : Record(program)
     \/ \E id \in Stored : Change(id, [recordings[id] EXCEPT !.deleted = TRUE])
  /\ unseen' = TRUE
  /\ UNCHANGED <<config, settings, cards, connects, kodi, update, selected, playing, edl>>

NewSettings(list) ==
  /\ settings # list /\ settings' = list
  /\ UNCHANGED <<config, cards, connects, recordings, kodi, update, unseen, selected, playing, edl>>

Init ==
  /\ config \in {mode @@ ("build" :> build) : mode \in Modes, build \in Builds}
  /\ settings \in CardLists /\ cards = <<>> /\ connects = 0
  /\ recordings = <<>> /\ kodi = {} /\ update = FALSE /\ unseen = TRUE
  /\ selected = None /\ playing = Nothing /\ edl = NoEdl

Next ==
  \/ Connect
  \/ GetRecordings
  \/ \E tag \in kodi : DeleteRecording(tag)
  \/ \E tag \in kodi, title \in Titles : RenameRecording(tag, title)
  \/ \E tag \in kodi : SetRecordingPlayCount(tag, 1)
  \/ \E tag \in kodi, position \in Positions : SetRecordingLastPlayedPosition(tag, position)
  \/ \E tag \in kodi : OpenRecordedStream(tag)
  \/ CloseRecordedStream
  \/ \E tag \in kodi : GetRecordingStreamProperties(tag)
  \/ \E tag \in kodi, lines \in EdlLines : GetRecordingEdl(tag, lines)
  \/ Others
  \/ \E list \in CardLists : NewSettings(list)

Spec == Init /\ [][Next]_vars

-----------------------------------------------------------------------------

\* The folders with separators between them.
FoldersOf(below) == IF below = <<>> THEN Empty ELSE Tail(Joined(below))

\* TriggerRecordingUpdate, SplitFilePath: when Kodi has not been told to read its recordings
\* again, and all commands have been answered, it shows those of the server, each below the
\* folders that the server has put it in and with its title, if the client knows the card.  That
\* is for cards that record in a folder below a drive, which no other path has in it: in the root
\* of a drive SplitFilePath cuts off a letter, and it takes the first card whose folder it finds.
RecordingsAsStored ==
  ~update /\ ~unseen
    /\ (\A id \in Listed : \E i \in DOMAIN cards : cards[i].folder = recordings[id].folder)
  => kodi = {Tag(id, FoldersOf(recordings[id].below)) : id \in Listed}

\* The names under which Kodi looks for a file of the server: as the server calls it, or on a share
\* that the folder has, or has had.
NamesOf(r) ==
  {ToKodiPath(r.path)} \cup
    {ToKodiPath(c.unc \o SubSeq(r.path, Len(c.folder) + 1, Len(r.path))) :
       c \in {cards[i] : i \in {j \in DOMAIN cards : cards[j].folder = r.folder}}}

\* GetRecordingInfo answers from the recording that was selected last, TranslatePath from the cards
\* of all connections so far: whatever has been deleted, renamed, not answered or set anew
\* meanwhile, what plays, and where its cuts are read, is of the recording that Kodi asked for,
\* on a share that its card has had; and a cut ends after its start.  (A share of long ago is found
\* first, as the list only grows; a card whose folder is in the path of another's is left out.)
OfTheOneAsked ==
  /\ playing # Nothing /\ playing.file # Empty =>
       LET r == recordings[playing.asked] IN playing.file \in NamesOf(r) \cup {r.stream}
  /\ edl # NoEdl =>
       /\ edl.file \in NamesOf(recordings[edl.asked])
       /\ \A i \in DOMAIN edl.entries : 0 <= edl.entries[i].start /\ edl.entries[i].start <= edl.entries[i].stop
=============================================================================
