-------------------------------- MODULE Backend --------------------------------
(***************************************************************************)
(* What Kodi knows of the TV server and changes at it: timers, recordings,  *)
(* guide and signal, each on its own in one state space.  part says which   *)
(* of them a behaviour is of, the others stay as they begin.                *)
(***************************************************************************)
EXTENDS Integers, Sequences, TLC

CONSTANTS
  Programs, FieldCounts, Dialogs, Day, Now, Chosen, Lifetimes, Margins, OtherKeeps,
  MaxSchedules, MaxId,                                         \* Timers
  DialogPrograms, DialogFields, DialogTypes, DialogLifetimes,
  DialogKeeps, DialogMaxId,                                    \* with the old series dialog
  Builds, FolderModes, FolderCards, InFolders, Titles, Positions,
  MaxRecordings, MaxConnects,                                  \* Recordings
  PlayingBuilds, Modes, CardLists, ToPlay, EdlLines, PlayingConnects, \* that are played
  Lineups, Filters, Settings, GuideLines, GenreTypes,
  MaxLines, MaxChanges,                                        \* Guide
  Channels                                                     \* SignalStatus

\* Times are after the epoch and a day takes some; the server numbers schedules and programs from
\* 1 and does not get to the numbers that the programs of a series have in Kodi; the type of manual
\* timers is Kodi's own.
ASSUME TimersAssumption ==
  /\ Day \in Nat \ {0} /\ Now \in Nat \ {0}
  /\ FieldCounts \subseteq Nat
  /\ \A p \in Programs : p.id \in Nat \ {0} /\ p.start \in Nat \ {0}
  /\ "KodiManual" \notin Chosen
  /\ \A k \in OtherKeeps :
       k.keep \in {"UntilSpaceNeeded", "UntilWatched", "TillDate", "Always"} /\ k.date \in Nat
  /\ MaxId \in Nat /\ MaxId < 134217727

\* The settings of the guide are switches; the bound is a number.
ASSUME GuideAssumption ==
  /\ Settings \subseteq [radioEnabled : BOOLEAN, onlyFTA : BOOLEAN, readGenre : BOOLEAN]
  /\ MaxLines \in Nat

VARIABLES
  part,
  config, schedules, canceled, nextId, kodi, update, unseen, dialog,
  mode, settings, cards, connects, recordings, shown, triggered, missed, selected, playing, edl,
  options, filters, lineup, channels, groups, members, readOf, changes, broadcasts,
  m_iCurrentChannel, m_signalStateCounter, m_iSignal, asked, calls

timers == <<config, schedules, canceled, nextId, kodi, update, unseen, dialog>>
stored == <<mode, settings, cards, connects, recordings, shown, triggered, missed, selected, playing, edl>>
guide == <<options, filters, lineup, channels, groups, members, readOf, changes, broadcasts>>
signal == <<m_iCurrentChannel, m_signalStateCounter, m_iSignal, asked, calls>>

-----------------------------------------------------------------------------

Timers == INSTANCE Timers
Dialog == INSTANCE Timers WITH Programs <- DialogPrograms, FieldCounts <- DialogFields, Dialogs <- {TRUE},
                               Chosen <- DialogTypes, Lifetimes <- DialogLifetimes,
                               OtherKeeps <- DialogKeeps, MaxId <- DialogMaxId
Folders == INSTANCE Recordings WITH config <- mode, kodi <- shown, update <- triggered, unseen <- missed,
                                    Modes <- FolderModes, CardLists <- FolderCards, Programs <- InFolders,
                                    EdlLines <- {}, MaxId <- MaxRecordings
Playing == INSTANCE Recordings WITH config <- mode, kodi <- shown, update <- triggered, unseen <- missed,
                                    Builds <- PlayingBuilds, Programs <- ToPlay, Titles <- {},
                                    Positions <- {}, MaxId <- MaxRecordings, MaxConnects <- PlayingConnects
Guide == INSTANCE Guide WITH config <- options
Signal == INSTANCE SignalStatus

\* Recordings: a recording is in a folder below a drive, the names of its path have no separator in
\* them, and no card's folder but its own is found in that path.
ASSUME RecordingsAssumption ==
  /\ MaxRecordings \in Nat
  /\ \A list \in FolderCards \cup CardLists : list \in Seq([folder : Seq(STRING), unc : Seq(STRING)])
  /\ \A p \in InFolders \cup ToPlay :
       /\ p.folder \in Seq(STRING) /\ Len(p.folder) >= 3 /\ p.below \in Seq(STRING)
       /\ \A id \in 1 .. MaxRecordings :
            /\ \A i \in 1 .. Len(p.below) + 1 :
                 LET name == Folders!NameOf(Append(p.below, Folders!FileName(id))[i])
                 IN  name[1] # Folders!Separator /\ name[2] # Folders!Separator
            /\ \A list \in FolderCards \cup CardLists : \A i \in 1 .. Len(list) :
                 Folders!FoundIn(Folders!PathOf(p, id), list[i].folder) => list[i].folder = p.folder
  /\ \A lines \in EdlLines : \A i \in DOMAIN lines : lines[i].start \in Int /\ lines[i].stop \in Int

Init ==
  /\ part \in {"timers", "dialog", "folders", "playing", "guide", "signal"}
  /\ IF part = "dialog" THEN Dialog!Init ELSE Timers!Init
  /\ IF part = "playing" THEN Playing!Init ELSE Folders!Init
  /\ Guide!Init
  /\ part # "guide" =>
       /\ options = CHOOSE o \in Settings : TRUE
       /\ filters = [radio \in BOOLEAN |-> <<>>]
       /\ lineup = CHOOSE l \in Lineups : TRUE
  /\ Signal!Init

Others ==
  /\ UNCHANGED part
  /\ IF part \in {"timers", "dialog"} THEN TRUE ELSE UNCHANGED timers
  /\ IF part \in {"folders", "playing"} THEN TRUE ELSE UNCHANGED stored
  /\ IF part = "guide" THEN TRUE ELSE UNCHANGED guide
  /\ IF part = "signal" THEN TRUE ELSE UNCHANGED signal

Next ==
  \/ part = "timers" /\ Timers!Next /\ Others
  \/ part = "dialog" /\ Dialog!Next /\ Others
  \/ part = "folders" /\ Folders!Next /\ Others
  \/ part = "playing" /\ Playing!Next /\ Others
  \/ part = "guide" /\ Guide!Next /\ Others
  \/ part = "signal" /\ Signal!Next /\ Others

vars == <<part, timers, stored, guide, signal>>
Spec == Init /\ [][Next]_vars

-----------------------------------------------------------------------------

\* DeleteTimer of a program of a series stops that program, once it is answered, and nothing else.
OneEpisodeOnly == [][part = "timers" => Timers!OneEpisodeOnly]_vars

\* GetPVRtimerinfo and UpdateTimer: but for priority and time of the keep date, all that the user has
\* not edited comes back as it was.
EditKeepsTheRest == [][part = "timers" => Timers!EditKeepsTheRest]_vars

\* CGUIDialogRecordSettings: what is stored is what the window shows.
DialogStoresWhatItShows == [][part = "dialog" => Dialog!DialogStoresWhatItShows]_vars

\* TriggerTimerUpdate: Kodi's timers are the server's, up to what it has been told of.
ListIsCurrent ==
  /\ part = "timers" => Timers!ListIsCurrent
  /\ part = "dialog" => Dialog!ListIsCurrent

\* GetRecordings, SplitFilePath: Kodi's recordings are the server's, in their folders, where
\* RecordingsAssumption holds of the cards.
RecordingsAsStored ==
  /\ part = "folders" => Folders!RecordingsAsStored
  /\ part = "playing" => Playing!RecordingsAsStored

\* GetRecordingInfo: what is played, and cut, is the recording that Kodi has asked for, where
\* RecordingsAssumption holds of the cards.
OfTheOneAsked == part = "playing" => Playing!OfTheOneAsked

\* GetChannelGroupMembers: the members of a group are in the list of channels.
MembersExist == part = "guide" => Guide!MembersExist

\* cEpg: no program has a field of the one before.
ProgramsAreTheirOwn == part = "guide" => Guide!ProgramsAreTheirOwn

\* GetSignalStatus: the signal of another channel is not shown for longer than it is repeated.
SignalNotStale == part = "signal" => Signal!SignalNotStale
=============================================================================
