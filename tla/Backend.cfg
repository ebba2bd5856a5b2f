SPECIFICATION Spec
CONSTANTS
  Programs <- ThePrograms
  FieldCounts = {22}
  Dialogs = {FALSE}
  Day = 4
  Now = 5
  Chosen = {"Once", "EveryTimeOnEveryChannel"}
  Lifetimes <- TheLifetimes
  Margins = {5}
  OtherKeeps <- TheKeeps
  MaxSchedules = 1
  MaxId = 2
  DialogPrograms <- TheDialogPrograms
  DialogFields = {18}
  DialogTypes = {"Once"}
  DialogLifetimes <- TheDialogLifetimes
  DialogKeeps = {}
  DialogMaxId = 1
  Builds = {121}
  FolderModes <- TheFolderModes
  FolderCards <- TheNewCards
  InFolders <- TheInFolders
  Titles = {"show"}
  Positions = {7}
  MaxRecordings = 2
  MaxConnects = 1
  PlayingBuilds = {116}
  Modes <- TheModes
  CardLists <- TheCards
  ToPlay <- TheToPlay
  EdlLines <- TheEdl
  PlayingConnects = 2
  Lineups <- TheLineups
  Filters <- TheFilters
  Settings <- TheOptions
  GuideLines <- TheLines
  GenreTypes = {"sports"}
  MaxLines = 2
  MaxChanges = 1
  Channels = {"c1", "c2"}
CHECK_DEADLOCK FALSE
PROPERTY OneEpisodeOnly
 
PROPERTY DialogStoresWhatItShows
INVARIANT ListIsCurrent
INVARIANT RecordingsAsStored
INVARIANT OfTheOneAsked
INVARIANT MembersExist
INVARIANT ProgramsAreTheirOwn
INVARIANT SignalNotStale
