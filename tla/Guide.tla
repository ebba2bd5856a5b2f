--------------------------------- MODULE Guide ---------------------------------
(***************************************************************************)
(* What Kodi shows of the TV server's channels, groups and programs:        *)
(* cChannel, cEpg, CGenreTable and the calls GetChannels, GetChannelGroups,  *)
(* GetChannelGroupMembers and GetEPGForChannel.  The groups in the settings  *)
(* are one string, names separated by "|"; here a sequence of words.  Users  *)
(* change the settings while Kodi reads.                                    *)
(***************************************************************************)
EXTENDS Integers, SequencesExt, FiniteSetsExt

CONSTANTS
  Lineups,   \* what the server may have: sets of channels [uid, radio, encrypted, number, groups]
  Filters,   \* the settings TvGroup and RadioGroup, sequences of words, "|" and ";"
  Settings,  \* records [radioEnabled, onlyFTA, readGenre]
  GuideLines,\* the lines that GetEPG may answer: [id, fields, dated, aired, genre]
  GenreTypes,\* genre_translation.xml: the genres it has
  MaxLines, MaxChanges   \* bounds: lines of an answer; new lineups and settings

VARIABLES
  config,    \* the settings
  filters,   \* those of the groups, by list, radio or not
  lineup,    \* the server's
  channels, groups, members,  \* what Kodi has read last, by list
  readOf,    \* the lineup and the settings that the channels are from, by list
  changes,
  broadcasts \* of the last GetEPGForChannel, and the lines they come from

vars == <<config, filters, lineup, channels, groups, members, readOf, changes, broadcasts>>

AllChannels == <<"All", "Channels">>
NoGenre == ""
NotRead == [uid |-> -1, number |-> 0]

-----------------------------------------------------------------------------
(* Settings                                                                *)

\* CSettings::Load: users may separate the groups by ";".
Loaded(text) == [i \in DOMAIN text |-> IF text[i] = ";" THEN "|" ELSE text[i]]

\* CSettings::SetSetting takes the text as it is.  ReadGenre matters to the constructor only.
SetOption(name) ==
  /\ name \in {"radioEnabled", "onlyFTA"}
  /\ config' = [config EXCEPT ![name] = ~@]
  /\ UNCHANGED filters

SetGroups(radio, text) ==
  /\ filters[radio] # text
  /\ filters' = [filters EXCEPT ![radio] = text]
  /\ UNCHANGED config

SetSetting ==
  /\ changes < MaxChanges /\ changes' = changes + 1
  /\ \/ \E name \in DOMAIN config : SetOption(name)
     \/ \E radio \in BOOLEAN, text \in Filters : SetGroups(radio, text)
  /\ UNCHANGED <<lineup, channels, groups, members, readOf, broadcasts>>

\* What the answers come from.
Basis == <<lineup, config>>

-----------------------------------------------------------------------------
(* Channels and groups                                                     *)

\* The names in a setting, which the server splits at the separators.
NamesIn(filter) ==
  LET cuts == {0, Len(filter) + 1} \cup {i \in DOMAIN filter : filter[i] = "|"}
  IN  {SubSeq(filter, a + 1, Min({b \in cuts : b > a}) - 1) : a \in cuts \ {Len(filter) + 1}}

ServerList(radio, names) ==
  {c \in lineup : c.radio = radio /\ (names = {} \/ c.groups \cap names # {})}

ServerGroups(radio) == (UNION {c.groups : c \in {d \in lineup : d.radio = radio}}) \cup {AllChannels}

\* The number of a channel is ATSC's, if it has one.
Shown(c) == [uid |-> c.uid, number |-> c.number]

\* Mutant: the option OnlyFTA is forgotten.
AddedAlways(c) == TRUE

\* GetChannelGroupMembers has to leave out what GetChannels leaves out.
Added(c) == ~config.onlyFTA \/ ~c.encrypted

\* No list of radio channels unless they are enabled.
Asked(radio) == ~radio \/ config.radioEnabled

GetChannels(radio) ==
  /\ channels' = [channels EXCEPT ![radio] =
       IF ~Asked(radio) THEN {}
       ELSE {Shown(c) : c \in {d \in ServerList(radio, IF filters[radio] = <<>> THEN {}
                                                       ELSE NamesIn(filters[radio])) :
                                 ~config.onlyFTA \/ ~d.encrypted}}]
  /\ readOf' = [readOf EXCEPT ![radio] = [basis |-> Basis, filter |-> filters[radio]]]
  /\ UNCHANGED <<config, filters, lineup, groups, members, changes, broadcasts>>

\* filters.find: the name of a group is looked for anywhere in the setting.
IsImported(radio, group) ==
  filters[radio] = <<>> \/ \E i, j \in DOMAIN filters[radio] : SubSeq(filters[radio], i, j) = group

\* Kodi reads the groups after the channels.
GetChannelGroups(radio) ==
  /\ NotRead \notin channels[radio]
  /\ groups' = [groups EXCEPT ![radio] =
       IF Asked(radio) THEN {g \in ServerGroups(radio) \ {AllChannels} : IsImported(radio, g)} ELSE {}]
  /\ UNCHANGED <<config, filters, lineup, channels, members, readOf, changes, broadcasts>>

\* The group is asked for by its name, with the same options.
GetChannelGroupMembers(radio, group) ==
  /\ members' = {m \in members : m.radio # radio \/ m.group # group} \cup
       (IF Asked(radio)
        THEN {[radio |-> radio, group |-> group, channel |-> Shown(c), of |-> Basis] :
                c \in {d \in ServerList(radio, {group}) : Added(d)}}
        ELSE {})
  /\ UNCHANGED <<config, filters, lineup, channels, groups, readOf, changes, broadcasts>>

NewLineup(new) ==
  /\ changes < MaxChanges /\ changes' = changes + 1
  /\ lineup # new /\ lineup' = new
  /\ UNCHANGED <<config, filters, channels, groups, members, readOf, broadcasts>>

-----------------------------------------------------------------------------
(* Programs.  A field of cEpg is here the line it has been filled from.      *)

Unset == 0

\* The constructor and Reset; the times are left.
Cleared == [title |-> Unset, extended |-> Unset, genre |-> <<0, 0>>]

\* Mutant: the fields of the line before stay.
ResetNothing(epg) == epg

Reset(epg) == Cleared

\* GenreToTypes: without a table the types stay.
GenreToTypes(epg, genre) ==
  IF ~config.readGenre THEN epg.genre
  ELSE IF GenreTypes = {} \/ genre = NoGenre THEN <<0, 0>>
  ELSE IF genre \in GenreTypes THEN <<1, genre>> ELSE <<2, 0>>  \* EPG_GENRE_USE_STRING

\* With a date that cannot be converted the parsing ends: at once, or before the air date.
ParseLine(epg, line) ==
  IF line.fields < 5 \/ ~line.dated THEN [ok |-> FALSE, epg |-> epg]
  ELSE LET base == [epg EXCEPT !.title = line.id, !.genre = GenreToTypes(epg, line.genre)]
       IN  IF line.fields < 15 THEN [ok |-> TRUE, epg |-> base]
           ELSE [ok |-> line.aired, epg |-> [base EXCEPT !.extended = line.id]]

\* One cEpg for all lines of the answer.
GetEPGForChannel(lines) ==
  LET each[i \in 0 .. Len(lines)] ==
        IF i = 0 THEN [epg |-> Cleared, tags |-> <<>>]
        ELSE LET before == each[i - 1]
                 parsed == ParseLine(before.epg, lines[i])
             IN  [epg |-> Reset(parsed.epg),
                  tags |-> IF parsed.ok THEN Append(before.tags, parsed.epg) ELSE before.tags]
  IN  /\ broadcasts' = [lines |-> lines, tags |-> each[Len(lines)].tags]
      /\ UNCHANGED <<config, filters, lineup, channels, groups, members, readOf, changes>>

-----------------------------------------------------------------------------

Init ==
  /\ config \in Settings /\ filters \in [BOOLEAN -> {Loaded(text) : text \in Filters}]
  /\ lineup \in Lineups /\ changes = 0
  /\ channels = [radio \in BOOLEAN |-> {NotRead}] /\ groups = [radio \in BOOLEAN |-> {}]
  /\ members = {} /\ readOf = [radio \in BOOLEAN |-> [basis |-> <<>>, filter |-> <<>>]]
  /\ broadcasts = [lines |-> <<>>, tags |-> <<>>]

Next ==
  \/ \E radio \in BOOLEAN : GetChannels(radio)
  \/ \E radio \in BOOLEAN : GetChannelGroups(radio)
  \/ \E radio \in BOOLEAN : \E group \in groups[radio] : GetChannelGroupMembers(radio, group)
  \/ \E new \in Lineups : NewLineup(new)
  \/ SetSetting
  \/ \E lines \in BoundedSeq(GuideLines, MaxLines) : GetEPGForChannel(lines)

Spec == Init /\ [][Next]_vars

-----------------------------------------------------------------------------

\* GetChannels asks the server for the channels of the groups in the settings, the members of
\* each group are asked for on their own: read of the same lineup with the same options, a group
\* of the settings that the channels were read with has no member, and no number of one, that
\* is not in the list of channels.
MembersExist ==
  \A m \in members :
    LET read == readOf[m.radio]
    IN  m.of = read.basis /\ (read.filter = <<>> \/ m.group \in NamesIn(read.filter))
          => m.channel \in channels[m.radio]

\* cEpg::Reset, ParseLine: one object is used for every program, but no program has a field or
\* a genre of the one before, be it that its line was shorter or could not be parsed.
ProgramsAreTheirOwn ==
  LET lines == broadcasts.lines
      alone(i) == ParseLine(Cleared, lines[i])
      good == {i \in DOMAIN lines : alone(i).ok}
      upTo(i) == Cardinality({j \in good : j <= i})
  IN  /\ Len(broadcasts.tags) = Cardinality(good)
      /\ \A i \in good : broadcasts.tags[upTo(i)] = alone(i).epg
=============================================================================
