---------------------------- MODULE Demultiplexer ----------------------------
(***************************************************************************)
(* CDeMultiplexer with its CPatParser and the CPmtParsers: CTsReader uses   *)
(* it to find the begin of a channel in the stream it has opened (Start) or *)
(* zapped in (RequestNewPat).  SectionDecoder says how the sections come    *)
(* out of the packets; here each is read as a whole.                        *)
(***************************************************************************)
EXTENDS Integers, Sequences, SequencesExt

CONSTANTS
  Channels,  \* records: the pids of the PAT and the PMT on each pid
  Versions,  \* PAT versions before they come again (the server's 16), more than MaxTunes: none
             \* comes back before the demultiplexer has seen another one
  MaxTunes   \* bound: channels in the stream

VARIABLES
  tunes,     \* the channels in the stream, in their order
  at,        \* the one the reader is in
  m_iPatTableVersion, m_pmtParsers, m_bGotNewChannel,
  waiting,   \* in the loop of Start or of RequestNewPat
  patOf,     \* the tune of the last PAT
  endedBy    \* what ended the wait: the tunes of the last PAT and of the table; 0 before

vars == <<tunes, at, m_iPatTableVersion, m_pmtParsers, m_bGotNewChannel, waiting, patOf, endedBy>>

-----------------------------------------------------------------------------
(* The contents of a PMT                                                   *)

NoPids == [video |-> <<>>, audio |-> <<>>, subtitle |-> <<>>, teletext |-> 0]

\* A stream has a type, a pid and descriptors; "lang" names one or two languages.
VideoTypes == {"mpeg1", "mpeg2", "mpeg4", "h264"}
AudioTypes == {"mpa", "mpa2", "ac3", "aac", "latm", "eac3"}
Unnamed == "UNK"

AudioPid(pid, type, lang) == [pid |-> pid, type |-> type, lang |-> lang]

\* loop 2 of OnNewSection: the parser's pids, the languages seen before their stream, and
\* whether an LPCM audio has been found.
Streamed(st, stream) ==
  CASE stream.type \in VideoTypes ->
         [st EXCEPT !.pids.video = Append(@, [pid |-> stream.pid, type |-> stream.type])]
    [] stream.type \in AudioTypes ->
         [st EXCEPT !.pids.audio = Append(@, AudioPid(stream.pid, stream.type, Unnamed))]
    [] OTHER -> st

\* Mutant: any language that waits is taken.
Ac3Any(st, stream, type) ==
  LET lang == IF st.temp = <<>> THEN Unnamed ELSE Head(st.temp).lang
  IN  [st EXCEPT !.pids.audio = Append(@, AudioPid(stream.pid, type, lang))]

\* A language that came before its stream; the last one that waits is dropped with it.
Ac3(st, stream, type) ==
  LET mine == {i \in DOMAIN st.temp : st.temp[i].pid = stream.pid}
      lang == IF mine = {} THEN Unnamed
              ELSE st.temp[CHOOSE i \in mine : \A j \in mine : i <= j].lang
  IN  [st EXCEPT !.pids.audio = Append(@, AudioPid(stream.pid, type, lang)),
                 !.temp = IF mine = {} THEN @ ELSE Front(@)]

\* One round over the audio pids for a language; at each of them it waits if neither these up
\* to here nor the subtitles have its pid.
IsoLanguage(st, stream, lang) ==
  LET mine(pids) == {i \in DOMAIN pids : pids[i].pid = stream.pid}
      name(pids, of) == [i \in DOMAIN pids |-> IF i \in of THEN [pids[i] EXCEPT !.lang = lang] ELSE pids[i]]
      one(acc, i) ==
        LET audio == mine(acc.pids.audio) \cap {i}
            subtitle == mine(acc.pids.subtitle)
            found == acc.found \/ audio \cup subtitle # {}
        IN  [acc EXCEPT !.pids.audio = name(@, audio), !.pids.subtitle = name(@, subtitle),
                        !.found = found,
                        !.temp = IF found THEN @ ELSE Append(@, [pid |-> stream.pid, lang |-> lang])]
  IN  FoldLeft(one, [st EXCEPT !.found = FALSE], [i \in DOMAIN st.pids.audio |-> i])

\* The rounds of the inner loop; a descriptor has a tag and perhaps a language.
Described(st, stream, d) ==
  CASE d.tag \in {"ac3", "eac3"} -> Ac3(st, stream, d.tag)
    [] d.tag = "lang" -> IsoLanguage(st, stream, d.lang)
    [] d.tag = "teletext" -> [st EXCEPT !.pids.teletext = stream.pid]
    [] d.tag = "subtitling" /\ stream.type = "subtitles2" ->
         [st EXCEPT !.pids.subtitle = Append(@, [pid |-> stream.pid, lang |-> d.lang])]
    [] d.tag = "HDMV" /\ stream.type = "lpcm" ->
         [st EXCEPT !.pids.audio = Append(@, AudioPid(stream.pid, "lpcm", Unnamed)), !.lpcm = TRUE]
    [] OTHER -> st

\* An unregistered stream of the LPCM type is a video, unless any before it was registered.
StreamOf(st, stream) ==
  LET described == FoldLeft(LAMBDA acc, d : Described(acc, stream, d), Streamed(st, stream), stream.descriptors)
  IN  IF stream.type = "lpcm" /\ ~described.lpcm
      THEN [described EXCEPT !.pids.video = Append(@, [pid |-> stream.pid, type |-> "mpeg2"])]
      ELSE described

\* CPmtParser::OnNewSection of a well-formed PMT.
PidsOf(pmt) ==
  FoldLeft(StreamOf, [pids |-> NoPids, temp |-> <<>>, found |-> FALSE, lpcm |-> FALSE], pmt).pids

-----------------------------------------------------------------------------
(* The parsers                                                              *)

NewParser(pid) == [pid |-> pid, m_isFound |-> FALSE, m_pidInfo |-> NoPids, from |-> 0]

\* The parser of its pid, if there is one, takes a PMT; m_isFound stays.
WithPmt(parsers, pid) ==
  [i \in DOMAIN parsers |->
     IF parsers[i].pid # pid THEN parsers[i]
     ELSE [parsers[i] EXCEPT !.m_isFound = TRUE, !.from = at,
                             !.m_pidInfo = PidsOf(tunes[at].pmts[pid])]]

\* Mutant: the parsers of the last channel stay.
CleanUpNot == m_pmtParsers

CleanUp == <<>>

\* The list of a PAT is read up to the first pid that cannot be one of a PMT (the network's, for
\* instance).
Listed(pids) ==
  LET invalid == {i \in DOMAIN pids : pids[i] < 16 \/ pids[i] >= 8191}
  IN  IF invalid = {} THEN pids
      ELSE SubSeq(pids, 1, (CHOOSE i \in invalid : \A j \in invalid : i <= j) - 1)

\* CPatParser::OnNewSection: a PAT of another version replaces the parsers.
WithPat(parsers, pat) ==
  LET add(acc, pid) == IF \E i \in DOMAIN acc : acc[i].pid = pid THEN acc
                       ELSE Append(acc, NewParser(pid))
  IN  FoldLeft(add, IF pat.version = m_iPatTableVersion THEN parsers ELSE CleanUp, Listed(pat.pids))

NoVersion == -1
NotEnded == [pat |-> 0, table |-> 0]
Idle == m_iPatTableVersion' = NoVersion

\* The first ready parser calls OnNewChannel back, at every packet and also for a PMT of long ago.
CallBack(parsers) ==
  LET ready == IF Idle THEN {} ELSE {i \in DOMAIN parsers : parsers[i].m_isFound}
      first == parsers[CHOOSE i \in ready : \A j \in ready : i <= j]
  IN  /\ m_bGotNewChannel' = (m_bGotNewChannel \/ ready # {})
      /\ endedBy' = IF m_bGotNewChannel \/ ready = {} THEN endedBy
                    ELSE [pat |-> patOf', table |-> first.from]

Version(tune) == tune % Versions

\* ReadFromFile finds one more packet: CPatParser::OnTsPacket.  A read has many of them, also
\* behind the one that ends the loop.
Pmt(pid) ==
  /\ UNCHANGED <<m_iPatTableVersion, patOf>>
  /\ m_pmtParsers' = WithPmt(m_pmtParsers, pid)

Pat ==
  /\ m_pmtParsers' = WithPat(m_pmtParsers, [version |-> Version(at), pids |-> tunes[at].pids])
  /\ m_iPatTableVersion' = Version(at) /\ patOf' = at

OtherPacket == UNCHANGED <<m_pmtParsers, m_iPatTableVersion, patOf>>

ReadFromFile ==
  /\ waiting
  /\ \/ \E pid \in DOMAIN tunes[at].pmts : Pmt(pid)
     \/ Pat
     \/ OtherPacket
  /\ CallBack(m_pmtParsers')
  /\ UNCHANGED <<tunes, at, waiting>>

\* What was read belonged to the channel before; the next one begins.
NextTune ==
  /\ waiting /\ at < Len(tunes) /\ at' = at + 1
  /\ UNCHANGED <<tunes, m_iPatTableVersion, m_pmtParsers, m_bGotNewChannel, waiting, patOf, endedBy>>

\* The channel is found, or 5 seconds are over.
WaitEnds ==
  /\ waiting /\ waiting' = FALSE
  /\ UNCHANGED <<tunes, at, m_iPatTableVersion, m_pmtParsers, m_bGotNewChannel, patOf, endedBy>>

\* OnZap: the reader goes to where the server says, or to the end, which may still be in the
\* channel before; RequestNewPat.
Zap(channel, to) ==
  /\ ~waiting /\ Len(tunes) < MaxTunes
  /\ tunes' = Append(tunes, channel)
  /\ to \in at .. Len(tunes) + 1 /\ at' = to
  /\ m_bGotNewChannel' = FALSE /\ waiting' = TRUE /\ endedBy' = NotEnded
  /\ UNCHANGED <<m_iPatTableVersion, m_pmtParsers, patOf>>

\* Start, of a new reader.
Init ==
  /\ \E channel \in Channels : tunes = <<channel>>
  /\ at = 1 /\ patOf = 0
  /\ m_iPatTableVersion = NoVersion /\ m_pmtParsers = <<>>
  /\ m_bGotNewChannel = FALSE /\ waiting = TRUE /\ endedBy = NotEnded

Next ==
  \/ ReadFromFile
  \/ NextTune
  \/ WaitEnds
  \/ \E channel \in Channels, to \in 1..MaxTunes : Zap(channel, to)

Spec == Init /\ [][Next]_vars

-----------------------------------------------------------------------------

\* A table read before the last PAT changed does not outlive it: no parser holds a PMT of a
\* channel before the one whose PAT was the last to come, and none listens to a pid which
\* that PAT does not list.
TablesOfOneChannel ==
  \A i \in DOMAIN m_pmtParsers :
    /\ m_pmtParsers[i].m_isFound => m_pmtParsers[i].from >= patOf
    /\ \E k \in DOMAIN tunes[patOf].pids : tunes[patOf].pids[k] = m_pmtParsers[i].pid

\* A language that a PMT gives before the codec of its stream goes to that stream and not to
\* another one that waits for its own.
LanguagesBelong ==
  \A i \in DOMAIN m_pmtParsers :
    LET parser == m_pmtParsers[i] IN
    \A k \in DOMAIN parser.m_pidInfo.audio :
      LET audio == parser.m_pidInfo.audio[k] IN
      audio.lang = Unnamed \/
      \E s \in DOMAIN tunes[parser.from].pmts[parser.pid] :
        LET stream == tunes[parser.from].pmts[parser.pid][s] IN
        /\ stream.pid = audio.pid
        /\ \E d \in DOMAIN stream.descriptors :
             stream.descriptors[d].tag = "lang" /\ stream.descriptors[d].lang = audio.lang

\* The loops of Start and RequestNewPat end for a table at least as new as the last PAT: from
\* the moment when the PAT of the channel zapped to has come, only a table of that channel ends
\* the wait.  (Before that the ready parser of the channel before does, at the next packet,
\* which is a weakness of RequestNewPat and no promise.)
WaitEndsByNewest ==
  m_bGotNewChannel => endedBy.table # 0 /\ endedBy.table \in endedBy.pat .. Len(tunes)

\* All together, of the parsers: their PidTables are what OnNewChannel is called back with.  (It
\* takes no more of them than that there is one: Kodi gets its streams from the packets.)
TablesAreTheChannels == TablesOfOneChannel /\ LanguagesBelong /\ WaitEndsByNewest
=============================================================================
