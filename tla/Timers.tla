-------------------------------- MODULE Timers --------------------------------
(***************************************************************************)
(* The timers of Kodi and the schedules of the TV server: cTimer, which      *)
(* translates between the two, the four timer calls of the client, and the  *)
(* old series dialog.  Kodi acts on the list it has read last; other clients *)
(* change schedules meanwhile, and the answer to a command may be lost.      *)
(*                                                                         *)
(* Of the pairs start and end, margin before and margin after only the first *)
(* is here, the second is handled the same.  Titles stand for themselves, and *)
(* times have a day's fractions.                                            *)
(***************************************************************************)
EXTENDS Integers, FiniteSets

CONSTANTS
  Programs,   \* the EPG of the server: records [id, title, channel, start]
  FieldCounts,\* how many fields a schedule has: by the build of the server
  Day,        \* time units of a day; 0 is cUndefinedDate
  Now,        \* the time, for instant recordings
  Dialogs,    \* the values of the setting EnableOldSeriesDlg
  Chosen, Lifetimes, Margins, \* the types and so on that users choose
  OtherKeeps, \* of the schedules of other clients: [keep, date after the start, priority]
  MaxSchedules, MaxId  \* bounds: schedules at a time, and ever

VARIABLES
  config,     \* the fields of the server's lines, and the setting EnableOldSeriesDlg
  schedules,  \* the server's, by id_Schedule
  canceled,   \* pairs of a series and a program of it that is not recorded
  nextId,
  kodi,       \* the timers that Kodi has read last
  update,     \* Kodi has been told to read them again
  unseen,     \* a change that Kodi cannot know of since it read its timers
  dialog      \* of a timer that is being added

vars == <<config, schedules, canceled, nextId, kodi, update, unseen, dialog>>

UndefinedDate == 0
AnyChannel == -1                  \* PVR_TIMER_ANY_CHANNEL
NoSchedule == -1                  \* MPTV_NO_PARENT_SCHEDULE
NoProgram == -1                   \* EPG_TAG_INVALID_UID - cKodiEpgIndexOffset
SeriesOffset == 134217727         \* MPTV_REPEAT_NO_SERIES_OFFSET
NoIndex == 0                      \* PVR_TIMER_NO_CLIENT_INDEX, PVR_TIMER_NO_PARENT
Weekdays == 0..6

-----------------------------------------------------------------------------
(* Schedule types and keep methods                                         *)

Types == {"Once", "Daily", "Weekly", "EveryTimeOnThisChannel", "EveryTimeOnEveryChannel",
          "Weekends", "WorkingDays", "WeeklyEveryTimeOnThisChannel", "KodiManual"}

\* MPTV_RECORD_ONCE and so on: what the user may set of a timer of a type.
Attributes(t) ==
  {"lifetime", "margin", "enable"}
    \cup (IF t = "EveryTimeOnEveryChannel" THEN {"anyChannel"} ELSE {"channels"})
    \cup (IF t \in {"EveryTimeOnThisChannel", "WeeklyEveryTimeOnThisChannel"} THEN {} ELSE {"start"})
    \cup (IF t = "KodiManual" THEN {"manual"} ELSE {})
    \cup (IF t \in {"Once", "KodiManual"} THEN {} ELSE {"repeating"})

\* GetTimerTypes.
TimerTypes == [t \in Types |-> Attributes(t)]

\* cLifeTimeValues: what Kodi offers in place of a date, in days or as a keep method.
LifetimeValues == {-3, -1, 0} \cup {7, 14, 21, 31, 61, 92, 122, 153, 183, 214, 244, 275, 305, 336, 365}

WeekdayOf(time) == (time \div Day) % 7  \* 0 is Monday

SchedRecType2RepeatFlags(type, start) ==
  CASE type \in {"Once", "KodiManual"} -> {}
    [] type \in {"Weekly", "WeeklyEveryTimeOnThisChannel"} -> {WeekdayOf(start)}
    [] type = "Weekends" -> {5, 6}
    [] type = "WorkingDays" -> 0..4
    [] OTHER -> Weekdays

RepeatFlags2SchedRecType(days) ==
  CASE Cardinality(days) = 1 -> "Weekly"
    [] days = 0..4 -> "WorkingDays"
    [] days = {5, 6} -> "Weekends"
    [] days = Weekdays -> "Daily"
    [] OTHER -> "Once"

KeepMethods == <<"UntilSpaceNeeded", "UntilWatched", "TillDate", "Always">>
KeepMethod(n) == IF n \in 0..3 THEN KeepMethods[n + 1] ELSE "none"

\* Mutant: a start time that has not been set yet.
SetKeepMethodFromNow(lifetime, start) ==
  IF lifetime > 0 THEN [keep |-> "TillDate", keepDate |-> Now + lifetime * Day]
  ELSE [keep |-> KeepMethod(-lifetime), keepDate |-> UndefinedDate]

\* SetKeepMethod(int): positive values are days, the others are those of the methods.
SetKeepMethod(lifetime, start) ==
  IF lifetime > 0 THEN [keep |-> "TillDate", keepDate |-> start + lifetime * Day]
  ELSE [keep |-> KeepMethod(-lifetime), keepDate |-> UndefinedDate]

\* The division of C goes towards zero.
DaysIn(t) == IF t >= 0 THEN t \div Day ELSE -((-t) \div Day)

GetLifetime(s) ==
  CASE s.keep = "UntilSpaceNeeded" -> 0
    [] s.keep = "UntilWatched" -> -1
    [] s.keep = "TillDate" -> DaysIn(s.keepDate - s.start)
    [] s.keep = "Always" -> -3
    [] OTHER -> 0

-----------------------------------------------------------------------------
(* cTimer                                                                  *)

\* Neither side knows what the other's priorities mean: each gets its default.
XBMC2MepoPriority(priority) == 0
Mepo2XBMCPriority(priority) == 50

\* A line of the server: of a schedule as it is, or as it is for a program of it.
Line(id, s, parent, progid) ==
  [index |-> id, parent |-> parent, progid |-> progid, type |-> s.type, title |-> s.title,
   channel |-> s.channel, active |-> s.active, recording |-> s.recording, start |-> s.start,
   priority |-> s.priority, keep |-> s.keep, keepDate |-> s.keepDate, margin |-> s.margin]

\* ParseLine: without the last fields a timer has no program, and no parent.
ParseLine(line) ==
  Line(line.index, line, IF config.fields >= 22 THEN line.parent ELSE NoSchedule,
                         IF config.fields >= 19 THEN line.progid ELSE NoProgram)

\* GetPVRtimerinfo: the programs of a series get an index of their own.
GetPVRtimerinfo(t) ==
  LET child == t.parent # NoSchedule
      repeats == t.type # "Once"
  IN  [index |-> IF child THEN 1 + SeriesOffset + 1 + t.progid ELSE 1 + t.index,
       epg |-> 1 + t.progid,
       state |-> IF t.recording THEN "RECORDING" ELSE IF t.active THEN "SCHEDULED" ELSE "DISABLED",
       title |-> t.title,
       channel |-> IF t.type = "EveryTimeOnEveryChannel" /\ ~child THEN AnyChannel ELSE t.channel,
       start |-> t.start,
       parent |-> IF repeats /\ child THEN 1 + t.parent ELSE NoIndex,
       weekdays |-> IF repeats /\ child THEN {} ELSE SchedRecType2RepeatFlags(t.type, t.start),
       type |-> IF repeats /\ child THEN "Once" ELSE t.type,
       priority |-> Mepo2XBMCPriority(t.priority),
       lifetime |-> GetLifetime(t),
       margin |-> t.margin]

IndexOf(tag) == IF tag.index - 1 >= SeriesOffset THEN tag.parent - 1 ELSE tag.index - 1

\* The constructor from a timer of Kodi; an instant timer starts now.
TimerOf(tag) ==
  LET start == IF tag.start <= 0 THEN Now ELSE tag.start
      kept == SetKeepMethod(tag.lifetime, start)
      once == tag.type \in {"Once", "KodiManual"}
  IN  [index |-> IndexOf(tag),
       progid |-> tag.epg - 1,
       active |-> tag.state # "DISABLED",
       title |-> tag.title,
       channel |-> tag.channel,
       start |-> start,
       type |-> IF once THEN (IF tag.weekdays = {} THEN "Once" ELSE RepeatFlags2SchedRecType(tag.weekdays))
                ELSE tag.type,
       priority |-> XBMC2MepoPriority(tag.priority),
       keep |-> kept.keep, keepDate |-> kept.keepDate,
       margin |-> tag.margin]

ScheduleOf(t) ==
  [type |-> t.type, title |-> t.title, channel |-> t.channel, active |-> t.active,
   recording |-> FALSE, start |-> t.start, priority |-> t.priority, keep |-> t.keep,
   keepDate |-> t.keepDate, margin |-> t.margin]

-----------------------------------------------------------------------------
(* The server                                                              *)

IsSeries(s) == s.type # "Once"
Matches(s, p) == p.title = s.title /\ (s.type = "EveryTimeOnEveryChannel" \/ p.channel = s.channel)

LineOf(id) ==
  LET s == schedules[id]
      mine == {p \in Programs : Matches(s, p) /\ p.start = s.start}
  IN  Line(id, s, NoSchedule, IF IsSeries(s) \/ mine = {} THEN NoProgram ELSE (CHOOSE p \in mine : TRUE).id)

ProgramLine(id, p) ==
  Line(id, [schedules[id] EXCEPT !.start = p.start, !.channel = p.channel, !.recording = FALSE,
                                 !.active = @ /\ <<id, p.id>> \notin canceled], id, p.id)

\* ListSchedules:True tells the programs of a series, too, to a client that knows of them.
ListSchedules ==
  {LineOf(id) : id \in DOMAIN schedules} \cup
  {ProgramLine(pair[1], pair[2]) :
     pair \in {q \in (DOMAIN schedules) \X Programs :
                 /\ config.fields >= 22 /\ IsSeries(schedules[q[1]]) /\ Matches(schedules[q[1]], q[2])}}

TagsOf == {GetPVRtimerinfo(ParseLine(line)) : line \in ListSchedules}

\* What a command does, if the server does not refuse it.
AddSchedule(s) ==
  /\ Cardinality(DOMAIN schedules) < MaxSchedules /\ nextId <= MaxId
  /\ schedules' = [id \in DOMAIN schedules \cup {nextId} |-> IF id = nextId THEN s ELSE schedules[id]]
  /\ nextId' = nextId + 1
  /\ UNCHANGED canceled

DeleteSchedule(id) ==
  /\ id \in DOMAIN schedules
  /\ schedules' = [i \in DOMAIN schedules \ {id} |-> schedules[i]]
  /\ canceled' = {c \in canceled : c[1] # id}
  /\ UNCHANGED nextId

\* Of a series only the program, if one is named.
UpdateSchedule(t) ==
  /\ t.index \in DOMAIN schedules
  /\ IF IsSeries(schedules[t.index]) /\ t.progid # NoProgram /\ t.type = "Once"
     THEN /\ canceled' = IF t.active THEN canceled \ {<<t.index, t.progid>>}
                         ELSE canceled \cup {<<t.index, t.progid>>}
          /\ UNCHANGED schedules
     ELSE /\ schedules' = [schedules EXCEPT ![t.index] =
                             [ScheduleOf(t) EXCEPT !.recording = schedules[t.index].recording]]
          /\ UNCHANGED canceled
  /\ UNCHANGED nextId

\* Mutant: no TriggerTimerUpdate.
CommandedQuietly(command) ==
  \/ command /\ UNCHANGED <<update, unseen>>
  \/ UNCHANGED <<schedules, canceled, nextId, update, unseen>>

\* SendCommand and what the calls make of the answer: Kodi reads its list again after "True";
\* a refused command changes nothing; an answer that does not come says neither.
Commanded(command) ==
  \/ command /\ update' = TRUE /\ UNCHANGED unseen
  \/ command /\ unseen' = TRUE /\ UNCHANGED update
  \/ UNCHANGED <<schedules, canceled, nextId, update, unseen>>

-----------------------------------------------------------------------------
(* The calls of Kodi.  GetTimers and AddTimer also have Kodi read its        *)
(* recordings again: that belongs to Recordings.                            *)

\* An answer that does not come is an empty list to Kodi.
GetTimers ==
  /\ \/ kodi' = TagsOf /\ unseen' = FALSE
     \/ kodi' = {} /\ unseen' = TRUE
  /\ update' = FALSE
  /\ UNCHANGED <<config, schedules, canceled, nextId, dialog>>

NewTag(type, title, channel, start, epg, lifetime, margin) ==
  [index |-> NoIndex, epg |-> epg, state |-> "SCHEDULED", title |-> title, channel |-> channel,
   start |-> start, parent |-> NoIndex, weekdays |-> {}, type |-> type, priority |-> 50,
   lifetime |-> lifetime, margin |-> margin]

Send(t) == Commanded(AddSchedule(ScheduleOf(t)))

NoDialog == [open |-> FALSE]

\* OnInit of the dialog: its spin controls, and which of them are visible.
OnInit(tag) ==
  [open |-> TRUE, tag |-> tag, frequency |-> "Once", airtime |-> "ThisTime",
   channels |-> "ThisChannel", keep |-> "Always", margin |-> tag.margin, visible |-> {}]

\* Bounded as AddSchedule is: no new timer once the ids are used up.
AddTimer(tag) ==
  /\ ~dialog.open /\ nextId <= MaxId
  /\ IF config.oldDialog /\ tag.start > 0 /\ tag.epg # 0 /\ tag.type = "Once"
     THEN /\ dialog' = OnInit(tag)
          /\ UNCHANGED <<schedules, canceled, nextId, update, unseen>>
     ELSE Send(TimerOf(tag)) /\ UNCHANGED dialog
  /\ UNCHANGED <<config, kodi>>

FromGuide ==
  {NewTag(type, p.title, p.channel, p.start, 1 + p.id, lifetime, margin) :
     p \in Programs, type \in Chosen, lifetime \in Lifetimes \cap LifetimeValues, margin \in Margins}

Instant ==
  {NewTag("KodiManual", p.title, p.channel, 0, 0, lifetime, margin) :
     p \in Programs, lifetime \in Lifetimes \cap LifetimeValues, margin \in Margins}

UpdateTimer(tag) ==
  /\ Commanded(UpdateSchedule(TimerOf(tag)))
  /\ UNCHANGED <<config, kodi, dialog>>

\* Mutant: a program without schedule is deleted as if it had one.
IsProgramOnlyNever(tag) == FALSE

IsProgramOnly(tag) == tag.parent > 0 /\ tag.epg > 0

DeleteTimer(tag) ==
  IF IsProgramOnly(tag) THEN UpdateTimer([tag EXCEPT !.state = "DISABLED"])
  ELSE /\ Commanded(DeleteSchedule(TimerOf(tag).index))
       /\ UNCHANGED <<config, kodi, dialog>>

Disable(tag) == tag.state = "SCHEDULED" /\ UpdateTimer([tag EXCEPT !.state = "DISABLED"])
Enable(tag) == tag.state = "DISABLED" /\ UpdateTimer([tag EXCEPT !.state = "SCHEDULED"])
EditMargin(tag, margin) ==
  "margin" \in TimerTypes[tag.type] /\ tag.parent = NoIndex /\ UpdateTimer([tag EXCEPT !.margin = margin])
EditLifetime(tag, lifetime) ==
  "lifetime" \in TimerTypes[tag.type] /\ tag.parent = NoIndex /\ UpdateTimer([tag EXCEPT !.lifetime = lifetime])

-----------------------------------------------------------------------------
(* The dialog.  It is modal for its caller only.  Its members m_frequency,   *)
(* m_airtime and m_channels are read from the controls again with OK.        *)

Clicked(d) == dialog' = d /\ UNCHANGED <<config, schedules, canceled, nextId, kodi, update, unseen>>

SpinFrequency(f) ==
  /\ dialog.open
  /\ Clicked([dialog EXCEPT !.frequency = f, !.visible = CASE f = "Weekly" -> {"airtime"}
                                         [] f = "Daily" -> {"airtime", "channels"}
                                         [] OTHER -> {}])

\* Mutant: the air time stays.
ChannelsAlone(d, c) == [d EXCEPT !.channels = c]

\* This time on any channel is not a schedule of the server.
WithChannels(d, c) == [d EXCEPT !.channels = c, !.airtime = IF c = "AnyChannel" THEN "AnyTime" ELSE @]

SpinChannels(c) ==
  dialog.open /\ "channels" \in dialog.visible /\ Clicked(WithChannels(dialog, c))

SpinAirtime(a) ==
  /\ dialog.open /\ "airtime" \in dialog.visible
  /\ Clicked([dialog EXCEPT !.airtime = a, !.channels = IF a = "ThisTime" THEN "ThisChannel" ELSE @])

SpinKeep(k) == dialog.open /\ Clicked([dialog EXCEPT !.keep = k])

\* The minutes that m_spinPreRecord offers beside those of the timer; -1 is the server's setting.
MarginLabels == {-1, 0, 3, 5, 7, 10, 15}

SpinMargin(m) ==
  dialog.open /\ (m \in MarginLabels \/ m = dialog.tag.margin) /\ Clicked([dialog EXCEPT !.margin = m])

\* UpdateTimerSettings
DialogType(d) ==
  CASE d.frequency = "Once" -> "Once"
    [] d.frequency = "Weekends" -> "Weekends"
    [] d.frequency = "WeekDays" -> "WorkingDays"
    [] d.frequency = "Weekly" -> IF d.airtime = "ThisTime" THEN "Weekly" ELSE "WeeklyEveryTimeOnThisChannel"
    [] OTHER -> IF d.airtime = "ThisTime" THEN "Daily"
                ELSE IF d.channels = "ThisChannel" THEN "EveryTimeOnThisChannel"
                ELSE "EveryTimeOnEveryChannel"

\* The method only: the date is the one that the lifetime of the timer has given.
UpdateTimerSettings(t, d) ==
  [t EXCEPT !.type = DialogType(d), !.keep = d.keep, !.margin = d.margin]

Ok ==
  /\ dialog.open
  /\ Send(UpdateTimerSettings(TimerOf(dialog.tag), dialog))
  /\ dialog' = NoDialog /\ UNCHANGED <<config, kodi>>

Cancel == dialog.open /\ Clicked(NoDialog)

\* DialogRecordSettings.xml has not been found: the timer is added as it is.
NoWindow ==
  /\ dialog.open /\ dialog = OnInit(dialog.tag)
  /\ Send(TimerOf(dialog.tag))
  /\ dialog' = NoDialog /\ UNCHANGED <<config, kodi>>

-----------------------------------------------------------------------------
(* Other clients, and the recorder                                         *)

Others ==
  /\ \/ \E p \in Programs, type \in Chosen, k \in OtherKeeps :
          AddSchedule([type |-> type, title |-> p.title, channel |-> p.channel, active |-> TRUE,
                       recording |-> FALSE, start |-> p.start, priority |-> k.priority, keep |-> k.keep,
                       keepDate |-> IF k.keep = "TillDate" THEN p.start + k.date ELSE UndefinedDate,
                       margin |-> -1])
     \/ \E id \in DOMAIN schedules : DeleteSchedule(id)
  /\ unseen' = TRUE
  /\ UNCHANGED <<config, kodi, update, dialog>>

Records ==
  \E id \in DOMAIN schedules :
    /\ schedules' = [schedules EXCEPT ![id].recording = ~@]
    /\ schedules[id].active \/ schedules[id].recording
    /\ unseen' = TRUE
    /\ UNCHANGED <<config, canceled, nextId, kodi, update, dialog>>

Init ==
  /\ config \in [fields : FieldCounts, oldDialog : Dialogs]
  /\ schedules = <<>> /\ canceled = {} /\ nextId = 1
  /\ kodi = {} /\ update = FALSE /\ unseen = FALSE /\ dialog = NoDialog

Next ==
  \/ GetTimers
  \/ \E tag \in FromGuide : AddTimer(tag)
  \/ \E tag \in Instant : AddTimer(tag)
  \/ \E tag \in kodi : DeleteTimer(tag)
  \/ \E tag \in kodi : Disable(tag)
  \/ \E tag \in kodi : Enable(tag)
  \/ \E tag \in kodi, margin \in Margins : EditMargin(tag, margin)
  \/ \E tag \in kodi, lifetime \in Lifetimes \cap LifetimeValues : EditLifetime(tag, lifetime)
  \/ \E f \in {"Once", "Daily", "Weekly", "Weekends", "WeekDays"} : SpinFrequency(f)
  \/ \E c \in {"ThisChannel", "AnyChannel"} : SpinChannels(c)
  \/ \E a \in {"ThisTime", "AnyTime"} : SpinAirtime(a)
  \/ \E k \in {KeepMethod(n) : n \in 0..3} : SpinKeep(k)
  \/ \E m \in Margins \cup {-1} : SpinMargin(m)
  \/ Ok \/ Cancel \/ NoWindow
  \/ Others \/ Records

Spec == Init /\ [][Next]_vars

-----------------------------------------------------------------------------

\* GetPVRtimerinfo and DeleteTimer: a program of a series has no schedule of its own.  Deleting
\* or disabling it in Kodi, from whatever list, stops no other program and leaves every schedule,
\* the series of the program first of all, as it is; when the server answers that it is done, and
\* Kodi is told to read its timers again, the program is stopped.
OneEpisodeOnly ==
  \A tag \in kodi :
    tag.parent # NoIndex /\ (DeleteTimer(tag) \/ Disable(tag)) =>
      /\ schedules' = schedules
      /\ canceled' \subseteq canceled \cup {<<tag.parent - 1, tag.epg - 1>>}
      /\ ~update /\ update' => <<tag.parent - 1, tag.epg - 1>> \in canceled'

\* A timer goes from the server to Kodi and back as a whole (ParseLine, GetPVRtimerinfo, cTimer,
\* UpdateScheduleCommand): when the user has changed only its margin, a schedule that is still as
\* Kodi knows it keeps all that Kodi can tell of it, the days it is kept for included.  Two things
\* Kodi cannot tell, and no more is lost with any edit: the priority is 0 again, and a keep date
\* loses what it has beyond whole days.  (A keep date before the start is a negative lifetime,
\* which Kodi takes for a method, and one on the first day is none: such schedules are left out.)
EditKeepsTheRest ==
  \A tag \in kodi, margin \in Margins, id \in DOMAIN schedules :
    LET s == schedules[id]
        edited == schedules'[id]
    IN  GetPVRtimerinfo(ParseLine(LineOf(id))) = tag /\ tag.index = 1 + id
          /\ s.keep # "none" /\ (s.keep = "TillDate" => GetLifetime(s) > 0)
          /\ (s.recording => s.active)
          /\ EditMargin(tag, margin) =>
            /\ id \in DOMAIN schedules'
            /\ edited # s =>
                 /\ \A f \in {"type", "title", "active", "recording", "start", "keep"} : edited[f] = s[f]
                 /\ s.type = "EveryTimeOnEveryChannel" \/ edited.channel = s.channel
                 /\ edited.margin = margin /\ edited.priority = XBMC2MepoPriority(50)
                 /\ GetLifetime(edited) = GetLifetime(s)
                 /\ s.keep = "TillDate" => s.keepDate - edited.keepDate \in 0 .. Day - 1

\* TriggerTimerUpdate: when Kodi has not been told to read its timers again, and all commands
\* have been answered, its list is that of the server, up to what other clients and the
\* recorder have done since.
ListIsCurrent == ~update /\ ~unseen => kodi = TagsOf

\* The controls of the dialog hide and correct each other: type, keep method and margin that are
\* stored with OK are those the window shows, and never one of the combinations that MediaPortal
\* does not have.  (The date of TillDate is not asked for: it stays that of the timer's lifetime.)
DialogStoresWhatItShows ==
  \A id \in DOMAIN schedules' \ DOMAIN schedules :
    Ok =>
      LET type == schedules'[id].type
          shows(control, value) == control \in dialog.visible /\ dialog[control] = value
      IN  /\ (type = "EveryTimeOnEveryChannel") = shows("channels", "AnyChannel")
          /\ shows("airtime", "ThisTime") => type \in {"Daily", "Weekly"}
          /\ shows("airtime", "AnyTime") <=>
               type \in {"EveryTimeOnThisChannel", "EveryTimeOnEveryChannel", "WeeklyEveryTimeOnThisChannel"}
          /\ schedules'[id].keep = dialog.keep /\ schedules'[id].margin = dialog.margin
=============================================================================
