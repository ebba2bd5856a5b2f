---------------------------------- MODULE Rtcp ----------------------------------
(***************************************************************************)
(* RTCPInstance of a subsession: when it sends its reports, which the       *)
(* server takes for a sign of life, whom it counts as a member, and when it *)
(* forgets one together with its reception statistics.                     *)
(* Times are relative to now.                                               *)
(***************************************************************************)
EXTENDS Integers, FiniteSets, FiniteSetsExt

CONSTANTS
  SSRC,
  FirstIntervals, Intervals,  \* what rtcp_interval may draw, at first and later
  membershipReapPeriod,
  MaxCount, MaxByes           \* bounds

VARIABLES
  elapsed,   \* since fPrevReportTime
  toGo,      \* to fNextReportTime, when the delayed task runs
  fIsInitial, fPrevNumMembers, fOutgoingReportCount,
  members,   \* RTCPMemberDatabase: the count of reports when it was last heard
  sources,   \* the RTPReceptionStatsDB has a record of them
  silence,   \* since the last report was really sent
  spoke,     \* the count of reports at the last report of each; 0 after its BYE
  byes

timer == <<elapsed, toGo, fIsInitial, fPrevNumMembers, fOutgoingReportCount, silence>>
vars == <<timer, members, sources, spoke, byes>>

NotMember == 0
Members(table) == {s \in SSRC : table[s] # NotMember}
numMembers(table) == 1 + Cardinality(Members(table))

rtcp_interval == IF fIsInitial THEN FirstIntervals ELSE Intervals

\* Mutant: the time of the last report is the threshold, not that of five reports ago.
Reaped(table, count) ==
  {s \in Members(table) : count % membershipReapPeriod = 0 /\ table[s] < count}

\* sendReport forgets old members now and then.
Old(table, count) ==
  {s \in Members(table) :
     count % membershipReapPeriod = 0 /\ table[s] < count - membershipReapPeriod}

SendReport ==
  LET old == Old(members, fOutgoingReportCount') IN
  /\ fOutgoingReportCount' = fOutgoingReportCount + 1
  /\ silence' = 0
  /\ members' = [s \in SSRC |-> IF s \in old THEN NotMember ELSE members[s]]
  /\ sources' = sources \ old

\* Mutant: the interval counts from now.
WaitFromNow(t) == t

\* The rest of an interval that began with the last report.
Wait(t) == t - elapsed

\* OnExpire: the timer is over; an interval drawn anew says whether to send now.
OnExpire ==
  /\ toGo = 0 /\ fOutgoingReportCount < MaxCount
  /\ \E t \in rtcp_interval, next \in rtcp_interval :
       IF Wait(t) <= 0
       THEN /\ SendReport
            /\ elapsed' = 0 /\ toGo' = next /\ fIsInitial' = FALSE
       ELSE /\ toGo' = Wait(t)
            /\ UNCHANGED <<elapsed, fIsInitial, fOutgoingReportCount, silence, members, sources>>
  /\ fPrevNumMembers' = numMembers(members)
  /\ UNCHANGED <<spoke, byes>>

\* A report of the server, compound with its SDES: noteMembership and noteIncomingSR.
OnReport(s) ==
  /\ members' = [members EXCEPT ![s] = fOutgoingReportCount]
  /\ spoke' = [spoke EXCEPT ![s] = fOutgoingReportCount]
  /\ sources' = sources \cup {s}
  /\ UNCHANGED <<timer, byes>>

\* A BYE, which comes with a report: one who was no member becomes one by it.
OnBye(s) ==
  LET wasMember == s \in Members(members)
      now == numMembers(members) - (IF wasMember THEN 1 ELSE 0)
  IN  /\ byes < MaxByes /\ byes' = byes + 1
      /\ members' = [members EXCEPT ![s] = IF wasMember THEN NotMember ELSE fOutgoingReportCount]
      /\ spoke' = [spoke EXCEPT ![s] = 0]
      /\ sources' = sources \cup {s}
      /\ IF now < fPrevNumMembers
         THEN /\ elapsed' = (now * elapsed) \div fPrevNumMembers
              /\ toGo' = (now * toGo) \div fPrevNumMembers
              /\ fPrevNumMembers' = now
         ELSE UNCHANGED <<elapsed, toGo, fPrevNumMembers>>
      /\ UNCHANGED <<fIsInitial, fOutgoingReportCount, silence>>

\* A packet of the stream, which is no sign of membership.
OnRtp(s) ==
  /\ sources' = sources \cup {s}
  /\ UNCHANGED <<timer, members, spoke, byes>>

\* The event loop is in time for the delayed task.
Tick ==
  /\ toGo > 0
  /\ toGo' = toGo - 1 /\ elapsed' = elapsed + 1 /\ silence' = silence + 1
  /\ UNCHANGED <<fIsInitial, fPrevNumMembers, fOutgoingReportCount, members, sources, spoke, byes>>

\* The constructor, with the OnExpire that sends nothing yet.
Init ==
  /\ elapsed = 0 /\ toGo \in FirstIntervals /\ silence = 0
  /\ fIsInitial = TRUE /\ fPrevNumMembers = 1 /\ fOutgoingReportCount = 1
  /\ members = [s \in SSRC |-> NotMember] /\ sources = {}
  /\ spoke = [s \in SSRC |-> 0] /\ byes = 0

Next ==
  \/ OnExpire
  \/ Tick
  \/ \E s \in SSRC : OnReport(s) \/ OnBye(s) \/ OnRtp(s)

Spec == Init /\ [][Next]_vars

-----------------------------------------------------------------------------

\* The server hears of its client within every longest interval, however often the time of
\* the next report is considered again, as long as nobody leaves.
ReportsInTime == byes = 0 => silence <= Max(Intervals \cup FirstIntervals)

\* A member is forgotten, with its statistics, after some periods of silence and by its BYE,
\* not while it reports.
ReportersAreKept ==
  \A s \in SSRC :
    spoke[s] # 0 /\ fOutgoingReportCount - spoke[s] < membershipReapPeriod
      => s \in Members(members) /\ s \in sources

\* Neither end forgets the other that goes on sending.
NobodyIsForgotten == ReportsInTime /\ ReportersAreKept
=============================================================================
