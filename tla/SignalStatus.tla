------------------------------ MODULE SignalStatus ------------------------------
(***************************************************************************)
(* GetSignalStatus asks the server for the signal in one call of eleven and *)
(* repeats the answer in the others.  Kodi calls it from a thread of its    *)
(* own, so a channel may be tuned while the answer is still awaited.        *)
(***************************************************************************)
EXTENDS Naturals

CONSTANT Channels

VARIABLES
  m_iCurrentChannel,
  m_signalStateCounter,
  m_iSignal,  \* the channel whose signal m_iSignal and m_iSNR hold, None before the first
  asked,      \* the channel of the GetSignalQuality that is not answered yet
  calls       \* bounded: how often Kodi has asked since the tune, or a lost answer

vars == <<m_iCurrentChannel, m_signalStateCounter, m_iSignal, asked, calls>>

None == "none"
Repeats == 10
Enough == Repeats + 2

\* Mutant: the counter stays at its end.
CountedOn(n) == IF n < Repeats THEN n + 1 ELSE n

Counted(n) == IF n + 1 > Repeats THEN 0 ELSE n + 1

\* OpenLiveStream and CloseLiveStream, as far as they matter here: m_signalStateCounter is reset.
OpenLiveStream(c) ==
  /\ c # m_iCurrentChannel
  /\ m_iCurrentChannel' = c
  /\ m_signalStateCounter' = 0 /\ calls' = 0
  /\ UNCHANGED <<m_iSignal, asked>>

CloseLiveStream ==
  /\ m_iCurrentChannel # None
  /\ m_iCurrentChannel' = None
  /\ m_signalStateCounter' = 0 /\ calls' = 0
  /\ UNCHANGED <<m_iSignal, asked>>

Called == calls' = IF calls < Enough THEN calls + 1 ELSE calls

\* A call that asks the server ends with the answer.
Ask ==
  /\ m_iCurrentChannel # None /\ asked = None /\ m_signalStateCounter = 0
  /\ asked' = m_iCurrentChannel
  /\ UNCHANGED <<m_iCurrentChannel, m_signalStateCounter, m_iSignal, calls>>

Answer ==
  /\ asked # None
  /\ asked' = None
  /\ m_iSignal' = asked
  /\ m_signalStateCounter' = Counted(m_signalStateCounter)
  /\ Called
  /\ UNCHANGED m_iCurrentChannel

\* No answer, or one that is not two numbers.
NoAnswer ==
  /\ asked # None
  /\ asked' = None
  /\ m_signalStateCounter' = Counted(m_signalStateCounter)
  /\ calls' = 0
  /\ UNCHANGED <<m_iCurrentChannel, m_iSignal>>

Repeat ==
  /\ m_iCurrentChannel # None /\ asked = None /\ m_signalStateCounter # 0
  /\ m_signalStateCounter' = Counted(m_signalStateCounter)
  /\ Called
  /\ UNCHANGED <<m_iCurrentChannel, m_iSignal, asked>>

Init ==
  /\ m_iCurrentChannel = None /\ m_signalStateCounter = 0
  /\ m_iSignal = None /\ asked = None /\ calls = 0

Next ==
  \/ \E c \in Channels : OpenLiveStream(c)
  \/ CloseLiveStream
  \/ Ask \/ Answer \/ NoAnswer \/ Repeat

Spec == Init /\ [][Next]_vars

-----------------------------------------------------------------------------

\* "Limit the GetSignalQuality calls to once every 10 s": the signal shown may be that of the
\* channel before, when the tune overtakes an answer, but not for longer than the answers are
\* repeated: twelve calls after the tune it is of the channel that plays.
SignalNotStale == calls = Enough => m_iSignal = m_iCurrentChannel
=============================================================================
