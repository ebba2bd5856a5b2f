--------------------------- MODULE RtspClientProofs ---------------------------
(***************************************************************************)
(* Proofs about RtspClient, for every length of the event loop.             *)
(*                                                                         *)
(* ThreadOK follows m_thread and the two flags through the calls: at which  *)
(* points of a call there may be a thread, and how far it can have come.    *)
(* It holds whatever tunes fail.  StreamOK adds what the thread uses and    *)
(* what CTsReader's state says of it; it needs that a tune fails, if at     *)
(* all, while the stream is paused, because the other failures delete the   *)
(* buffer of a running thread.                                              *)
(***************************************************************************)
EXTENDS RtspClient, TLAPS

PointTypes ==
  /\ caller \in Points
  /\ m_State \in {"Stopped", "Running", "Paused"}
  /\ objects \subseteq Objects
  /\ process \in {"none", "start", "test", "loop", "end", "done"}
  /\ steps \in 0 .. LoopSteps
FlagTypes ==
  /\ m_bPaused \in BOOLEAN /\ m_running \in BOOLEAN /\ m_BufferThreadActive \in BOOLEAN
  /\ joinable \in BOOLEAN /\ alive \in BOOLEAN

\* The points of a call at which no thread has been started or the last one is joined.
Threadless == {"openStream", "play", "startThread", "pauseSession", "continueSession"}

ThreadOK ==
  /\ process \in {"none", "start", "test", "loop", "end", "done"}
  /\ joinable <=> process # "none"
  /\ process \in {"none", "done"} => ~m_BufferThreadActive
  /\ process \in {"test", "loop", "end"} => m_BufferThreadActive
  /\ process = "start" /\ caller # "started" => m_BufferThreadActive
  /\ caller \in Threadless => process = "none"
  /\ caller \in {"idle", "started", "deleteUnclosed"} =>
       /\ process \in {"none", "start", "test", "loop"}
       /\ process # "none" => m_running
  /\ caller \in {"started", "stopTest", "stopJoin"} => process # "none"
  /\ caller \in {"shutdown", "delete"} => process \in {"none", "done"}
  /\ caller \in Threadless \cup {"started", "pauseJoin"} => HasSession
  /\ caller = "idle" /\ process # "none" => m_State = "Running" /\ HasSession

StreamOK ==
  /\ process \in {"start", "test", "loop"} => Stream \subseteq objects
  /\ caller \in Threadless \cup {"started", "pauseJoin"} => Stream \subseteq objects
  /\ caller = "deleteUnclosed" => process = "none"
  /\ caller = "idle" /\ HasSession =>
       /\ Stream \subseteq objects
       /\ m_State \in {"Running", "Paused"}
       /\ m_bPaused <=> m_State = "Paused"
       /\ process # "none" <=> m_State = "Running"

\* No step takes a point, the objects or the count of the steps out of its type.
LEMMA PointStep ==
  ASSUME PointTypes, [Next]_vars
  PROVE  PointTypes'
<1> USE LoopAssumption DEF PointTypes, Points
<1>1. CASE Call
  BY <1>1 DEF Call, Open, Pause, Continue, Close, FailedTune, bufferThread, Stream, Session,
     Objects, streamVars
<1>2. CASE CallGoesOn
  <2>1. CASE OpenStream \/ OpenStreamFails \/ Play \/ PlayFails
    BY <2>1 DEF OpenStream, OpenStreamFails, Play, PlayFails, bufferThread, streamVars, Objects
  <2>2. CASE StartThread \/ Started
    BY <2>2 DEF StartThread, Started, bufferThread, streamVars, Objects
  <2>3. CASE PauseJoins \/ PauseSession \/ ContinueSession
    BY <2>3 DEF PauseJoins, PauseSession, ContinueSession, bufferThread, streamVars
  <2>4. CASE StopTests \/ StopJoins \/ Shutdown \/ DeleteClient
    BY <2>4 DEF StopTests, StopJoins, Shutdown, DeleteClient, bufferThread, streamVars
  <2> QED
    BY <1>2, <2>1, <2>2, <2>3, <2>4 DEF CallGoesOn
<1>3. CASE Process
  BY <1>3 DEF Process, ProcessStarts, ProcessTests, SingleStep, LoopReturns, ProcessEnds, streamVars
<1>4. CASE UNCHANGED vars
  BY <1>4 DEF vars, streamVars, bufferThread
<1> QED
  BY <1>1, <1>2, <1>3, <1>4 DEF Next, CallerStep, ProcessStep

\* Nor the flags.
LEMMA FlagStep ==
  ASSUME FlagTypes, [Next]_vars
  PROVE  FlagTypes'
<1> USE DEF FlagTypes
<1>1. CASE Call
  BY <1>1 DEF Call, Open, Pause, Continue, Close, FailedTune, shared, streamVars
<1>2. CASE CallGoesOn
  <2>1. CASE OpenStream \/ OpenStreamFails \/ Play \/ PlayFails
    BY <2>1 DEF OpenStream, OpenStreamFails, Play, PlayFails, shared, streamVars
  <2>2. CASE StartThread \/ Started
    BY <2>2 DEF StartThread, Started, streamVars
  <2>3. CASE PauseJoins \/ PauseSession \/ ContinueSession
    BY <2>3 DEF PauseJoins, PauseSession, ContinueSession, shared, streamVars
  <2>4. CASE StopTests \/ StopJoins \/ Shutdown \/ DeleteClient
    BY <2>4 DEF StopTests, StopJoins, Shutdown, DeleteClient, shared, streamVars
  <2> QED
    BY <1>2, <2>1, <2>2, <2>3, <2>4 DEF CallGoesOn
<1>3. CASE Process
  BY <1>3 DEF Process, ProcessStarts, ProcessTests, SingleStep, LoopReturns, ProcessEnds,
     shared, streamVars
<1>4. CASE UNCHANGED vars
  BY <1>4 DEF vars, streamVars, shared
<1> QED
  BY <1>1, <1>2, <1>3, <1>4 DEF Next, CallerStep, ProcessStep

\* The variables keep their types, whatever tunes fail: among them the steps of the event
\* loop, which ends so that Process can see m_running.
THEOREM TypeCorrect == Spec => []TypeOK
<1>1. Init => PointTypes /\ FlagTypes
  <2>1. Init => PointTypes
    BY LoopAssumption DEF Init, PointTypes, Points
  <2>2. Init => FlagTypes
    BY DEF Init, FlagTypes
  <2> QED
    BY <2>1, <2>2
<1>2. PointTypes /\ FlagTypes /\ [Next]_vars => (PointTypes /\ FlagTypes)'
  BY PointStep, FlagStep
<1>3. PointTypes /\ FlagTypes => TypeOK
  BY DEF PointTypes, FlagTypes, TypeOK
<1> QED
  BY <1>1, <1>2, <1>3, PTL DEF Spec

-----------------------------------------------------------------------------

\* A call that begins finds the thread running or none at all, and leaves it there.
LEMMA ThreadCall ==
  ASSUME ThreadOK, Call
  PROVE  ThreadOK'
<1> USE DEF ThreadOK, Threadless, HasSession, Session, Stream
<1>1. CASE Open
  BY <1>1 DEF Open, bufferThread
<1>2. CASE Pause
  BY <1>2 DEF Pause, bufferThread
<1>3. CASE Continue
  BY <1>3 DEF Continue, bufferThread, shared, streamVars
<1>4. CASE Close
  BY <1>4 DEF Close, bufferThread, streamVars
<1>5. CASE FailedTune
  BY <1>5 DEF FailedTune, bufferThread, shared, streamVars
<1> QED
  BY <1>1, <1>2, <1>3, <1>4, <1>5 DEF Call

\* The further steps of a call: a thread is started only where there is none, and none is
\* left running when the session is shut down.
LEMMA ThreadCallGoesOn ==
  ASSUME ThreadOK, CallGoesOn, alive'
  PROVE  ThreadOK'
<1> USE DEF ThreadOK, Threadless, HasSession, Session, Stream
<1>1. CASE OpenStream
  BY <1>1 DEF OpenStream, bufferThread, shared, streamVars
<1>2. CASE OpenStreamFails
  BY <1>2 DEF OpenStreamFails, bufferThread, shared
<1>3. CASE Play
  BY <1>3 DEF Play, bufferThread, shared, streamVars
<1>4. CASE PlayFails
  BY <1>4 DEF PlayFails, bufferThread, shared
<1>5. CASE StartThread
  BY <1>5 DEF StartThread, streamVars
<1>6. CASE Started
  BY <1>6 DEF Started, bufferThread
<1>7. CASE PauseJoins
  BY <1>7 DEF PauseJoins, Joined, shared, streamVars
<1>8. CASE PauseSession
  BY <1>8 DEF PauseSession, bufferThread, shared
<1>9. CASE ContinueSession
  BY <1>9 DEF ContinueSession, bufferThread, shared, streamVars
<1>10. CASE StopTests
  <2> USE <1>10 DEF StopTests, bufferThread, shared, streamVars
  <2>1. CASE m_BufferThreadActive
    BY <2>1
  <2>2. CASE ~m_BufferThreadActive
    <3>1. process = "done" /\ process' = "done" /\ caller' = "shutdown"
      BY <2>2
    <3>2. ~m_BufferThreadActive' /\ joinable'
      BY <2>2, <3>1
    <3> QED
      BY <3>1, <3>2
  <2> QED
    BY <2>1, <2>2
<1>11. CASE StopJoins
  BY <1>11 DEF StopJoins, streamVars
<1>12. CASE Shutdown
  BY <1>12 DEF Shutdown, bufferThread, shared, streamVars
<1>13. CASE DeleteClient
  BY <1>13 DEF DeleteClient, bufferThread, shared
<1> QED
  BY <1>1, <1>2, <1>3, <1>4, <1>5, <1>6, <1>7, <1>8, <1>9, <1>10, <1>11, <1>12, <1>13
     DEF CallGoesOn

\* The thread's own steps: it ends only when a call has reset m_running.
LEMMA ThreadProcess ==
  ASSUME ThreadOK, Process
  PROVE  ThreadOK'
<1> USE DEF ThreadOK, Threadless, HasSession, Session, Stream
<1>1. CASE ProcessStarts
  BY <1>1 DEF ProcessStarts, streamVars
<1>2. CASE ProcessTests
  BY <1>2 DEF ProcessTests, shared, streamVars
<1>3. CASE SingleStep \/ LoopReturns
  BY <1>3 DEF SingleStep, LoopReturns, shared, streamVars
<1>4. CASE ProcessEnds
  BY <1>4 DEF ProcessEnds, streamVars
<1> QED
  BY <1>1, <1>2, <1>3, <1>4 DEF Process

\* As long as the process lives, ThreadOK does.
LEMMA ThreadStep ==
  ASSUME alive => ThreadOK, [Next]_vars, alive'
  PROVE  ThreadOK'
<1>1. CASE alive /\ Call
  BY <1>1, ThreadCall
<1>2. CASE alive /\ CallGoesOn
  BY <1>2, ThreadCallGoesOn
<1>3. CASE alive /\ Process
  BY <1>3, ThreadProcess
<1>4. CASE UNCHANGED vars
  BY <1>4 DEF vars, bufferThread, shared, streamVars, ThreadOK, HasSession
<1> QED
  BY <1>1, <1>2, <1>3, <1>4 DEF Next, CallerStep, ProcessStep

LEMMA ThreadInit == Init => ThreadOK
  BY DEF Init, ThreadOK, Threadless

\* Between two calls m_BufferThreadActive, which both threads write without a lock, says
\* whether m_thread is joinable: the test in Stop is sound, whatever tunes fail.
THEOREM ActiveMeansJoinableHolds == Spec => []ActiveMeansJoinable
<1>1. Init => (alive => ThreadOK) /\ FlagTypes
  BY ThreadInit DEF Init, FlagTypes
<1>2. (alive => ThreadOK) /\ FlagTypes /\ [Next]_vars => ((alive => ThreadOK) /\ FlagTypes)'
  BY ThreadStep, FlagStep
<1>3. (alive => ThreadOK) /\ FlagTypes => ActiveMeansJoinable
  BY DEF ThreadOK, FlagTypes, ActiveMeansJoinable
<1> QED
  BY <1>1, <1>2, <1>3, PTL DEF Spec

-----------------------------------------------------------------------------

\* The calls begin with the stream that the thread uses, or without a thread.
LEMMA StreamCall ==
  ASSUME FailedTunes \subseteq {"Paused"}, ThreadOK, StreamOK, Call
  PROVE  StreamOK'
<1> USE DEF StreamOK, ThreadOK, Threadless, Stream, Session, HasSession
<1>1. CASE Open
  BY <1>1 DEF Open, bufferThread
<1>2. CASE Pause
  BY <1>2 DEF Pause, bufferThread
<1>3. CASE Continue
  BY <1>3 DEF Continue, bufferThread
<1>4. CASE Close
  BY <1>4 DEF Close, bufferThread, streamVars
<1>5. CASE FailedTune
  BY <1>5 DEF FailedTune, bufferThread
<1> QED
  BY <1>1, <1>2, <1>3, <1>4, <1>5 DEF Call

\* Nothing of the stream goes before the thread has been joined or has left its loop.
LEMMA StreamCallGoesOn ==
  ASSUME ThreadOK, StreamOK, CallGoesOn, alive'
  PROVE  StreamOK'
<1> USE DEF StreamOK, ThreadOK, Threadless, Stream, Session, HasSession
<1>1. CASE OpenStream \/ Play
  BY <1>1 DEF OpenStream, Play, bufferThread, streamVars
<1>2. CASE OpenStreamFails \/ PlayFails
  BY <1>2 DEF OpenStreamFails, PlayFails, bufferThread
<1>3. CASE StartThread
  BY <1>3 DEF StartThread, streamVars
<1>4. CASE Started
  BY <1>4 DEF Started, bufferThread
<1>5. CASE PauseJoins
  BY <1>5 DEF PauseJoins, streamVars
<1>6. CASE PauseSession \/ ContinueSession
  BY <1>6 DEF PauseSession, ContinueSession, bufferThread, streamVars
<1>7. CASE StopTests
  BY <1>7 DEF StopTests, bufferThread, streamVars
<1>8. CASE StopJoins
  BY <1>8 DEF StopJoins, streamVars
<1>9. CASE Shutdown
  BY <1>9 DEF Shutdown, bufferThread
<1>10. CASE DeleteClient
  BY <1>10 DEF DeleteClient, bufferThread
<1> QED
  BY <1>1, <1>2, <1>3, <1>4, <1>5, <1>6, <1>7, <1>8, <1>9, <1>10 DEF CallGoesOn

\* The thread deletes nothing, and does not end between two calls.
LEMMA StreamProcess ==
  ASSUME ThreadOK, StreamOK, Process
  PROVE  StreamOK'
BY DEF StreamOK, ThreadOK, Process, ProcessStarts, ProcessTests, SingleStep, LoopReturns,
   ProcessEnds, streamVars, HasSession

LEMMA StreamStep ==
  ASSUME FailedTunes \subseteq {"Paused"}, alive => ThreadOK /\ StreamOK, [Next]_vars, alive'
  PROVE  StreamOK'
<1>1. CASE alive /\ Call
  BY <1>1, StreamCall
<1>2. CASE alive /\ CallGoesOn
  BY <1>2, StreamCallGoesOn
<1>3. CASE alive /\ Process
  BY <1>3, StreamProcess
<1>4. CASE UNCHANGED vars
  BY <1>4 DEF vars, bufferThread, streamVars, StreamOK, HasSession
<1> QED
  BY <1>1, <1>2, <1>3, <1>4 DEF Next, CallerStep, ProcessStep

\* Both invariants, while the process lives.
LEMMA StreamHolds ==
  ASSUME FailedTunes \subseteq {"Paused"}
  PROVE  Spec => [](alive => ThreadOK /\ StreamOK)
<1>1. Init => (alive => ThreadOK /\ StreamOK)
  BY ThreadInit DEF Init, StreamOK, Threadless, HasSession, Session
<1>2. (alive => ThreadOK /\ StreamOK) /\ [Next]_vars => (alive => ThreadOK /\ StreamOK)'
  BY ThreadStep, StreamStep
<1> QED
  BY <1>1, <1>2, PTL DEF Spec

\* The player's thread is nowhere in live555 while the buffer thread runs the scheduler.
THEOREM OneThreadInLive555Holds ==
  ASSUME FailedTunes \subseteq {"Paused"}
  PROVE  Spec => []OneThreadInLive555
<1>1. (alive => ThreadOK /\ StreamOK) => OneThreadInLive555
  BY DEF ThreadOK, StreamOK, OneThreadInLive555, UsesSession, Threadless
<1> QED
  BY <1>1, StreamHolds, PTL

\* Session, client and buffer outlive every step in which the buffer thread uses them.
THEOREM ThreadHasItsObjectsHolds ==
  ASSUME FailedTunes \subseteq {"Paused"}
  PROVE  Spec => []ThreadHasItsObjects
<1>1. (alive => ThreadOK /\ StreamOK) => ThreadHasItsObjects
  BY DEF StreamOK, ThreadHasItsObjects
<1> QED
  BY <1>1, StreamHolds, PTL

\* All of it together.
THEOREM ThreadsApartHolds ==
  ASSUME FailedTunes \subseteq {"Paused"}
  PROVE  Spec => []ThreadsApart
<1>1. ActiveMeansJoinable /\ OneThreadInLive555 /\ ThreadHasItsObjects => ThreadsApart
  BY DEF ThreadsApart
<1> QED
  BY <1>1, ActiveMeansJoinableHolds, OneThreadInLive555Holds, ThreadHasItsObjectsHolds, PTL

\* The state that CTsReader keeps is the client's, and is the thread's, after any sequence
\* of plays, pauses and failures.
THEOREM PauseAgreesHolds ==
  ASSUME FailedTunes \subseteq {"Paused"}
  PROVE  Spec => []PauseAgrees
<1>1. Spec => [](FlagTypes)
  <2>1. Init => FlagTypes
    BY DEF Init, FlagTypes
  <2> QED
    BY <2>1, FlagStep, PTL DEF Spec
<1>2. FlagTypes /\ (alive => ThreadOK /\ StreamOK) => PauseAgrees
  BY DEF FlagTypes, ThreadOK, StreamOK, PauseAgrees
<1> QED
  BY <1>1, <1>2, StreamHolds, PTL
=============================================================================
