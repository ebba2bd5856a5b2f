------------------------------ MODULE RtspClient ------------------------------
(***************************************************************************)
(* The buffer thread of a stream read by RTSP: CRTSPClient starts it, stops *)
(* it and joins it, CTsReader owns the client and the memory buffer, and    *)
(* cPVRClientMediaPortal owns the CTsReader.                                *)
(*                                                                         *)
(* Kodi's player thread makes all the calls: caller is the point it is at.  *)
(* The buffer thread is in Process: process is the point it is at.  The two *)
(* share m_running and m_BufferThreadActive without a lock, and both use    *)
(* the live555 session and its scheduler, which belong to one thread at a   *)
(* time.  The reads of the stream are those of MemoryBuffer.                *)
(***************************************************************************)
EXTENDS Naturals

CONSTANTS
  LoopSteps,   \* the events that one doEventLoop handles: 100
  FailedTunes  \* the states of the open stream in which a tune to another channel may fail

ASSUME LoopAssumption == LoopSteps \in Nat /\ FailedTunes \subseteq {"Running", "Paused"}

VARIABLES
  caller,                \* "idle", or the point of the call in progress
  m_State,               \* CTsReader's
  objects,               \* which of Objects exist
  m_bPaused,
  m_running, m_BufferThreadActive,
  joinable,              \* m_thread.joinable()
  process, steps,        \* the buffer thread, and the events of its doEventLoop
  alive                  \* std::terminate has not been called

shared == <<m_running, m_BufferThreadActive>>
streamVars == <<m_State, objects, m_bPaused>>
bufferThread == <<process, steps>>
vars == <<caller, streamVars, shared, joinable, bufferThread, alive>>

Session == {"m_ourClient", "m_session"}
Stream == Session \cup {"m_rtspClient", "m_buffer"}
Objects == Stream \cup {"m_fileReader"}

HasSession == Session \subseteq objects

-----------------------------------------------------------------------------
(* Open                                                                    *)

\* A new CTsReader makes the buffer and the client and asks the server for the session.
Open ==
  /\ caller = "idle" /\ objects = {}
  /\ objects' = Stream
  /\ m_bPaused' = FALSE /\ m_running' = FALSE /\ m_BufferThreadActive' = FALSE
  /\ caller' = "openStream"
  /\ UNCHANGED <<m_State, joinable, bufferThread, alive>>

OpenStream ==
  /\ caller = "openStream"
  /\ caller' = "play"
  /\ UNCHANGED <<streamVars, shared, joinable, bufferThread, alive>>

\* Every failure shuts the session down; Open and its caller delete what there is.
OpenStreamFails ==
  /\ caller = "openStream"
  /\ objects' = {}
  /\ caller' = "idle"
  /\ UNCHANGED <<m_State, m_bPaused, shared, joinable, bufferThread, alive>>

Play ==
  /\ caller = "play"
  /\ caller' = "startThread"
  /\ UNCHANGED <<streamVars, shared, joinable, bufferThread, alive>>

\* Mutant: the session is not shut down.
PlayFailsQuietly ==
  /\ caller = "play"
  /\ objects' = objects \cup {"m_fileReader"}
  /\ m_State' = "Running"
  /\ caller' = "idle"
  /\ UNCHANGED <<m_bPaused, shared, joinable, bufferThread, alive>>

\* The server refuses to play and the session is shut down.  Open ignores it: the reader
\* counts as running, without a session and without a thread.
PlayFails ==
  /\ caller = "play"
  /\ objects' = (objects \ Session) \cup {"m_fileReader"}
  /\ m_State' = "Running"
  /\ caller' = "idle"
  /\ UNCHANGED <<m_bPaused, shared, joinable, bufferThread, alive>>

-----------------------------------------------------------------------------
(* StartBufferThread                                                       *)

\* m_thread is assigned: std::terminate if it still is joinable.
StartThread ==
  /\ caller = "startThread"
  /\ IF m_BufferThreadActive
     THEN UNCHANGED <<m_running, joinable, process, alive>>
     ELSE /\ m_running' = TRUE
          /\ alive' = ~joinable
          /\ joinable' = TRUE /\ process' = "start"
  /\ caller' = "started"
  /\ UNCHANGED <<streamVars, m_BufferThreadActive, steps>>

\* Mutant: the flag is left to the thread.
StartedUnmarked ==
  /\ caller = "started"
  /\ m_bPaused' = FALSE
  /\ objects' = objects \cup {"m_fileReader"}
  /\ m_State' = "Running"
  /\ caller' = "idle"
  /\ UNCHANGED <<shared, joinable, bufferThread, alive>>

\* The caller marks the thread active as the thread itself does.  Then Open makes the
\* m_fileReader, Continue has it already.
Started ==
  /\ caller = "started"
  /\ m_BufferThreadActive' = TRUE
  /\ m_bPaused' = FALSE
  /\ objects' = objects \cup {"m_fileReader"}
  /\ m_State' = "Running"
  /\ caller' = "idle"
  /\ UNCHANGED <<m_running, joinable, bufferThread, alive>>

-----------------------------------------------------------------------------
(* Process                                                                 *)

ProcessStarts ==
  /\ process = "start"
  /\ m_BufferThreadActive' = TRUE
  /\ process' = "test"
  /\ UNCHANGED <<caller, streamVars, m_running, joinable, steps, alive>>

ProcessTests ==
  /\ process = "test"
  /\ process' = IF m_running THEN "loop" ELSE "end"
  /\ steps' = 0
  /\ UNCHANGED <<caller, streamVars, shared, joinable, alive>>

\* Mutant: doEventLoop without an end.
SingleStepForever ==
  /\ process = "loop" /\ steps < LoopSteps
  /\ steps' = (steps + 1) % LoopSteps
  /\ UNCHANGED <<caller, streamVars, shared, joinable, process, alive>>

\* One event: a frame goes into m_buffer, or an RTCP report is due.
SingleStep ==
  /\ process = "loop" /\ steps < LoopSteps
  /\ steps' = steps + 1
  /\ UNCHANGED <<caller, streamVars, shared, joinable, process, alive>>

LoopReturns ==
  /\ process = "loop" /\ steps = LoopSteps
  /\ process' = "test"
  /\ UNCHANGED <<caller, streamVars, shared, joinable, steps, alive>>

ProcessEnds ==
  /\ process = "end"
  /\ m_BufferThreadActive' = FALSE
  /\ process' = "done"
  /\ UNCHANGED <<caller, streamVars, m_running, joinable, steps, alive>>

-----------------------------------------------------------------------------
(* Pause and Continue                                                      *)

Pause ==
  /\ caller = "idle" /\ "m_fileReader" \in objects /\ m_State = "Running"
  /\ IF HasSession
     THEN caller' = "pauseJoin" /\ m_running' = FALSE /\ UNCHANGED m_State
     ELSE m_State' = "Paused" /\ UNCHANGED <<caller, m_running>>
  /\ UNCHANGED <<objects, m_bPaused, m_BufferThreadActive, joinable, bufferThread, alive>>

\* m_thread is always joinable here, because Play or Continue has started it.
Joined == joinable => process = "done"

\* Mutant: Pause does not wait for the thread.
PauseUnjoined ==
  /\ caller = "pauseJoin"
  /\ caller' = "pauseSession"
  /\ UNCHANGED <<streamVars, shared, joinable, bufferThread, alive>>

PauseJoins ==
  /\ caller = "pauseJoin" /\ Joined
  /\ joinable' = FALSE /\ process' = "none"
  /\ caller' = "pauseSession"
  /\ UNCHANGED <<streamVars, shared, steps, alive>>

\* pauseMediaSession, whatever the server answers.
PauseSession ==
  /\ caller = "pauseSession"
  /\ m_bPaused' = TRUE
  /\ m_State' = "Paused"
  /\ caller' = "idle"
  /\ UNCHANGED <<objects, shared, joinable, bufferThread, alive>>

Continue ==
  /\ caller = "idle" /\ "m_fileReader" \in objects /\ m_State = "Paused"
  /\ IF HasSession
     THEN caller' = "continueSession" /\ UNCHANGED m_State
     ELSE m_State' = "Running" /\ UNCHANGED caller
  /\ UNCHANGED <<objects, m_bPaused, shared, joinable, bufferThread, alive>>

\* playMediaSession, whatever the server answers.
ContinueSession ==
  /\ caller = "continueSession"
  /\ caller' = "startThread"
  /\ UNCHANGED <<streamVars, shared, joinable, bufferThread, alive>>

-----------------------------------------------------------------------------
(* Close, and the destructors                                              *)

\* CRTSPClient::Stop: the thread is stopped if it counts as active.
Close ==
  /\ caller = "idle" /\ "m_fileReader" \in objects
  /\ IF m_BufferThreadActive
     THEN caller' = "stopTest" /\ m_running' = FALSE
     ELSE caller' = "shutdown" /\ UNCHANGED m_running
  /\ UNCHANGED <<streamVars, m_BufferThreadActive, joinable, bufferThread, alive>>

\* Mutant: no thread is waited for.
StopWithoutJoin ==
  /\ caller = "stopTest"
  /\ caller' = "shutdown"
  /\ UNCHANGED <<streamVars, shared, joinable, bufferThread, alive>>

\* StopBufferThread tests m_BufferThreadActive again.  If Process has ended meanwhile it
\* returns without the join.
StopTests ==
  /\ caller = "stopTest"
  /\ caller' = IF m_BufferThreadActive THEN "stopJoin" ELSE "shutdown"
  /\ UNCHANGED <<streamVars, shared, joinable, bufferThread, alive>>

StopJoins ==
  /\ caller = "stopJoin" /\ Joined
  /\ joinable' = FALSE /\ process' = "none"
  /\ m_BufferThreadActive' = FALSE
  /\ caller' = "shutdown"
  /\ UNCHANGED <<streamVars, m_running, steps, alive>>

\* The sinks are closed, the session is torn down, the buffer is emptied.
Shutdown ==
  /\ caller = "shutdown"
  /\ objects' = objects \ Session
  /\ caller' = "delete"
  /\ UNCHANGED <<m_State, m_bPaused, shared, joinable, bufferThread, alive>>

\* OpenLiveStream deletes the CTsReader of the last channel without Close: its destructor
\* deletes the buffer, then the client.
FailedTune ==
  /\ caller = "idle" /\ "m_fileReader" \in objects /\ m_State \in FailedTunes
  /\ objects' = objects \ {"m_buffer", "m_fileReader"}
  /\ caller' = "deleteUnclosed"
  /\ UNCHANGED <<m_State, m_bPaused, shared, joinable, bufferThread, alive>>

\* The client is deleted with its scheduler and its m_thread, which calls std::terminate
\* if it is joinable.
DeleteClient ==
  /\ caller \in {"delete", "deleteUnclosed"}
  /\ alive' = ~joinable
  /\ objects' = {}
  /\ m_State' = "Stopped"
  /\ caller' = "idle"
  /\ UNCHANGED <<m_bPaused, shared, joinable, bufferThread>>

-----------------------------------------------------------------------------

Init ==
  /\ caller = "idle" /\ m_State = "Stopped" /\ objects = {} /\ m_bPaused = FALSE
  /\ m_running = FALSE /\ m_BufferThreadActive = FALSE
  /\ joinable = FALSE /\ process = "none" /\ steps = 0
  /\ alive = TRUE

Call == Open \/ Pause \/ Continue \/ Close \/ FailedTune

CallGoesOn ==
  \/ OpenStream \/ OpenStreamFails \/ Play \/ PlayFails \/ StartThread \/ Started
  \/ PauseJoins \/ PauseSession \/ ContinueSession
  \/ StopTests \/ StopJoins \/ Shutdown \/ DeleteClient

Process == ProcessStarts \/ ProcessTests \/ SingleStep \/ LoopReturns \/ ProcessEnds

CallerStep == alive /\ CallGoesOn
ProcessStep == alive /\ Process

Next == (alive /\ Call) \/ CallerStep \/ ProcessStep

Spec == Init /\ [][Next]_vars

\* Both threads are scheduled.  An event always comes: if there is no packet, the next
\* RTCP report of the session is due.
FairSpec == Spec /\ WF_vars(CallerStep) /\ WF_vars(ProcessStep)

-----------------------------------------------------------------------------

Points == {"idle", "openStream", "play", "startThread", "started", "pauseJoin", "pauseSession",
           "continueSession", "stopTest", "stopJoin", "shutdown", "delete", "deleteUnclosed"}

\* The types of the variables; a doEventLoop never goes beyond its events.
TypeOK ==
  /\ caller \in Points
  /\ m_State \in {"Stopped", "Running", "Paused"}
  /\ objects \subseteq Objects
  /\ m_bPaused \in BOOLEAN /\ m_running \in BOOLEAN /\ m_BufferThreadActive \in BOOLEAN
  /\ joinable \in BOOLEAN /\ alive \in BOOLEAN
  /\ process \in {"none", "start", "test", "loop", "end", "done"}
  /\ steps \in 0 .. LoopSteps

\* Stop asks m_BufferThreadActive, which both threads write, whether there is a thread to
\* join: between two calls it says exactly whether m_thread is joinable.
ActiveMeansJoinable == caller = "idle" /\ alive => m_BufferThreadActive = joinable

\* The session and its scheduler are never used by the player's thread while the buffer
\* thread is in its event loop.
UsesSession == {"openStream", "play", "pauseSession", "continueSession", "shutdown", "delete",
                "deleteUnclosed"}
OneThreadInLive555 == alive /\ process = "loop" => caller \notin UsesSession

\* As long as the buffer thread can come to its event loop, everything that it uses
\* there exists: the session, the client and the buffer.
ThreadHasItsObjects == alive /\ process \in {"start", "test", "loop"} => Stream \subseteq objects

\* The two threads share the session without a lock: what they must not do to each other.
ThreadsApart == ActiveMeansJoinable /\ OneThreadInLive555 /\ ThreadHasItsObjects

\* With a session the client and the reader agree on whether the stream is paused, and
\* whether a thread fills the buffer.
PauseAgrees ==
  alive /\ caller = "idle" /\ HasSession =>
    /\ m_bPaused = (m_State = "Paused")
    /\ m_BufferThreadActive = (m_State = "Running")

\* "Fixed: TSReader (RTSP): pause hangs Kodi": Pause, and every other call, returns.
CallsReturn == caller # "idle" ~> caller = "idle" \/ ~alive

\* "Delete the tsreader when tuning to a new channel failed. This fixes the first re-tune
\* to a working channel after a failure": the process survives that deletion.
FailedTuneSurvived == [][caller = "deleteUnclosed" => alive']_vars
=============================================================================
