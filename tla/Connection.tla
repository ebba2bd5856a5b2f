------------------------------ MODULE Connection ------------------------------
(***************************************************************************)
(* The command connection of the PVR client to the TVServerKodi plugin:    *)
(* cPVRClientMediaPortal::SendCommand, TryConnect, Connect, Process and     *)
(* Disconnect over one MPTV::Socket, called by Kodi's threads (Callers)     *)
(* and by the background thread Bg that TryConnect starts.                  *)
(*                                                                         *)
(* A thread's call stack is at most SendCommand, TryConnect/Connect,        *)
(* SendCommand: pc is the point in the top frame, t \in inSend says that    *)
(* its Connect was called by a SendCommand, t \in inConnect that its        *)
(* SendCommand was called by Connect.  m_mutex and m_connectionMutex are    *)
(* std::mutex: a thread that locks one it already holds waits for ever.     *)
(***************************************************************************)
EXTENDS Naturals, Sequences

CONSTANTS
  Callers,     \* Kodi's threads
  Creator,     \* the one of them that runs CPVRMediaPortalAddon::CreateInstance
  Pollers,     \* those of them that may be in GetSignalStatus, which IsUp does not gate
  Bg,          \* the thread of cPVRClientMediaPortal::Process
  None,        \* no thread
  MaxRetries,  \* ReadLine's "retries": 6 in the code
  Faults,      \* what may go wrong: a subset of {"close", "silence", "slow", "refuse"}
  MaxFaults,   \* bound on the number of broken links
  MaxLate,     \* bound on the answers that are still on their way after a time-out
  Benign,      \* an outage spares the handshake and lasts until the client has noticed it
  TimeshiftAtExit \* Disconnect may find a timeshift to stop

Threads == Callers \cup {Bg}

ASSUME ThreadsAssumption ==
  /\ Creator \in Callers /\ Pollers \subseteq Callers
  /\ Bg \notin Callers /\ None \notin Threads

ASSUME BoundsAssumption ==
  /\ MaxRetries \in Nat /\ MaxFaults \in Nat /\ MaxLate \in Nat
  /\ Benign \in BOOLEAN /\ TimeshiftAtExit \in BOOLEAN

VARIABLES
  pc, inSend, inConnect,     \* the threads' stacks
  mutex, connMutex,          \* m_mutex, m_connectionMutex: the holder
  phase, answer,             \* the command Connect is at; what a SendCommand returned
  retries,                   \* ReadLine
  state,                     \* m_state
  running, thread, bgState,  \* m_running, m_thread, Process's local variable "state"
  tuned,                     \* m_iCurrentChannel may be a channel: a command has succeeded
  exit,                      \* Disconnect: not called, or the command it may send next
  sock,                      \* _sd
  reachable, link,           \* the server accepts connections; the fate of the open one
  pending, inbox,            \* unanswered commands, answers not yet received
  faults

stack == <<pc, inSend, inConnect>>
locks == <<mutex, connMutex>>
connectVars == <<phase, answer>>
bgVars == <<running, thread, bgState>>
wire == <<sock, link, pending, inbox>>
server == <<reachable, faults>>
vars == <<stack, locks, connectVars, retries, state, bgVars, tuned, exit, wire, server>>

CallerPoints == {"idle", "startBg", "spawn", "resend", "join", "leave", "gone"}
BgPoints == {"none", "loop", "sleep", "report", "ended"}
Points == CallerPoints \cup BgPoints \cup
          {"wantCmd", "send", "read", "wantConn", "dial", "tcp", "handle"}
States == {"UNKNOWN", "CONNECTING", "CONNECTED", "DISCONNECTED",
           "SERVER_UNREACHABLE", "MISMATCH"}   \* SERVER_ and VERSION_MISMATCH in one

Goto(t, p) == pc' = [pc EXCEPT ![t] = p]

\* Where a caller goes when its SendCommand returns: to Kodi or to Disconnect.
Home == IF exit = "no" THEN "idle" ELSE "leave"

\* Socket::close: whatever was on the connection is lost with it.
CloseSocket == /\ sock' = "closed" /\ link' = "none"
               /\ pending' = <<>> /\ inbox' = <<>>

-----------------------------------------------------------------------------
(* SendCommand                                                             *)

\* CreateInstance is in its TryConnect: Kodi has no instance to call yet.
Creating ==
  /\ Creator \notin inSend
  /\ Creator \in inConnect \/ pc[Creator] \in {"wantConn", "dial", "tcp", "startBg", "spawn"}

\* An API function: IsUp() first, then SendCommand.  m_mutex is taken later,
\* so the test may be stale by then.
Call(t) ==
  /\ pc[t] = "idle" /\ exit = "no" /\ ~Creating
  /\ state = "CONNECTED" \/ (t \in Pollers /\ tuned)
  /\ Goto(t, "wantCmd")
  /\ UNCHANGED <<inSend, inConnect, locks, connectVars, retries, state, bgVars,
                 tuned, exit, wire, server>>

LockCommand(t) ==
  /\ pc[t] = "wantCmd" /\ mutex = None
  /\ mutex' = t
  /\ Goto(t, "send")
  /\ UNCHANGED <<inSend, inConnect, connMutex, connectVars, retries, state, bgVars,
                 tuned, exit, wire, server>>

\* SendCommand returns r: to the handler in Connect, to Disconnect or to Kodi.
ReturnFromCommand(t, r) ==
  /\ mutex' = None
  /\ answer' = [answer EXCEPT ![t] = IF t \in inConnect \/ exit # "no" THEN r ELSE "empty"]
  /\ IF t \in inConnect
     THEN Goto(t, "handle") /\ UNCHANGED tuned
     ELSE Goto(t, Home) /\ tuned' = (tuned \/ r # "empty")

\* Socket::send asks select whether the socket is readable (the set is passed as
\* readfds), and closes it if so: an answer or an end of file nobody has read
\* ends the connection.
ReadableAtSend == inbox # <<>> \/ link = "eof"

SendOk(t) ==
  /\ pc[t] \in {"send", "resend"} /\ sock = "open"
  /\ ~ReadableAtSend
  /\ pending' = IF link = "live" THEN Append(pending, "own") ELSE pending
  /\ retries' = MaxRetries
  /\ Goto(t, "read")
  /\ UNCHANGED <<inSend, inConnect, locks, connectVars, state, bgVars, tuned, exit,
                 sock, link, inbox, server>>

\* Mutant: m_mutex is released while TryConnect runs, to spare it the deadlock.
SendFailsUnlocked(t) ==
  /\ pc[t] \in {"send", "resend"}
  /\ sock # "open" \/ ReadableAtSend \/ link = "silent"
  /\ CloseSocket
  /\ IF pc[t] = "send"
     THEN /\ state' = "DISCONNECTED"
          /\ inSend' = inSend \cup {t} /\ mutex' = None
          /\ answer' = [answer EXCEPT ![t] = "empty"]
          /\ Goto(t, "wantConn")
          /\ UNCHANGED tuned
     ELSE /\ ReturnFromCommand(t, "empty")
          /\ UNCHANGED <<state, inSend>>
  /\ UNCHANGED <<inConnect, connMutex, phase, retries, bgVars, exit, server>>

\* The socket was invalid, has become readable or refuses the data.  In a socket
\* that another thread is still connecting ::send fails as well.
SendFails(t) ==
  /\ pc[t] \in {"send", "resend"}
  /\ sock # "open" \/ ReadableAtSend \/ link = "silent"
  /\ CloseSocket
  /\ IF pc[t] = "send"
     THEN /\ state' = "DISCONNECTED"
          /\ inSend' = inSend \cup {t}
          /\ Goto(t, "wantConn")             \* TryConnect, still holding m_mutex
          /\ answer' = [answer EXCEPT ![t] = "empty"]
          /\ UNCHANGED <<mutex, tuned>>
     ELSE /\ ReturnFromCommand(t, "empty")
          /\ UNCHANGED <<state, inSend>>
  /\ UNCHANGED <<inConnect, connMutex, phase, retries, bgVars, exit, server>>

\* ReadLine: everything that has arrived is appended to the line and the line is
\* cut at its first "\r\n".
Receive(t) ==
  /\ pc[t] = "read" /\ inbox # <<>>
  /\ inbox' = <<>>
  /\ ReturnFromCommand(t, Head(inbox))
  /\ UNCHANGED <<inSend, inConnect, connMutex, phase, retries, state, bgVars,
                 exit, sock, link, pending, server>>

\* Mutant: a retry that is not counted.
ReceiveTimeoutUncounted(t) ==
  /\ pc[t] = "read" /\ inbox = <<>> /\ link = "silent"
  /\ UNCHANGED vars

\* select finds nothing for RECEIVE_TIMEOUT.  After the last retry ReadLine gives
\* up and leaves the connection open: the answers that are missing will be late.
ReceiveTimeout(t) ==
  /\ pc[t] = "read" /\ inbox = <<>>
  /\ link = "silent" \/ (link = "live" /\ "slow" \in Faults /\ Len(pending) <= MaxLate)
  /\ IF retries # 0
     THEN /\ retries' = retries - 1
          /\ UNCHANGED <<pc, mutex, answer, tuned, pending>>
     ELSE /\ ReturnFromCommand(t, "empty")
          /\ pending' = [i \in DOMAIN pending |-> "late"]
          /\ UNCHANGED retries
  /\ UNCHANGED <<inSend, inConnect, connMutex, phase, state, bgVars, exit,
                 sock, link, inbox, server>>

\* recv returns 0: the empty buffer is appended and the loop goes round again.
ReceiveEof(t) ==
  /\ pc[t] = "read" /\ inbox = <<>> /\ link = "eof"
  /\ UNCHANGED vars

\* select or recv fails.
ReceiveError(t) ==
  /\ pc[t] = "read" /\ link = "silent"
  /\ CloseSocket
  /\ ReturnFromCommand(t, "empty")
  /\ UNCHANGED <<inSend, inConnect, connMutex, phase, retries, state, bgVars,
                 exit, server>>

-----------------------------------------------------------------------------
(* Connect and TryConnect                                                  *)

\* Mutant: Process calls Connect(true) too.
UpdateConnectionStateAlways(t) == TRUE

\* Process calls Connect(false), TryConnect calls Connect(true).
UpdateConnectionState(t) == t # Bg

SetStateIn(t, s) == state' = IF UpdateConnectionState(t) THEN s ELSE state

LockConnection(t) ==
  /\ pc[t] = "wantConn" /\ connMutex = None
  /\ connMutex' = t
  /\ CloseSocket                             \* create()
  /\ SetStateIn(t, "CONNECTING")
  /\ Goto(t, "dial")
  /\ UNCHANGED <<inSend, inConnect, mutex, connectVars, retries, bgVars,
                 tuned, exit, server>>

\* Socket::connect gives _sd its value before the TCP connection is established.
Dial(t) ==
  /\ pc[t] = "dial"
  /\ sock' = "opening" /\ link' = "none" /\ pending' = <<>> /\ inbox' = <<>>
  /\ Goto(t, "tcp")
  /\ UNCHANGED <<inSend, inConnect, locks, connectVars, retries, state,
                 bgVars, tuned, exit, server>>

DialSucceeds(t) ==
  /\ pc[t] = "tcp" /\ sock = "opening" /\ reachable
  /\ sock' = "open" /\ link' = "live"
  /\ phase' = "hello"
  /\ inConnect' = inConnect \cup {t}
  /\ Goto(t, "wantCmd")                      \* SendCommand("PVRclientXBMC:0-1\n")
  /\ UNCHANGED <<inSend, locks, answer, retries, state, bgVars, tuned, exit,
                 pending, inbox, server>>

\* Mutants: Process also retries after a failed handshake; it gives up at once.
AfterConnectStubborn(t, result) ==
  CASE t = Bg -> IF result # "CONNECTED" THEN "sleep" ELSE "report"
    [] t # Bg /\ result = "SERVER_UNREACHABLE" -> "startBg"
    [] t # Bg /\ result = "CONNECTED" /\ t \in inSend -> "resend"
    [] OTHER -> Home

AfterConnectOnce(t, result) ==
  CASE t = Bg -> "report"
    [] t # Bg /\ result = "SERVER_UNREACHABLE" -> "startBg"
    [] t # Bg /\ result = "CONNECTED" /\ t \in inSend -> "resend"
    [] OTHER -> Home

\* Connect has returned result: Process decides whether to wait, SendCommand
\* whether to resend, CreateInstance is done.
AfterConnect(t, result) ==
  CASE t = Bg -> IF result = "SERVER_UNREACHABLE" THEN "sleep" ELSE "report"
    [] t # Bg /\ result = "SERVER_UNREACHABLE" -> "startBg"
    [] t # Bg /\ result = "CONNECTED" /\ t \in inSend -> "resend"
    [] OTHER -> Home

ReturnFromConnect(t, result) ==
  /\ connMutex' = None
  /\ inConnect' = inConnect \ {t}
  /\ bgState' = IF t = Bg THEN result ELSE bgState
  /\ Goto(t, AfterConnect(t, result))
  /\ IF t # Bg /\ result # "SERVER_UNREACHABLE"
     THEN /\ inSend' = inSend \ {t}
          /\ mutex' = IF t \in inSend /\ result # "CONNECTED" THEN None ELSE mutex
     ELSE UNCHANGED <<inSend, mutex>>

DialFails(t) ==
  /\ pc[t] = "tcp"
  /\ ~reachable \/ sock # "opening"
  /\ CloseSocket
  /\ SetStateIn(t, "SERVER_UNREACHABLE")
  /\ ReturnFromConnect(t, "SERVER_UNREACHABLE")
  /\ UNCHANGED <<connectVars, retries, running, thread, tuned, exit, server>>

\* The answer to the hello: none, a refusal or another command's answer, or the
\* version of the plugin.
HelloFails(t) ==
  /\ pc[t] = "handle" /\ phase = "hello"
  /\ \E result \in {"UNKNOWN", "MISMATCH"} :
       /\ result = "UNKNOWN" <=> answer[t] = "empty"
       /\ result = "MISMATCH" => answer[t] = "late" \/ "refuse" \in Faults
       /\ SetStateIn(t, result)
       /\ ReturnFromConnect(t, result)
  /\ UNCHANGED <<connectVars, retries, running, thread, tuned, exit, wire, server>>

HelloAccepted(t) ==
  /\ pc[t] = "handle" /\ phase = "hello" /\ answer[t] = "own"
  /\ SetStateIn(t, "CONNECTED")
  /\ phase' = "cards"
  /\ Goto(t, "wantCmd")                      \* LoadCardSettings
  /\ UNCHANGED <<inSend, inConnect, locks, answer, retries, bgVars, tuned, exit,
                 sock, link, pending, inbox, server>>

\* LoadCardSettings takes whatever comes: Connect returns CONNECTED.
CardsLoaded(t) ==
  /\ pc[t] = "handle" /\ phase = "cards"
  /\ ReturnFromConnect(t, "CONNECTED")
  /\ UNCHANGED <<connectVars, retries, state, running, thread, tuned, exit, wire, server>>

\* TryConnect, the server being unreachable: the test of m_running ...
StartBg(t) ==
  /\ pc[t] = "startBg"
  /\ IF running
     THEN /\ Goto(t, Home)
          /\ mutex' = IF t \in inSend THEN None ELSE mutex
          /\ inSend' = inSend \ {t}
          /\ UNCHANGED running
     ELSE /\ running' = TRUE
          /\ Goto(t, "spawn")
          /\ UNCHANGED <<mutex, inSend>>
  /\ UNCHANGED <<inConnect, connMutex, connectVars, retries, state, thread, bgState,
                 tuned, exit, wire, server>>

\* ... and the assignment to m_thread, which calls std::terminate when m_thread
\* is still joinable.
Spawn(t) ==
  /\ pc[t] = "spawn"
  /\ thread' = IF thread = "none" THEN "joinable" ELSE "overwritten"
  /\ bgState' = "uninitialised"
  /\ pc' = [pc EXCEPT ![t] = Home, ![Bg] = "loop"]
  /\ mutex' = IF t \in inSend THEN None ELSE mutex
  /\ inSend' = inSend \ {t}
  /\ UNCHANGED <<inConnect, connMutex, connectVars, retries, state, running,
                 tuned, exit, wire, server>>

-----------------------------------------------------------------------------
(* Process, the background thread                                          *)

BgLoop ==
  /\ pc[Bg] = "loop"
  /\ Goto(Bg, IF running THEN "wantConn" ELSE "report")
  /\ UNCHANGED <<inSend, inConnect, locks, connectVars, retries, state, bgVars,
                 tuned, exit, wire, server>>

BgWakes ==                                   \* after a minute
  /\ pc[Bg] = "sleep"
  /\ Goto(Bg, "loop")
  /\ UNCHANGED <<inSend, inConnect, locks, connectVars, retries, state, bgVars,
                 tuned, exit, wire, server>>

\* Mutant: m_running is reset when Process ends, so that the next loss starts it again.
BgReportResetting ==
  /\ pc[Bg] = "report"
  /\ state' \in IF bgState = "uninitialised" THEN States ELSE {bgState}
  /\ running' = FALSE
  /\ Goto(Bg, "ended")
  /\ UNCHANGED <<inSend, inConnect, locks, connectVars, retries, thread, bgState,
                 tuned, exit, wire, server>>

\* SetConnectionState(state); m_running is left as it is.
BgReport ==
  /\ pc[Bg] = "report"
  /\ state' \in IF bgState = "uninitialised" THEN States ELSE {bgState}
  /\ Goto(Bg, "ended")
  /\ UNCHANGED <<inSend, inConnect, locks, connectVars, retries, bgVars,
                 tuned, exit, wire, server>>

-----------------------------------------------------------------------------
(* Disconnect, called by the destructor when no call is in progress        *)

BeginDisconnect(t) ==
  /\ exit = "no" /\ \A u \in Callers : pc[u] = "idle"
  /\ t = Creator
  /\ exit' = "IsTimeshifting"
  /\ running' = FALSE
  /\ Goto(t, IF running THEN "join" ELSE "leave")
  /\ UNCHANGED <<inSend, inConnect, locks, connectVars, retries, state, tuned, thread, bgState,
                 wire, server>>

\* Mutant: no join.
JoinSkipped(t) ==
  /\ pc[t] = "join"
  /\ Goto(t, "leave")
  /\ UNCHANGED <<inSend, inConnect, locks, connectVars, retries, state, bgVars,
                 tuned, exit, wire, server>>

Join(t) ==
  /\ pc[t] = "join"
  /\ thread = "joinable" => pc[Bg] = "ended"
  /\ thread' = "none"
  /\ Goto(t, "leave")
  /\ UNCHANGED <<inSend, inConnect, locks, connectVars, retries, state, running, bgState,
                 tuned, exit, wire, server>>

\* With a valid socket and a timeshift: SendCommand("IsTimeshifting:\n") and, if the
\* answer is "True", SendCommand("StopTimeshift:\n").
StopTimeshift(t) ==
  /\ pc[t] = "leave" /\ TimeshiftAtExit /\ tuned
  /\ \/ exit = "IsTimeshifting" /\ sock # "closed" /\ exit' = "StopTimeshift"
     \/ exit = "StopTimeshift" /\ answer[t] # "empty" /\ exit' = "close"
  /\ Goto(t, "wantCmd")
  /\ UNCHANGED <<inSend, inConnect, locks, connectVars, retries, state, bgVars, tuned,
                 wire, server>>

Leave(t) ==
  /\ pc[t] = "leave"
  /\ CloseSocket
  /\ state' = "DISCONNECTED"
  /\ Goto(t, "gone")
  /\ UNCHANGED <<inSend, inConnect, locks, connectVars, retries, bgVars, tuned, exit,
                 server>>

-----------------------------------------------------------------------------
(* The server and the network                                              *)

ServerAnswers ==
  /\ link = "live" /\ pending # <<>>
  /\ inbox' = Append(inbox, Head(pending))
  /\ pending' = Tail(pending)
  /\ UNCHANGED <<stack, locks, connectVars, retries, state, bgVars, tuned, exit,
                 sock, link, server>>

\* The plugin closes the connection ("close") or the host disappears ("silence").
LinkBreaks ==
  /\ link = "live" /\ faults < MaxFaults
  /\ faults' = faults + 1
  /\ \/ "close" \in Faults /\ link' = "eof" /\ reachable' \in BOOLEAN
     \/ "silence" \in Faults /\ link' = "silent" /\ reachable' = FALSE
  /\ Benign => ~reachable' /\ connMutex = None
  /\ pending' = <<>>
  /\ UNCHANGED <<stack, locks, connectVars, retries, state, bgVars, tuned, exit,
                 sock, inbox>>

ServerReturns ==
  /\ ~reachable
  /\ Benign => state # "CONNECTED" /\ \A t \in Callers : pc[t] \in {"idle", "gone"}
  /\ reachable' = TRUE
  /\ UNCHANGED <<stack, locks, connectVars, retries, state, bgVars, tuned, exit,
                 wire, faults>>

-----------------------------------------------------------------------------

\* CreateInstance has called TryConnect.
Init ==
  /\ pc = [t \in Threads |-> CASE t = Creator -> "wantConn"
                               [] t = Bg -> "none"
                               [] OTHER -> "idle"]
  /\ inSend = {} /\ inConnect = {}
  /\ mutex = None /\ connMutex = None
  /\ phase = "hello" /\ answer = [t \in Threads |-> "empty"]
  /\ retries = MaxRetries
  /\ state = "UNKNOWN"
  /\ running = FALSE /\ thread = "none" /\ bgState = "uninitialised"
  /\ tuned = FALSE /\ exit = "no"
  /\ sock = "closed" /\ link = "none"
  /\ pending = <<>> /\ inbox = <<>>
  /\ reachable \in BOOLEAN
  /\ faults = IF reachable THEN 0 ELSE 1

\* What a thread does of itself once it is in a call.
Step(t) ==
  \/ LockCommand(t) \/ SendOk(t) \/ SendFails(t)
  \/ Receive(t) \/ ReceiveTimeout(t) \/ ReceiveEof(t)
  \/ LockConnection(t) \/ Dial(t) \/ DialSucceeds(t) \/ DialFails(t)
  \/ HelloFails(t) \/ HelloAccepted(t) \/ CardsLoaded(t)
  \/ StartBg(t) \/ Spawn(t)
  \/ Join(t) \/ StopTimeshift(t) \/ Leave(t)

BgStep == BgLoop \/ BgWakes \/ BgReport

Next ==
  \/ \E t \in Threads : Step(t) \/ ReceiveError(t)
  \/ \E t \in Callers : Call(t) \/ BeginDisconnect(t)
  \/ BgStep
  \/ ServerAnswers \/ LinkBreaks \/ ServerReturns

Spec == Init /\ [][Next]_vars

\* The scheduler runs every thread that can run, the server answers what it has
\* received and comes back from an outage.  Kodi need not call anything, and no error
\* need ever be reported on a connection whose other end is silent.
Fairness ==
  /\ \A t \in Threads : WF_vars(Step(t))
  /\ WF_vars(BgStep)
  /\ WF_vars(ServerAnswers) /\ WF_vars(ServerReturns)

FairSpec == Spec /\ Fairness

-----------------------------------------------------------------------------

ThreadTypes ==
  /\ pc \in [Threads -> Points]
  /\ inSend \in SUBSET Threads /\ inConnect \in SUBSET Threads
  /\ mutex \in Threads \cup {None} /\ connMutex \in Threads \cup {None}
ClientTypes ==
  /\ phase \in {"hello", "cards"} /\ answer \in [Threads -> {"empty", "own", "late"}]
  /\ retries \in 0 .. MaxRetries
  /\ state \in States /\ bgState \in States \cup {"uninitialised"}
  /\ thread \in {"none", "joinable", "overwritten"}
  /\ exit \in {"no", "IsTimeshifting", "StopTimeshift", "close"}
ServerTypes ==
  /\ sock \in {"closed", "opening", "open"} /\ link \in {"none", "live", "eof", "silent"}
  /\ pending \in Seq({"own", "late"}) /\ inbox \in Seq({"own", "late"})
  /\ faults \in Nat
FlagTypes ==
  /\ running \in BOOLEAN /\ tuned \in BOOLEAN
  /\ reachable \in BOOLEAN

\* The types of the variables; ReadLine's retries never go below zero, where "!= 0" would
\* let it go on for ever.
TypeOK == ThreadTypes /\ ClientTypes /\ ServerTypes /\ FlagTypes

\* A thread that writes a command or waits for its answer.
OnTheWire(t) == pc[t] \in {"send", "resend", "read"}

\* Commands and answers of different threads never interleave on the socket: from the
\* lock of m_mutex to its release, the reconnect included, SendCommand has it to itself.
OneOnTheWire == \A t, u \in Threads : OnTheWire(t) /\ OnTheWire(u) => t = u

\* At most one thread at a time is between TryConnect's failure to connect and its
\* assignment to m_thread, so that the test of m_running, its setting and the assignment
\* need no lock of their own.
Starting(t) == pc[t] \in {"startBg", "spawn"}
OneStarter == \A t, u \in Threads : Starting(t) /\ Starting(u) => t = u

\* TryConnect never assigns to an m_thread that is still joinable, which would end Kodi
\* with std::terminate: m_running stays true once Process has ended.
NoThreadOverwritten == thread # "overwritten"

\* A command of Disconnect's own was not answered: its TryConnect may have started Process
\* once more, after the join.
RestartedByDisconnect == exit \notin {"no", "IsTimeshifting"} /\ answer[Creator] = "empty"

\* No thread closes or replaces the socket on which another one waits in ReadLine, although
\* Connect does so without m_mutex when Process calls it; the one close that may come is
\* Disconnect's, under the Process that it has itself started once more.
NoCloseUnderReader ==
  [][\A t \in Threads : pc[t] = "read" /\ pc'[t] = "read" /\ sock = "open"
       => sock' = "open" \/ (t = Bg /\ pc[Creator] = "leave" /\ RestartedByDisconnect)]_vars

\* When Disconnect is done Process has ended and m_thread can be destroyed, unless one of
\* its own commands has started Process once more.
ExitLeavesNoThread ==
  pc[Creator] = "gone" /\ ~RestartedByDisconnect => thread = "none" /\ pc[Bg] \in {"none", "ended"}

\* The life of m_thread, which no lock protects: it is started by one thread at a time, never
\* while the last one has not been joined, and left behind by Disconnect only after a command
\* of Disconnect's own has failed.
ThreadIsJoined == OneStarter /\ NoThreadOverwritten /\ ExitLeavesNoThread

\* While Process connects IsUp is false, from before its first attempt until the hello has
\* been accepted and the cards are loaded: only a call that asked IsUp before the loss, or
\* GetSignalStatus, can meet the handshake.
ConnectsInBackground == Bg \in inConnect \/ pc[Bg] \in {"wantConn", "dial", "tcp", "handle", "sleep", "loop"}
DownWhileProcessConnects == ConnectsInBackground => state # "CONNECTED"

\* m_mutex and m_connectionMutex, taken by SendCommand and TryConnect in one order and by
\* Connect and SendCommand in the other: no two threads of Kodi ever wait for each other.
WaitsFor(t, u) == (pc[t] = "wantCmd" /\ mutex = u) \/ (pc[t] = "wantConn" /\ connMutex = u)
CallersNeverCross == \A t, u \in Callers : t # u => ~(WaitsFor(t, u) /\ WaitsFor(u, t))

\* Who can meet whom while a connection is set up, however many threads Kodi has: never one
\* of them another one, and Process only those that did not ask IsUp after the loss.
HandshakeMeetsOnlyTheLate == CallersNeverCross /\ DownWhileProcessConnects

\* "Connection lost, try to reconnect ... Resend the command": the reconnect inside
\* SendCommand never locks a mutex that its own thread holds.
NoThreadWaitsForItself ==
  \A t \in Threads : /\ pc[t] = "wantCmd" => mutex # t
                     /\ pc[t] = "wantConn" => connMutex # t

\* Every call of Kodi returns, CreateInstance and Disconnect (with its join) included,
\* whether or not the server answers: ReadLine's patience is finite.
CallsReturn == \A t \in Callers : pc[t] # "idle" ~> pc[t] \in {"idle", "gone"}

\* "The addon will now regularly try to connect to the backend if it is not connected
\* already": once the server is lost or not found, the client gets connected again.
OutageEnds ==
  state \in {"DISCONNECTED", "SERVER_UNREACHABLE"} /\ exit = "no"
    ~> state = "CONNECTED" \/ exit # "no"
=============================================================================
