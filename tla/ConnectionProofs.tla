--------------------------- MODULE ConnectionProofs ---------------------------
(***************************************************************************)
(* Proofs about Connection, for every set of Kodi threads, every bound and *)
(* every choice of faults.                                                 *)
(*                                                                         *)
(* The inductive invariant says which frames each point of a thread may    *)
(* have below it (StackOK), that m_mutex and m_connectionMutex are held by *)
(* exactly the threads with the frames that lock them (LocksOK), that      *)
(* nothing else runs during CreateInstance's first TryConnect              *)
(* (FirstConnectOK) and that nothing else runs until CreateInstance is     *)
(* done (CreatingOK), how m_running and m_thread go together (ThreadOK),    *)
(* who may have the socket open while Process is about to connect           *)
(* (SocketOK), and that the state is not CONNECTED while Process is at work *)
(* (StateOK).                                                               *)
(***************************************************************************)
EXTENDS Connection, TLAPS

\* A thread that has come from SendCommand to Connect (inSend), or from Connect to
\* SendCommand (inConnect), is at a point of the inner function.  A thread with both
\* frames waits for a mutex of its own: it never gets past "wantCmd" or "wantConn", and so
\* nothing is ever sent again.
StackOK ==
  /\ \A t \in Threads :
       /\ t \in inSend => pc[t] \in {"wantConn", "dial", "tcp", "startBg", "spawn", "wantCmd"}
       /\ t \in inConnect => pc[t] \in {"wantCmd", "send", "read", "handle", "wantConn"}
       /\ t \in inSend /\ pc[t] = "wantCmd" => t \in inConnect
       /\ t \in inConnect /\ pc[t] = "wantConn" => t \in inSend
       /\ pc[t] = "handle" => t \in inConnect
       /\ pc[t] # "resend"
  /\ \A t \in Callers : pc[t] \notin BgPoints
  /\ pc[Bg] \notin CallerPoints
  /\ pc[Bg] \in {"wantCmd", "send", "read"} => Bg \in inConnect
  /\ Bg \in inSend => Bg \in inConnect

InCommand(t) == OnTheWire(t) \/ t \in inSend
InConnection(t) == pc[t] \in {"dial", "tcp", "handle"} \/ t \in inConnect

LocksOK ==
  /\ \A t \in Threads : mutex = t <=> InCommand(t)
  /\ \A t \in Threads : connMutex = t <=> InConnection(t)

\* CreateInstance has not yet learned whether the server accepts the client.
FirstConnect ==
  /\ Creator \notin inSend
  /\ \/ pc[Creator] \in {"wantConn", "dial", "tcp", "startBg", "spawn"}
     \/ Creator \in inConnect /\ phase = "hello"

FirstConnectOK ==
  /\ FirstConnect => /\ exit = "no" /\ state # "CONNECTED" /\ ~tuned
                     /\ \A t \in Threads \ {Creator} : pc[t] \in {"idle", "none"}
  /\ \A t \in Callers \ {Creator} :
       pc[t] \in {"wantConn", "dial", "tcp", "startBg", "spawn"} => t \in inSend

\* Kodi's other threads have nothing to call until CreateInstance is done, and come to
\* Connect only from SendCommand.
CreatingOK ==
  /\ Creating => \A t \in Callers \ {Creator} : pc[t] = "idle"
  /\ \A t \in Callers \ {Creator} : t \in inConnect => t \in inSend

ThreadOK ==
  /\ thread # "overwritten"
  /\ \A t \in Threads : pc[t] = "spawn" => running /\ thread = "none"
  /\ ~running /\ thread # "none" => pc[Creator] = "join"
  /\ thread = "none" => pc[Bg] \in {"none", "ended"}
  /\ exit # "no" => \A t \in Callers \ {Creator} : pc[t] = "idle"
  /\ \A t \in Callers : pc[t] \in {"join", "leave", "gone"} => exit # "no"
  /\ Creator \in inSend => answer[Creator] = "empty"
  /\ exit = "IsTimeshifting" => pc[Creator] \in {"join", "leave", "gone"}
  /\ exit # "no" /\ thread # "none" =>
       pc[Creator] = "join" \/ (pc[Creator] \in {"leave", "gone"} /\ RestartedByDisconnect)

\* Process is on its way to a new connection and has not opened it.
BeforeBgConnects ==
  \/ pc[Bg] \in {"loop", "sleep", "dial", "tcp"}
  \/ pc[Bg] = "wantConn" /\ Bg \notin inConnect

SocketOK ==
  /\ BeforeBgConnects /\ sock = "open" => \E t \in Threads : t \in inSend \cap inConnect
  /\ \A t \in Threads :
       pc[t] = "spawn" \/ (pc[t] = "startBg" /\ ~running) => sock # "open"

\* Process has a connection to set up and has not reported it.
StateOK ==
  /\ pc[Bg] \notin {"none", "report", "ended"} => state # "CONNECTED"
  /\ \A t \in Threads :
       pc[t] = "spawn" \/ (pc[t] = "startBg" /\ ~running) => state # "CONNECTED"

Inductive ==
  /\ TypeOK /\ StackOK /\ LocksOK
  /\ FirstConnectOK /\ CreatingOK /\ ThreadOK /\ SocketOK /\ StateOK

\* No step leaves the frames a point may have, or a lock without its owner.
LEMMA StackStep ==
  ASSUME TypeOK, StackOK, LocksOK, ThreadOK, [Next]_vars
  PROVE  StackOK' /\ LocksOK'
<1> USE ThreadsAssumption DEF StackOK, LocksOK, InCommand, InConnection, OnTheWire, Threads,
                              CallerPoints, BgPoints, stack, locks
<1>types. /\ pc \in [Threads -> Points]
          /\ inSend \in SUBSET Threads /\ inConnect \in SUBSET Threads
  BY DEF TypeOK, ThreadTypes, ClientTypes, FlagTypes
<1>1. ASSUME NEW t \in Threads, LockCommand(t) PROVE StackOK' /\ LocksOK'
  BY <1>types, <1>1 DEF LockCommand, Goto
<1>2. ASSUME NEW t \in Threads, SendOk(t) PROVE StackOK' /\ LocksOK'
  BY <1>types, <1>2 DEF SendOk, Goto, wire
<1>3. ASSUME NEW t \in Threads, SendFails(t) PROVE StackOK' /\ LocksOK'
  <2>1. pc[t] = "send" /\ mutex = t
    BY <1>3 DEF SendFails
  <2>2. /\ pc' = [pc EXCEPT ![t] = "wantConn"] /\ inSend' = inSend \cup {t}
        /\ UNCHANGED <<inConnect, mutex, connMutex>>
    BY <1>3, <2>1 DEF SendFails, Goto
  <2> QED
    BY <1>types, <2>1, <2>2
<1>4. ASSUME NEW t \in Threads, Receive(t) PROVE StackOK' /\ LocksOK'
  BY <1>types, <1>4 DEF Receive, Goto, ReturnFromCommand, Home
<1>5. ASSUME NEW t \in Threads, ReceiveTimeout(t) PROVE StackOK' /\ LocksOK'
  <2>1. UNCHANGED <<inSend, inConnect, connMutex>>
    BY <1>5 DEF ReceiveTimeout
  <2>2. CASE retries # 0
    BY <1>types, <1>5, <2>1, <2>2 DEF ReceiveTimeout
  <2>3. CASE retries = 0
    <3>1. pc[t] = "read" /\ ReturnFromCommand(t, "empty")
      BY <1>5, <2>3 DEF ReceiveTimeout
    <3> QED
      BY <1>types, <2>1, <3>1 DEF Goto, ReturnFromCommand, Home
  <2> QED
    BY <2>2, <2>3
<1>6. ASSUME NEW t \in Threads, ReceiveEof(t) PROVE StackOK' /\ LocksOK'
  BY <1>types, <1>6 DEF ReceiveEof, vars
<1>7. ASSUME NEW t \in Threads, ReceiveError(t) PROVE StackOK' /\ LocksOK'
  BY <1>types, <1>7 DEF ReceiveError, Goto, CloseSocket, ReturnFromCommand, Home
<1>8. ASSUME NEW t \in Threads, LockConnection(t) PROVE StackOK' /\ LocksOK'
  BY <1>types, <1>8 DEF LockConnection, Goto, CloseSocket
<1>9. ASSUME NEW t \in Threads, Dial(t) PROVE StackOK' /\ LocksOK'
  BY <1>types, <1>9 DEF Dial, Goto
<1>10. ASSUME NEW t \in Threads, DialSucceeds(t) PROVE StackOK' /\ LocksOK'
  BY <1>types, <1>10 DEF DialSucceeds, Goto
<1>11. ASSUME NEW t \in Threads, DialFails(t) PROVE StackOK' /\ LocksOK'
  BY <1>types, <1>11 DEF DialFails, Goto, CloseSocket, ReturnFromConnect, AfterConnect, Home
<1>12. ASSUME NEW t \in Threads, HelloFails(t) PROVE StackOK' /\ LocksOK'
  <2>1. pc[t] = "handle" /\ t \notin inSend
    BY <1>12 DEF HelloFails
  <2>2. PICK result \in {"UNKNOWN", "MISMATCH"} : ReturnFromConnect(t, result)
    BY <1>12 DEF HelloFails
  <2> QED
    BY <1>types, <2>1, <2>2 DEF Goto, ReturnFromConnect, AfterConnect, Home
<1>13. ASSUME NEW t \in Threads, HelloAccepted(t) PROVE StackOK' /\ LocksOK'
  BY <1>types, <1>13 DEF HelloAccepted, Goto
<1>14. ASSUME NEW t \in Threads, CardsLoaded(t) PROVE StackOK' /\ LocksOK'
  BY <1>types, <1>14 DEF CardsLoaded, Goto, ReturnFromConnect, AfterConnect, Home
<1>15. ASSUME NEW t \in Threads, StartBg(t) PROVE StackOK' /\ LocksOK'
  <2>1. CASE running
    BY <1>types, <1>15, <2>1 DEF StartBg, Goto, Home
  <2>2. CASE ~running
    BY <1>types, <1>15, <2>2 DEF StartBg, Goto
  <2> QED
    BY <2>1, <2>2
<1>16. ASSUME NEW t \in Threads, Spawn(t) PROVE StackOK' /\ LocksOK'
  <2>1. pc[t] = "spawn" /\ t # Bg /\ pc[Bg] \in {"none", "ended"}
    BY <1>types, <1>16 DEF Spawn, ThreadOK
  <2>2. /\ pc' = [pc EXCEPT ![t] = Home, ![Bg] = "loop"]
        /\ mutex' = IF t \in inSend THEN None ELSE mutex
        /\ inSend' = inSend \ {t}
        /\ UNCHANGED <<inConnect, connMutex>>
    BY <1>16 DEF Spawn
  <2> QED
    BY <1>types, <2>1, <2>2 DEF Home
<1>17. ASSUME NEW t \in Threads, Join(t) PROVE StackOK' /\ LocksOK'
  BY <1>types, <1>17 DEF Join, Goto
<1>18. ASSUME NEW t \in Threads, StopTimeshift(t) PROVE StackOK' /\ LocksOK'
  BY <1>types, <1>18 DEF StopTimeshift, Goto
<1>19. ASSUME NEW t \in Threads, Leave(t) PROVE StackOK' /\ LocksOK'
  BY <1>types, <1>19 DEF Leave, Goto, CloseSocket
<1>20. ASSUME NEW t \in Callers, Call(t) PROVE StackOK' /\ LocksOK'
  BY <1>types, <1>20 DEF Call, Goto
<1>21. ASSUME NEW t \in Callers, BeginDisconnect(t) PROVE StackOK' /\ LocksOK'
  BY <1>types, <1>21 DEF BeginDisconnect, Goto
<1>22. CASE BgLoop
  BY <1>types, <1>22 DEF BgLoop, Goto
<1>23. CASE BgWakes
  BY <1>types, <1>23 DEF BgWakes, Goto
<1>24. CASE BgReport
  BY <1>types, <1>24 DEF BgReport, Goto
<1>25. CASE ServerAnswers
  BY <1>types, <1>25 DEF ServerAnswers
<1>26. CASE LinkBreaks
  BY <1>types, <1>26 DEF LinkBreaks
<1>27. CASE ServerReturns
  BY <1>types, <1>27 DEF ServerReturns
<1>28. CASE UNCHANGED vars
  BY <1>types, <1>28 DEF vars
<1> QED
  BY <1>1, <1>2, <1>3, <1>4, <1>5, <1>6, <1>7, <1>8, <1>9, <1>10, <1>11, <1>12, <1>13, <1>14, <1>15, <1>16, <1>17, <1>18, <1>19, <1>20, <1>21, <1>22, <1>23, <1>24, <1>25, <1>26, <1>27, <1>28 DEF Next, Step, BgStep

\* Every step leaves every variable in its type.
LEMMA TypeStep ==
  ASSUME TypeOK, [Next]_vars
  PROVE  TypeOK'
<1> USE ThreadsAssumption, BoundsAssumption DEF TypeOK, ThreadTypes, ClientTypes, ServerTypes, FlagTypes, Threads, Points, CallerPoints, BgPoints, States,
    stack, locks, connectVars, bgVars, wire, server
<1>1. ASSUME NEW t \in Threads, LockCommand(t) PROVE TypeOK'
  BY <1>1 DEF LockCommand, Goto
<1>2. ASSUME NEW t \in Threads, SendOk(t) PROVE TypeOK'
  BY <1>2 DEF SendOk, Goto
<1>3. ASSUME NEW t \in Threads, SendFails(t) PROVE TypeOK'
  BY <1>3 DEF SendFails, Goto, CloseSocket, ReturnFromCommand, Home
<1>4. ASSUME NEW t \in Threads, Receive(t) PROVE TypeOK'
  <2>1. ThreadTypes'
    BY <1>4 DEF Receive, Goto, ReturnFromCommand, Home
  <2>2. ClientTypes'
    BY <1>4 DEF Receive, Goto, ReturnFromCommand, Home
  <2>3. ServerTypes'
    BY <1>4 DEF Receive, Goto, ReturnFromCommand, Home
  <2>4. FlagTypes'
    BY <1>4 DEF Receive, Goto, ReturnFromCommand, Home
  <2> QED
    BY <2>1, <2>2, <2>3, <2>4
<1>5. ASSUME NEW t \in Threads, ReceiveTimeout(t) PROVE TypeOK'
  BY <1>5 DEF ReceiveTimeout, Goto, ReturnFromCommand, Home
<1>6. ASSUME NEW t \in Threads, ReceiveEof(t) PROVE TypeOK'
  BY <1>6 DEF ReceiveEof, vars
<1>7. ASSUME NEW t \in Threads, ReceiveError(t) PROVE TypeOK'
  BY <1>7 DEF ReceiveError, Goto, CloseSocket, ReturnFromCommand, Home
<1>8. ASSUME NEW t \in Threads, LockConnection(t) PROVE TypeOK'
  BY <1>8 DEF LockConnection, Goto, CloseSocket, SetStateIn, UpdateConnectionState
<1>9. ASSUME NEW t \in Threads, Dial(t) PROVE TypeOK'
  BY <1>9 DEF Dial, Goto
<1>10. ASSUME NEW t \in Threads, DialSucceeds(t) PROVE TypeOK'
  <2>1. ThreadTypes'
    BY <1>10 DEF DialSucceeds, Goto
  <2>2. ClientTypes'
    BY <1>10 DEF DialSucceeds, Goto
  <2>3. ServerTypes'
    BY <1>10 DEF DialSucceeds, Goto
  <2>4. FlagTypes'
    BY <1>10 DEF DialSucceeds, Goto
  <2> QED
    BY <2>1, <2>2, <2>3, <2>4
<1>11. ASSUME NEW t \in Threads, DialFails(t) PROVE TypeOK'
  BY <1>11 DEF DialFails, Goto, CloseSocket, ReturnFromConnect, AfterConnect, Home, SetStateIn, UpdateConnectionState
<1>12. ASSUME NEW t \in Threads, HelloFails(t) PROVE TypeOK'
  BY <1>12 DEF HelloFails, Goto, ReturnFromConnect, AfterConnect, Home, SetStateIn, UpdateConnectionState
<1>13. ASSUME NEW t \in Threads, HelloAccepted(t) PROVE TypeOK'
  BY <1>13 DEF HelloAccepted, Goto, SetStateIn, UpdateConnectionState
<1>14. ASSUME NEW t \in Threads, CardsLoaded(t) PROVE TypeOK'
  BY <1>14 DEF CardsLoaded, Goto, ReturnFromConnect, AfterConnect, Home
<1>15. ASSUME NEW t \in Threads, StartBg(t) PROVE TypeOK'
  <2>1. ThreadTypes'
    BY <1>15 DEF StartBg, Goto, Home
  <2>2. ClientTypes'
    BY <1>15 DEF StartBg, Goto, Home
  <2>3. ServerTypes'
    BY <1>15 DEF StartBg, Goto, Home
  <2>4. FlagTypes'
    BY <1>15 DEF StartBg, Goto, Home
  <2> QED
    BY <2>1, <2>2, <2>3, <2>4
<1>16. ASSUME NEW t \in Threads, Spawn(t) PROVE TypeOK'
  BY <1>16 DEF Spawn, Goto, Home
<1>17. ASSUME NEW t \in Threads, Join(t) PROVE TypeOK'
  BY <1>17 DEF Join, Goto
<1>18. ASSUME NEW t \in Threads, StopTimeshift(t) PROVE TypeOK'
  BY <1>18 DEF StopTimeshift, Goto
<1>19. ASSUME NEW t \in Threads, Leave(t) PROVE TypeOK'
  BY <1>19 DEF Leave, Goto, CloseSocket
<1>20. ASSUME NEW t \in Callers, Call(t) PROVE TypeOK'
  BY <1>20 DEF Call, Goto
<1>21. ASSUME NEW t \in Callers, BeginDisconnect(t) PROVE TypeOK'
  <2>1. ThreadTypes'
    BY <1>21 DEF BeginDisconnect, Goto
  <2>2. ClientTypes'
    BY <1>21 DEF BeginDisconnect, Goto
  <2>3. ServerTypes'
    BY <1>21 DEF BeginDisconnect, Goto
  <2>4. FlagTypes'
    BY <1>21 DEF BeginDisconnect, Goto
  <2> QED
    BY <2>1, <2>2, <2>3, <2>4
<1>22. CASE BgLoop
  BY <1>22 DEF BgLoop, Goto
<1>23. CASE BgWakes
  BY <1>23 DEF BgWakes, Goto
<1>24. CASE BgReport
  BY <1>24 DEF BgReport, Goto
<1>25. CASE ServerAnswers
  BY <1>25 DEF ServerAnswers
<1>26. CASE LinkBreaks
  <2>1. ThreadTypes'
    BY <1>26 DEF LinkBreaks
  <2>2. ClientTypes'
    BY <1>26 DEF LinkBreaks
  <2>3. ServerTypes'
    BY <1>26 DEF LinkBreaks
  <2>4. FlagTypes'
    BY <1>26 DEF LinkBreaks
  <2> QED
    BY <2>1, <2>2, <2>3, <2>4
<1>27. CASE ServerReturns
  BY <1>27 DEF ServerReturns
<1>28. CASE UNCHANGED vars
  BY <1>28 DEF vars
<1> QED
  BY <1>1, <1>2, <1>3, <1>4, <1>5, <1>6, <1>7, <1>8, <1>9, <1>10, <1>11, <1>12, <1>13, <1>14, <1>15, <1>16, <1>17, <1>18, <1>19, <1>20, <1>21, <1>22, <1>23, <1>24, <1>25, <1>26, <1>27, <1>28 DEF Next, Step, BgStep

\* CreateInstance's first TryConnect stays undisturbed, and every later one runs in a
\* SendCommand.
LEMMA FirstConnectStep ==
  ASSUME TypeOK, StackOK, LocksOK, FirstConnectOK, [Next]_vars
  PROVE  FirstConnectOK'
<1> USE ThreadsAssumption DEF FirstConnectOK, FirstConnect, StackOK, LocksOK, InCommand, InConnection,
    OnTheWire, Threads, CallerPoints, BgPoints, stack, locks, connectVars
<1>types. /\ pc \in [Threads -> Points] /\ phase \in {"hello", "cards"}
          /\ inSend \in SUBSET Threads /\ inConnect \in SUBSET Threads
  BY DEF TypeOK, ThreadTypes, ClientTypes, FlagTypes
<1>1. ASSUME NEW t \in Threads, LockCommand(t) PROVE FirstConnectOK'
  BY <1>types, <1>1 DEF LockCommand, Goto
<1>2. ASSUME NEW t \in Threads, SendOk(t) PROVE FirstConnectOK'
  BY <1>types, <1>2 DEF SendOk, Goto
<1>3. ASSUME NEW t \in Threads, SendFails(t) PROVE FirstConnectOK'
  BY <1>types, <1>3 DEF SendFails, Goto, CloseSocket, ReturnFromCommand, Home
<1>4. ASSUME NEW t \in Threads, Receive(t) PROVE FirstConnectOK'
  BY <1>types, <1>4 DEF Receive, Goto, ReturnFromCommand, Home
<1>5. ASSUME NEW t \in Threads, ReceiveTimeout(t) PROVE FirstConnectOK'
  BY <1>types, <1>5 DEF ReceiveTimeout, Goto, ReturnFromCommand, Home
<1>6. ASSUME NEW t \in Threads, ReceiveEof(t) PROVE FirstConnectOK'
  BY <1>types, <1>6 DEF ReceiveEof, vars
<1>7. ASSUME NEW t \in Threads, ReceiveError(t) PROVE FirstConnectOK'
  BY <1>types, <1>7 DEF ReceiveError, Goto, CloseSocket, ReturnFromCommand, Home
<1>8. ASSUME NEW t \in Threads, LockConnection(t) PROVE FirstConnectOK'
  BY <1>types, <1>8 DEF LockConnection, Goto, CloseSocket, SetStateIn, UpdateConnectionState
<1>9. ASSUME NEW t \in Threads, Dial(t) PROVE FirstConnectOK'
  BY <1>types, <1>9 DEF Dial, Goto
<1>10. ASSUME NEW t \in Threads, DialSucceeds(t) PROVE FirstConnectOK'
  BY <1>types, <1>10 DEF DialSucceeds, Goto
<1>11. ASSUME NEW t \in Threads, DialFails(t) PROVE FirstConnectOK'
  BY <1>types, <1>11 DEF DialFails, Goto, CloseSocket, ReturnFromConnect, AfterConnect, Home, SetStateIn, UpdateConnectionState
<1>12. ASSUME NEW t \in Threads, HelloFails(t) PROVE FirstConnectOK'
  BY <1>types, <1>12 DEF HelloFails, Goto, ReturnFromConnect, AfterConnect, Home, SetStateIn, UpdateConnectionState
<1>13. ASSUME NEW t \in Threads, HelloAccepted(t) PROVE FirstConnectOK'
  BY <1>types, <1>13 DEF HelloAccepted, Goto, SetStateIn, UpdateConnectionState
<1>14. ASSUME NEW t \in Threads, CardsLoaded(t) PROVE FirstConnectOK'
  BY <1>types, <1>14 DEF CardsLoaded, Goto, ReturnFromConnect, AfterConnect, Home
<1>15. ASSUME NEW t \in Threads, StartBg(t) PROVE FirstConnectOK'
  BY <1>types, <1>15 DEF StartBg, Goto, Home
<1>16. ASSUME NEW t \in Threads, Spawn(t) PROVE FirstConnectOK'
  BY <1>types, <1>16 DEF Spawn, Goto, Home
<1>17. ASSUME NEW t \in Threads, Join(t) PROVE FirstConnectOK'
  BY <1>types, <1>17 DEF Join, Goto
<1>18. ASSUME NEW t \in Threads, StopTimeshift(t) PROVE FirstConnectOK'
  BY <1>types, <1>18 DEF StopTimeshift, Goto
<1>19. ASSUME NEW t \in Threads, Leave(t) PROVE FirstConnectOK'
  BY <1>types, <1>19 DEF Leave, Goto, CloseSocket
<1>20. ASSUME NEW t \in Callers, Call(t) PROVE FirstConnectOK'
  BY <1>types, <1>20 DEF Call, Goto
<1>21. ASSUME NEW t \in Callers, BeginDisconnect(t) PROVE FirstConnectOK'
  BY <1>types, <1>21 DEF BeginDisconnect, Goto
<1>22. CASE BgLoop
  BY <1>types, <1>22 DEF BgLoop, Goto
<1>23. CASE BgWakes
  BY <1>types, <1>23 DEF BgWakes, Goto
<1>24. CASE BgReport
  BY <1>types, <1>24 DEF BgReport, Goto
<1>25. CASE ServerAnswers
  BY <1>types, <1>25 DEF ServerAnswers
<1>26. CASE LinkBreaks
  BY <1>types, <1>26 DEF LinkBreaks
<1>27. CASE ServerReturns
  BY <1>types, <1>27 DEF ServerReturns
<1>28. CASE UNCHANGED vars
  BY <1>types, <1>28 DEF vars
<1> QED
  BY <1>1, <1>2, <1>3, <1>4, <1>5, <1>6, <1>7, <1>8, <1>9, <1>10, <1>11, <1>12, <1>13, <1>14, <1>15, <1>16, <1>17, <1>18, <1>19, <1>20, <1>21, <1>22, <1>23, <1>24, <1>25, <1>26, <1>27, <1>28 DEF Next, Step, BgStep

\* At most one thread is in the part of TryConnect that starts Process.
LEMMA OneStarterHolds ==
  ASSUME TypeOK, StackOK, LocksOK, FirstConnectOK
  PROVE  OneStarter
<1> SUFFICES ASSUME NEW t \in Threads, NEW u \in Threads, Starting(t), Starting(u)
             PROVE  t = u
  BY DEF OneStarter
<1>1. \A v \in {t, u} : v \in inSend \/ (v = Creator /\ FirstConnect)
  BY ThreadsAssumption DEF FirstConnectOK, FirstConnect, StackOK, Starting, Threads, CallerPoints
<1>2. CASE t \in inSend /\ u \in inSend
  BY <1>2 DEF LocksOK, InCommand
<1>3. CASE t \notin inSend \/ u \notin inSend
  BY <1>1, <1>3 DEF FirstConnectOK, Starting
<1> QED
  BY <1>2, <1>3

\* m_running and m_thread stay in step.
LEMMA ThreadStep ==
  ASSUME TypeOK, StackOK, LocksOK, FirstConnectOK, ThreadOK, [Next]_vars
  PROVE  ThreadOK'
<1> USE ThreadsAssumption DEF ThreadOK, RestartedByDisconnect, StackOK, Threads, CallerPoints, BgPoints,
                              stack, locks, bgVars, connectVars
<1>types. /\ pc \in [Threads -> Points] /\ running \in BOOLEAN /\ thread \in {"none", "joinable", "overwritten"}
          /\ inSend \in SUBSET Threads /\ inConnect \in SUBSET Threads
          /\ answer \in [Threads -> {"empty", "own", "late"}]
          /\ exit \in {"no", "IsTimeshifting", "StopTimeshift", "close"}
  BY DEF TypeOK, ThreadTypes, ClientTypes, FlagTypes
<1>1. ASSUME NEW t \in Threads, LockCommand(t) PROVE ThreadOK'
  BY <1>types, <1>1 DEF LockCommand, Goto
<1>2. ASSUME NEW t \in Threads, SendOk(t) PROVE ThreadOK'
  BY <1>types, <1>2 DEF SendOk, Goto
<1>3. ASSUME NEW t \in Threads, SendFails(t) PROVE ThreadOK'
  BY <1>types, <1>3 DEF SendFails, Goto, CloseSocket, ReturnFromCommand, Home
<1>4. ASSUME NEW t \in Threads, Receive(t) PROVE ThreadOK'
  BY <1>types, <1>4 DEF Receive, Goto, ReturnFromCommand, Home
<1>5. ASSUME NEW t \in Threads, ReceiveTimeout(t) PROVE ThreadOK'
  BY <1>types, <1>5 DEF ReceiveTimeout, Goto, ReturnFromCommand, Home
<1>6. ASSUME NEW t \in Threads, ReceiveEof(t) PROVE ThreadOK'
  BY <1>types, <1>6 DEF ReceiveEof, vars
<1>7. ASSUME NEW t \in Threads, ReceiveError(t) PROVE ThreadOK'
  BY <1>types, <1>7 DEF ReceiveError, Goto, CloseSocket, ReturnFromCommand, Home
<1>8. ASSUME NEW t \in Threads, LockConnection(t) PROVE ThreadOK'
  BY <1>types, <1>8 DEF LockConnection, Goto, CloseSocket, SetStateIn, UpdateConnectionState
<1>9. ASSUME NEW t \in Threads, Dial(t) PROVE ThreadOK'
  BY <1>types, <1>9 DEF Dial, Goto
<1>10. ASSUME NEW t \in Threads, DialSucceeds(t) PROVE ThreadOK'
  BY <1>types, <1>10 DEF DialSucceeds, Goto
<1>11. ASSUME NEW t \in Threads, DialFails(t) PROVE ThreadOK'
  BY <1>types, <1>11 DEF DialFails, Goto, CloseSocket, ReturnFromConnect, AfterConnect, Home, SetStateIn, UpdateConnectionState
<1>12. ASSUME NEW t \in Threads, HelloFails(t) PROVE ThreadOK'
  BY <1>types, <1>12 DEF HelloFails, Goto, ReturnFromConnect, AfterConnect, Home, SetStateIn, UpdateConnectionState
<1>13. ASSUME NEW t \in Threads, HelloAccepted(t) PROVE ThreadOK'
  BY <1>types, <1>13 DEF HelloAccepted, Goto, SetStateIn, UpdateConnectionState
<1>14. ASSUME NEW t \in Threads, CardsLoaded(t) PROVE ThreadOK'
  BY <1>types, <1>14 DEF CardsLoaded, Goto, ReturnFromConnect, AfterConnect, Home
<1>15. ASSUME NEW t \in Threads, StartBg(t) PROVE ThreadOK'
  BY <1>types, <1>15 DEF StartBg, Goto, Home
<1>16. ASSUME NEW t \in Threads, Spawn(t) PROVE ThreadOK'
  <2>1. pc[t] = "spawn" /\ t # Bg /\ running /\ thread = "none"
    BY <1>types, <1>16 DEF Spawn
  <2>2. \A u \in Threads : pc[u] = "spawn" => u = t
    BY <2>1, OneStarterHolds DEF OneStarter, Starting
  <2>3. /\ pc' = [pc EXCEPT ![t] = Home, ![Bg] = "loop"]
        /\ thread' = "joinable"
        /\ inSend' = inSend \ {t}
        /\ UNCHANGED <<running, exit, answer>>
    BY <1>16, <2>1 DEF Spawn
  <2>4. exit # "no" => t = Creator /\ answer[Creator] = "empty" /\ exit # "IsTimeshifting"
    BY <2>1 DEF FirstConnectOK, FirstConnect
  <2>5. exit # "no" => pc'[Creator] = "leave" /\ RestartedByDisconnect'
    BY <1>types, <2>1, <2>3, <2>4 DEF Home
  <2> HIDE DEF RestartedByDisconnect
  <2>6. /\ thread' # "overwritten" /\ thread' # "none" /\ running'
        /\ \A u \in Threads : pc'[u] # "spawn"
    BY <1>types, <2>1, <2>2, <2>3 DEF Home
  <2>7. /\ exit' # "no" => \A u \in Callers \ {Creator} : pc'[u] = "idle"
        /\ \A u \in Callers : pc'[u] \in {"join", "leave", "gone"} => exit' # "no"
        /\ Creator \in inSend' => answer'[Creator] = "empty"
        /\ exit' = "IsTimeshifting" => pc'[Creator] \in {"join", "leave", "gone"}
    BY <1>types, <2>1, <2>3, <2>4 DEF Home
  <2> QED
    BY <2>3, <2>5, <2>6, <2>7
<1>17. ASSUME NEW t \in Threads, Join(t) PROVE ThreadOK'
  BY <1>types, <1>17 DEF Join, Goto
<1>18. ASSUME NEW t \in Threads, StopTimeshift(t) PROVE ThreadOK'
  BY <1>types, <1>18 DEF StopTimeshift, Goto
<1>19. ASSUME NEW t \in Threads, Leave(t) PROVE ThreadOK'
  BY <1>types, <1>19 DEF Leave, Goto, CloseSocket
<1>20. ASSUME NEW t \in Callers, Call(t) PROVE ThreadOK'
  BY <1>types, <1>20 DEF Call, Goto
<1>21. ASSUME NEW t \in Callers, BeginDisconnect(t) PROVE ThreadOK'
  BY <1>types, <1>21 DEF BeginDisconnect, Goto
<1>22. CASE BgLoop
  BY <1>types, <1>22 DEF BgLoop, Goto
<1>23. CASE BgWakes
  BY <1>types, <1>23 DEF BgWakes, Goto
<1>24. CASE BgReport
  BY <1>types, <1>24 DEF BgReport, Goto
<1>25. CASE ServerAnswers
  BY <1>types, <1>25 DEF ServerAnswers
<1>26. CASE LinkBreaks
  BY <1>types, <1>26 DEF LinkBreaks
<1>27. CASE ServerReturns
  BY <1>types, <1>27 DEF ServerReturns
<1>28. CASE UNCHANGED vars
  BY <1>types, <1>28 DEF vars
<1> QED
  BY <1>1, <1>2, <1>3, <1>4, <1>5, <1>6, <1>7, <1>8, <1>9, <1>10, <1>11, <1>12, <1>13, <1>14, <1>15, <1>16, <1>17, <1>18, <1>19, <1>20, <1>21, <1>22, <1>23, <1>24, <1>25, <1>26, <1>27, <1>28 DEF Next, Step, BgStep

\* While Process is about to connect only a thread that waits for itself has the socket open.
LEMMA SocketStep ==
  ASSUME TypeOK, StackOK, LocksOK, FirstConnectOK, ThreadOK, SocketOK, [Next]_vars
  PROVE  SocketOK'
<1> USE ThreadsAssumption DEF SocketOK, BeforeBgConnects, ThreadOK, StackOK, LocksOK, InCommand,
    InConnection, OnTheWire, Threads, CallerPoints, BgPoints, stack, locks, bgVars, wire
<1>types. /\ pc \in [Threads -> Points] /\ running \in BOOLEAN /\ thread \in {"none", "joinable", "overwritten"}
          /\ inSend \in SUBSET Threads /\ inConnect \in SUBSET Threads
  BY DEF TypeOK, ThreadTypes, ClientTypes, FlagTypes
<1>1. ASSUME NEW t \in Threads, LockCommand(t) PROVE SocketOK'
  BY <1>types, <1>1 DEF LockCommand, Goto
<1>2. ASSUME NEW t \in Threads, SendOk(t) PROVE SocketOK'
  BY <1>types, <1>2 DEF SendOk, Goto
<1>3. ASSUME NEW t \in Threads, SendFails(t) PROVE SocketOK'
  BY <1>types, <1>3 DEF SendFails, Goto, CloseSocket, ReturnFromCommand, Home
<1>4. ASSUME NEW t \in Threads, Receive(t) PROVE SocketOK'
  BY <1>types, <1>4 DEF Receive, Goto, ReturnFromCommand, Home
<1>5. ASSUME NEW t \in Threads, ReceiveTimeout(t) PROVE SocketOK'
  BY <1>types, <1>5 DEF ReceiveTimeout, Goto, ReturnFromCommand, Home
<1>6. ASSUME NEW t \in Threads, ReceiveEof(t) PROVE SocketOK'
  BY <1>types, <1>6 DEF ReceiveEof, vars
<1>7. ASSUME NEW t \in Threads, ReceiveError(t) PROVE SocketOK'
  BY <1>types, <1>7 DEF ReceiveError, Goto, CloseSocket, ReturnFromCommand, Home
<1>8. ASSUME NEW t \in Threads, LockConnection(t) PROVE SocketOK'
  BY <1>types, <1>8 DEF LockConnection, Goto, CloseSocket, SetStateIn, UpdateConnectionState
<1>9. ASSUME NEW t \in Threads, Dial(t) PROVE SocketOK'
  BY <1>types, <1>9 DEF Dial, Goto
<1>10. ASSUME NEW t \in Threads, DialSucceeds(t) PROVE SocketOK'
  <2>1. pc[t] = "tcp" /\ connMutex = t
    BY <1>10 DEF DialSucceeds
  <2>2. /\ pc' = [pc EXCEPT ![t] = "wantCmd"] /\ inConnect' = inConnect \cup {t}
        /\ UNCHANGED <<inSend, running>>
    BY <1>10 DEF DialSucceeds, Goto
  <2>3. t = Bg \/ t \in inSend \/ pc[Bg] = "none"
    BY <2>1 DEF FirstConnectOK, FirstConnect
  <2>4. ~(BeforeBgConnects /\ sock = "open")' \/ (\E u \in Threads : u \in inSend \cap inConnect)'
    BY <1>types, <2>1, <2>2, <2>3
  <2>5. ASSUME NEW u \in Threads, pc[u] = "spawn" \/ (pc[u] = "startBg" /\ ~running)
        PROVE  FALSE
    <3>1. u # t /\ u # Bg /\ t # Bg
      BY <2>1, <2>5
    <3>2. u \in inSend \/ (u = Creator /\ FirstConnect)
      BY <2>5, <3>1 DEF FirstConnectOK, FirstConnect
    <3>3. t \in inSend \/ (t = Creator /\ FirstConnect)
      BY <2>1, <3>1 DEF FirstConnectOK, FirstConnect
    <3> QED
      BY <2>1, <2>5, <3>1, <3>2, <3>3 DEF FirstConnectOK
  <2> QED
    BY <1>types, <2>1, <2>2, <2>4, <2>5
<1>11. ASSUME NEW t \in Threads, DialFails(t) PROVE SocketOK'
  BY <1>types, <1>11 DEF DialFails, Goto, CloseSocket, ReturnFromConnect, AfterConnect, Home, SetStateIn, UpdateConnectionState
<1>12. ASSUME NEW t \in Threads, HelloFails(t) PROVE SocketOK'
  BY <1>types, <1>12 DEF HelloFails, Goto, ReturnFromConnect, AfterConnect, Home, SetStateIn, UpdateConnectionState
<1>13. ASSUME NEW t \in Threads, HelloAccepted(t) PROVE SocketOK'
  BY <1>types, <1>13 DEF HelloAccepted, Goto, SetStateIn, UpdateConnectionState
<1>14. ASSUME NEW t \in Threads, CardsLoaded(t) PROVE SocketOK'
  BY <1>types, <1>14 DEF CardsLoaded, Goto, ReturnFromConnect, AfterConnect, Home
<1>15. ASSUME NEW t \in Threads, StartBg(t) PROVE SocketOK'
  BY <1>types, <1>15 DEF StartBg, Goto, Home
<1>16. ASSUME NEW t \in Threads, Spawn(t) PROVE SocketOK'
  BY <1>types, <1>16 DEF Spawn, Goto, Home
<1>17. ASSUME NEW t \in Threads, Join(t) PROVE SocketOK'
  BY <1>types, <1>17 DEF Join, Goto
<1>18. ASSUME NEW t \in Threads, StopTimeshift(t) PROVE SocketOK'
  BY <1>types, <1>18 DEF StopTimeshift, Goto
<1>19. ASSUME NEW t \in Threads, Leave(t) PROVE SocketOK'
  BY <1>types, <1>19 DEF Leave, Goto, CloseSocket
<1>20. ASSUME NEW t \in Callers, Call(t) PROVE SocketOK'
  BY <1>types, <1>20 DEF Call, Goto
<1>21. ASSUME NEW t \in Callers, BeginDisconnect(t) PROVE SocketOK'
  BY <1>types, <1>21 DEF BeginDisconnect, Goto
<1>22. CASE BgLoop
  BY <1>types, <1>22 DEF BgLoop, Goto
<1>23. CASE BgWakes
  BY <1>types, <1>23 DEF BgWakes, Goto
<1>24. CASE BgReport
  BY <1>types, <1>24 DEF BgReport, Goto
<1>25. CASE ServerAnswers
  BY <1>types, <1>25 DEF ServerAnswers
<1>26. CASE LinkBreaks
  BY <1>types, <1>26 DEF LinkBreaks
<1>27. CASE ServerReturns
  BY <1>types, <1>27 DEF ServerReturns
<1>28. CASE UNCHANGED vars
  BY <1>types, <1>28 DEF vars
<1> QED
  BY <1>1, <1>2, <1>3, <1>4, <1>5, <1>6, <1>7, <1>8, <1>9, <1>10, <1>11, <1>12, <1>13, <1>14, <1>15, <1>16, <1>17, <1>18, <1>19, <1>20, <1>21, <1>22, <1>23, <1>24, <1>25, <1>26, <1>27, <1>28 DEF Next, Step, BgStep

\* Until CreateInstance is done nobody calls, and a thread of Kodi's that is in Connect later
\* on has come from SendCommand.
LEMMA CreatingStep ==
  ASSUME TypeOK, StackOK, FirstConnectOK, CreatingOK, [Next]_vars
  PROVE  CreatingOK'
<1> USE ThreadsAssumption DEF CreatingOK, Creating, FirstConnectOK, StackOK, Threads,
                              CallerPoints, BgPoints, stack, locks, connectVars
<1>types. /\ pc \in [Threads -> Points]
          /\ inSend \in SUBSET Threads /\ inConnect \in SUBSET Threads
  BY DEF TypeOK, ThreadTypes
<1>1. ASSUME NEW t \in Threads, LockCommand(t) PROVE CreatingOK'
  BY <1>types, <1>1 DEF LockCommand, Goto
<1>2. ASSUME NEW t \in Threads, SendOk(t) PROVE CreatingOK'
  BY <1>types, <1>2 DEF SendOk, Goto
<1>3. ASSUME NEW t \in Threads, SendFails(t) PROVE CreatingOK'
  BY <1>types, <1>3 DEF SendFails, Goto, CloseSocket, ReturnFromCommand, Home
<1>4. ASSUME NEW t \in Threads, Receive(t) PROVE CreatingOK'
  BY <1>types, <1>4 DEF Receive, Goto, ReturnFromCommand, Home
<1>5. ASSUME NEW t \in Threads, ReceiveTimeout(t) PROVE CreatingOK'
  BY <1>types, <1>5 DEF ReceiveTimeout, Goto, ReturnFromCommand, Home
<1>6. ASSUME NEW t \in Threads, ReceiveEof(t) PROVE CreatingOK'
  BY <1>types, <1>6 DEF ReceiveEof, vars
<1>7. ASSUME NEW t \in Threads, ReceiveError(t) PROVE CreatingOK'
  BY <1>types, <1>7 DEF ReceiveError, Goto, CloseSocket, ReturnFromCommand, Home
<1>8. ASSUME NEW t \in Threads, LockConnection(t) PROVE CreatingOK'
  BY <1>types, <1>8 DEF LockConnection, Goto, CloseSocket, SetStateIn, UpdateConnectionState
<1>9. ASSUME NEW t \in Threads, Dial(t) PROVE CreatingOK'
  BY <1>types, <1>9 DEF Dial, Goto
<1>10. ASSUME NEW t \in Threads, DialSucceeds(t) PROVE CreatingOK'
  BY <1>types, <1>10 DEF DialSucceeds, Goto
<1>11. ASSUME NEW t \in Threads, DialFails(t) PROVE CreatingOK'
  BY <1>types, <1>11 DEF DialFails, Goto, CloseSocket, ReturnFromConnect, AfterConnect, Home, SetStateIn, UpdateConnectionState
<1>12. ASSUME NEW t \in Threads, HelloFails(t) PROVE CreatingOK'
  BY <1>types, <1>12 DEF HelloFails, Goto, ReturnFromConnect, AfterConnect, Home, SetStateIn, UpdateConnectionState
<1>13. ASSUME NEW t \in Threads, HelloAccepted(t) PROVE CreatingOK'
  BY <1>types, <1>13 DEF HelloAccepted, Goto, SetStateIn, UpdateConnectionState
<1>14. ASSUME NEW t \in Threads, CardsLoaded(t) PROVE CreatingOK'
  BY <1>types, <1>14 DEF CardsLoaded, Goto, ReturnFromConnect, AfterConnect, Home
<1>15. ASSUME NEW t \in Threads, StartBg(t) PROVE CreatingOK'
  BY <1>types, <1>15 DEF StartBg, Goto, Home
<1>16. ASSUME NEW t \in Threads, Spawn(t) PROVE CreatingOK'
  BY <1>types, <1>16 DEF Spawn, Goto, Home
<1>17. ASSUME NEW t \in Threads, Join(t) PROVE CreatingOK'
  BY <1>types, <1>17 DEF Join, Goto
<1>18. ASSUME NEW t \in Threads, StopTimeshift(t) PROVE CreatingOK'
  BY <1>types, <1>18 DEF StopTimeshift, Goto
<1>19. ASSUME NEW t \in Threads, Leave(t) PROVE CreatingOK'
  BY <1>types, <1>19 DEF Leave, Goto, CloseSocket
<1>20. ASSUME NEW t \in Callers, Call(t) PROVE CreatingOK'
  BY <1>types, <1>20 DEF Call, Goto
<1>21. ASSUME NEW t \in Callers, BeginDisconnect(t) PROVE CreatingOK'
  BY <1>types, <1>21 DEF BeginDisconnect, Goto
<1>22. CASE BgStep
  BY <1>types, <1>22 DEF BgStep, BgLoop, BgWakes, BgReport, Goto
<1>23. CASE ServerAnswers \/ LinkBreaks \/ ServerReturns \/ UNCHANGED vars
  BY <1>types, <1>23 DEF ServerAnswers, LinkBreaks, ServerReturns, vars
<1> QED
  BY <1>1, <1>2, <1>3, <1>4, <1>5, <1>6, <1>7, <1>8, <1>9, <1>10, <1>11, <1>12, <1>13, <1>14, <1>15, <1>16, <1>17, <1>18, <1>19, <1>20, <1>21, <1>22, <1>23 DEF Next, Step

\* Process, from its start to its report, never has the state CONNECTED.
LEMMA StateStep ==
  ASSUME TypeOK, StackOK, LocksOK, FirstConnectOK, CreatingOK, ThreadOK, StateOK, [Next]_vars
  PROVE  StateOK'
<1> USE ThreadsAssumption DEF StateOK, ThreadOK, StackOK, LocksOK, InCommand, InConnection, OnTheWire,
                              Threads, CallerPoints, BgPoints, stack, locks, bgVars
<1>types. /\ pc \in [Threads -> Points] /\ running \in BOOLEAN
          /\ thread \in {"none", "joinable", "overwritten"}
          /\ inSend \in SUBSET Threads /\ inConnect \in SUBSET Threads
  BY DEF TypeOK, ThreadTypes, ClientTypes, FlagTypes
<1>1. ASSUME NEW t \in Threads, LockCommand(t) PROVE StateOK'
  BY <1>types, <1>1 DEF LockCommand, Goto
<1>2. ASSUME NEW t \in Threads, SendOk(t) PROVE StateOK'
  BY <1>types, <1>2 DEF SendOk, Goto
<1>3. ASSUME NEW t \in Threads, SendFails(t) PROVE StateOK'
  BY <1>types, <1>3 DEF SendFails, Goto, CloseSocket, ReturnFromCommand, Home
<1>4. ASSUME NEW t \in Threads, Receive(t) PROVE StateOK'
  BY <1>types, <1>4 DEF Receive, Goto, ReturnFromCommand, Home
<1>5. ASSUME NEW t \in Threads, ReceiveTimeout(t) PROVE StateOK'
  BY <1>types, <1>5 DEF ReceiveTimeout, Goto, ReturnFromCommand, Home
<1>6. ASSUME NEW t \in Threads, ReceiveEof(t) PROVE StateOK'
  BY <1>types, <1>6 DEF ReceiveEof, vars
<1>7. ASSUME NEW t \in Threads, ReceiveError(t) PROVE StateOK'
  BY <1>types, <1>7 DEF ReceiveError, Goto, CloseSocket, ReturnFromCommand, Home
<1>8. ASSUME NEW t \in Threads, LockConnection(t) PROVE StateOK'
  BY <1>types, <1>8 DEF LockConnection, Goto, CloseSocket, SetStateIn, UpdateConnectionState
<1>9. ASSUME NEW t \in Threads, Dial(t) PROVE StateOK'
  BY <1>types, <1>9 DEF Dial, Goto
<1>10. ASSUME NEW t \in Threads, DialSucceeds(t) PROVE StateOK'
  BY <1>types, <1>10 DEF DialSucceeds, Goto
<1>11. ASSUME NEW t \in Threads, DialFails(t) PROVE StateOK'
  BY <1>types, <1>11 DEF DialFails, Goto, CloseSocket, ReturnFromConnect, AfterConnect, Home, SetStateIn, UpdateConnectionState
<1>12. ASSUME NEW t \in Threads, HelloFails(t) PROVE StateOK'
  BY <1>types, <1>12 DEF HelloFails, Goto, ReturnFromConnect, AfterConnect, Home, SetStateIn, UpdateConnectionState
<1>13. ASSUME NEW t \in Threads, HelloAccepted(t) PROVE StateOK'
  <2>1. pc[t] = "handle" /\ t \in inConnect /\ t \notin inSend /\ phase = "hello" /\ connMutex = t
    BY <1>13 DEF HelloAccepted
  <2>2. pc' = [pc EXCEPT ![t] = "wantCmd"] /\ UNCHANGED running
    BY <1>13 DEF HelloAccepted, Goto
  <2>3. CASE t = Bg
    <3>1. state' = state
      BY <1>13, <2>3 DEF HelloAccepted, SetStateIn, UpdateConnectionState
    <3> QED BY <1>types, <2>1, <2>2, <2>3, <3>1
  <2>4. CASE t = Creator
    <3>1. \A u \in Threads \ {Creator} : pc[u] \in {"idle", "none"}
      BY <2>1, <2>4 DEF FirstConnectOK, FirstConnect
    <3>2. pc'[Bg] = "none"
      BY <1>types, <2>2, <2>4, <3>1
    <3> QED BY <1>types, <2>2, <2>4, <3>1, <3>2
  <2>5. CASE t # Bg /\ t # Creator
    BY <2>1, <2>5 DEF CreatingOK
  <2> QED BY <2>3, <2>4, <2>5
<1>14. ASSUME NEW t \in Threads, CardsLoaded(t) PROVE StateOK'
  BY <1>types, <1>14 DEF CardsLoaded, Goto, ReturnFromConnect, AfterConnect, Home
<1>15. ASSUME NEW t \in Threads, StartBg(t) PROVE StateOK'
  BY <1>types, <1>15 DEF StartBg, Goto, Home
<1>16. ASSUME NEW t \in Threads, Spawn(t) PROVE StateOK'
  BY <1>types, <1>16 DEF Spawn, Goto, Home
<1>17. ASSUME NEW t \in Threads, Join(t) PROVE StateOK'
  BY <1>types, <1>17 DEF Join, Goto
<1>18. ASSUME NEW t \in Threads, StopTimeshift(t) PROVE StateOK'
  BY <1>types, <1>18 DEF StopTimeshift, Goto
<1>19. ASSUME NEW t \in Threads, Leave(t) PROVE StateOK'
  BY <1>types, <1>19 DEF Leave, Goto, CloseSocket
<1>20. ASSUME NEW t \in Callers, Call(t) PROVE StateOK'
  BY <1>types, <1>20 DEF Call, Goto
<1>21. ASSUME NEW t \in Callers, BeginDisconnect(t) PROVE StateOK'
  BY <1>types, <1>21 DEF BeginDisconnect, Goto
<1>22. CASE BgStep
  BY <1>types, <1>22 DEF BgStep, BgLoop, BgWakes, BgReport, Goto
<1>23. CASE ServerAnswers \/ LinkBreaks \/ ServerReturns \/ UNCHANGED vars
  BY <1>types, <1>23 DEF ServerAnswers, LinkBreaks, ServerReturns, vars
<1> QED
  BY <1>1, <1>2, <1>3, <1>4, <1>5, <1>6, <1>7, <1>8, <1>9, <1>10, <1>11, <1>12, <1>13, <1>14, <1>15, <1>16, <1>17, <1>18, <1>19, <1>20, <1>21, <1>22, <1>23 DEF Next, Step

\* While a thread waits in ReadLine every other thread is outside the parts of SendCommand
\* and Connect that close or replace the socket; only Disconnect may get to its own close.
LEMMA ReaderKeepsSocket ==
  ASSUME Inductive, Next,
         NEW r \in Threads, pc[r] = "read", pc'[r] = "read", sock = "open",
         ~(r = Bg /\ pc[Creator] = "leave" /\ RestartedByDisconnect)
  PROVE  sock' = "open"
<1> USE ThreadsAssumption DEF StackOK, LocksOK, InCommand, InConnection, OnTheWire, Threads,
    CallerPoints, BgPoints
<1>types. /\ pc \in [Threads -> Points] /\ pc[Creator] \in Points
          /\ thread \in {"none", "joinable", "overwritten"}
  BY DEF Inductive, TypeOK, ThreadTypes, ClientTypes
<1>ind. TypeOK /\ StackOK /\ LocksOK /\ FirstConnectOK /\ ThreadOK /\ SocketOK
  BY DEF Inductive
<1>owner. mutex = r /\ \A u \in Threads : u \in inSend => FALSE
  BY <1>ind
\* Nobody is about to lock m_connectionMutex, or has it without a connection.
<1>quiet. ASSUME NEW t \in Threads, pc[t] \in {"wantConn", "dial", "tcp"}
          PROVE  FALSE
  <2>1. CASE t = Bg
    BY <1>ind, <1>owner, <1>quiet, <2>1 DEF SocketOK, BeforeBgConnects
  <2>2. CASE t = Creator
    BY <1>ind, <1>owner, <1>quiet, <2>2 DEF FirstConnectOK, FirstConnect
  <2>3. CASE t # Bg /\ t # Creator
    BY <1>ind, <1>owner, <1>quiet, <2>3 DEF FirstConnectOK
  <2> QED
    BY <2>1, <2>2, <2>3
<1>1. ASSUME NEW t \in Threads, SendFails(t) PROVE sock' = "open"
  <2>1. pc[t] \in {"send", "resend"}
    BY <1>1 DEF SendFails
  <2> QED
    BY <1>ind, <1>owner, <2>1
<1>2. ASSUME NEW t \in Threads, ReceiveError(t) PROVE sock' = "open"
  <2>1. pc[t] = "read" /\ t = r
    BY <1>2, <1>ind, <1>owner DEF ReceiveError
  <2>2. pc'[t] # "read"
    BY <1>2, <1>types DEF ReceiveError, ReturnFromCommand, Goto, Home
  <2> QED
    BY <2>1, <2>2
<1>3. ASSUME NEW t \in Threads, LockConnection(t) \/ Dial(t) \/ DialFails(t) PROVE sock' = "open"
  BY <1>3, <1>quiet DEF LockConnection, Dial, DialFails
<1>4. ASSUME NEW t \in Threads, Leave(t) PROVE sock' = "open"
  <2>1. pc[t] = "leave"
    BY <1>4 DEF Leave
  <2>2. t # Bg
    BY <1>ind, <2>1
  <2>3. t = Creator
    BY <1>ind, <2>1, <2>2 DEF ThreadOK
  <2>4. r = Bg
    BY <1>ind, <2>1, <2>3 DEF ThreadOK
  <2> QED
    BY <1>ind, <1>types, <2>1, <2>3, <2>4 DEF ThreadOK
<1>5. ASSUME NEW t \in Threads, DialSucceeds(t) PROVE sock' = "open"
  BY <1>5 DEF DialSucceeds
<1>6. ASSUME NEW t \in Threads,
             \/ LockCommand(t) \/ SendOk(t) \/ Receive(t) \/ ReceiveTimeout(t) \/ ReceiveEof(t)
             \/ HelloFails(t) \/ HelloAccepted(t) \/ CardsLoaded(t)
             \/ StartBg(t) \/ Spawn(t) \/ Join(t) \/ StopTimeshift(t)
      PROVE  sock' = "open"
  BY <1>6 DEF LockCommand, SendOk, Receive, ReceiveTimeout, ReceiveEof, HelloFails, HelloAccepted,
     CardsLoaded, StartBg, Spawn, Join, StopTimeshift, wire, vars
<1>7. ASSUME NEW t \in Callers, Call(t) \/ BeginDisconnect(t) PROVE sock' = "open"
  BY <1>7 DEF Call, BeginDisconnect, wire
<1>8. CASE BgStep \/ ServerAnswers \/ LinkBreaks \/ ServerReturns
  BY <1>8 DEF BgStep, BgLoop, BgWakes, BgReport, ServerAnswers, LinkBreaks, ServerReturns, wire
<1> QED
  BY <1>1, <1>2, <1>3, <1>4, <1>5, <1>6, <1>7, <1>8 DEF Next, Step

-----------------------------------------------------------------------------

\* The inductive invariant holds in every behaviour of the client.
THEOREM InductiveHolds == Spec => []Inductive
<1>1. Init => Inductive
  <2> SUFFICES ASSUME Init PROVE Inductive
    OBVIOUS
  <2> USE ThreadsAssumption, BoundsAssumption DEF Init, Threads
  <2>1. TypeOK
    <3>1. ThreadTypes /\ ClientTypes
      BY DEF ThreadTypes, ClientTypes, Points, CallerPoints, BgPoints, States
    <3>2. ServerTypes
      BY DEF ServerTypes
    <3>3. FlagTypes
      BY DEF FlagTypes
    <3> QED
      BY <3>1, <3>2, <3>3 DEF TypeOK
  <2>2. StackOK /\ LocksOK
    BY DEF StackOK, LocksOK, InCommand, InConnection, OnTheWire, CallerPoints, BgPoints
  <2>3. FirstConnectOK /\ CreatingOK /\ ThreadOK /\ SocketOK /\ StateOK
    BY DEF FirstConnectOK, FirstConnect, CreatingOK, ThreadOK, SocketOK, BeforeBgConnects, StateOK
  <2> QED
    BY <2>1, <2>2, <2>3 DEF Inductive
<1>2. Inductive /\ [Next]_vars => Inductive'
  BY TypeStep, StackStep, FirstConnectStep, CreatingStep, ThreadStep, SocketStep, StateStep DEF Inductive
<1> QED
  BY <1>1, <1>2, PTL DEF Spec

\* The variables keep their types, ReadLine's counter of retries included.
THEOREM TypeCorrect == Spec => []TypeOK
<1>1. Inductive => TypeOK
  BY DEF Inductive
<1> QED
  BY <1>1, InductiveHolds, PTL

\* Commands and answers of different threads never interleave on the socket.
THEOREM OneOnTheWireHolds == Spec => []OneOnTheWire
<1>1. Inductive => OneOnTheWire
  BY DEF Inductive, LocksOK, InCommand, OneOnTheWire
<1> QED
  BY <1>1, InductiveHolds, PTL

\* The test of m_running and the start of Process need no lock of their own.
THEOREM OneStarterAlways == Spec => []OneStarter
<1>1. Inductive => OneStarter
  BY OneStarterHolds DEF Inductive
<1> QED
  BY <1>1, InductiveHolds, PTL

\* No joinable m_thread is ever overwritten.
THEOREM NoThreadOverwrittenHolds == Spec => []NoThreadOverwritten
<1>1. Inductive => NoThreadOverwritten
  BY DEF Inductive, ThreadOK, NoThreadOverwritten
<1> QED
  BY <1>1, InductiveHolds, PTL

\* Process has ended when Disconnect is done, unless a command of Disconnect's own has failed.
THEOREM ExitLeavesNoThreadHolds == Spec => []ExitLeavesNoThread
<1>1. Inductive => ExitLeavesNoThread
  BY ThreadsAssumption DEF Inductive, ThreadOK, ExitLeavesNoThread
<1> QED
  BY <1>1, InductiveHolds, PTL

\* All of it together.
THEOREM ThreadIsJoinedHolds == Spec => []ThreadIsJoined
<1>1. OneStarter /\ NoThreadOverwritten /\ ExitLeavesNoThread => ThreadIsJoined
  BY DEF ThreadIsJoined
<1> QED
  BY <1>1, OneStarterAlways, NoThreadOverwrittenHolds, ExitLeavesNoThreadHolds, PTL

\* No thread closes the socket on which another one is waiting, but Disconnect's own last close
\* after it has started Process once more.
THEOREM NoCloseUnderReaderHolds == Spec => NoCloseUnderReader
<1> DEFINE Kept == \A t \in Threads :
                     pc[t] = "read" /\ pc'[t] = "read" /\ sock = "open"
                       => sock' = "open" \/ (t = Bg /\ pc[Creator] = "leave" /\ RestartedByDisconnect)
<1>1. Inductive /\ [Next]_vars => [Kept]_vars
  BY ReaderKeepsSocket
<1>2. NoCloseUnderReader <=> [][Kept]_vars
  BY PTL DEF NoCloseUnderReader
<1> QED
  BY <1>1, <1>2, InductiveHolds, PTL DEF Spec

\* Kodi's threads never cross each other at the two mutexes, and none that asks IsUp meets the
\* handshake of Process: for any number of threads and pollers, and whatever fails.
THEOREM HandshakeMeetsOnlyTheLateHolds == Spec => []HandshakeMeetsOnlyTheLate
<1>1. Inductive => DownWhileProcessConnects
  BY ThreadsAssumption DEF Inductive, StateOK, StackOK, Threads, DownWhileProcessConnects, ConnectsInBackground
<1>2. Inductive => CallersNeverCross
  <2> SUFFICES ASSUME Inductive, NEW t \in Callers, NEW u \in Callers, t # u,
                      WaitsFor(t, u), WaitsFor(u, t)
               PROVE  FALSE
    BY DEF CallersNeverCross
  <2> USE ThreadsAssumption DEF WaitsFor, Threads
  <2>1. ASSUME NEW v \in Callers, NEW w \in Callers, v # w,
               pc[v] = "wantCmd", mutex = w, pc[w] = "wantConn", connMutex = v
        PROVE  FALSE
    <3>1. v \in inConnect /\ v \notin inSend
      BY <2>1 DEF Inductive, LocksOK, InCommand, InConnection
    <3>2. v = Creator /\ Creating
      BY <3>1 DEF Inductive, CreatingOK, Creating
    <3> QED BY <2>1, <3>2 DEF Inductive, CreatingOK
  <2> QED BY <2>1
<1> QED
  BY <1>1, <1>2, InductiveHolds, PTL DEF HandshakeMeetsOnlyTheLate

\* "Resend the command" is never reached: the reconnect inside SendCommand sends the hello
\* with m_mutex locked by its own thread, and waits for it for ever.
THEOREM NothingIsResent == Spec => [](\A t \in Threads : pc[t] # "resend")
<1>1. Inductive => \A t \in Threads : pc[t] # "resend"
  BY DEF Inductive, StackOK
<1> QED
  BY <1>1, InductiveHolds, PTL
=============================================================================
