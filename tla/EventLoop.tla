------------------------------ MODULE EventLoop ------------------------------
(***************************************************************************)
(* BasicTaskScheduler of live555: one thread serves the sockets of the RTSP *)
(* session and the delayed tasks of its DelayQueue, whose entries hold the  *)
(* time that remains after the entry before them.                          *)
(***************************************************************************)
EXTENDS Integers, Sequences, FiniteSets, SequencesExt

CONSTANTS
  Sockets, Tasks,
  Delays,   \* what scheduleDelayedTask is called with
  MaxClock  \* bound

VARIABLES
  clock,
  fDelayQueue, fLastSyncTime,
  due,        \* when each task of the queue should run
  setBack,    \* the system clock has been set back
  fReadHandlers, fLastHandledSocketNum,
  readable,   \* the sockets that have something to read
  passed      \* how often each of them has been passed over since it has, or since the handler
              \* called last went away

timers == <<clock, fDelayQueue, fLastSyncTime, due, setBack>>
handlers == <<fReadHandlers, fLastHandledSocketNum, readable, passed>>
vars == <<timers, handlers>>

NoSocket == "none"

-----------------------------------------------------------------------------
(* DelayQueue                                                               *)

\* An entry before another one takes its time off it; times are never below zero.
Less(delay, delta) == IF delay >= delta THEN delay - delta ELSE 0

\* The time until entry i of a queue.
TimeUntil(queue, i) == FoldLeft(LAMBDA time, entry : time + entry.delta, 0, SubSeq(queue, 1, i))

\* synchronize: what has passed since the last call is taken off the entries, from the head on.
Synced ==
  LET passedTime == Less(clock, fLastSyncTime)
      left(i) == Less(TimeUntil(fDelayQueue, i), passedTime)
  IN  [i \in DOMAIN fDelayQueue |->
         [fDelayQueue[i] EXCEPT !.delta = left(i) - left(i - 1)]]

\* Mutant: the time of the entries before it is not taken off.
AddedPlain(queue, task, delay) ==
  LET later == {i \in DOMAIN queue : queue[i].delta > delay}
      place == IF later = {} THEN Len(queue) + 1 ELSE CHOOSE i \in later : \A j \in later : i <= j
  IN  InsertAt(queue, place, [task |-> task, delta |-> delay])

\* addEntry, behind those that are due at the same time.
Added(queue, task, delay) ==
  LET later == {i \in DOMAIN queue : TimeUntil(queue, i) > delay}
      place == IF later = {} THEN Len(queue) + 1 ELSE CHOOSE i \in later : \A j \in later : i <= j
      delta == delay - TimeUntil(queue, place - 1)
  IN  InsertAt([i \in DOMAIN queue |-> IF i = place THEN [queue[i] EXCEPT !.delta = @ - delta] ELSE queue[i]],
               place, [task |-> task, delta |-> delta])

\* removeEntry gives the time of the entry back to the next one.
Removed(queue, i) ==
  RemoveAt([j \in DOMAIN queue |-> IF j = i + 1 THEN [queue[j] EXCEPT !.delta = @ + queue[i].delta] ELSE queue[j]], i)

IsScheduled(task) == \E i \in DOMAIN fDelayQueue : fDelayQueue[i].task = task

scheduleDelayedTask(task, delay) ==
  /\ ~IsScheduled(task)
  /\ fDelayQueue' = Added(Synced, task, delay) /\ fLastSyncTime' = clock
  /\ due' = [due EXCEPT ![task] = clock + delay]
  /\ UNCHANGED <<clock, setBack, handlers>>

unscheduleDelayedTask(task) ==
  /\ \E i \in DOMAIN fDelayQueue :
       fDelayQueue[i].task = task /\ fDelayQueue' = Removed(fDelayQueue, i)
  /\ UNCHANGED <<clock, fLastSyncTime, due, setBack, handlers>>

-----------------------------------------------------------------------------
(* HandlerSet                                                               *)

\* A new handler comes before the others, whose turn stays.
turnOnBackgroundReadHandling(socket) ==
  /\ socket \notin ToSet(fReadHandlers)
  /\ fReadHandlers' = <<socket>> \o fReadHandlers
  /\ UNCHANGED <<timers, fLastHandledSocketNum, readable, passed>>

\* The place in the round is that of the handler called last: it is lost with that handler.
turnOffBackgroundReadHandling(socket) ==
  /\ \E i \in DOMAIN fReadHandlers :
       fReadHandlers[i] = socket /\ fReadHandlers' = RemoveAt(fReadHandlers, i)
  /\ passed' = [s \in Sockets |-> IF socket \in {s, fLastHandledSocketNum} THEN 0 ELSE passed[s]]
  /\ UNCHANGED <<timers, fLastHandledSocketNum, readable>>

Ready == readable \cap ToSet(fReadHandlers)

\* The handlers of the sockets, in their order.
Of(sockets) == {i \in DOMAIN fReadHandlers : fReadHandlers[i] \in sockets}
FirstOf(places) == IF places = {} THEN NoSocket ELSE fReadHandlers[Min(places)]

\* Mutant: always from the first handler on.
NextHandlerFirst(ready) == FirstOf(Of(ready))

\* The next readable socket behind the one handled last, or else from the first on.
NextHandler(ready) ==
  LET behind == {i \in Of(ready) : \A last \in Of({fLastHandledSocketNum}) : i > last}
  IN  FirstOf(IF behind # {} THEN behind ELSE Of(ready))

-----------------------------------------------------------------------------

\* handleAlarm of the step: at most one task.
HandleAlarm ==
  LET queue == IF fDelayQueue # <<>> /\ Head(fDelayQueue).delta = 0 THEN fDelayQueue ELSE Synced
  IN  /\ fLastSyncTime' = IF fDelayQueue # <<>> /\ Head(fDelayQueue).delta = 0 THEN fLastSyncTime ELSE clock
      /\ fDelayQueue' = IF queue # <<>> /\ Head(queue).delta = 0 THEN Removed(queue, 1) ELSE queue
      /\ UNCHANGED <<clock, due, setBack>>

\* The handler reads a part of what there is, or all of it.
SingleStep ==
  LET socket == NextHandler(Ready) IN
  /\ fLastHandledSocketNum' = socket
  /\ passed' = [s \in Sockets |-> IF s \in Ready \ {socket} THEN passed[s] + 1 ELSE 0]
  /\ readable' \in {readable, readable \ {socket}}
  /\ HandleAlarm
  /\ UNCHANGED fReadHandlers

DataArrives(socket) ==
  /\ socket \notin readable /\ readable' = readable \cup {socket}
  /\ UNCHANGED <<timers, fReadHandlers, fLastHandledSocketNum, passed>>

Tick ==
  /\ clock < MaxClock /\ clock' = clock + 1
  /\ UNCHANGED <<fDelayQueue, fLastSyncTime, due, setBack, handlers>>

ClockSetBack ==
  /\ ~setBack /\ clock > 0 /\ setBack' = TRUE /\ clock' = clock - 1
  /\ UNCHANGED <<fDelayQueue, fLastSyncTime, due, handlers>>

Init ==
  /\ clock = 0 /\ fDelayQueue = <<>> /\ fLastSyncTime = 0
  /\ due = [t \in Tasks |-> 0] /\ setBack = FALSE
  /\ fReadHandlers = <<>> /\ fLastHandledSocketNum = NoSocket
  /\ readable = {} /\ passed = [s \in Sockets |-> 0]

Next ==
  \/ \E task \in Tasks : (\E delay \in Delays : scheduleDelayedTask(task, delay)) \/ unscheduleDelayedTask(task)
  \/ \E s \in Sockets : turnOnBackgroundReadHandling(s) \/ turnOffBackgroundReadHandling(s) \/ DataArrives(s)
  \/ SingleStep
  \/ Tick
  \/ ClockSetBack

Spec == Init /\ [][Next]_vars

-----------------------------------------------------------------------------

\* A task runs when its delay is over, not before, and not before one that is due earlier,
\* whatever was scheduled and taken away meanwhile.
TasksInTime ==
  ~setBack =>
    \A i \in DOMAIN fDelayQueue :
      LET time == due[fDelayQueue[i].task]
      IN  /\ fLastSyncTime + TimeUntil(fDelayQueue, i) = IF time > fLastSyncTime THEN time ELSE fLastSyncTime
          /\ \A j \in 1..i : due[fDelayQueue[j].task] <= time

\* A socket with data is passed over less than twice by each of the others, however much these
\* get, and although their handlers, each put in front of the list, go and come again meanwhile.
\* (Where the handler called last goes, the round begins anew and so does the count.)
NoSocketStarves == \A s \in Sockets : passed[s] = 0 \/ passed[s] < 2 * (Cardinality(Sockets) - 1)
=============================================================================
