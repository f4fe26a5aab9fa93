---------------------------- MODULE ScheduledTask ----------------------------
(***************************************************************************)
(* mono::ScheduledTask: tasks that are due at a point in time.  The RTC    *)
(* interrupts once a second and raises a flag; the run loop, and in sleep  *)
(* mode the loop of EnterSleep, then run the handlers of the tasks that    *)
(* are due.  Handlers schedule, copy and destroy tasks, and may put the    *)
(* system to sleep.                                                        *)
(***************************************************************************)
EXTENDS GenericQueue, Sequences

CONSTANTS
  Sleepers,   \* bound: the tasks clients make run in sleep
  Liberties   \* what client code may do, a subset of AllLiberties

\* "sleepInTask": enter sleep mode from the handler of a scheduled task.
\* "touchNext": from a handler, destroy or assign to the task that
\*    processScheduledTasks goes to next.
AllLiberties == {"sleepInTask", "touchNext"}

ASSUME ClientAssumption == Sleepers \subseteq Items /\ Liberties \subseteq AllLiberties

VARIABLES
  queue,       \* the static queue of scheduled tasks
  time,        \* the time of each task, seen from now
  runInSleep,  \* whether the task may run in sleep mode
  alive,       \* the blocks that hold a constructed task
  flag,        \* IRTCSystem::__shouldProcessScheduledTasks
  stack,       \* the main context's calls of processScheduledTasks and EnterSleep
  credit       \* history: queued by a client, handler not called since

vars == <<queue, time, runInSleep, alive, flag, stack, credit>>

\* Of a point in time only its order to now matters.
Times == {"invalid", "future", "due"}

\* processScheduledTasks(inSleep) at a task, before or during its handler.
Process == [call : {"process"}, inSleep : BOOLEAN, task : Items, next : ItemPointer,
            running : BOOLEAN]
Sleep == [call |-> "sleep"]

TypeOK ==
  /\ queue \in Queues
  /\ time \in [Items -> Times]
  /\ runInSleep \in [Items -> BOOLEAN]
  /\ alive \in SUBSET Items
  /\ flag \in BOOLEAN
  /\ Len(stack) <= 3
  /\ \A i \in DOMAIN stack : stack[i] \in Process \/ stack[i] = Sleep
  /\ credit \in [Items -> BOOLEAN]

Init ==
  /\ queue = [top |-> NULL, end |-> NULL, next |-> [t \in Items |-> NULL]]
  /\ time = [t \in Items |-> "invalid"]
  /\ runInSleep = [t \in Items |-> FALSE]
  /\ alive = {}
  /\ flag = FALSE
  /\ stack = <<>>
  /\ credit = [t \in Items |-> FALSE]

InQueue(t) == t \in Members(queue)
Calls == {stack[i] : i \in DOMAIN stack}
Processing == {c \in Calls : c.call = "process"}
Asleep == Sleep \in Calls
Top == stack[Len(stack)]
Below == SubSeq(stack, 1, Len(stack) - 1)
InLoop == stack = <<>>
InSleepLoop == ~InLoop /\ Top = Sleep
InHandler == ~InLoop /\ Top.call = "process" /\ Top.running
AtTask == ~InLoop /\ Top.call = "process" /\ ~Top.running

-----------------------------------------------------------------------------
(* The RTC.                                                                *)

\* Bug: the interrupt advances the clock and does not raise the flag.
RtcInterrupt_Silent ==
  /\ \E S \in SUBSET {t \in Items : time[t] = "future"} :
       time' = [t \in Items |-> IF t \in S THEN "due" ELSE time[t]]
  /\ UNCHANGED <<queue, runInSleep, alive, flag, stack, credit>>

\* rtc_interrupt: a second passes, and any of the future times may be reached.
RtcInterrupt ==
  /\ \E S \in SUBSET {t \in Items : time[t] = "future"} :
       time' = [t \in Items |-> IF t \in S THEN "due" ELSE time[t]]
  /\ flag' = TRUE
  /\ UNCHANGED <<queue, runInSleep, alive, stack, credit>>

-----------------------------------------------------------------------------
(* processScheduledTasks.                                                  *)

\* The loop reaches task t, and reads the one after it before t may leave
\* the queue; at the end of the queue the call returns.
Visit(below, q, t, inSleep) ==
  IF t = NULL THEN below
  ELSE Append(below, [call |-> "process", inSleep |-> inSleep, task |-> t,
                      next |-> q.next[t], running |-> FALSE])

StartProcessing(inSleep) ==
  /\ flag
  /\ flag' = FALSE
  /\ stack' = Visit(stack, queue, queue.top, inSleep)
  /\ UNCHANGED <<queue, time, runInSleep, alive, credit>>

\* AppRunLoop::process calls processScheduledTasks().
ProcessInLoop == InLoop /\ StartProcessing(FALSE)

\* Bug: the test of inSleep is reversed.
PendingInSleep_Reversed ==
  \E t \in Members(queue) : time[t] = "due" /\ ~runInSleep[t]

\* pendingScheduledTasks(true).
PendingInSleep == \E t \in Members(queue) : time[t] = "due" /\ runInSleep[t]

\* EnterSleep calls processScheduledTasks(true) if a task can run in sleep.
ProcessInSleep == InSleepLoop /\ PendingInSleep /\ StartProcessing(TRUE)

\* The task is not due.
SkipTask ==
  /\ AtTask
  /\ time[Top.task] # "due"
  /\ stack' = Visit(Below, queue, Top.next, Top.inSleep)
  /\ UNCHANGED <<queue, time, runInSleep, alive, flag, credit>>

\* Bug: the task stays in the queue while its handler runs.
RunTask_StaysQueued ==
  /\ AtTask
  /\ time[Top.task] = "due"
  /\ UNCHANGED queue
  /\ IF Top.inSleep => runInSleep[Top.task]
       THEN /\ stack' = Append(Below, [Top EXCEPT !.running = TRUE])
            /\ credit' = [credit EXCEPT ![Top.task] = FALSE]
       ELSE /\ stack' = Visit(Below, queue, Top.next, Top.inSleep)
            /\ UNCHANGED credit
  /\ UNCHANGED <<time, runInSleep, alive, flag>>

\* runTask: the task leaves the queue, then its handler is called, unless
\* this is sleep mode and the task may not run in it.
RunTask ==
  /\ AtTask
  /\ time[Top.task] = "due"
  /\ queue' = RemoveItem(queue, Top.task)
  /\ IF Top.inSleep => runInSleep[Top.task]
       THEN /\ stack' = Append(Below, [Top EXCEPT !.running = TRUE])
            /\ credit' = [credit EXCEPT ![Top.task] = FALSE]
       ELSE /\ stack' = Visit(Below, queue', Top.next, Top.inSleep)
            /\ UNCHANGED credit
  /\ UNCHANGED <<time, runInSleep, alive, flag>>

HandlerReturns ==
  /\ InHandler
  /\ stack' = Visit(Below, queue, Top.next, Top.inSleep)
  /\ UNCHANGED <<queue, time, runInSleep, alive, flag, credit>>

-----------------------------------------------------------------------------
(* Client code, in a handler or between two rounds of the run loop.        *)

InClient == InLoop \/ InHandler

Untouched(t) == "touchNext" \in Liberties \/ \A c \in Processing : c.next # t

\* t gets time tm and is put into q if that is in the future.
Schedule(q, t, tm) ==
  /\ time' = [time EXCEPT ![t] = tm]
  /\ queue' = IF tm = "future" THEN Enqueue(q, t) ELSE q
  /\ credit' = [credit EXCEPT ![t] = t \in Members(queue')]

\* The constructor from a time, and setTask.
Construct(t, tm) ==
  /\ InClient
  /\ t \notin alive
  /\ alive' = alive \cup {t}
  /\ runInSleep' = [runInSleep EXCEPT ![t] = FALSE]
  /\ Schedule([queue EXCEPT !.next[t] = NULL], t, tm)
  /\ UNCHANGED <<flag, stack>>

\* The copy constructor.
CopyConstruct(t, other) ==
  /\ InClient
  /\ t \notin alive
  /\ other \in alive
  /\ runInSleep[other] => t \in Sleepers
  /\ alive' = alive \cup {t}
  /\ runInSleep' = [runInSleep EXCEPT ![t] = runInSleep[other]]
  /\ Schedule([queue EXCEPT !.next[t] = NULL], t, time[other])
  /\ UNCHANGED <<flag, stack>>

\* operator=: the task is not taken out of the queue first.
Assign(t, other) ==
  /\ InClient
  /\ {t, other} \subseteq alive
  /\ Untouched(t)
  /\ runInSleep[other] => t \in Sleepers
  /\ runInSleep' = [runInSleep EXCEPT ![t] = runInSleep[other]]
  /\ Schedule(queue, t, time[other])
  /\ UNCHANGED <<alive, flag, stack>>

\* reschedule, with a time in the future or, to cancel, an invalid one.
Reschedule(t, tm) ==
  /\ InClient
  /\ t \in alive
  /\ Schedule(RemoveItem(queue, t), t, tm)
  /\ UNCHANGED <<runInSleep, alive, flag, stack>>

\* setRunInSleep, of a task that has not been dropped.
SetRunInSleep(t, run) ==
  /\ InClient
  /\ t \in alive
  /\ run => t \in Sleepers
  /\ credit[t] => InQueue(t)
  /\ runInSleep' = [runInSleep EXCEPT ![t] = run]
  /\ UNCHANGED <<queue, time, alive, flag, stack, credit>>

\* Bug: the destructor leaves the task in the queue.
Destroy_StaysQueued(t) ==
  /\ InClient
  /\ t \in alive
  /\ Untouched(t)
  /\ alive' = alive \ {t}
  /\ credit' = [credit EXCEPT ![t] = FALSE]
  /\ UNCHANGED <<queue, time, runInSleep, flag, stack>>

Destroy(t) ==
  /\ InClient
  /\ t \in alive
  /\ Untouched(t)
  /\ queue' = RemoveItem(queue, t)
  /\ alive' = alive \ {t}
  /\ credit' = [credit EXCEPT ![t] = FALSE]
  /\ UNCHANGED <<time, runInSleep, flag, stack>>

\* EnterSleep up to its loop, called by a task of the run loop or, as a
\* liberty, by a scheduled task.
EnterSleep ==
  /\ InLoop \/ ("sleepInTask" \in Liberties /\ InHandler /\ ~Asleep)
  /\ stack' = Append(stack, Sleep)
  /\ UNCHANGED <<queue, time, runInSleep, alive, flag, credit>>

\* __shouldWakeUp has been raised.
WakeUp ==
  /\ InSleepLoop
  /\ stack' = Below
  /\ UNCHANGED <<queue, time, runInSleep, alive, flag, credit>>

Client ==
  \E t \in Items :
    \/ \E tm \in {"future", "invalid"} : Construct(t, tm) \/ Reschedule(t, tm)
    \/ \E other \in Items : CopyConstruct(t, other) \/ Assign(t, other)
    \/ \E run \in BOOLEAN : SetRunInSleep(t, run)
    \/ Destroy(t)

Next ==
  \/ RtcInterrupt
  \/ ProcessInLoop \/ ProcessInSleep \/ SkipTask \/ RunTask \/ HandlerReturns
  \/ EnterSleep \/ WakeUp
  \/ Client

\* The RTC ticks for ever.  Each round of the run loop calls
\* processScheduledTasks, whatever clients do before, and handlers return.
\* Nothing makes the system leave sleep mode.
Fairness ==
  /\ WF_vars(RtcInterrupt)
  /\ SF_vars(ProcessInLoop)
  /\ WF_vars(ProcessInSleep)
  /\ WF_vars(SkipTask \/ RunTask)
  /\ SF_vars(HandlerReturns)

Spec == Init /\ [][Next]_vars
FairSpec == Spec /\ Fairness

-----------------------------------------------------------------------------
(* Properties.                                                             *)

\* Whatever handlers do to the queue while it is processed, it stays one chain
\* of live tasks that endOfQueue ends.  (With the type invariant.)
QueueIntact == TypeOK /\ IsQueue(queue) /\ Members(queue) \subseteq alive

\* The task read before the handler is called, "before task might be dequeued
\* and re-queued", still exists when the loop goes on to it.
ProcessingStaysOnLiveTasks ==
  \A c \in Processing : (c.next # NULL => c.next \in alive) /\ (c.running \/ c.task \in alive)

\* "A ScheduledTask executes once": a task the loop is about to run has been
\* scheduled since its handler was last called.
ExecutesOnce == AtTask /\ time[Top.task] = "due" => credit[Top.task]

\* A scheduled task stays in the queue until its handler is called: "Task that
\* do not run in sleep are executed ASAP after wake-up", so sleep mode must
\* leave them in the queue.
TasksWait == \A t \in Items : credit[t] => InQueue(t)

\* Calls of processScheduledTasks end.  (They need not: handlers that take
\* seconds and schedule each other a second ahead keep one call busy.)
ProcessingEnds == []<>(InLoop \/ InSleepLoop)

\* A task that may run in sleep is run when it is due, awake or asleep,
\* unless somebody changes its schedule.
DueTaskRuns ==
  ProcessingEnds =>
    \A t \in Items :
      (credit[t] /\ time[t] = "due" /\ runInSleep[t])
        ~> (~credit[t] \/ time[t] # "due" \/ ~runInSleep[t])

\* While the system is awake, any task in the queue is run when it is due,
\* also when a handler takes the task after its own out of the queue or to
\* its end, so that the tasks behind wait for the next second.
DueTaskRunsAwake ==
  ProcessingEnds =>
    \A t \in Items :
      (InQueue(t) /\ time[t] = "due" /\ ~Asleep) ~> (~credit[t] \/ time[t] # "due" \/ Asleep)
=============================================================================
