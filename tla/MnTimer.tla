------------------------------ MODULE MnTimer -------------------------------
(***************************************************************************)
(* mono::Timer, the framework's software timer, on the run loop and on the *)
(* hardware ticker.  A timer is a run loop task; the ticker's interrupt    *)
(* only raises a flag, which the task looks at whenever the loop visits    *)
(* it.  The main context is cut into steps wherever an interrupt that      *)
(* falls in between can make a difference.                                 *)
(***************************************************************************)
EXTENDS TaskList

CONSTANTS
  Intervals,  \* the intervals in use; 0 is special in the code
  Garbage,    \* see AppRunLoop
  Liberties   \* see AppRunLoop

ASSUME TimerAssumption ==
  /\ Intervals \subseteq Nat /\ Intervals # {}
  /\ Garbage \subseteq Pointer
  /\ Liberties \subseteq {"readdLast", "destroyAfterLeaving"}

VARIABLES
  list, cursor, alive,  \* the run loop
  stage,       \* where in taskHandler the main context is
  restarting,  \* the timer that setInterval has stopped and not yet started, or
               \* that start() has taken off the ticker to put it back, or NULL
  kind,        \* Timer::timerSingleShot and autoRelease
  running,     \* Timer::running
  fired,       \* Timer::interruptDidFire
  interval,    \* Timer::interval
  attached,    \* the ticker is in the ticker queue
  credit       \* history: what a callback of the timer can be accounted to

timerVars == <<kind, running, fired, interval, attached, credit>>
vars == <<list, cursor, alive, stage, restarting, timerVars>>

\* The run loop, with timers as its only tasks (none of them single-shot in
\* the run loop's sense).
Loop == INSTANCE AppRunLoop WITH SingleShot <- {}

\* Recurring, one-shot, or one-shot and deleting itself (callOnce, async).
Kinds == {"recurring", "oneShot", "callOnce"}

Stages == {"between", "called", "matched", "callback", "returning"}

\* "elapsed": its interval has elapsed since it was last started and no
\* callback has been made for it.  "leftover": it was started while the flag
\* was still up from before.
Credits == {"none", "elapsed", "leftover"}

TypeOK ==
  /\ Loop!TypeOK
  /\ stage \in Stages
  /\ restarting \in Pointer
  /\ kind \in [Tasks -> Kinds]
  /\ running \in [Tasks -> BOOLEAN]
  /\ fired \in [Tasks -> BOOLEAN]
  /\ interval \in [Tasks -> Intervals]
  /\ attached \in [Tasks -> BOOLEAN]
  /\ credit \in [Tasks -> Credits]

Init ==
  /\ Loop!Init
  /\ stage = "between"
  /\ restarting = NULL
  /\ kind = [t \in Tasks |-> "recurring"]
  /\ running = [t \in Tasks |-> FALSE]
  /\ fired = [t \in Tasks |-> FALSE]
  /\ interval = [t \in Tasks |-> CHOOSE i \in Intervals : TRUE]
  /\ attached = [t \in Tasks |-> FALSE]
  /\ credit = [t \in Tasks |-> "none"]

-----------------------------------------------------------------------------
(* The bodies of Timer's methods.                                          *)

\* Bug: nothing raises the flag of a timer without an interval.
StartBody_ZeroForgotten(t) ==
  /\ running' = [running EXCEPT ![t] = TRUE]
  /\ list' = AddDynamicTask(list, t)
  /\ attached' = [attached EXCEPT ![t] = @ \/ interval[t] > 0]
  /\ credit' = [credit EXCEPT ![t] = IF fired[t] THEN "leftover" ELSE "none"]
  /\ UNCHANGED fired

\* The ticker does not do intervals of zero: the flag goes up at once.  A
\* timer without a callback is not started at all; such timers are left out.
StartBody(t) ==
  /\ running' = [running EXCEPT ![t] = TRUE]
  /\ list' = AddDynamicTask(list, t)
  /\ IF interval[t] > 0
       THEN /\ attached' = [attached EXCEPT ![t] = TRUE]
            /\ credit' = [credit EXCEPT ![t] = IF fired[t] THEN "leftover" ELSE "none"]
            /\ UNCHANGED fired
       ELSE /\ fired' = [fired EXCEPT ![t] = TRUE]
            /\ credit' = [credit EXCEPT ![t] = "elapsed"]
            /\ UNCHANGED attached

\* Bug: the ticker is left attached.
StopBody_TickerKept(t) ==
  /\ running' = [running EXCEPT ![t] = FALSE]
  /\ list' = RemoveDynamicTask(list, t)
  /\ UNCHANGED attached

\* The flag stays up if the interrupt has raised it.
StopBody(t) ==
  /\ running' = [running EXCEPT ![t] = FALSE]
  /\ list' = RemoveDynamicTask(list, t)
  /\ attached' = [attached EXCEPT ![t] = FALSE]

\* Bug: the destructor only lets go of the ticker.
DeleteBody_StaysInList(t) ==
  /\ running' = [running EXCEPT ![t] = FALSE]
  /\ attached' = [attached EXCEPT ![t] = FALSE]
  /\ alive' = alive \ {t}
  /\ UNCHANGED list

\* ~Timer, and ~Ticker behind it.
DeleteBody(t) ==
  /\ running' = [running EXCEPT ![t] = FALSE]
  /\ list' = IF running[t] THEN RemoveDynamicTask(list, t) ELSE list
  /\ attached' = [attached EXCEPT ![t] = FALSE]
  /\ alive' = alive \ {t}

-----------------------------------------------------------------------------
(* Client code: in a callback, or between two passes.                      *)

ClientRuns == restarting = NULL /\ (cursor = NULL \/ stage = "callback")

New(t) ==
  /\ ClientRuns
  /\ Loop!Construct(t)
  /\ \E k \in Kinds : kind' = [kind EXCEPT ![t] = k]
  /\ running' = [running EXCEPT ![t] = FALSE]
  /\ fired' = [fired EXCEPT ![t] = FALSE]
  /\ \E i \in Intervals : interval' = [interval EXCEPT ![t] = i]
  /\ credit' = [credit EXCEPT ![t] = "none"]
  /\ UNCHANGED <<stage, restarting, attached>>

MayStart(t) ==
  /\ ClientRuns
  /\ t \in alive
  /\ "readdLast" \in Liberties \/ t \notin Installed(list) \/ FoundByAdd(list, t)

\* start() sets the ticker up anew: what has elapsed so far does not count.
Rearms(t) == attached[t] /\ interval[t] > 0

Start(t) ==
  /\ MayStart(t) /\ ~Rearms(t)
  /\ StartBody(t)
  /\ UNCHANGED <<cursor, alive, stage, restarting, kind, interval>>

\* start() of a timer that has its ticker attached removes it, ...
Restart(t) ==
  /\ MayStart(t) /\ Rearms(t)
  /\ running' = [running EXCEPT ![t] = TRUE]
  /\ list' = AddDynamicTask(list, t)
  /\ attached' = [attached EXCEPT ![t] = FALSE]
  /\ credit' = [credit EXCEPT ![t] = IF fired[t] THEN "leftover" ELSE "none"]
  /\ restarting' = t
  /\ UNCHANGED <<cursor, alive, stage, kind, fired, interval>>

\* ... and inserts it again, with the whole interval ahead of it.
TickerInserts ==
  /\ restarting # NULL
  /\ running[restarting]
  /\ attached' = [attached EXCEPT ![restarting] = TRUE]
  /\ restarting' = NULL
  /\ UNCHANGED <<list, cursor, alive, stage, kind, running, fired, interval, credit>>

Stop(t) ==
  /\ ClientRuns
  /\ t \in alive
  /\ StopBody(t)
  /\ UNCHANGED <<cursor, alive, stage, restarting, kind, interval, fired, credit>>

\* setInterval of a stopped timer.
SetIntervalStopped(t) ==
  /\ ClientRuns
  /\ t \in alive
  /\ ~running[t]
  /\ \E i \in Intervals : interval' = [interval EXCEPT ![t] = i]
  /\ UNCHANGED <<list, cursor, alive, stage, restarting, kind, running, fired, attached, credit>>

\* setInterval of a running timer stops it, ...
SetIntervalRunning(t) ==
  /\ ClientRuns
  /\ t \in alive
  /\ running[t]
  /\ StopBody(t)
  /\ \E i \in Intervals : interval' = [interval EXCEPT ![t] = i]
  /\ restarting' = t
  /\ UNCHANGED <<cursor, alive, stage, kind, fired, credit>>

\* ... and starts it again.
SetIntervalRestarts ==
  /\ restarting # NULL
  /\ ~running[restarting]
  /\ StartBody(restarting)
  /\ restarting' = NULL
  /\ UNCHANGED <<cursor, alive, stage, kind, interval>>

\* delete by the owner.  A callOnce timer is not deleted from its own
\* callback: it deletes itself right afterwards.
Delete(t) ==
  /\ ClientRuns
  /\ t \in alive
  /\ ~(t = cursor /\ kind[t] = "callOnce")
  /\ "destroyAfterLeaving" \in Liberties \/ t = cursor \/ ~Loop!CursorLeft
  /\ DeleteBody(t)
  /\ UNCHANGED <<cursor, stage, restarting, kind, interval, fired, credit>>

Client == \E t \in Tasks : New(t) \/ Start(t) \/ Restart(t) \/ Stop(t) \/ Delete(t)
                           \/ SetIntervalStopped(t) \/ SetIntervalRunning(t)

-----------------------------------------------------------------------------
(* The run loop and Timer::taskHandler.                                    *)

BeginPass ==
  /\ restarting = NULL
  /\ Loop!BeginPass
  /\ stage' = "called"
  /\ UNCHANGED <<restarting, timerVars>>

\* The test of the flag; a one-shot timer is stopped before anything else.
TaskHandlerFires ==
  /\ stage = "called"
  /\ fired[cursor] /\ running[cursor]
  /\ stage' = "matched"
  /\ IF kind[cursor] # "recurring" THEN StopBody(cursor) ELSE UNCHANGED <<list, running, attached>>
  /\ UNCHANGED <<cursor, alive, restarting, kind, interval, fired, credit>>

TaskHandlerIdle ==
  /\ stage = "called"
  /\ ~(fired[cursor] /\ running[cursor])
  /\ stage' = "returning"
  /\ UNCHANGED <<list, cursor, alive, restarting, timerVars>>

\* Bug: the flag is not lowered.
CallHandler_FlagKept ==
  /\ stage = "matched"
  /\ credit' = [credit EXCEPT ![cursor] = "none"]
  /\ stage' = "callback"
  /\ UNCHANGED <<list, cursor, alive, restarting, kind, running, fired, interval, attached>>

\* interruptDidFire = false, and the callback is called.
CallHandler ==
  /\ stage = "matched"
  /\ fired' = [fired EXCEPT ![cursor] = FALSE]
  /\ credit' = [credit EXCEPT ![cursor] = "none"]
  /\ stage' = "callback"
  /\ UNCHANGED <<list, cursor, alive, restarting, kind, running, interval, attached>>

\* After the callback: delete this, if callOnce has made the timer.
CallbackReturns ==
  /\ stage = "callback"
  /\ restarting = NULL
  /\ stage' = "returning"
  /\ IF kind[cursor] = "callOnce"
       THEN DeleteBody(cursor)
       ELSE UNCHANGED <<list, alive, running, attached>>
  /\ UNCHANGED <<cursor, restarting, kind, interval, fired, credit>>

HandlerReturns ==
  /\ stage = "returning"
  /\ Loop!HandlerReturns
  /\ stage' = IF cursor' = NULL THEN "between" ELSE "called"
  /\ UNCHANGED <<restarting, timerVars>>

\* The ticker's interrupt, at any moment.
HwTimerInterrupt(t) ==
  /\ attached[t]
  /\ fired' = [fired EXCEPT ![t] = TRUE]
  /\ credit' = [credit EXCEPT ![t] = "elapsed"]
  /\ UNCHANGED <<list, cursor, alive, stage, restarting, kind, running, interval, attached>>

Next ==
  \/ BeginPass
  \/ TaskHandlerFires
  \/ TaskHandlerIdle
  \/ CallHandler
  \/ CallbackReturns
  \/ HandlerReturns
  \/ SetIntervalRestarts
  \/ TickerInserts
  \/ Client
  \/ \E t \in Tasks : HwTimerInterrupt(t)

\* The loop never blocks and a ticker that stays attached interrupts, unlike one
\* that is set up anew over and over; client code, which may be in the middle of
\* a setInterval or start() over and over, returns in the end.
Fairness ==
  /\ WF_vars(TaskHandlerFires \/ TaskHandlerIdle)
  /\ WF_vars(CallHandler)
  /\ WF_vars(HandlerReturns)
  /\ WF_vars(SetIntervalRestarts \/ TickerInserts)
  /\ SF_vars(BeginPass)
  /\ SF_vars(CallbackReturns)
  /\ \A t \in Tasks : WF_vars(HwTimerInterrupt(t))

Spec == Init /\ [][Next]_vars
FairSpec == Spec /\ Fairness

-----------------------------------------------------------------------------
(* Properties.                                                             *)

\* A timer is in the run loop exactly as long as it is running, and only a
\* running, living timer has its ticker attached: nothing the loop or the
\* interrupt visits belongs to a stopped or deleted timer.  (With the type
\* invariant.)
RunningIsInstalled ==
  /\ TypeOK
  /\ \A t \in Tasks :
       /\ t \in Installed(list) <=> running[t]
       /\ running[t] => t \in alive
       /\ attached[t] => running[t]

\* Each callback has an interval of its own that elapsed after the timer was
\* last started, unless the timer was started with its flag up.
CallbackIsAccountedFor ==
  [][CallHandler => credit[cursor] # "none"]_vars

CallbackOf(t) == cursor = t /\ stage = "callback"

\* As long as passes end, a running timer with an interval, or a one-shot one,
\* calls its callback, unless it is stopped or started anew: started again before
\* its interval has elapsed, over and over, it never fires.
RunningTimerFires ==
  []<>(cursor = NULL) =>
    \A t \in Tasks :
      (running[t] /\ (interval[t] > 0 \/ kind[t] # "recurring"))
        ~> (CallbackOf(t) \/ ~running[t] \/ restarting = t)

\* Timers are disciplined clients of the run loop.
LoopSpec == Loop!Spec
=============================================================================
