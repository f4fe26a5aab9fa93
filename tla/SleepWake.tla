----------------------------- MODULE SleepWake -----------------------------
(***************************************************************************)
(* Sleep mode: ApplicationContext::enterSleepMode and the loop of          *)
(* MonoPowerManagement::EnterSleep, against the interrupts that end it or  *)
(* interrupt it: the user button (a debounced QueueInterrupt), the RTC and *)
(* the wake-up timer of sleepForMs.  The CPU may be interrupted between    *)
(* any two tests of its loop, and the debounce timer stands still while it *)
(* is halted.                                                              *)
(***************************************************************************)
EXTENDS QueueInterrupt

VARIABLES
  phase,           \* where enterSleepMode is, "awake" if not called
  buttonCallback,  \* the method set with UserButton.fall
  rtcFlag,         \* IRTCSystem::__shouldProcessScheduledTasks
  due,             \* is a task due that may run in sleep mode?
  mcuOn,           \* the MCU's peripherals are powered
  fence,           \* the power fence is on: external peripherals are off
  ctw,             \* the wake-up timer has been started
  taskWoke         \* history: a scheduled task has asked for the wake-up

sleepVars == <<phase, buttonCallback, rtcFlag, due, mcuOn, fence, ctw, taskWoke>>
vars == <<interruptVars, sleepVars>>

\* The loop of EnterSleep: its two tests, the halt, the test after it, and
\* the scheduled tasks it runs.
LoopPhases == {"test", "testBusy", "ready", "halted", "woken", "task"}

SleepTypeOK ==
  /\ TypeOK
  /\ phase \in LoopPhases \cup {"awake", "preparing", "leaving"}
  /\ buttonCallback \in {"enterSleepMode", "buttonWakeup"}
  /\ {rtcFlag, due, mcuOn, fence, ctw, taskWoke} \subseteq BOOLEAN

\* After ApplicationContext's constructor: the button is released.
SleepInit ==
  /\ pin = TRUE
  /\ latched = {}
  /\ attached = {"fall"}
  /\ armed = None
  /\ event = None
  /\ isHandled = TRUE
  /\ settings = [debounce |-> TRUE, wakeFromSleep |-> TRUE, deactivate |-> FALSE]
  /\ handler = "out"
  /\ busySleep = FALSE
  /\ shouldWakeUp = FALSE
  /\ owed = None
  /\ phase = "awake"
  /\ buttonCallback = "enterSleepMode"
  /\ rtcFlag = FALSE
  /\ due = FALSE
  /\ mcuOn = TRUE
  /\ fence = FALSE
  /\ ctw = FALSE
  /\ taskWoke = FALSE

-----------------------------------------------------------------------------
(* Interrupts.                                                             *)

\* Each interrupt lets a halted CPU go on.
Resume == phase' = IF phase = "halted" THEN "woken" ELSE phase

ButtonMoves == PinChanges /\ UNCHANGED sleepVars

ButtonInterrupt ==
  /\ PinInterrupt
  /\ Resume
  /\ UNCHANGED <<buttonCallback, rtcFlag, due, mcuOn, fence, ctw, taskWoke>>

\* The microsecond ticker stands still while the CPU is halted.
ButtonTimeout ==
  /\ phase # "halted"
  /\ \E e \in Edges : DebounceTimeout(e)
  /\ UNCHANGED sleepVars

RtcInterrupt ==
  /\ rtcFlag' = TRUE
  /\ due' \in {due, TRUE}
  /\ Resume
  /\ UNCHANGED <<interruptVars, buttonCallback, mcuOn, fence, ctw, taskWoke>>

\* No handler goes with the wake-up timer's interrupt.
CtwInterrupt ==
  /\ ctw
  /\ Resume
  /\ UNCHANGED <<interruptVars, buttonCallback, rtcFlag, due, mcuOn, fence, ctw, taskWoke>>

-----------------------------------------------------------------------------
(* The run loop.                                                           *)

\* enterSleepMode, up to the code of the application and of the peripherals
\* that prepares for sleep.
EnterSleepMode ==
  /\ phase' = "preparing"
  /\ buttonCallback' = "buttonWakeup"

\* Bug: buttonWakeup does not make enterSleepMode the callback again.
ButtonHandler_NotSwapped ==
  /\ phase = "awake"
  /\ TestRise \/ TestFall
  /\ IF handler' = "fall" /\ buttonCallback = "enterSleepMode" THEN EnterSleepMode
     ELSE UNCHANGED <<phase, buttonCallback>>
  /\ UNCHANGED <<taskWoke, rtcFlag, due, mcuOn, fence, ctw>>

\* taskHandler of the button; its callback is enterSleepMode or buttonWakeup,
\* which makes enterSleepMode the callback again.
ButtonHandler ==
  /\ phase = "awake"
  /\ TestRise \/ TestFall
  /\ IF handler' # "fall" THEN UNCHANGED <<phase, buttonCallback, taskWoke>>
     ELSE IF buttonCallback = "enterSleepMode" THEN EnterSleepMode /\ UNCHANGED taskWoke
     ELSE buttonCallback' = "enterSleepMode" /\ taskWoke' = FALSE /\ UNCHANGED phase
  /\ UNCHANGED <<rtcFlag, due, mcuOn, fence, ctw>>

ButtonHandlerReturns ==
  /\ phase = "awake"
  /\ CallbackReturns
  /\ UNCHANGED sleepVars

\* processScheduledTasks in the run loop.
ProcessTasks ==
  /\ phase = "awake"
  /\ handler = "out"
  /\ rtcFlag
  /\ rtcFlag' = FALSE
  /\ due' = FALSE
  /\ UNCHANGED <<interruptVars, phase, buttonCallback, mcuOn, fence, ctw, taskWoke>>

\* Other code enters sleep mode, for good or for some time (sleepForMs).
OthersEnterSleep ==
  /\ phase = "awake"
  /\ handler = "out"
  /\ EnterSleepMode
  /\ ctw' \in {ctw, TRUE}
  /\ UNCHANGED <<interruptVars, rtcFlag, due, mcuOn, fence, taskWoke>>

-----------------------------------------------------------------------------
(* EnterSleep.                                                             *)

\* The power goes off and __shouldWakeUp is lowered.
GoDown ==
  /\ phase = "preparing"
  /\ fence' = TRUE
  /\ mcuOn' = FALSE
  /\ shouldWakeUp' = FALSE
  /\ phase' = "test"
  /\ UNCHANGED <<pin, latched, attached, armed, event, isHandled, settings, handler, busySleep,
                 owed, buttonCallback, rtcFlag, due, ctw, taskWoke>>

\* while(__shouldWakeUp == false); after the loop the power comes back.
TestWakeUp ==
  /\ phase = "test"
  /\ phase' = IF shouldWakeUp THEN "leaving" ELSE "testBusy"
  /\ mcuOn' = (mcuOn \/ shouldWakeUp)
  /\ fence' = (fence /\ ~shouldWakeUp)
  /\ UNCHANGED <<interruptVars, buttonCallback, rtcFlag, due, ctw, taskWoke>>

\* Bug: the CPU is halted while a debounce timer runs.
TestBusy_Ignored ==
  /\ phase = "testBusy"
  /\ phase' = "ready"
  /\ UNCHANGED <<interruptVars, buttonCallback, rtcFlag, due, mcuOn, fence, ctw, taskWoke>>

\* if (!__busySleep).
TestBusy ==
  /\ phase = "testBusy"
  /\ phase' = IF busySleep THEN "woken" ELSE "ready"
  /\ UNCHANGED <<interruptVars, buttonCallback, rtcFlag, due, mcuOn, fence, ctw, taskWoke>>

\* CyPmSleep halts the CPU.
Halt ==
  /\ phase = "ready"
  /\ phase' = "halted"
  /\ UNCHANGED <<interruptVars, buttonCallback, rtcFlag, due, mcuOn, fence, ctw, taskWoke>>

\* The test after CyPmSleep, and the start of processScheduledTasks(true).
TestTasks ==
  /\ phase = "woken"
  /\ IF ~shouldWakeUp /\ rtcFlag /\ due
       THEN phase' = "task" /\ mcuOn' = TRUE /\ rtcFlag' = FALSE /\ due' = FALSE
       ELSE phase' = "test" /\ UNCHANGED <<mcuOn, rtcFlag, due>>
  /\ UNCHANGED <<interruptVars, buttonCallback, fence, ctw, taskWoke>>

\* A scheduled task raises __shouldWakeUp.
TaskWakes ==
  /\ phase = "task"
  /\ shouldWakeUp' = TRUE
  /\ taskWoke' = TRUE
  /\ UNCHANGED <<pin, latched, attached, armed, event, isHandled, settings, handler, busySleep,
                 owed, phase, buttonCallback, rtcFlag, due, mcuOn, fence, ctw>>

\* Bug: the MCU's peripherals stay on after a task.
TaskReturns_StaysUp ==
  /\ phase = "task"
  /\ phase' = "test"
  /\ UNCHANGED <<interruptVars, buttonCallback, rtcFlag, due, mcuOn, fence, ctw, taskWoke>>

TaskReturns ==
  /\ phase = "task"
  /\ phase' = "test"
  /\ mcuOn' = FALSE
  /\ UNCHANGED <<interruptVars, buttonCallback, rtcFlag, due, fence, ctw, taskWoke>>

\* The application and the peripherals have been told of the wake-up.
Leave ==
  /\ phase = "leaving"
  /\ phase' = "awake"
  /\ UNCHANGED <<interruptVars, buttonCallback, rtcFlag, due, mcuOn, fence, ctw, taskWoke>>

SleepStep ==
  \/ GoDown \/ TestWakeUp \/ TestBusy \/ Halt \/ TestTasks \/ TaskReturns \/ Leave

LoopStep == ButtonHandler \/ ButtonHandlerReturns

SleepNext ==
  \/ ButtonMoves \/ ButtonInterrupt \/ ButtonTimeout \/ RtcInterrupt \/ CtwInterrupt
  \/ LoopStep \/ ProcessTasks \/ OthersEnterSleep
  \/ SleepStep \/ TaskWakes

\* The main context goes on unless it is halted, the RTC ticks, interrupts
\* are served and timers that run run out.  Nobody has to press the button.
SleepFairness ==
  /\ WF_vars(SleepStep)
  /\ WF_vars(LoopStep)
  /\ WF_vars(ButtonInterrupt)
  /\ WF_vars(ButtonTimeout)
  /\ WF_vars(RtcInterrupt)
  /\ WF_vars(CtwInterrupt)

SleepSpec == SleepInit /\ [][SleepNext]_vars /\ SleepFairness

-----------------------------------------------------------------------------
(* Properties.                                                             *)

\* While the CPU is halted all peripherals are off, a scheduled task has
\* those of the MCU ("the auxillary power is not enabled"), and after the
\* wake-up everything is on, however sleep mode was interrupted and left.
\* (With the type invariant.)
PowerMatchesPhase ==
  /\ SleepTypeOK
  /\ phase = "halted" => ~mcuOn /\ fence
  /\ phase = "task" => mcuOn /\ fence
  /\ phase \in {"awake", "leaving"} => mcuOn /\ ~fence

\* The button toggles sleep mode: after the wake-up, the press that caused it
\* makes it a button to enter sleep mode again.  A wake-up caused by a
\* scheduled task does not.
ButtonReady ==
  phase = "awake" /\ buttonCallback = "buttonWakeup" => event["fall"] \/ taskWoke

\* A press of the button wakes the system if it is held long enough.
PressWakes ==
  [](phase \in LoopPhases /\ armed["fall"] /\ []~pin => <>(phase = "awake"))

\* sleepForMs is "Enter MCU sleep mode for a short time only".
TimedSleepEnds == ctw /\ phase \in LoopPhases ~> phase = "awake"
=============================================================================
