--------------------------- MODULE SleepWake_proofs ---------------------------
(***************************************************************************)
(* Proofs about queued interrupts and sleep mode.  Accepted edges do not   *)
(* overtake their callback, and the CPU is kept from halting exactly as    *)
(* long as a debounce timer that may wake it is running; in sleep mode the *)
(* power matches what the CPU is doing, and the user button is left with   *)
(* the callback its next press needs.                                      *)
(***************************************************************************)
EXTENDS SleepWake, TLAPS

-----------------------------------------------------------------------------
(* A queued interrupt.  Clients change settings and callbacks only while   *)
(* no edge is under way.                                                   *)

\* All edges under way are of the kind the pin interrupt is reported with.
\* (With both edges attached, a fall.)
OneKind == \A e \in Edges : armed[e] \/ event[e] \/ handler = e => e = Reported

\* Between an accepted edge and the end of its callback, interrupts are off
\* and no timer runs; the callback has begun or is due, but not both.
Deactivated ==
  settings.deactivate =>
    \A e \in Edges :
      /\ event[e] => ~isHandled /\ ~armed[e] /\ handler # e
      /\ handler = e => ~isHandled /\ ~armed[e]

\* The CPU is kept awake for a timer, and only if it may wake the CPU.
KeptAwake ==
  /\ \A e \in Edges : settings.wakeFromSleep /\ armed[e] => busySleep
  /\ busySleep => settings.wakeFromSleep /\ \E e \in Edges : armed[e]

\* Timers run only with debouncing on.
Debounced == \A e \in Edges : armed[e] => settings.debounce

\* The inductive invariant.
InterruptInv == TypeOK /\ OneKind /\ Deactivated /\ KeptAwake /\ Debounced

\* The inductive invariant implies the properties that the runs check.
LEMMA InterruptInvImplies ==
  InterruptInv => QuietWhileHandling /\ DebounceKeepsAwake /\ SleepAllowedAgain
BY DEF InterruptInv, Deactivated, KeptAwake, QuietWhileHandling, DebounceKeepsAwake,
       SleepAllowedAgain

\* A fresh QueueInterrupt satisfies the inductive invariant.
LEMMA InterruptInitInv == Init => InterruptInv
<1> SUFFICES ASSUME Init PROVE InterruptInv
  OBVIOUS
<1>1. \A e \in Edges : ~armed[e] /\ ~event[e] /\ handler # e
  BY DEF Init, None, Edges
<1>2. TypeOK
  BY DEF Init, TypeOK, None, Settings
<1>3. OneKind /\ Deactivated /\ KeptAwake /\ Debounced
  BY <1>1 DEF Init, OneKind, Deactivated, KeptAwake, Debounced
<1>4. QED
  BY <1>2, <1>3 DEF InterruptInv

\* The pin may change at any time.
LEMMA PinChangesInv == InterruptInv /\ PinChanges => InterruptInv'
<1> SUFFICES ASSUME InterruptInv, PinChanges PROVE InterruptInv'
  OBVIOUS
<1> USE DEF InterruptInv, PinChanges
<1>1. TypeOK'
  BY DEF TypeOK, EdgeTo, Edges
<1>2. (OneKind /\ Deactivated /\ KeptAwake /\ Debounced)'
  BY DEF OneKind, Deactivated, KeptAwake, Debounced, Reported
<1>3. QED
  BY <1>1, <1>2

\* An interrupt arms a timer or notes an edge only if none is being handled.
LEMMA PinInterruptInv == InterruptInv /\ PinInterrupt => InterruptInv'
<1> SUFFICES ASSUME InterruptInv, PinInterrupt PROVE InterruptInv'
  OBVIOUS
<1> USE DEF InterruptInv, PinInterrupt
<1>1. Reported \in Edges /\ Reported' = Reported
  BY DEF Reported, Edges
<1>2. TypeOK'
  BY <1>1 DEF TypeOK, NoteEvent
<1>3. OneKind'
  BY <1>1 DEF TypeOK, OneKind, NoteEvent
<1>4. Deactivated'
  <2> SUFFICES ASSUME settings.deactivate, NEW e \in Edges
               PROVE  /\ event'[e] => ~isHandled' /\ ~armed'[e] /\ handler # e
                      /\ handler = e => ~isHandled' /\ ~armed'[e]
    BY DEF Deactivated
  <2>1. CASE Ignored
    BY <2>1 DEF Deactivated
  <2>2. CASE ~Ignored
    <3>1. isHandled /\ \A k \in Edges : ~event[k] /\ handler # k
      BY <2>2 DEF Ignored, Deactivated
    <3>2. CASE settings.debounce
      BY <2>2, <3>1, <3>2
    <3>3. CASE ~settings.debounce
      <4>1. armed' = armed /\ ~isHandled'
        BY <2>2, <3>3 DEF NoteEvent
      <4>2. ~armed'[e]
        BY <4>1, <3>3 DEF Debounced
      <4>3. QED
        BY <3>1, <4>1, <4>2
    <3>4. QED
      BY <3>2, <3>3
  <2>3. QED
    BY <2>1, <2>2
<1>5. KeptAwake'
  <2>1. CASE ~Ignored /\ settings.debounce
    <3>1. armed' = [armed EXCEPT ![Reported] = TRUE] /\ busySleep' = (busySleep \/ settings.wakeFromSleep)
      BY <2>1
    <3>2. armed'[Reported] /\ \A k \in Edges : armed[k] => armed'[k]
      BY <3>1, <1>1 DEF TypeOK
    <3>3. QED
      BY <3>1, <3>2, <1>1 DEF KeptAwake, TypeOK
  <2>2. CASE ~(~Ignored /\ settings.debounce)
    BY <2>2 DEF KeptAwake, NoteEvent
  <2>3. QED
    BY <2>1, <2>2
<1>6. Debounced'
  BY DEF TypeOK, Debounced, NoteEvent
<1>7. QED
  BY <1>2, <1>3, <1>4, <1>5, <1>6

\* The timer that runs out was the only one, so the CPU may halt again.
LEMMA DebounceTimeoutInv ==
  ASSUME NEW e \in Edges, InterruptInv, DebounceTimeout(e) PROVE InterruptInv'
<1> USE DEF InterruptInv, DebounceTimeout
<1>1. Reported' = Reported /\ e = Reported /\ armed[e]
  BY DEF Reported, OneKind
<1>2. TypeOK'
  BY DEF TypeOK, NoteEvent
<1>3. OneKind'
  BY <1>1 DEF TypeOK, OneKind, NoteEvent
<1>4. Deactivated'
  BY <1>1 DEF TypeOK, OneKind, Deactivated, NoteEvent
<1>5. KeptAwake'
  BY <1>1 DEF TypeOK, OneKind, KeptAwake
<1>6. Debounced'
  BY DEF TypeOK, Debounced, NoteEvent
<1>7. QED
  BY <1>2, <1>3, <1>4, <1>5, <1>6

\* taskHandler takes an edge that was noted, and no other is under way.
LEMMA TestInv == InterruptInv /\ (TestRise \/ TestFall) => InterruptInv'
<1> SUFFICES ASSUME InterruptInv, TestRise \/ TestFall PROVE InterruptInv'
  OBVIOUS
<1> USE DEF InterruptInv, TestRise, TestFall, Call
<1>1. Reported' = Reported
  BY DEF Reported
<1>2. TypeOK'
  <2>1. event' \in [Edges -> BOOLEAN] /\ owed' \in [Edges -> BOOLEAN]
    BY DEF TypeOK
  <2>2. handler' \in Edges \cup {"out", "between"}
    BY DEF Edges
  <2>3. QED
    BY <2>1, <2>2 DEF TypeOK
<1>3. OneKind'
  BY <1>1 DEF TypeOK, OneKind, Edges
<1>4. Deactivated'
  BY <1>1 DEF TypeOK, OneKind, Deactivated, Edges
<1>5. KeptAwake'
  BY DEF KeptAwake
<1>6. Debounced'
  BY DEF TypeOK, Debounced, NoteEvent
<1>7. QED
  BY <1>2, <1>3, <1>4, <1>5, <1>6

\* When the callback ends no edge is under way in deactivated mode.
LEMMA CallbackReturnsInv == InterruptInv /\ CallbackReturns => InterruptInv'
<1> SUFFICES ASSUME InterruptInv, CallbackReturns PROVE InterruptInv'
  OBVIOUS
<1> USE DEF InterruptInv, CallbackReturns
<1>1. Reported' = Reported
  BY DEF Reported
<1>2. TypeOK'
  BY DEF TypeOK
<1>3. OneKind'
  BY <1>1 DEF OneKind, Edges
<1>4. Deactivated'
  BY <1>1 DEF TypeOK, OneKind, Deactivated, Edges
<1>5. KeptAwake'
  BY DEF KeptAwake
<1>6. Debounced'
  BY DEF TypeOK, Debounced, NoteEvent
<1>7. QED
  BY <1>2, <1>3, <1>4, <1>5, <1>6

\* While an input is idle its settings may change, and it may be replaced.
LEMMA InterruptClientInv ==
  ASSUME Reconfigure = FALSE, InterruptInv, InterruptClient PROVE InterruptInv'
<1> USE DEF InterruptInv
<1>1. MayConfigure => Idle
  BY DEF MayConfigure
<1>2. Idle => ~busySleep
  BY DEF Idle, None, KeptAwake
<1>3. ASSUME NEW b \in BOOLEAN, NEW w \in BOOLEAN, Configure(b, w) PROVE InterruptInv'
  <2> USE <1>3 DEF Configure
  <2>1. TypeOK'
    BY DEF TypeOK, Settings
  <2>2. (OneKind /\ Deactivated /\ KeptAwake /\ Debounced)'
    BY <1>1, <1>2 DEF Idle, None, OneKind, Deactivated, KeptAwake, Debounced, Edges, Reported
  <2>3. QED
    BY <2>1, <2>2
<1>4. ASSUME NEW d \in BOOLEAN, DeactivateUntilHandled(d) PROVE InterruptInv'
  <2> USE <1>4 DEF DeactivateUntilHandled
  <2>1. TypeOK'
    BY DEF TypeOK, Settings
  <2>2. (OneKind /\ Deactivated /\ KeptAwake /\ Debounced)'
    BY <1>1, <1>2 DEF Idle, None, OneKind, Deactivated, KeptAwake, Debounced, Edges, Reported
  <2>3. QED
    BY <2>1, <2>2
<1>5. ASSUME NEW S \in EdgeSets, Attach(S) PROVE InterruptInv'
  <2> USE <1>5 DEF Attach
  <2>1. TypeOK'
    BY SettingsAssumption DEF TypeOK
  <2>2. (OneKind /\ Deactivated /\ KeptAwake /\ Debounced)'
    BY <1>1, <1>2 DEF Idle, None, OneKind, Deactivated, KeptAwake, Debounced, Edges
  <2>3. QED
    BY <2>1, <2>2
<1>6. ASSUME Replace PROVE InterruptInv'
  <2> USE <1>6 DEF Replace
  <2>1. TypeOK'
    BY DEF TypeOK, Settings, None
  <2>2. (OneKind /\ Deactivated /\ KeptAwake /\ Debounced)'
    BY <1>1, <1>2 DEF None, OneKind, Deactivated, KeptAwake, Debounced, Edges
  <2>3. QED
    BY <2>1, <2>2
<1>7. QED
  BY <1>3, <1>4, <1>5, <1>6 DEF InterruptClient

\* The inductive invariant holds of an input whose settings and callbacks
\* change only while no edge is noted, debounced or handled, as the framework
\* itself uses the class.
THEOREM InterruptInvHolds == ASSUME Reconfigure = FALSE PROVE InterruptSpec => []InterruptInv
<1>1. Init => InterruptInv
  BY InterruptInitInv
<1>2. InterruptInv /\ [InterruptNext]_interruptVars => InterruptInv'
  <2> SUFFICES ASSUME InterruptInv, [InterruptNext]_interruptVars PROVE InterruptInv'
    OBVIOUS
  <2>1. CASE PinChanges
    BY <2>1, PinChangesInv
  <2>2. CASE PinInterrupt
    BY <2>2, PinInterruptInv
  <2>3. CASE \E e \in Edges : DebounceTimeout(e)
    BY <2>3, DebounceTimeoutInv
  <2>4. CASE TestRise \/ TestFall
    BY <2>4, TestInv
  <2>5. CASE CallbackReturns
    BY <2>5, CallbackReturnsInv
  <2>6. CASE InterruptClient
    BY <2>6, InterruptClientInv
  <2>7. CASE UNCHANGED interruptVars
    BY <2>7 DEF interruptVars, InterruptInv, TypeOK, OneKind, Deactivated, KeptAwake, Debounced,
                Reported
  <2>8. QED
    BY <2>1, <2>2, <2>3, <2>4, <2>5, <2>6, <2>7 DEF InterruptNext
<1>3. QED
  BY <1>1, <1>2, PTL DEF InterruptSpec

\* "turn off incoming interrupts while waiting for the run loop to finish
\* process a pending interrupt" (DeactivateUntilHandled): while a callback
\* runs, no further edge of its kind is noted or debounced.
THEOREM Quiet == ASSUME Reconfigure = FALSE PROVE InterruptSpec => []QuietWhileHandling
BY InterruptInvHolds, InterruptInvImplies, PTL

\* The CPU is not halted while a debounce timer of an input that may wake it
\* is running: the timer would stand still.
THEOREM KeepsAwake == ASSUME Reconfigure = FALSE PROVE InterruptSpec => []DebounceKeepsAwake
BY InterruptInvHolds, InterruptInvImplies, PTL

\* Once no debounce timer runs, the CPU may halt again.
THEOREM MaySleepAgain == ASSUME Reconfigure = FALSE PROVE InterruptSpec => []SleepAllowedAgain
BY InterruptInvHolds, InterruptInvImplies, PTL

-----------------------------------------------------------------------------
(* Sleep mode.                                                             *)

\* The user button is a debounced input for one edge that wakes the CPU, and
\* nobody changes that.
Button ==
  /\ attached = {"fall"}
  /\ settings = [debounce |-> TRUE, wakeFromSleep |-> TRUE, deactivate |-> FALSE]

\* The peripherals are off from the end of the preparation to the wake-up,
\* those of the MCU except for a scheduled task.
Power ==
  /\ phase \in LoopPhases \ {"task"} => ~mcuOn /\ fence
  /\ phase = "task" => mcuOn /\ fence
  /\ phase \in {"awake", "preparing", "leaving"} => mcuOn /\ ~fence

\* In the loop, only the button (whose event stays noted) and tasks have
\* raised __shouldWakeUp; the loop is left, and the callback of the button
\* stays buttonWakeup, with one of the two.
WakeUpReason ==
  /\ phase \in LoopPhases /\ shouldWakeUp => event["fall"] \/ taskWoke
  /\ phase \in {"awake", "leaving"} /\ buttonCallback = "buttonWakeup"
       => event["fall"] \/ taskWoke

\* The inductive invariant.
SleepInv == SleepTypeOK /\ InterruptInv /\ Button /\ Power /\ WakeUpReason

\* The inductive invariant implies the properties that the run checks.
LEMMA SleepInvImplies == SleepInv => PowerMatchesPhase /\ ButtonReady
BY DEF SleepInv, Power, WakeUpReason, PowerMatchesPhase, ButtonReady, LoopPhases

\* After ApplicationContext's constructor the inductive invariant holds.
LEMMA SleepInitInv == SleepInit => SleepInv
<1> SUFFICES ASSUME SleepInit PROVE SleepInv
  OBVIOUS
<1>1. \A e \in Edges : ~armed[e] /\ ~event[e] /\ handler # e
  BY DEF SleepInit, None, Edges
<1>2. TypeOK
  BY DEF SleepInit, TypeOK, None, Settings, Edges
<1>3. OneKind /\ Deactivated /\ KeptAwake /\ Debounced
  BY <1>1 DEF SleepInit, OneKind, Deactivated, KeptAwake, Debounced
<1>4. SleepTypeOK
  BY <1>2 DEF SleepInit, SleepTypeOK
<1>5. Button /\ Power /\ WakeUpReason
  BY DEF SleepInit, Button, Power, WakeUpReason, LoopPhases
<1>6. QED
  BY <1>2, <1>3, <1>4, <1>5 DEF SleepInv, InterruptInv

\* What the invariant says of the button: only falls are noted or debounced.
LEMMA OnlyFalls == SleepInv => ~event["rise"] /\ ~armed["rise"] /\ handler # "rise"
BY DEF SleepInv, InterruptInv, OneKind, Button, Reported, Edges

\* The interrupt of the button starts the debounce timer and notes nothing.
LEMMA ButtonInterruptInv == SleepInv /\ ButtonInterrupt => SleepInv'
<1> SUFFICES ASSUME SleepInv, ButtonInterrupt PROVE SleepInv'
  OBVIOUS
<1> USE DEF SleepInv, ButtonInterrupt, Resume
<1>1. InterruptInv'
  BY PinInterruptInv
<1>2. UNCHANGED <<event, shouldWakeUp, attached, settings>>
  BY DEF Button, PinInterrupt
<1>3. SleepTypeOK'
  BY <1>1 DEF SleepTypeOK, InterruptInv, LoopPhases
<1>4. (Button /\ Power /\ WakeUpReason)'
  BY <1>2 DEF Button, Power, WakeUpReason, LoopPhases
<1>5. QED
  BY <1>1, <1>3, <1>4

\* The timer of the button notes a fall, or nothing.
LEMMA ButtonTimeoutInv == SleepInv /\ ButtonTimeout => SleepInv'
<1> SUFFICES ASSUME SleepInv, NEW e \in Edges, DebounceTimeout(e), UNCHANGED sleepVars
             PROVE  SleepInv'
  BY DEF ButtonTimeout
<1> USE DEF SleepInv, sleepVars
<1>1. InterruptInv'
  BY DebounceTimeoutInv
<1>2. e = "fall" /\ UNCHANGED <<attached, settings>>
  BY OnlyFalls DEF DebounceTimeout, Edges
<1>3. SleepTypeOK'
  BY <1>1 DEF SleepTypeOK, InterruptInv
<1>4. \/ UNCHANGED <<event, shouldWakeUp>>
      \/ event'["fall"]
  BY <1>2 DEF DebounceTimeout, NoteEvent, InterruptInv, TypeOK, Edges
<1>5. (Button /\ Power /\ WakeUpReason)'
  BY <1>2, <1>4 DEF Button, Power, WakeUpReason
<1>6. QED
  BY <1>1, <1>3, <1>5

\* The press that woke the CPU is handled by buttonWakeup, which gives the
\* button its first callback back.
LEMMA ButtonHandlerInv == SleepInv /\ ButtonHandler => SleepInv'
<1> SUFFICES ASSUME SleepInv, ButtonHandler PROVE SleepInv'
  OBVIOUS
<1> USE DEF SleepInv
<1>1. InterruptInv'
  BY TestInv DEF ButtonHandler
<1>2. UNCHANGED <<attached, settings, shouldWakeUp, mcuOn, fence, rtcFlag, due, ctw>>
  BY DEF ButtonHandler, TestRise, TestFall
<1>3. SleepTypeOK'
  BY <1>1, <1>2 DEF SleepTypeOK, InterruptInv, ButtonHandler, EnterSleepMode
<1>4. handler' # "fall" => UNCHANGED event
  BY OnlyFalls DEF ButtonHandler, TestRise, TestFall, Call
<1>5. (Button /\ Power)'
  BY <1>2 DEF Button, Power, ButtonHandler, EnterSleepMode, LoopPhases
<1>6. WakeUpReason'
  BY <1>2, <1>4 DEF WakeUpReason, ButtonHandler, EnterSleepMode, LoopPhases
<1>7. QED
  BY <1>1, <1>3, <1>5, <1>6

\* Pin changes and the end of a callback leave flags and events alone.
LEMMA ButtonMovesInv == SleepInv /\ (ButtonMoves \/ ButtonHandlerReturns) => SleepInv'
<1> SUFFICES ASSUME SleepInv, ButtonMoves \/ ButtonHandlerReturns PROVE SleepInv'
  OBVIOUS
<1> USE DEF SleepInv, ButtonMoves, ButtonHandlerReturns, sleepVars
<1>1. InterruptInv'
  BY PinChangesInv, CallbackReturnsInv
<1>2. UNCHANGED <<attached, settings, shouldWakeUp, event>>
  BY DEF PinChanges, CallbackReturns
<1>3. SleepTypeOK'
  BY <1>1 DEF SleepTypeOK, InterruptInv
<1>4. (Button /\ Power /\ WakeUpReason)'
  BY <1>2 DEF Button, Power, WakeUpReason
<1>5. QED
  BY <1>1, <1>3, <1>4

\* The steps of the sleep loop, of the RTC and of other code in which the
\* state of the button does not change, apart from __shouldWakeUp.
LEMMA LoopInv ==
  ASSUME SleepInv,
         \/ RtcInterrupt \/ CtwInterrupt \/ ProcessTasks \/ OthersEnterSleep
         \/ SleepStep \/ TaskWakes
  PROVE  SleepInv'
<1> USE DEF SleepInv
<1> DEFINE Input == <<pin, latched, attached, armed, event, isHandled, settings, handler,
                      busySleep, owed>>
<1>1. UNCHANGED Input /\ shouldWakeUp' \in BOOLEAN
  BY DEF RtcInterrupt, CtwInterrupt, ProcessTasks, OthersEnterSleep, SleepStep, TaskWakes,
         GoDown, TestWakeUp, TestBusy, Halt, TestTasks, TaskReturns, Leave, interruptVars,
         InterruptInv, TypeOK
<1>2. InterruptInv' /\ Button'
  BY <1>1 DEF InterruptInv, TypeOK, OneKind, Deactivated, KeptAwake, Debounced, Reported,
              Button
<1>3. CASE RtcInterrupt
  BY <1>1, <1>2, <1>3 DEF RtcInterrupt, Resume, interruptVars, SleepTypeOK, InterruptInv,
                          Power, WakeUpReason, LoopPhases
<1>4. CASE CtwInterrupt
  BY <1>1, <1>2, <1>4 DEF CtwInterrupt, Resume, interruptVars, SleepTypeOK, InterruptInv,
                          Power, WakeUpReason, LoopPhases
<1>5. CASE ProcessTasks
  BY <1>1, <1>2, <1>5 DEF ProcessTasks, interruptVars, SleepTypeOK, InterruptInv,
                          Power, WakeUpReason, LoopPhases
<1>6. CASE OthersEnterSleep
  BY <1>1, <1>2, <1>6 DEF OthersEnterSleep, EnterSleepMode, interruptVars, SleepTypeOK,
                          InterruptInv, Power, WakeUpReason, LoopPhases
<1>7. CASE GoDown
  BY <1>1, <1>2, <1>7 DEF GoDown, SleepTypeOK, InterruptInv, Power, WakeUpReason, LoopPhases
<1>8. CASE TestWakeUp
  BY <1>1, <1>2, <1>8 DEF TestWakeUp, interruptVars, SleepTypeOK, InterruptInv, TypeOK, Power,
                          WakeUpReason, LoopPhases
<1>9. CASE TestBusy \/ Halt \/ Leave
  BY <1>1, <1>2, <1>9 DEF TestBusy, Halt, Leave, interruptVars, SleepTypeOK, InterruptInv,
                          Power, WakeUpReason, LoopPhases
<1>10. CASE TestTasks
  BY <1>1, <1>2, <1>10 DEF TestTasks, interruptVars, SleepTypeOK, InterruptInv,
                           Power, WakeUpReason, LoopPhases
<1>11. CASE TaskReturns \/ TaskWakes
  BY <1>1, <1>2, <1>11 DEF TaskReturns, TaskWakes, interruptVars, SleepTypeOK, InterruptInv,
                           Power, WakeUpReason, LoopPhases
<1>12. QED
  BY <1>3, <1>4, <1>5, <1>6, <1>7, <1>8, <1>9, <1>10, <1>11 DEF SleepStep

\* The inductive invariant holds wherever interrupts come between two steps
\* of the sleep loop.
THEOREM SleepInvHolds == SleepSpec => []SleepInv
<1>1. SleepInit => SleepInv
  BY SleepInitInv
<1>2. SleepInv /\ [SleepNext]_vars => SleepInv'
  <2> SUFFICES ASSUME SleepInv, [SleepNext]_vars PROVE SleepInv'
    OBVIOUS
  <2>1. CASE ButtonMoves \/ ButtonHandlerReturns
    BY <2>1, ButtonMovesInv
  <2>2. CASE ButtonInterrupt
    BY <2>2, ButtonInterruptInv
  <2>3. CASE ButtonTimeout
    BY <2>3, ButtonTimeoutInv
  <2>4. CASE ButtonHandler
    BY <2>4, ButtonHandlerInv
  <2>5. CASE \/ RtcInterrupt \/ CtwInterrupt \/ ProcessTasks \/ OthersEnterSleep
             \/ SleepStep \/ TaskWakes
    BY <2>5, LoopInv
  <2>6. CASE UNCHANGED vars
    BY <2>6 DEF vars, interruptVars, sleepVars, SleepInv, SleepTypeOK, InterruptInv, TypeOK,
                OneKind, Deactivated, KeptAwake, Debounced, Reported, Button, Power, WakeUpReason
  <2>7. QED
    BY <2>1, <2>2, <2>3, <2>4, <2>5, <2>6 DEF SleepNext, LoopStep
<1>3. QED
  BY <1>1, <1>2, PTL DEF SleepSpec

\* While the CPU is halted all peripherals are off, a scheduled task has those
\* of the MCU, and after the wake-up everything is on: setupMCUPeripherals,
\* powerDownMCUPeripherals and the power fence are paired on every way through
\* EnterSleep.  (The sleep loop's type correctness is part of it.)
THEOREM PowerIsRight == SleepSpec => []PowerMatchesPhase
BY SleepInvHolds, SleepInvImplies, PTL

\* After a wake-up by the button, enterSleepMode is its callback again, or the
\* press that will make it so is still to be handled.
THEOREM ButtonIsReady == SleepSpec => []ButtonReady
BY SleepInvHolds, SleepInvImplies, PTL
=============================================================================
