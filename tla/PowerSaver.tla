------------------------------ MODULE PowerSaver ------------------------------
(***************************************************************************)
(* mono::PowerSaver on the run loop: it dims the display and enters sleep  *)
(* mode when nobody touches the screen.  Brightness changes one level at a *)
(* time in chains of async() calls, each a callOnce timer that starts the  *)
(* next; a chain has no identity and ends when its direction is no longer  *)
(* wanted.  The tasks are the saver's two timers, the timers of async(),   *)
(* and the user button's handler, which is in the run loop for good.       *)
(***************************************************************************)
EXTENDS TaskList

CONSTANTS
  button, dimTimer, sleepTimer,
  Asyncs,       \* bound: memory blocks for the timers of async()
  Calls,        \* the public methods that the application calls
  dimBright, fullBright

ASSUME SaverAssumption ==
  /\ Tasks = {button, dimTimer, sleepTimer} \cup Asyncs
  /\ Cardinality(Tasks) = 3 + Cardinality(Asyncs)
  /\ Calls \subseteq {"startDimTimer", "startSleepTimer", "dim", "undim", "deactivate"}
  /\ dimBright \in Nat /\ fullBright \in Nat /\ dimBright < fullBright

VARIABLES
  list, cursor,  \* the run loop
  running,       \* the timers that run
  method,        \* what the timer of an async() call calls
  enabled, stepDir,
  brightness,    \* the display controller's
  slept          \* history: sleep mode was entered since the last input

vars == <<list, cursor, running, method, enabled, stepDir, brightness, slept>>

Steps == {"dimStep", "sleepStep", "undimStep"}

TypeOK ==
  /\ list \in Lists /\ cursor \in Pointer
  /\ running \subseteq Tasks
  /\ method \in [Asyncs -> Steps]
  /\ enabled \in BOOLEAN
  /\ stepDir \in {"none", "up", "down"}
  /\ brightness \in 0..fullBright
  /\ slept \in BOOLEAN

-----------------------------------------------------------------------------
(* The methods, as functions on the state.                                 *)

State == [list |-> list, running |-> running, method |-> method, enabled |-> enabled,
          stepDir |-> stepDir, brightness |-> brightness, slept |-> slept]

Becomes(S) ==
  \E T \in {S} :
    /\ list' = T.list /\ running' = T.running /\ method' = T.method
    /\ enabled' = T.enabled /\ stepDir' = T.stepDir
    /\ brightness' = T.brightness /\ slept' = T.slept

StartTimer(S, t) ==
  [S EXCEPT !.running = @ \cup {t}, !.list = AddDynamicTask(@, t)]

StopTimer(S, t) ==
  [S EXCEPT !.running = @ \ {t}, !.list = RemoveDynamicTask(@, t)]

\* The blocks in use, that of the callback under way included.
InUse(S) == (S.running \cup {cursor}) \cap Asyncs

Async(S, step) ==
  LET a == CHOOSE b \in Asyncs : b \notin InUse(S)
  IN  StartTimer([S EXCEPT !.method[a] = step], a)

StartDimTimer(S) ==
  StopTimer(StartTimer([S EXCEPT !.enabled = TRUE], dimTimer), sleepTimer)

StartSleepTimer(S) ==
  StopTimer(StartTimer([S EXCEPT !.enabled = TRUE], sleepTimer), dimTimer)

\* IApplicationContext::EnterSleepMode returns when the system is awake
\* again, and the display has been switched on at its full brightness.
EnterSleepMode(S) == [S EXCEPT !.brightness = fullBright, !.slept = TRUE]

SleepStep(S) ==
  IF ~S.enabled \/ S.stepDir # "down" THEN S
  ELSE IF S.brightness <= 0 THEN EnterSleepMode(S)
  ELSE Async([S EXCEPT !.brightness = @ - 1], "sleepStep")

DimStep(S) ==
  IF ~S.enabled \/ S.stepDir # "down" THEN S
  ELSE IF S.brightness <= dimBright THEN StartSleepTimer(S)
  ELSE Async([S EXCEPT !.brightness = @ - 1], "dimStep")

\* Bug: one level is missing.
UndimStep_Short(S) ==
  IF ~S.enabled \/ S.stepDir # "up" THEN S
  ELSE IF S.brightness + 1 >= fullBright THEN StartDimTimer(S)
  ELSE Async([S EXCEPT !.brightness = @ + 1], "undimStep")

UndimStep(S) ==
  IF ~S.enabled \/ S.stepDir # "up" THEN S
  ELSE IF S.brightness >= fullBright THEN StartDimTimer(S)
  ELSE Async([S EXCEPT !.brightness = @ + 1], "undimStep")

\* Bug: the direction stays as it was.
Dim_NoDirection(S) == DimStep([S EXCEPT !.enabled = TRUE])

Dim(S) == DimStep([S EXCEPT !.enabled = TRUE, !.stepDir = "down"])

Undim(S) ==
  UndimStep(StopTimer(StopTimer([S EXCEPT !.enabled = TRUE, !.stepDir = "up"],
                                dimTimer), sleepTimer))

Deactivate(S) ==
  StopTimer(StopTimer([S EXCEPT !.enabled = FALSE, !.stepDir = "none"],
                      sleepTimer), dimTimer)

-----------------------------------------------------------------------------

\* The constructor starts the dim timer; the button is there before it.
Init ==
  /\ list = [head |-> button,
             next |-> [t \in Tasks |-> IF t = button THEN dimTimer ELSE NULL],
             prev |-> [t \in Tasks |-> IF t = dimTimer THEN button ELSE NULL]]
  /\ running = {dimTimer}
  /\ method = [a \in Asyncs |-> "dimStep"]
  /\ cursor = NULL
  /\ enabled = TRUE /\ stepDir = "none"
  /\ brightness = fullBright
  /\ slept = FALSE

\* Bound: a chain begins only if there is a block for it, and another for the
\* step of a chain that goes on.
RoomForChain == Cardinality(InUse(State)) + 1 < Cardinality(Asyncs)

\* Input comes between two passes.
InputComes == cursor = NULL /\ RoomForChain
Disturbed == [State EXCEPT !.slept = FALSE]

Touch ==
  /\ InputComes
  /\ enabled
  /\ Becomes(Undim(Disturbed))
  /\ UNCHANGED cursor

\* The public methods, called by the application.
ClientCalls ==
  /\ InputComes
  /\ \E call \in Calls :
       Becomes(CASE call = "startDimTimer" -> StartDimTimer(Disturbed)
                 [] call = "startSleepTimer" -> StartSleepTimer(Disturbed)
                 [] call = "dim" -> Dim(Disturbed)
                 [] call = "undim" -> Undim(Disturbed)
                 [] call = "deactivate" -> Deactivate(Disturbed))
  /\ UNCHANGED cursor

BeginPass ==
  /\ cursor = NULL
  /\ cursor' = list.head
  /\ UNCHANGED <<list, running, method, enabled, stepDir, brightness, slept>>

\* A task's handler finds nothing to do: its timer is stopped, or its interval
\* has not elapsed.
HandlerIdle ==
  /\ cursor # NULL
  /\ cursor \notin running \cap Asyncs
  /\ cursor' = list.next[cursor]
  /\ UNCHANGED <<list, running, method, enabled, stepDir, brightness, slept>>

\* A callOnce timer is deleted after its callback.
Released(S, t) ==
  IF t \in Asyncs
    THEN [S EXCEPT !.list.next[t] = NULL, !.list.prev[t] = NULL, !.method[t] = "dimStep"]
    ELSE S

CalledBack(S, t) ==
  CASE t = dimTimer -> Dim(S)
    [] t = sleepTimer -> SleepStep(S)
    [] t \in Asyncs /\ method[t] = "dimStep" -> DimStep(S)
    [] t \in Asyncs /\ method[t] = "sleepStep" -> SleepStep(S)
    [] t \in Asyncs /\ method[t] = "undimStep" -> UndimStep(S)

\* The timer, a single-shot one, is stopped and calls back.
Fires(t) ==
  /\ cursor = t /\ t \in running
  /\ t \in Asyncs \/ RoomForChain
  /\ \E S \in {CalledBack(StopTimer(State, t), t)} :
       /\ Becomes(Released(S, t))
       /\ cursor' = S.list.next[t]

Next == Touch \/ ClientCalls \/ BeginPass \/ HandlerIdle \/ \E t \in Tasks : Fires(t)

\* Passes begin and handlers return; the interval of a timer that keeps
\* running elapses.
Fairness ==
  /\ SF_vars(BeginPass)
  /\ WF_vars(HandlerIdle \/ \E t \in Tasks : Fires(t))
  /\ SF_vars(Fires(dimTimer))
  /\ SF_vars(Fires(sleepTimer))

Spec == Init /\ [][Next]_vars
FairSpec == Spec /\ Fairness

-----------------------------------------------------------------------------
(* Properties.                                                             *)

Undimming == \E a \in running \cap Asyncs : method[a] = "undimStep"

\* "Any touch input will reset the state to 1" (power_saver.h): undimming does
\* not stop short of full brightness, whatever other chains are still under
\* way and whichever of them meets the end first, unless it is called off.
\* (With the type invariant.)
TouchRestores ==
  TypeOK /\ (stepDir = "up" => Undimming \/ brightness = fullBright)

Untouched == <>[][~Touch /\ ~ClientCalls]_vars

\* Left alone, an enabled saver puts the system to sleep, also when the chains
\* of several touches and calls have overlapped.  This is not so after a call
\* of startSleepTimer while the display is not being dimmed: sleepStep returns.
UntouchedSleeps == Untouched => <>[](enabled => slept)

\* "This will search the queue for he pointer provided, and remove it"
\* (application_run_loop.h): a timer that has been stopped is not in the run
\* loop.  The code does not do it for a dim timer that two undimming chains
\* have started.
StoppedIsOut == \A t \in {dimTimer, sleepTimer} \ running : t \notin Installed(list)
=============================================================================
