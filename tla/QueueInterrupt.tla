--------------------------- MODULE QueueInterrupt ---------------------------
(***************************************************************************)
(* mono::QueueInterrupt: the edges of an input pin, noted by interrupts    *)
(* (after debouncing, if wanted) and handled by a task of the run loop.    *)
(* The flags __shouldWakeUp and __busySleep of the power management are    *)
(* shared with the sleep loop.                                             *)
(***************************************************************************)

CONSTANTS
  EdgeSets,     \* the sets of edges for which clients set callbacks
  Reconfigure   \* do clients change settings or replace the object while it is busy?

Edges == {"rise", "fall"}

ASSUME SettingsAssumption == EdgeSets \subseteq SUBSET Edges /\ Reconfigure \in BOOLEAN

VARIABLES
  pin,           \* the level of the pin, TRUE for high
  latched,       \* edges the pin interrupt is pending for
  attached,      \* the edges with a callback
  armed,         \* debounceRiseTimer and debounceFallTimer: running?
  event,         \* riseEvent and fallEvent
  isHandled,
  settings,      \* debounce, wakeFromSleep, deactivateUntilHandler
  handler,       \* where taskHandler is: "out", at a callback, or "between" the two
  busySleep,     \* IPowerManagement::__busySleep
  shouldWakeUp,  \* IPowerManagement::__shouldWakeUp
  owed           \* history: an edge of this kind was accepted and not yet handled

interruptVars ==
  <<pin, latched, attached, armed, event, isHandled, settings, handler,
    busySleep, shouldWakeUp, owed>>

Settings == [debounce : BOOLEAN, wakeFromSleep : BOOLEAN, deactivate : BOOLEAN]

TypeOK ==
  /\ pin \in BOOLEAN
  /\ latched \in SUBSET Edges
  /\ attached \in SUBSET Edges
  /\ armed \in [Edges -> BOOLEAN]
  /\ event \in [Edges -> BOOLEAN]
  /\ isHandled \in BOOLEAN
  /\ settings \in Settings
  /\ handler \in Edges \cup {"out", "between"}
  /\ busySleep \in BOOLEAN
  /\ shouldWakeUp \in BOOLEAN
  /\ owed \in [Edges -> BOOLEAN]

None == [e \in Edges |-> FALSE]

\* The constructor.
Init ==
  /\ pin \in BOOLEAN
  /\ latched = {}
  /\ attached = {}
  /\ armed = None
  /\ event = None
  /\ isHandled = TRUE
  /\ settings = [debounce |-> FALSE, wakeFromSleep |-> FALSE, deactivate |-> FALSE]
  /\ handler = "out"
  /\ busySleep = FALSE
  /\ shouldWakeUp = FALSE
  /\ owed = None

-----------------------------------------------------------------------------
(* The pin and its interrupts.                                             *)

EdgeTo(level) == IF level THEN "rise" ELSE "fall"

\* The pin changes; the port notes the edges it was told to look for.
PinChanges ==
  /\ pin' = ~pin
  /\ latched' = latched \cup ({EdgeTo(~pin)} \cap attached)
  /\ UNCHANGED <<attached, armed, event, isHandled, settings, handler,
                 busySleep, shouldWakeUp, owed>>

\* handle_interrupt_in reports by the type of interrupt the pin is set to:
\* with callbacks for both edges, every edge is reported as a fall.
Reported == IF attached = {"rise"} THEN "rise" ELSE "fall"

\* The edge is put down for taskHandler.
NoteEvent(e) ==
  /\ event' = [event EXCEPT ![e] = TRUE]
  /\ isHandled' = FALSE
  /\ shouldWakeUp' = (shouldWakeUp \/ settings.wakeFromSleep)
  /\ owed' = [owed EXCEPT ![e] = TRUE]

\* Bug: interrupts are turned off only until the callback begins.
Ignored_UntilCalled == settings.deactivate /\ \E e \in Edges : event[e]

\* _irq_rise_handler and _irq_fall_handler return at once.
Ignored == settings.deactivate /\ ~isHandled

\* Bug: debouncing does not keep the CPU awake.
PinInterrupt_NotBusy ==
  /\ latched # {}
  /\ latched' = {}
  /\ \/ /\ Ignored
        /\ UNCHANGED <<armed, event, isHandled, busySleep, shouldWakeUp, owed>>
     \/ /\ ~Ignored /\ settings.debounce
        /\ armed' = [armed EXCEPT ![Reported] = TRUE]
        /\ UNCHANGED <<event, isHandled, busySleep, shouldWakeUp, owed>>
     \/ /\ ~Ignored /\ ~settings.debounce
        /\ NoteEvent(Reported)
        /\ UNCHANGED <<armed, busySleep>>
  /\ UNCHANGED <<pin, attached, settings, handler>>

\* The interrupt, with _irq_rise_handler or _irq_fall_handler: the debounce
\* timer is (re)started, or the edge is accepted.
PinInterrupt ==
  /\ latched # {}
  /\ latched' = {}
  /\ \/ /\ Ignored
        /\ UNCHANGED <<armed, event, isHandled, busySleep, shouldWakeUp, owed>>
     \/ /\ ~Ignored /\ settings.debounce
        /\ busySleep' = (busySleep \/ settings.wakeFromSleep)
        /\ armed' = [armed EXCEPT ![Reported] = TRUE]
        /\ UNCHANGED <<event, isHandled, shouldWakeUp, owed>>
     \/ /\ ~Ignored /\ ~settings.debounce
        /\ NoteEvent(Reported)
        /\ UNCHANGED <<armed, busySleep>>
  /\ UNCHANGED <<pin, attached, settings, handler>>

\* Bug: the level of the pin is tested the wrong way round.
DebounceTimeout_Inverted(e) ==
  /\ armed[e]
  /\ armed' = [armed EXCEPT ![e] = FALSE]
  /\ busySleep' = (busySleep /\ ~settings.wakeFromSleep)
  /\ IF EdgeTo(pin) # e THEN NoteEvent(e)
     ELSE UNCHANGED <<event, isHandled, shouldWakeUp, owed>>
  /\ UNCHANGED <<pin, latched, attached, settings, handler>>

\* Bug: the CPU may sleep again only after an accepted edge.
DebounceTimeout_BusyKept(e) ==
  /\ armed[e]
  /\ armed' = [armed EXCEPT ![e] = FALSE]
  /\ IF EdgeTo(pin) = e THEN NoteEvent(e) /\ busySleep' = (busySleep /\ ~settings.wakeFromSleep)
     ELSE UNCHANGED <<event, isHandled, shouldWakeUp, owed, busySleep>>
  /\ UNCHANGED <<pin, latched, attached, settings, handler>>

\* debounceRiseHandler and debounceFallHandler: the edge is accepted if the
\* pin still has the level.
DebounceTimeout(e) ==
  /\ armed[e]
  /\ armed' = [armed EXCEPT ![e] = FALSE]
  /\ busySleep' = (busySleep /\ ~settings.wakeFromSleep)
  /\ IF EdgeTo(pin) = e THEN NoteEvent(e)
     ELSE UNCHANGED <<event, isHandled, shouldWakeUp, owed>>
  /\ UNCHANGED <<pin, latched, attached, settings, handler>>

-----------------------------------------------------------------------------
(* taskHandler.                                                            *)

\* The event is cleared and its callback called.
Call(e) ==
  /\ event' = [event EXCEPT ![e] = FALSE]
  /\ handler' = e
  /\ owed' = [owed EXCEPT ![e] = FALSE]

\* taskHandler tests riseEvent first ...
TestRise ==
  /\ attached # {}
  /\ handler = "out"
  /\ IF event["rise"] THEN Call("rise") ELSE handler' = "between" /\ UNCHANGED <<event, owed>>
  /\ UNCHANGED <<pin, latched, attached, armed, isHandled, settings, busySleep, shouldWakeUp>>

\* ... then fallEvent.
TestFall ==
  /\ handler = "between"
  /\ IF event["fall"] THEN Call("fall") ELSE handler' = "out" /\ UNCHANGED <<event, owed>>
  /\ UNCHANGED <<pin, latched, attached, armed, isHandled, settings, busySleep, shouldWakeUp>>

\* Bug: the event is cleared after its callback, too.
CallbackReturns_ClearsEvent ==
  /\ handler \in Edges
  /\ isHandled' = TRUE
  /\ event' = [event EXCEPT ![handler] = FALSE]
  /\ handler' = IF handler = "rise" THEN "between" ELSE "out"
  /\ UNCHANGED <<pin, latched, attached, armed, settings, busySleep, shouldWakeUp, owed>>

\* The callback returns.
CallbackReturns ==
  /\ handler \in Edges
  /\ isHandled' = TRUE
  /\ handler' = IF handler = "rise" THEN "between" ELSE "out"
  /\ UNCHANGED <<pin, latched, attached, armed, event, settings, busySleep, shouldWakeUp, owed>>

-----------------------------------------------------------------------------
(* Client code.                                                            *)

\* No edge is being noted, debounced or handled.
Idle == latched = {} /\ armed = None /\ event = None /\ handler = "out"

\* The framework makes its settings before an input is in use.
MayConfigure == handler # "between" /\ (Reconfigure \/ Idle)

\* setDebouncing, setInterruptsSleep.
Configure(debounce, wake) ==
  /\ MayConfigure
  /\ settings' = [settings EXCEPT !.debounce = debounce, !.wakeFromSleep = wake]
  /\ UNCHANGED <<pin, latched, attached, armed, event, isHandled, handler,
                 busySleep, shouldWakeUp, owed>>

DeactivateUntilHandled(deactivate) ==
  /\ MayConfigure
  /\ settings' = [settings EXCEPT !.deactivate = deactivate]
  /\ isHandled' = TRUE
  /\ UNCHANGED <<pin, latched, attached, armed, event, handler,
                 busySleep, shouldWakeUp, owed>>

\* rise and fall, called in a row for the edges of S.
Attach(S) ==
  /\ MayConfigure
  /\ attached' = attached \cup S
  /\ UNCHANGED <<pin, latched, armed, event, isHandled, settings, handler,
                 busySleep, shouldWakeUp, owed>>

\* The destructor, and the constructor of another object for the pin.  The
\* members' destructors stop the timers and the interrupt.
Replace ==
  /\ MayConfigure
  /\ handler = "out"
  /\ latched' = {}
  /\ attached' = {}
  /\ armed' = None
  /\ event' = None
  /\ isHandled' = TRUE
  /\ settings' = [debounce |-> FALSE, wakeFromSleep |-> FALSE, deactivate |-> FALSE]
  /\ owed' = None
  /\ UNCHANGED <<pin, handler, busySleep, shouldWakeUp>>

InterruptClient ==
  \/ \E b, w \in BOOLEAN : Configure(b, w)
  \/ \E d \in BOOLEAN : DeactivateUntilHandled(d)
  \/ \E S \in EdgeSets : Attach(S)
  \/ Replace

InterruptNext ==
  \/ PinChanges \/ PinInterrupt \/ \E e \in Edges : DebounceTimeout(e)
  \/ TestRise \/ TestFall \/ CallbackReturns
  \/ InterruptClient

\* Interrupts are served, timers run out, the run loop calls taskHandler and
\* callbacks return.
InterruptFairness ==
  /\ WF_interruptVars(PinInterrupt)
  /\ \A e \in Edges : WF_interruptVars(DebounceTimeout(e))
  /\ WF_interruptVars(TestRise \/ TestFall \/ CallbackReturns)

InterruptSpec == Init /\ [][InterruptNext]_interruptVars /\ InterruptFairness

-----------------------------------------------------------------------------
(* Properties.                                                             *)

\* "turn off incoming interrupts while waiting for the run loop to finish
\* process a pending interrupt": as long as the callback runs, no edge of its
\* kind has been accepted again or is being debounced.
QuietWhileHandling ==
  settings.deactivate =>
    \A e \in Edges : handler = e => ~event[e] /\ ~armed[e]

\* "The de-bounce timer only run when CPU is not halted in sleep mode": the CPU
\* is kept from halting while a timer of an input that may wake it is running.
DebounceKeepsAwake ==
  settings.wakeFromSleep /\ (\E e \in Edges : armed[e]) => busySleep

\* "allow the CPU to sleep again": it is not kept from halting for ever.
SleepAllowedAgain == busySleep => \E e \in Edges : armed[e]

\* Every edge that is accepted is handled: its callback begins after it.
AcceptedEdgeIsHandled == \A e \in Edges : owed[e] ~> ~owed[e]

\* An edge after which the pin keeps its level survives debouncing.
StableEdgeIsHandled ==
  \A e \in Edges : [](armed[e] /\ [](EdgeTo(pin) = e) => <>(handler = e))

\* A callback for an edge is due only if there was such an edge ("Attach a
\* function to call when a falling edge occurs on the input").
ReportedEdgeHappened ==
  [][\A e \in Edges : event'[e] /\ ~event[e] => e \in latched \/ EdgeTo(pin) = e]_interruptVars
=============================================================================
