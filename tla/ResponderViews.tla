--------------------------- MODULE ResponderViews ----------------------------
(***************************************************************************)
(* Views that react to touch.  A ResponderView is a View, which the static *)
(* dirty queue holds while it waits to be repainted, and a TouchResponder, *)
(* which the static responder chain holds while it is shown.  The touch    *)
(* system samples the panel once per pass of the run loop and walks the    *)
(* chain; the display's task empties the dirty queue.  Handlers and        *)
(* repaint() are client code and change both queues under the walks.       *)
(***************************************************************************)
EXTENDS GenericQueue

CONSTANT Liberties
  \* "hideTouched": clients hide a view between touchBegin and touchEnd,
  \* "repaintSelf": repaint() schedules, shows or hides its own view,
  \* "destroyShown": clients destroy a view without hiding it.

VARIABLES
  alive,       \* the views that exist
  chain,       \* TouchResponder::ResponderChain
  dirty,       \* View::dirtyQueue
  visible,     \* View::visible, as a set
  isDirty,     \* View::isDirty
  touched,     \* ResponderView::touchActive
  touchInProgress, active,  \* the touch system
  pressed,     \* a finger is on the panel
  phase,       \* what the main context is doing
  inHandler,   \* ... and whether it is in cur's own touch handler
  cur,         \* the responder or view it is at
  unpainted    \* history: repaints asked for and not begun since

viewVars == <<alive, chain, dirty, visible, isDirty, unpainted>>
touchVars == <<touched, touchInProgress, active, pressed>>
walkVars == <<phase, inHandler, cur>>
vars == <<viewVars, touchVars, walkVars>>

Dispatches == {"begin", "move", "end"}
Phases == Dispatches \cup {"idle", "refresh", "paint"}

TypeOK ==
  /\ chain \in Queues /\ dirty \in Queues
  /\ alive \subseteq Items /\ visible \subseteq Items /\ isDirty \subseteq Items
  /\ touched \subseteq Items /\ unpainted \subseteq Items
  /\ touchInProgress \in BOOLEAN /\ active \in BOOLEAN /\ pressed \in BOOLEAN
  /\ phase \in Phases /\ inHandler \in BOOLEAN
  /\ IF phase \in {"idle", "refresh"} THEN cur = NULL ELSE cur \in Items

EmptyQueue == [top |-> NULL, end |-> NULL, next |-> [i \in Items |-> NULL]]

Init ==
  /\ alive = {}
  /\ chain = EmptyQueue /\ dirty = EmptyQueue
  /\ visible = {} /\ isDirty = {} /\ touched = {} /\ unpainted = {}
  /\ touchInProgress = FALSE /\ active = TRUE /\ pressed = FALSE
  /\ phase = "idle" /\ inHandler = FALSE /\ cur = NULL

-----------------------------------------------------------------------------
(* Client code: between two tasks, in a touch handler, in repaint().       *)

ClientRuns(v) ==
  /\ phase \in {"idle", "paint"} \/ inHandler
  /\ "repaintSelf" \in Liberties \/ ~(phase = "paint" /\ v = cur)

\* The responder's constructor joins the chain, the view's leaves it again.
New(v) ==
  /\ ClientRuns(v)
  /\ v \notin alive
  /\ alive' = alive \cup {v}
  /\ chain' = RemoveItem(Enqueue(chain, v), v)
  /\ visible' = visible \ {v} /\ isDirty' = isDirty \ {v} /\ touched' = touched \ {v}
  /\ UNCHANGED <<dirty, unpainted, touchInProgress, active, pressed, walkVars>>

\* View::scheduleRepaint, with the view's visibility as it will be.
Schedule(v) ==
  /\ unpainted' = unpainted \cup (visible' \cap {v})
  /\ IF v \in isDirty \/ v \notin visible'
       THEN UNCHANGED <<isDirty, dirty>>
       ELSE isDirty' = isDirty \cup {v} /\ dirty' = Enqueue(dirty, v)

ScheduleRepaint(v) ==
  /\ ClientRuns(v)
  /\ v \in alive
  /\ UNCHANGED <<alive, chain, visible>>
  /\ Schedule(v)
  /\ UNCHANGED <<touchVars, walkVars>>

Show(v) ==
  /\ ClientRuns(v)
  /\ v \in alive
  /\ visible' = visible \cup {v}
  /\ Schedule(v)
  /\ chain' = Enqueue(chain, v)
  /\ UNCHANGED <<alive, touchVars, walkVars>>

\* A touched view may be hidden when its touchEnd is called.
MayHide(v) == "hideTouched" \in Liberties \/ v \notin touched \/ (phase = "end" /\ v = cur)

\* Bug: the view keeps its mark when it leaves the queue.
Hide_MarkKept(v) ==
  /\ ClientRuns(v)
  /\ v \in alive
  /\ MayHide(v)
  /\ chain' = RemoveItem(chain, v)
  /\ visible' = visible \ {v}
  /\ dirty' = RemoveItem(dirty, v)
  /\ unpainted' = unpainted \ {v}
  /\ UNCHANGED <<alive, isDirty, touchVars, walkVars>>

\* Bug: the view stays in the dirty queue.
Hide_StaysDirty(v) ==
  /\ ClientRuns(v)
  /\ v \in alive
  /\ MayHide(v)
  /\ chain' = RemoveItem(chain, v)
  /\ visible' = visible \ {v} /\ isDirty' = isDirty \ {v}
  /\ unpainted' = unpainted \ {v}
  /\ UNCHANGED <<alive, dirty, touchVars, walkVars>>

\* touchActive stays as it is.
Hide(v) ==
  /\ ClientRuns(v)
  /\ v \in alive
  /\ MayHide(v)
  /\ chain' = RemoveItem(chain, v)
  /\ visible' = visible \ {v} /\ isDirty' = isDirty \ {v}
  /\ dirty' = RemoveItem(dirty, v)
  /\ unpainted' = unpainted \ {v}
  /\ UNCHANGED <<alive, touchVars, walkVars>>

\* ~View leaves the dirty queue; nothing leaves the responder chain.  Bound: no
\* view is destroyed in its own handler or repaint (a walk reads its link next).
Destroy(v) ==
  /\ ClientRuns(v)
  /\ v \in alive
  /\ "destroyShown" \in Liberties \/ v \notin visible
  /\ v # cur
  /\ alive' = alive \ {v}
  /\ dirty' = RemoveItem(dirty, v)
  /\ unpainted' = unpainted \ {v}
  /\ UNCHANGED <<chain, visible, isDirty, touchVars, walkVars>>

\* ITouchSystem::activate and deactivate.
SwitchTouch ==
  /\ phase = "idle" \/ inHandler
  /\ active' = ~active
  /\ UNCHANGED <<viewVars, touched, touchInProgress, pressed, walkVars>>

Client == \/ \E v \in Items : New(v) \/ ScheduleRepaint(v) \/ Show(v) \/ Hide(v) \/ Destroy(v)
          \/ SwitchTouch

-----------------------------------------------------------------------------
(* The touch system.                                                       *)

FingerMoves ==
  /\ pressed' = ~pressed
  /\ UNCHANGED <<viewVars, touched, touchInProgress, active, walkVars>>

\* processTouchInput: the panel is sampled, unless nobody would respond.
\* Small moves are not reported.
ProcessTouchInput ==
  /\ phase = "idle"
  /\ active /\ chain.top # NULL
  /\ pressed \/ touchInProgress
  /\ touchInProgress' = pressed
  /\ phase' = IF ~pressed THEN "end" ELSE IF touchInProgress THEN "move" ELSE "begin"
  /\ cur' = chain.top
  /\ UNCHANGED <<viewVars, touched, active, pressed, inHandler>>

\* The responder's successor, read after its handler.
GoOn == /\ cur' = chain.next[cur]
        /\ phase' = IF cur' = NULL THEN "idle" ELSE phase

EndWalk == cur' = NULL /\ phase' = "idle"

\* respondTouchBegin, Move, End: a touch begins in the view it hits.
Respond ==
  /\ phase \in Dispatches /\ ~inHandler
  /\ IF phase = "begin"
       THEN \/ touched' = touched \cup {cur} /\ inHandler' = TRUE /\ UNCHANGED <<phase, cur>>
            \/ GoOn /\ UNCHANGED <<touched, inHandler>>
       ELSE /\ IF cur \in touched THEN inHandler' = TRUE /\ UNCHANGED <<phase, cur>>
                                  ELSE GoOn /\ UNCHANGED inHandler
            /\ UNCHANGED touched
  /\ UNCHANGED <<viewVars, touchInProgress, active, pressed>>

\* Bug: runResponderChainTouchBegin does not look at event.handled.
HandlerReturns_NotHandled ==
  /\ inHandler
  /\ inHandler' = FALSE
  /\ touched' = IF phase = "end" THEN touched \ {cur} ELSE touched
  /\ IF phase = "end" THEN EndWalk ELSE GoOn
  /\ UNCHANGED <<viewVars, touchInProgress, active, pressed>>

\* The view has handled the event; only moves go on to the next responder.
HandlerReturns ==
  /\ inHandler
  /\ inHandler' = FALSE
  /\ touched' = IF phase = "end" THEN touched \ {cur} ELSE touched
  /\ IF phase = "move" THEN GoOn ELSE EndWalk
  /\ UNCHANGED <<viewVars, touchInProgress, active, pressed>>

-----------------------------------------------------------------------------
(* Repainting, when the display has refreshed itself.                      *)

RepaintScheduledViews ==
  /\ phase = "idle"
  /\ dirty.top # NULL
  /\ phase' = "refresh"
  /\ UNCHANGED <<viewVars, touchVars, inHandler, cur>>

\* dequeue, and repaint() of a view that is still dirty.  (The link of the
\* view, which dequeue leaves as it is, does not matter: it is cleared.)
RepaintNext ==
  /\ phase = "refresh"
  /\ LET v == dirty.top
     IN  IF v = NULL
           THEN phase' = "idle" /\ UNCHANGED <<dirty, cur, unpainted>>
           ELSE /\ dirty' = [Dequeue(dirty) EXCEPT !.next[v] = NULL]
                /\ IF v \in isDirty
                     THEN phase' = "paint" /\ cur' = v /\ unpainted' = unpainted \ {v}
                     ELSE UNCHANGED <<phase, cur, unpainted>>
  /\ UNCHANGED <<alive, chain, visible, isDirty, touchVars, inHandler>>

RepaintReturns ==
  /\ phase = "paint"
  /\ phase' = "refresh"
  /\ isDirty' = isDirty \ {cur}
  /\ cur' = NULL
  /\ UNCHANGED <<alive, chain, dirty, visible, unpainted, touchVars, inHandler>>

Next ==
  \/ Client
  \/ FingerMoves
  \/ ProcessTouchInput
  \/ Respond
  \/ HandlerReturns
  \/ RepaintScheduledViews
  \/ RepaintNext
  \/ RepaintReturns

\* Each pass of the run loop comes to the display's task, and client code
\* returns.
Fairness ==
  /\ WF_vars(Respond \/ HandlerReturns \/ RepaintNext \/ RepaintReturns)
  /\ SF_vars(RepaintScheduledViews)

Spec == Init /\ [][Next]_vars
FairSpec == Spec /\ Fairness

-----------------------------------------------------------------------------
(* Properties.                                                             *)

\* Whatever handlers and repaint() do to the queues while they are walked,
\* the chain consists of the views that are shown, and the dirty queue of
\* such views; all of them exist.  (With the type invariant.)
QueuesIntact ==
  /\ TypeOK
  /\ IsQueue(chain) /\ IsQueue(dirty)
  /\ Members(chain) = visible \cap alive
  /\ Members(dirty) \subseteq visible \cap isDirty
  /\ Members(chain) \cup Members(dirty) \subseteq alive

\* Of all views one at most believes to be touched, and none after the touch
\* has ended: touchMove and touchEnd belong to the touch that began there.
TouchesPaired ==
  /\ Cardinality(touched) <= 1
  /\ touched # {} => touchInProgress \/ phase = "end"

\* A repaint that is asked for begins, if the view is not hidden before.
\* Views are interchangeable: one of them stands for all.
RepaintHappens ==
  LET v == CHOOSE i \in Items : TRUE
  IN  (v \in unpainted) ~> (v \notin unpainted)
=============================================================================
