------------------------ MODULE ResponderViews_proofs ------------------------
(***************************************************************************)
(* Proofs of the safety properties of ResponderViews, for any number of    *)
(* views, as long as clients take none of the liberties.                   *)
(***************************************************************************)
EXTENDS ResponderViews, GenericQueue_proofs

OneTouched == \A u, v \in touched : u = v

TouchInProgress == touched # {} => touchInProgress \/ phase = "end"

\* A touched view stays in the chain until its touchEnd is called.
TouchedIsShown == touched \subseteq Members(chain) \/ (phase = "end" /\ inHandler)

\* The sets that contain i and the chain behind it.
ClosedFrom(i) ==
  {S \in SUBSET Items :
     i \in S /\ \A v \in S : chain.next[v] # NULL => chain.next[v] \in S}

\* The walk of touchEnd has not passed the touched view: no client code runs
\* before its handler.
TouchedIsAhead ==
  phase = "end" => IF inHandler THEN touched \subseteq {cur}
                   ELSE \A S \in ClosedFrom(cur) : touched \subseteq S

Beginning == phase = "begin" /\ ~inHandler => touched = {} /\ cur \in Members(chain)

Dispatching ==
  (inHandler => phase \in Dispatches) /\ (phase \in {"begin", "move"} => touchInProgress)

\* A view has left the dirty queue when it is painted.
Painting == phase = "paint" => cur \notin Members(dirty)

\* The inductive invariant.  That no view believes to be touched when a touch
\* has ended needs to know where in the chain the touched view is.
ViewsInv ==
  /\ QueuesIntact /\ OneTouched /\ TouchInProgress
  /\ TouchedIsShown /\ TouchedIsAhead /\ Beginning /\ Dispatching /\ Painting

LEMMA ViewsInitInv == Init => ViewsInv
<1> SUFFICES ASSUME Init PROVE ViewsInv
  OBVIOUS
<1>1. chain.top = NULL /\ chain.end = NULL /\ dirty.top = NULL /\ dirty.end = NULL
  BY DEF Init, EmptyQueue
<1>2. /\ IsQueue(chain) /\ Members(chain) = {}
      /\ IsQueue(dirty) /\ Members(dirty) = {}
  BY <1>1, QueueWithoutItems
<1>3. TypeOK
  BY DEF Init, EmptyQueue, TypeOK, Queues, ItemPointer, Phases, Dispatches
<1>4. QueuesIntact
  BY <1>2, <1>3 DEF Init, QueuesIntact
<1>5. QED
  BY <1>4 DEF Init, ViewsInv, OneTouched, TouchInProgress, TouchedIsShown, TouchedIsAhead,
     Beginning, Dispatching, Painting
-----------------------------------------------------------------------------
(* Client code.                                                            *)

\* Client code runs while no walk looks for its next responder.
LEMMA ClientKeeps ==
  ASSUME ViewsInv, phase \in {"idle", "paint"} \/ inHandler,
         UNCHANGED <<touchInProgress, walkVars>>, touched' \subseteq touched, QueuesIntact',
         touched' \subseteq Members(chain') \/ (phase = "end" /\ inHandler),
         phase = "paint" => cur \notin Members(dirty')
  PROVE  ViewsInv'
<1>1. OneTouched' /\ TouchInProgress' /\ Dispatching'
  BY DEF ViewsInv, OneTouched, TouchInProgress, Dispatching, walkVars
<1>2. TouchedIsShown' /\ Painting'
  BY DEF TouchedIsShown, Painting, walkVars
<1>3. Beginning' /\ TouchedIsAhead'
  BY DEF ViewsInv, Beginning, TouchedIsAhead, walkVars
<1>4. QED
  BY <1>1, <1>2, <1>3 DEF ViewsInv

LEMMA NewInv == ASSUME ViewsInv, NEW v \in Items, New(v) PROVE ViewsInv'
<1>1. chain \in Queues /\ IsQueue(chain) /\ v \notin Members(chain) /\ v \notin Members(dirty)
  BY DEF ViewsInv, QueuesIntact, TypeOK, New
<1>2. PICK Q : Q = Enqueue(chain, v)
  OBVIOUS
<1>3. Q \in Queues /\ IsQueue(Q) /\ Members(Q) = Members(chain) \cup {v}
  BY <1>1, <1>2, EnqueueJoins
<1>4. chain' = RemoveItem(Q, v)
  BY <1>2 DEF New
<1>5. chain' \in Queues /\ IsQueue(chain') /\ Members(chain') = Members(chain)
  <2>1. /\ RemoveItem(Q, v) \in Queues /\ IsQueue(RemoveItem(Q, v))
        /\ Members(RemoveItem(Q, v)) = Members(Q) \ {v}
    BY <1>3, RemoveItemLeaves
  <2>2. QED
    BY <1>1, <1>3, <1>4, <2>1
<1>6. TypeOK'
  <2>1. alive' \subseteq Items /\ visible' \subseteq Items /\ isDirty' \subseteq Items
        /\ touched' \subseteq Items
    BY DEF New, ViewsInv, QueuesIntact, TypeOK
  <2>2. UNCHANGED <<dirty, unpainted, touchInProgress, active, pressed, phase, inHandler, cur>>
    BY DEF New, walkVars
  <2>3. QED
    BY <1>5, <2>1, <2>2 DEF ViewsInv, QueuesIntact, TypeOK
<1>7. QueuesIntact'
  BY <1>1, <1>5, <1>6 DEF New, ViewsInv, QueuesIntact
<1>8. QED
  BY <1>5, <1>7, ClientKeeps DEF New, ClientRuns, walkVars, ViewsInv, TouchedIsShown, Painting

\* scheduleRepaint of a view that exists.
LEMMA ScheduleKeeps ==
  ASSUME ViewsInv, NEW v \in alive, Schedule(v), visible \subseteq visible',
         visible' \subseteq Items
  PROVE  /\ dirty' \in Queues /\ IsQueue(dirty')
         /\ Members(dirty') \subseteq visible' \cap isDirty' /\ Members(dirty') \subseteq alive
         /\ Members(dirty') \subseteq Members(dirty) \cup {v}
         /\ isDirty' \subseteq Items /\ unpainted' \subseteq Items
<1>1. dirty \in Queues /\ IsQueue(dirty) /\ v \in Items
  BY DEF ViewsInv, QueuesIntact, TypeOK
<1>2. CASE v \in isDirty \/ v \notin visible'
  BY <1>1, <1>2 DEF Schedule, ViewsInv, QueuesIntact, TypeOK
<1>3. CASE ~(v \in isDirty \/ v \notin visible')
  <2>1. dirty' = Enqueue(dirty, v) /\ isDirty' = isDirty \cup {v}
    BY <1>3 DEF Schedule
  <2>2. dirty' \in Queues /\ IsQueue(dirty') /\ Members(dirty') = Members(dirty) \cup {v}
    BY <1>1, <2>1, EnqueueJoins
  <2>3. unpainted' \subseteq Items
    BY <1>1 DEF Schedule, ViewsInv, QueuesIntact, TypeOK
  <2>4. QED
    BY <1>1, <1>3, <2>1, <2>2, <2>3 DEF ViewsInv, QueuesIntact, TypeOK
<1>4. QED
  BY <1>2, <1>3

LEMMA ScheduleRepaintInv ==
  ASSUME Liberties = {}, ViewsInv, NEW v \in Items, ScheduleRepaint(v)
  PROVE  ViewsInv'
<1>1. /\ v \in alive /\ Schedule(v) /\ visible' = visible /\ visible \subseteq Items
      /\ UNCHANGED <<alive, chain, touchVars, walkVars>>
  BY DEF ScheduleRepaint, ViewsInv, QueuesIntact, TypeOK
<1>2. /\ dirty' \in Queues /\ IsQueue(dirty')
      /\ Members(dirty') \subseteq visible' \cap isDirty' /\ Members(dirty') \subseteq alive
      /\ Members(dirty') \subseteq Members(dirty) \cup {v}
      /\ isDirty' \subseteq Items /\ unpainted' \subseteq Items
  BY <1>1, ScheduleKeeps
<1>3. TypeOK'
  BY <1>1, <1>2 DEF touchVars, walkVars, ViewsInv, QueuesIntact, TypeOK
<1>4. QueuesIntact'
  BY <1>1, <1>2, <1>3 DEF ViewsInv, QueuesIntact
<1>5. phase = "paint" => cur \notin Members(dirty')
  BY <1>2 DEF ScheduleRepaint, ClientRuns, ViewsInv, Painting
<1>6. QED
  BY <1>1, <1>4, <1>5, ClientKeeps DEF ScheduleRepaint, ClientRuns, touchVars, ViewsInv,
     TouchedIsShown

LEMMA ShowInv ==
  ASSUME Liberties = {}, ViewsInv, NEW v \in Items, Show(v)
  PROVE  ViewsInv'
<1>1. /\ v \in alive /\ Schedule(v) /\ visible' = visible \cup {v} /\ visible' \subseteq Items
      /\ chain' = Enqueue(chain, v) /\ chain \in Queues /\ IsQueue(chain)
      /\ UNCHANGED <<alive, touchVars, walkVars>>
  BY DEF Show, ViewsInv, QueuesIntact, TypeOK
<1>2. /\ dirty' \in Queues /\ IsQueue(dirty')
      /\ Members(dirty') \subseteq visible' \cap isDirty' /\ Members(dirty') \subseteq alive
      /\ Members(dirty') \subseteq Members(dirty) \cup {v}
      /\ isDirty' \subseteq Items /\ unpainted' \subseteq Items
  BY <1>1, ScheduleKeeps
<1>3. chain' \in Queues /\ IsQueue(chain') /\ Members(chain') = Members(chain) \cup {v}
  BY <1>1, EnqueueJoins
<1>4. TypeOK'
  BY <1>1, <1>2, <1>3 DEF touchVars, walkVars, ViewsInv, QueuesIntact, TypeOK
<1>5. QueuesIntact'
  BY <1>1, <1>2, <1>3, <1>4 DEF ViewsInv, QueuesIntact
<1>6. phase = "paint" => cur \notin Members(dirty')
  BY <1>2 DEF Show, ClientRuns, ViewsInv, Painting
<1>7. QED
  BY <1>1, <1>3, <1>5, <1>6, ClientKeeps DEF Show, ClientRuns, touchVars, ViewsInv,
     TouchedIsShown

\* A touched view is hidden in its touchEnd at the earliest.
LEMMA HideInv ==
  ASSUME Liberties = {}, ViewsInv, NEW v \in Items, Hide(v)
  PROVE  ViewsInv'
<1>1. chain \in Queues /\ IsQueue(chain) /\ dirty \in Queues /\ IsQueue(dirty)
  BY DEF ViewsInv, QueuesIntact, TypeOK
<1>2. chain' \in Queues /\ IsQueue(chain') /\ Members(chain') = Members(chain) \ {v}
  BY <1>1, RemoveItemLeaves DEF Hide
<1>3. dirty' \in Queues /\ IsQueue(dirty') /\ Members(dirty') = Members(dirty) \ {v}
  BY <1>1, RemoveItemLeaves DEF Hide
<1>4. TypeOK'
  BY <1>2, <1>3 DEF Hide, touchVars, walkVars, ViewsInv, QueuesIntact, TypeOK
<1>5. QueuesIntact'
  BY <1>2, <1>3, <1>4 DEF Hide, ViewsInv, QueuesIntact
<1>6. touched' \subseteq Members(chain') \/ (phase = "end" /\ inHandler)
  BY <1>2 DEF Hide, MayHide, ClientRuns, touchVars, ViewsInv, TouchedIsShown
<1>7. QED
  BY <1>3, <1>5, <1>6, ClientKeeps DEF Hide, ClientRuns, touchVars, ViewsInv, Painting

LEMMA DestroyInv ==
  ASSUME Liberties = {}, ViewsInv, NEW v \in Items, Destroy(v)
  PROVE  ViewsInv'
<1>1. dirty \in Queues /\ IsQueue(dirty) /\ v \notin visible
  BY DEF Destroy, ViewsInv, QueuesIntact, TypeOK
<1>2. dirty' \in Queues /\ IsQueue(dirty') /\ Members(dirty') = Members(dirty) \ {v}
  BY <1>1, RemoveItemLeaves DEF Destroy
<1>3. TypeOK'
  BY <1>2 DEF Destroy, touchVars, walkVars, ViewsInv, QueuesIntact, TypeOK
<1>4. QueuesIntact'
  BY <1>1, <1>2, <1>3 DEF Destroy, ViewsInv, QueuesIntact
<1>5. QED
  BY <1>2, <1>4, ClientKeeps DEF Destroy, ClientRuns, touchVars, ViewsInv, Painting,
     TouchedIsShown

\* Steps that leave the views and the walk alone.
LEMMA WalkUntouched ==
  ASSUME ViewsInv, UNCHANGED <<viewVars, touched, touchInProgress, walkVars>>,
         active' \in BOOLEAN, pressed' \in BOOLEAN
  PROVE  ViewsInv'
<1>1. QueuesIntact'
  BY DEF viewVars, walkVars, ViewsInv, QueuesIntact, TypeOK
<1>2. TouchedIsAhead'
  BY DEF viewVars, walkVars, ViewsInv, TouchedIsAhead, ClosedFrom
<1>3. QED
  BY <1>1, <1>2 DEF viewVars, walkVars, ViewsInv, OneTouched, TouchInProgress, TouchedIsShown,
     Beginning, Dispatching, Painting
-----------------------------------------------------------------------------
(* The touch system and repainting.                                        *)

LEMMA ProcessTouchInputInv == ViewsInv /\ ProcessTouchInput => ViewsInv'
<1> SUFFICES ASSUME ViewsInv, ProcessTouchInput PROVE ViewsInv'
  OBVIOUS
<1>1. chain.top \in Members(chain) /\ chain.top \in Items
  BY LinksOfMembers DEF ProcessTouchInput, ViewsInv, QueuesIntact
<1>2. /\ phase = "idle" /\ ~inHandler /\ inHandler' = inHandler /\ cur' = chain.top
      /\ touchInProgress' = pressed
      /\ phase' = IF ~pressed THEN "end" ELSE IF touchInProgress THEN "move" ELSE "begin"
      /\ UNCHANGED <<viewVars, touched, active, pressed>>
      /\ touched \subseteq Members(chain)
  BY DEF ProcessTouchInput, ViewsInv, Dispatching, Dispatches, TouchedIsShown
<1>3. TypeOK'
  BY <1>1, <1>2 DEF viewVars, ViewsInv, QueuesIntact, TypeOK, Phases, Dispatches
<1>4. QueuesIntact' /\ OneTouched' /\ TouchedIsShown'
  BY <1>2, <1>3 DEF viewVars, ViewsInv, QueuesIntact, OneTouched, TouchedIsShown
<1>5. TouchInProgress' /\ Dispatching' /\ Painting'
  BY <1>2 DEF ViewsInv, TouchInProgress, Dispatching, Painting
<1>6. TouchedIsAhead'
  <2> SUFFICES ASSUME NEW S \in ClosedFrom(cur)' PROVE touched \subseteq S
    BY <1>2 DEF TouchedIsAhead
  <2>1. S \in ClosedItemSets(chain)
    BY <1>2 DEF ClosedFrom, ClosedItemSets, viewVars
  <2>2. QED
    BY <1>2, <2>1 DEF Members
<1>7. Beginning'
  BY <1>1, <1>2 DEF viewVars, ViewsInv, TouchInProgress, Beginning
<1>8. QED
  BY <1>4, <1>5, <1>6, <1>7 DEF ViewsInv

\* The walk goes on from a view that does not end the touch.
LEMMA GoOnInv ==
  ASSUME ViewsInv, phase \in Dispatches, GoOn, inHandler' = FALSE, touched' = touched,
         UNCHANGED <<viewVars, touchInProgress, active, pressed>>,
         phase = "end" => ~inHandler /\ cur \notin touched, phase = "begin" => ~inHandler
  PROVE  ViewsInv'
<1>1. cur \in Items /\ cur' \in ItemPointer
  BY DEF GoOn, ViewsInv, QueuesIntact, TypeOK, Queues, Dispatches
<1>2. TypeOK'
  BY <1>1 DEF GoOn, viewVars, ViewsInv, QueuesIntact, TypeOK, ItemPointer, Phases, Dispatches
<1>3. QueuesIntact' /\ OneTouched'
  BY <1>2 DEF viewVars, ViewsInv, QueuesIntact, OneTouched
<1>4. touched \subseteq Members(chain)
  BY DEF ViewsInv, TouchedIsShown
<1>5. TouchedIsShown'
  BY <1>4 DEF viewVars, TouchedIsShown
<1>6. Dispatching' /\ Painting'
  BY DEF GoOn, ViewsInv, Dispatching, Painting, Dispatches
<1>7. Beginning'
  <2>1. phase = "begin" => touched = {} /\ cur \in Members(chain)
    BY DEF ViewsInv, Beginning
  <2>2. ASSUME phase = "begin", cur' # NULL PROVE cur' \in Members(chain)
    <3>1. IsQueue(chain) /\ cur' = chain.next[cur]
      BY DEF GoOn, ViewsInv, QueuesIntact
    <3>2. \A t \in Members(chain) : chain.next[t] # NULL => chain.next[t] \in Members(chain) \ {t}
      BY <3>1, LinksOfMembers
    <3>3. QED
      BY <2>1, <2>2, <3>1, <3>2
  <2>3. QED
    BY <2>1, <2>2 DEF GoOn, viewVars, Beginning
<1>8. ASSUME phase = "end", NEW S \in SUBSET Items, cur' # NULL => cur' \in S,
             \A v \in S : chain.next[v] # NULL => chain.next[v] \in S
      PROVE  touched \subseteq S
  <2>1. S \cup {cur} \in ClosedFrom(cur)
    BY <1>1, <1>8 DEF ClosedFrom, GoOn
  <2>2. touched \subseteq S \cup {cur} /\ cur \notin touched
    BY <1>8, <2>1 DEF ViewsInv, TouchedIsAhead
  <2>3. QED
    BY <2>2
<1>9. TouchedIsAhead'
  BY <1>8 DEF TouchedIsAhead, ClosedFrom, GoOn, viewVars
<1>10. TouchInProgress'
  <2>1. ASSUME phase = "end", cur' = NULL PROVE touched \subseteq {}
    <3>1. {} \in SUBSET Items /\ \A v \in {} : chain.next[v] # NULL => chain.next[v] \in {}
      OBVIOUS
    <3>2. QED
      BY <1>8, <2>1, <3>1
  <2>2. QED
    BY <2>1 DEF GoOn, ViewsInv, TouchInProgress
<1>11. QED
  BY <1>3, <1>5, <1>6, <1>7, <1>9, <1>10 DEF ViewsInv

\* A touch begins in the view it hits, moves and ends in the one it began in.
LEMMA RespondInv == ViewsInv /\ Respond => ViewsInv'
<1> SUFFICES ASSUME ViewsInv, Respond PROVE ViewsInv'
  OBVIOUS
<1>1. /\ phase \in Dispatches /\ ~inHandler /\ cur \in Items
      /\ UNCHANGED <<viewVars, touchInProgress, active, pressed>>
  BY DEF Respond, ViewsInv, QueuesIntact, TypeOK, Dispatches
<1>2. CASE /\ phase = "begin" \/ cur \in touched
           /\ touched' = IF phase = "begin" THEN touched \cup {cur} ELSE touched
           /\ inHandler' = TRUE /\ UNCHANGED <<phase, cur>>
  <2>1. phase = "begin" => touched' = {cur} /\ cur \in Members(chain)
    BY <1>1, <1>2 DEF ViewsInv, Beginning
  <2>2. TypeOK'
    BY <1>1, <1>2 DEF viewVars, ViewsInv, QueuesIntact, TypeOK
  <2>3. QueuesIntact'
    BY <1>1, <2>2 DEF viewVars, ViewsInv, QueuesIntact
  <2>4. OneTouched'
    BY <1>2, <2>1 DEF ViewsInv, OneTouched
  <2>5. TouchInProgress' /\ Dispatching' /\ Painting' /\ Beginning'
    BY <1>1, <1>2 DEF ViewsInv, TouchInProgress, Dispatching, Painting, Beginning, Dispatches
  <2>6. TouchedIsShown'
    BY <1>1, <1>2, <2>1 DEF viewVars, ViewsInv, TouchedIsShown
  <2>7. TouchedIsAhead'
    BY <1>1, <1>2 DEF ViewsInv, OneTouched, TouchedIsAhead
  <2>8. QED
    BY <2>3, <2>4, <2>5, <2>6, <2>7 DEF ViewsInv
<1>3. CASE GoOn /\ touched' = touched /\ inHandler' = inHandler
           /\ (phase # "begin" => cur \notin touched)
  <2>1. GoOn /\ inHandler' = FALSE /\ touched' = touched
    BY <1>1, <1>3 DEF ViewsInv, QueuesIntact, TypeOK
  <2>2. phase = "end" => ~inHandler /\ cur \notin touched
    BY <1>1, <1>3
  <2>3. QED
    BY <1>1, <2>1, <2>2, GoOnInv
<1>4. QED
  BY <1>2, <1>3 DEF Respond

LEMMA HandlerReturnsInv == ViewsInv /\ HandlerReturns => ViewsInv'
<1> SUFFICES ASSUME ViewsInv, HandlerReturns PROVE ViewsInv'
  OBVIOUS
<1>1. /\ inHandler /\ inHandler' = FALSE /\ phase \in Dispatches
      /\ touched' = IF phase = "end" THEN touched \ {cur} ELSE touched
      /\ UNCHANGED <<viewVars, touchInProgress, active, pressed>>
  BY DEF HandlerReturns, ViewsInv, Dispatching
<1>2. CASE phase = "move"
  BY <1>1, <1>2, GoOnInv DEF HandlerReturns
<1>3. CASE phase # "move"
  <2>1. EndWalk
    BY <1>3 DEF HandlerReturns
  <2>2. phase = "end" => touched' = {}
    BY <1>1 DEF ViewsInv, TouchedIsAhead
  <2>3. TypeOK'
    BY <1>1, <2>1 DEF EndWalk, viewVars, ViewsInv, QueuesIntact, TypeOK, Phases
  <2>4. QueuesIntact'
    BY <1>1, <2>3 DEF viewVars, ViewsInv, QueuesIntact
  <2>5. OneTouched' /\ TouchInProgress'
    BY <1>1, <1>3, <2>1, <2>2 DEF EndWalk, ViewsInv, OneTouched, TouchInProgress, Dispatching,
       Dispatches
  <2>6. TouchedIsShown'
    BY <1>1, <2>2 DEF viewVars, ViewsInv, TouchedIsShown
  <2>7. TouchedIsAhead' /\ Beginning' /\ Dispatching' /\ Painting'
    BY <1>1, <2>1 DEF EndWalk, TouchedIsAhead, Beginning, Dispatching, Painting
  <2>8. QED
    BY <2>4, <2>5, <2>6, <2>7 DEF ViewsInv
<1>4. QED
  BY <1>2, <1>3

\* Steps of repainting, which no touch is in the middle of.
LEMMA RepaintKeeps ==
  ASSUME ViewsInv, phase \in {"idle", "refresh", "paint"},
         phase' \in {"idle", "refresh", "paint"}, QueuesIntact', Painting',
         UNCHANGED <<chain, touchVars, inHandler>>
  PROVE  ViewsInv'
<1>1. ~inHandler /\ touched \subseteq Members(chain)
  BY DEF ViewsInv, Dispatching, Dispatches, TouchedIsShown
<1>2. QED
  BY <1>1 DEF touchVars, ViewsInv, OneTouched, TouchInProgress, TouchedIsShown, TouchedIsAhead,
     Beginning, Dispatching

LEMMA RepaintScheduledViewsInv == ViewsInv /\ RepaintScheduledViews => ViewsInv'
<1> SUFFICES ASSUME ViewsInv, RepaintScheduledViews PROVE ViewsInv'
  OBVIOUS
<1>1. TypeOK'
  BY DEF RepaintScheduledViews, viewVars, touchVars, ViewsInv, QueuesIntact, TypeOK, Phases
<1>2. QueuesIntact' /\ Painting'
  BY <1>1 DEF RepaintScheduledViews, viewVars, ViewsInv, QueuesIntact, Painting
<1>3. QED
  BY <1>2, RepaintKeeps DEF RepaintScheduledViews, viewVars

LEMMA RepaintNextInv == ViewsInv /\ RepaintNext => ViewsInv'
<1> SUFFICES ASSUME ViewsInv, RepaintNext PROVE ViewsInv'
  OBVIOUS
<1>1. /\ phase = "refresh" /\ dirty \in Queues /\ IsQueue(dirty)
      /\ UNCHANGED <<alive, chain, visible, isDirty, touchVars, inHandler>>
  BY DEF RepaintNext, ViewsInv, QueuesIntact, TypeOK
<1>2. CASE dirty.top = NULL
  <2>1. phase' = "idle" /\ UNCHANGED <<dirty, cur, unpainted>>
    BY <1>2 DEF RepaintNext
  <2>2. TypeOK'
    BY <1>1, <2>1 DEF touchVars, ViewsInv, QueuesIntact, TypeOK, Phases
  <2>3. QueuesIntact' /\ Painting'
    BY <1>1, <2>1, <2>2 DEF ViewsInv, QueuesIntact, Painting
  <2>4. QED
    BY <1>1, <2>1, <2>3, RepaintKeeps
<1>3. CASE dirty.top # NULL
  <2>1. PICK v : v = dirty.top
    OBVIOUS
  <2>2. v \in Members(dirty) /\ v \in Items
    BY <1>1, <1>3, <2>1, LinksOfMembers
  <2>3. PICK D : D = Dequeue(dirty)
    OBVIOUS
  <2>4. D \in Queues /\ IsQueue(D) /\ Members(D) = Members(dirty) \ {v}
    BY <1>1, <2>1, <2>3, DequeueLeaves
  <2>5. /\ dirty' = [D EXCEPT !.next[v] = NULL]
        /\ \/ v \in isDirty /\ phase' = "paint" /\ cur' = v /\ unpainted' = unpainted \ {v}
           \/ UNCHANGED <<phase, cur, unpainted>>
    BY <1>3, <2>1, <2>3 DEF RepaintNext
  <2>6. dirty' = [top |-> D.top, end |-> D.end, next |-> [D.next EXCEPT ![v] = NULL]]
    BY <2>4, <2>5 DEF Queues
  <2>7. dirty' \in Queues
    BY <2>2, <2>4, <2>6 DEF Queues, ItemPointer
  <2>8. IsQueue(dirty') /\ Members(dirty') = Members(dirty) \ {v}
    <3>1. Members(D) \subseteq Items
      BY DEF Members
    <3>2. dirty'.top = D.top /\ dirty'.end = D.end
          /\ \A t \in Members(D) : dirty'.next[t] = D.next[t]
      BY <2>2, <2>4, <2>6, <3>1 DEF Queues
    <3>3. IsQueue(dirty') /\ Members(dirty') = Members(D)
      BY <2>4, <3>2, LinksElsewhere
    <3>4. QED
      BY <2>4, <3>3
  <2>9. TypeOK'
    BY <1>1, <2>2, <2>5, <2>7 DEF touchVars, ViewsInv, QueuesIntact, TypeOK, Phases
  <2>10. QueuesIntact'
    BY <1>1, <2>8, <2>9 DEF ViewsInv, QueuesIntact
  <2>11. Painting'
    BY <1>1, <2>5, <2>8 DEF Painting
  <2>12. QED
    BY <1>1, <2>5, <2>10, <2>11, RepaintKeeps
<1>4. QED
  BY <1>2, <1>3

LEMMA RepaintReturnsInv == ViewsInv /\ RepaintReturns => ViewsInv'
<1> SUFFICES ASSUME ViewsInv, RepaintReturns PROVE ViewsInv'
  OBVIOUS
<1>1. TypeOK'
  BY DEF RepaintReturns, touchVars, ViewsInv, QueuesIntact, TypeOK, Phases
<1>2. QueuesIntact' /\ Painting'
  BY <1>1 DEF RepaintReturns, ViewsInv, QueuesIntact, Painting
<1>3. QED
  BY <1>2, RepaintKeeps DEF RepaintReturns
-----------------------------------------------------------------------------
(* The theorems.                                                           *)

LEMMA ViewsNextInv == ASSUME Liberties = {} PROVE ViewsInv /\ [Next]_vars => ViewsInv'
<1> SUFFICES ASSUME ViewsInv, [Next]_vars PROVE ViewsInv'
  OBVIOUS
<1>1. active \in BOOLEAN /\ pressed \in BOOLEAN
  BY DEF ViewsInv, QueuesIntact, TypeOK
<1>2. CASE \E v \in Items : New(v) \/ ScheduleRepaint(v) \/ Show(v) \/ Hide(v) \/ Destroy(v)
  BY <1>2, NewInv, ScheduleRepaintInv, ShowInv, HideInv, DestroyInv
<1>3. CASE SwitchTouch
  BY <1>1, <1>3, WalkUntouched DEF SwitchTouch
<1>4. CASE FingerMoves
  BY <1>1, <1>4, WalkUntouched DEF FingerMoves
<1>5. CASE ProcessTouchInput
  BY <1>5, ProcessTouchInputInv
<1>6. CASE Respond
  BY <1>6, RespondInv
<1>7. CASE HandlerReturns
  BY <1>7, HandlerReturnsInv
<1>8. CASE RepaintScheduledViews \/ RepaintNext \/ RepaintReturns
  BY <1>8, RepaintScheduledViewsInv, RepaintNextInv, RepaintReturnsInv
<1>9. CASE UNCHANGED vars
  BY <1>1, <1>9, WalkUntouched DEF vars, touchVars
<1>10. QED
  BY <1>2, <1>3, <1>4, <1>5, <1>6, <1>7, <1>8, <1>9 DEF Next, Client

\* The invariant holds as long as clients hide views before they destroy
\* them, and neither while they are touched nor in their own repaint().
THEOREM ViewsInvHolds == ASSUME Liberties = {} PROVE Spec => []ViewsInv
<1>1. Init => ViewsInv
  BY ViewsInitInv
<1>2. ViewsInv /\ [Next]_vars => ViewsInv'
  BY ViewsNextInv
<1>3. QED
  BY <1>1, <1>2, PTL DEF Spec

\* Whatever handlers and repaint() do to the queues while they are walked, the
\* chain holds the shown views and the dirty queue holds dirty ones.
THEOREM ViewQueuesStayIntact == ASSUME Liberties = {} PROVE Spec => []QueuesIntact
<1>1. ViewsInv => QueuesIntact
  BY DEF ViewsInv
<1>2. QED
  BY <1>1, ViewsInvHolds, PTL

\* A touch that has begun in a view ends there, whatever handlers show and
\* hide in between: no two views believe to be touched, and none afterwards.
THEOREM TouchesArePaired == ASSUME Liberties = {} PROVE Spec => []TouchesPaired
<1>1. ViewsInv => TouchesPaired
  <2> SUFFICES ASSUME ViewsInv PROVE TouchesPaired
    OBVIOUS
  <2>1. Cardinality(touched) <= 1
    <3>1. CASE touched = {}
      BY <3>1, FS_EmptySet
    <3>2. CASE touched # {}
      <4>1. PICK v : touched = {v}
        BY <3>2 DEF ViewsInv, OneTouched
      <4>2. QED
        BY <4>1, FS_Singleton
    <3>3. QED
      BY <3>1, <3>2
  <2>2. QED
    BY <2>1 DEF ViewsInv, TouchInProgress, TouchesPaired
<1>2. QED
  BY <1>1, ViewsInvHolds, PTL
=============================================================================
