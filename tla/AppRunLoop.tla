----------------------------- MODULE AppRunLoop -----------------------------
(***************************************************************************)
(* mono::AppRunLoop: the cooperative scheduler of the framework.  One main *)
(* context calls taskHandler() of each task of the list in turn, over and  *)
(* over; handlers, and the code that runs between two passes (set-up,      *)
(* touch handling, scheduled tasks), add, remove, destroy and create tasks.*)
(***************************************************************************)
EXTENDS TaskList

CONSTANTS
  SingleShot,  \* tasks whose singleShot field is true
  Garbage,     \* what the link fields of a new task may contain
  Liberties    \* what client code may do, a subset of AllLiberties

\* "readdLast": add a task that is already installed and is the last one.
\* "destroyAfterLeaving": destroy another task from the handler of a task that
\*    has left the list.
\* "removeSingleShot": remove a single-shot task that is being handled or
\*    that the pass may still come across.
AllLiberties == {"readdLast", "destroyAfterLeaving", "removeSingleShot"}

ASSUME ClientAssumption ==
  /\ SingleShot \subseteq Tasks
  /\ Garbage \subseteq Pointer
  /\ Liberties \subseteq AllLiberties

VARIABLES
  list,     \* the task list
  cursor,   \* the task whose handler runs, NULL outside a pass
  alive     \* the blocks that hold a constructed task object

vars == <<list, cursor, alive>>

TypeOK ==
  /\ list \in Lists
  /\ cursor \in Pointer
  /\ alive \in SUBSET Tasks

\* No constructor of a task writes the links: they start as garbage.
Init ==
  /\ list \in [head : {NULL}, next : [Tasks -> Garbage], prev : [Tasks -> Garbage]]
  /\ cursor = NULL
  /\ alive = {}

-----------------------------------------------------------------------------
(* The loop.                                                               *)

\* processDynamicTaskQueue, up to the first call of a handler.
BeginPass ==
  /\ cursor = NULL
  /\ list.head # NULL
  /\ cursor' = list.head
  /\ UNCHANGED <<list, alive>>

\* Bug: at the end of the list the pass begins again.
HandlerReturns_Wraps ==
  /\ cursor # NULL
  /\ list' = IF cursor \in SingleShot THEN RemoveTaskInQueue(list, cursor) ELSE list
  /\ cursor' = IF list'.next[cursor] = NULL THEN list'.head ELSE list'.next[cursor]
  /\ UNCHANGED alive

\* Bug: a pass handles the first task only.
HandlerReturns_FirstOnly ==
  /\ cursor # NULL
  /\ list' = IF cursor \in SingleShot THEN RemoveTaskInQueue(list, cursor) ELSE list
  /\ cursor' = NULL
  /\ UNCHANGED alive

\* processDynamicTaskQueue, from the return of one handler to the call of
\* the next: a single-shot task is unlinked, then the pass follows the
\* nextTask field of the task it has just handled, installed or not.
HandlerReturns ==
  /\ cursor # NULL
  /\ list' = IF cursor \in SingleShot THEN RemoveTaskInQueue(list, cursor) ELSE list
  /\ cursor' = list'.next[cursor]
  /\ UNCHANGED alive

-----------------------------------------------------------------------------
(* Client code, inside a handler or between two passes.                    *)

\* The task being handled has left the list: where the pass goes next depends
\* on links that are no longer maintained.
CursorLeft == cursor # NULL /\ cursor \notin Installed(list)

MayLeave(t) ==
  "removeSingleShot" \in Liberties \/ t \notin SingleShot \/ ~(t = cursor \/ CursorLeft)

\* new: the block is reused with whatever its link fields contain.  Bound: the
\* block of a task whose handler is still running is not reused before the
\* handler returns (the pass would go on along the links of the new object).
Construct(t) ==
  /\ t \notin alive
  /\ t # cursor
  /\ alive' = alive \cup {t}
  /\ \E n, p \in Garbage :
       list' = [list EXCEPT !.next[t] = n, !.prev[t] = p]
  /\ UNCHANGED cursor

Add(t) ==
  /\ t \in alive
  /\ "readdLast" \in Liberties \/ t \notin Installed(list) \/ FoundByAdd(list, t)
  /\ list' = AddDynamicTask(list, t)
  /\ UNCHANGED <<cursor, alive>>

Remove(t) ==
  /\ t \in alive
  /\ MayLeave(t)
  /\ list' = RemoveDynamicTask(list, t)
  /\ UNCHANGED <<cursor, alive>>

\* Bug: the destructor leaves the task in the list.
Destroy_StaysInList(t) ==
  /\ t \in alive
  /\ "destroyAfterLeaving" \in Liberties \/ t = cursor \/ ~CursorLeft
  /\ MayLeave(t)
  /\ alive' = alive \ {t}
  /\ UNCHANGED <<list, cursor>>

\* delete: the destructor takes the task out of the list first (~Timer,
\* ~QueueInterrupt).  A task may do this to itself at the end of its handler
\* (Timer with autoRelease).
Destroy(t) ==
  /\ t \in alive
  /\ "destroyAfterLeaving" \in Liberties \/ t = cursor \/ ~CursorLeft
  /\ MayLeave(t)
  /\ list' = RemoveDynamicTask(list, t)
  /\ alive' = alive \ {t}
  /\ UNCHANGED cursor

Client == \E t \in Tasks : Construct(t) \/ Add(t) \/ Remove(t) \/ Destroy(t)

Next == BeginPass \/ HandlerReturns \/ Client

\* The loop never blocks and handlers return; clients owe nothing.
Fairness == WF_vars(BeginPass) /\ WF_vars(HandlerReturns)

Spec == Init /\ [][Next]_vars
FairSpec == Spec /\ Fairness

-----------------------------------------------------------------------------
(* Properties.                                                             *)

\* The links of the installed tasks form one list, the same read forwards
\* and backwards, whatever the blocks outside it contain, and every task in
\* it is alive: neither the pass nor addDynamicTask's walk can get lost.
ListIntact ==
  /\ WellLinked(list)
  /\ Installed(list) \subseteq alive

\* The pass may only follow nextTask of a task that has left the list
\* ("we can still use the tasks next pointer, even if its not in the list
\* anymore") if this leads to a task object that still exists.
PassStaysOnLiveTasks ==
  cursor # NULL =>
    LET next == list.next[cursor]
    IN  next # NULL => next \in alive

\* s lists the tasks the pass will still visit before it comes back to an
\* installed one, when the task being handled has left the list: tasks that
\* have left it too, but still exist.
IsTrail(s) ==
  /\ 1 \in DOMAIN s /\ s[1] = cursor
  /\ \A i \in DOMAIN s :
       /\ s[i] \notin Installed(list) /\ s[i] \notin SingleShot
       /\ i # 1 => s[i] \in alive
       /\ IF i + 1 \in DOMAIN s THEN list.next[s[i]] = s[i + 1]
          ELSE list.next[s[i]] \in Installed(list) \cup {NULL}

\* The inductive invariant behind the two invariants above.
IInv ==
  /\ TypeOK
  /\ ListIntact
  /\ CursorLeft => \E s \in Orders : IsTrail(s)

\* removeDynamicTask takes the task it is given out of the list ("true if the
\* object was found and removed"), however it got there, and no other task.
RemoveRemoves ==
  \A t \in Tasks : Installed(RemoveDynamicTask(list, t)) = Installed(list) \ {t}

\* A pass over the list ends, so that touch input and scheduled tasks get
\* their turn, unless handlers keep adding tasks behind it.
PassEnds ==
  <>[][cursor # NULL => \A t \in Tasks : ~Add(t)]_vars => []<>(cursor = NULL)

\* Provided passes end, every installed task is handled again or somebody
\* removes it, whatever the handlers of the other tasks add and remove.
InstalledTaskRuns ==
  []<>(cursor = NULL) =>
    \A t \in Tasks : t \in Installed(list) ~> (cursor = t \/ t \notin Installed(list))

\* The list of links implements the queue of TaskQueue.
Queue == INSTANCE TaskQueue WITH queue <- OrderOf(list), cursor <- cursor
QueueSpec == Queue!Spec
=============================================================================
