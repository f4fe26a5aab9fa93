------------------------------ MODULE TaskList ------------------------------
(***************************************************************************)
(* The doubly linked, intrusive list in which the run loop of the mono    *)
(* framework keeps its dynamic tasks.  The links live in the task objects  *)
(* themselves (IRunLoopTask::nextTask, previousTask); the loop only owns   *)
(* the pointer to the first task.                                          *)
(*                                                                         *)
(* A list is a value [head, next, prev] and every operation of AppRunLoop  *)
(* that rewrites links is a function on such values, so that a caller that *)
(* performs several of them in a row (Timer::setInterval) composes them.   *)
(***************************************************************************)
EXTENDS Naturals, FiniteSets

CONSTANTS
  Tasks,   \* the memory blocks in which task objects live
  NULL     \* the null pointer

ASSUME TasksAssumption == IsFiniteSet(Tasks) /\ NULL \notin Tasks

Pointer == Tasks \cup {NULL}

\* taskQueueHead and the two link fields of every task.
Lists == [head : Pointer, next : [Tasks -> Pointer], prev : [Tasks -> Pointer]]

\* The sets that contain the first task and the successor of each member.
ClosedSets(L) ==
  {S \in SUBSET Tasks :
     /\ L.head # NULL => L.head \in S
     /\ \A t \in S : L.next[t] # NULL => L.next[t] \in S}

\* The tasks a walk along nextTask from taskQueueHead comes across: the
\* members of every closed set.
Installed(L) == LET closed == ClosedSets(L)
                IN  {t \in Tasks : \A S \in closed : t \in S}

\* Where the walk of addDynamicTask ends.
LastTask(L) == CHOOSE t \in Installed(L) : L.next[t] = NULL

\* addDynamicTask returns false: the walk compares the task with every
\* task of the list but the last.
FoundByAdd(L, t) == t \in Installed(L) /\ L.next[t] # NULL

\* Bug: the task is put in front of the others.
AddDynamicTask_InFront(L, t) ==
  IF L.head = NULL
    THEN [head |-> t,
          next |-> [L.next EXCEPT ![t] = NULL],
          prev |-> [L.prev EXCEPT ![t] = NULL]]
  ELSE IF FoundByAdd(L, t) THEN L
  ELSE [head |-> t,
        next |-> [L.next EXCEPT ![t] = L.head],
        prev |-> [L.prev EXCEPT ![L.head] = t, ![t] = NULL]]

\* AppRunLoop::addDynamicTask.  When t is itself the last task, the two
\* assignments to nextTask hit the same field and previousTask becomes t.
AddDynamicTask(L, t) ==
  IF L.head = NULL
    THEN [head |-> t,
          next |-> [L.next EXCEPT ![t] = NULL],
          prev |-> [L.prev EXCEPT ![t] = NULL]]
  ELSE IF FoundByAdd(L, t) THEN L
  ELSE [head |-> L.head,
        next |-> [L.next EXCEPT ![LastTask(L)] = t, ![t] = NULL],
        prev |-> [L.prev EXCEPT ![t] = LastTask(L)]]

\* nextTask after the first assignment of removeTaskInQueue.
BypassedNext(L, t) ==
  IF L.prev[t] = NULL THEN L.next ELSE [L.next EXCEPT ![L.prev[t]] = L.next[t]]

\* Bug: the successor's previousTask is not rewritten.
RemoveTaskInQueue_PrevKept(L, t) ==
  LET next == BypassedNext(L, t)
  IN  [head |-> IF L.head = t THEN next[t] ELSE L.head, next |-> next, prev |-> L.prev]

\* Bug: taskQueueHead is not moved on.
RemoveTaskInQueue_HeadKept(L, t) ==
  LET next == BypassedNext(L, t)
  IN  [head |-> L.head, next |-> next,
       prev |-> IF next[t] = NULL THEN L.prev
                ELSE [L.prev EXCEPT ![next[t]] = L.prev[t]]]

\* AppRunLoop::removeTaskInQueue: the neighbours are sewn together and the
\* links of t itself keep their values.  It does not look whether t is in
\* the list.
RemoveTaskInQueue(L, t) ==
  LET next == BypassedNext(L, t)
  IN  [head |-> IF L.head = t THEN next[t] ELSE L.head,
       next |-> next,
       prev |-> IF next[t] = NULL THEN L.prev
                ELSE [L.prev EXCEPT ![next[t]] = L.prev[t]]]

\* Bug: the search ends in front of the last task, as addDynamicTask's does.
RemoveDynamicTask_LastMissed(L, t) ==
  IF FoundByAdd(L, t) THEN RemoveTaskInQueue(L, t) ELSE L

\* AppRunLoop::removeDynamicTask: a search, then the unlinking.  It returns
\* t \in Installed(L).
RemoveDynamicTask(L, t) ==
  IF t \in Installed(L) THEN RemoveTaskInQueue(L, t) ELSE L

-----------------------------------------------------------------------------
\* Sequences of tasks without repetition.
Orders == {s \in UNION {[1..n -> Tasks] : n \in 0..Cardinality(Tasks)} :
             \A i, j \in DOMAIN s : s[i] = s[j] => i = j}

\* s lists the tasks of L from first to last, and the links in both
\* directions agree with it.
IsOrder(L, s) ==
  /\ L.head = (IF DOMAIN s = {} THEN NULL ELSE s[1])
  /\ \A i \in DOMAIN s :
       /\ L.next[s[i]] = (IF i + 1 \in DOMAIN s THEN s[i + 1] ELSE NULL)
       /\ L.prev[s[i]] = (IF i - 1 \in DOMAIN s THEN s[i - 1] ELSE NULL)

\* L is the image of some sequence of distinct tasks.
WellLinked(L) == \E s \in Orders : IsOrder(L, s)

\* That sequence.
OrderOf(L) == CHOOSE s \in Orders : IsOrder(L, s)
=============================================================================
