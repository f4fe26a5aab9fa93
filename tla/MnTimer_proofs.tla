----------------------------- MODULE MnTimer_proofs ----------------------------
(***************************************************************************)
(* Proofs about mono::Timer: a running timer is an installed, living task, *)
(* its callbacks are accounted for, and timers use the run loop as         *)
(* AppRunLoop lets its clients use it.  And about a client of the timers,  *)
(* PowerSaver: what a touch has begun to restore is restored.              *)
(***************************************************************************)
EXTENDS MnTimer, FiniteSetTheorems, TLAPS

\* What is proved of the run loop.
RunLoop == INSTANCE AppRunLoop_proofs WITH SingleShot <- {}

\* Where the main context is: outside a pass, or in the handler of the task at
\* the cursor.  Only client code restarts a timer.
Context ==
  /\ stage = "between" <=> cursor = NULL
  /\ restarting # NULL => stage \in {"between", "callback"}

\* The timers that the code in the middle of a method goes on using are alive.
Used ==
  /\ restarting # NULL => restarting \in alive
  /\ stage = "matched" => cursor \in alive
  /\ stage = "callback" /\ kind[cursor] = "callOnce" => cursor \in alive

\* The flag is up for a reason, and nobody lowers it before the callback.
Accounted ==
  /\ \A t \in Tasks : fired[t] => credit[t] # "none"
  /\ stage = "matched" => fired[cursor]

\* The inductive invariant.
TimerInv == RunningIsInstalled /\ WellLinked(list) /\ Context /\ Used /\ Accounted

-----------------------------------------------------------------------------
(* Lemmas.                                                                 *)

\* The operations on the list that the proofs are about are those of the timers.
LEMMA SameOperators ==
  ASSUME NEW L, NEW t
  PROVE  /\ RunLoop!Installed(L) = Installed(L)
         /\ RunLoop!FoundByAdd(L, t) = FoundByAdd(L, t)
         /\ RunLoop!AddDynamicTask(L, t) = AddDynamicTask(L, t)
         /\ RunLoop!RemoveDynamicTask(L, t) = RemoveDynamicTask(L, t)
<1>1. RunLoop!Installed(L) = Installed(L)
  BY DEF RunLoop!Installed, Installed, RunLoop!ClosedSets, ClosedSets
<1>2. RunLoop!FoundByAdd(L, t) = FoundByAdd(L, t) /\ RunLoop!LastTask(L) = LastTask(L)
  BY <1>1 DEF RunLoop!FoundByAdd, FoundByAdd, RunLoop!LastTask, LastTask
<1>3. RunLoop!RemoveTaskInQueue(L, t) = RemoveTaskInQueue(L, t)
  BY DEF RunLoop!RemoveTaskInQueue, RemoveTaskInQueue, RunLoop!BypassedNext, BypassedNext
<1>4. RunLoop!AddDynamicTask(L, t) = AddDynamicTask(L, t)
  BY <1>2 DEF RunLoop!AddDynamicTask, AddDynamicTask
<1>5. QED
  BY <1>1, <1>2, <1>3, <1>4 DEF RunLoop!RemoveDynamicTask, RemoveDynamicTask

LEMMA SameLists ==
  /\ RunLoop!Lists = Lists
  /\ \A L : RunLoop!WellLinked(L) <=> WellLinked(L)
<1>1. RunLoop!Lists = Lists
  BY DEF RunLoop!Lists, Lists, RunLoop!Pointer, Pointer
<1>2. RunLoop!Orders = Orders
  BY DEF RunLoop!Orders, Orders, RunLoop!Cardinality, Cardinality
<1>3. ASSUME NEW L, NEW s PROVE RunLoop!IsOrder(L, s) <=> IsOrder(L, s)
  BY SameOperators DEF RunLoop!IsOrder, IsOrder
<1>4. QED
  BY <1>1, <1>2, <1>3 DEF RunLoop!WellLinked, WellLinked

\* The assumptions of the run loop hold of the timers.
LEMMA LoopAssumptions ==
  /\ RunLoop!IsFiniteSet(Tasks) /\ NULL \notin Tasks
  /\ {} \subseteq Tasks /\ Garbage \subseteq RunLoop!Pointer
  /\ Liberties \subseteq RunLoop!AllLiberties
<1>1. RunLoop!IsFiniteSet(Tasks) /\ NULL \notin Tasks
  BY TasksAssumption DEF RunLoop!IsFiniteSet, IsFiniteSet
<1>2. /\ {} \subseteq Tasks /\ Garbage \subseteq RunLoop!Pointer
      /\ Liberties \subseteq RunLoop!AllLiberties
  BY TimerAssumption DEF Pointer, RunLoop!Pointer, RunLoop!AllLiberties
<1>3. QED
  BY <1>1, <1>2

\* What lies in the link fields of other blocks does not matter.
LEMMA LinksElsewhere ==
  ASSUME NEW L \in Lists, WellLinked(L), NEW M \in Lists, M.head = L.head,
         \A t \in Installed(L) : M.next[t] = L.next[t] /\ M.prev[t] = L.prev[t]
  PROVE  WellLinked(M) /\ Installed(M) = Installed(L)
<1>1. L \in RunLoop!Lists /\ M \in RunLoop!Lists /\ RunLoop!WellLinked(L)
  BY SameLists
<1>2. \A t \in RunLoop!Installed(L) : M.next[t] = L.next[t] /\ M.prev[t] = L.prev[t]
  BY SameOperators
<1>3. RunLoop!WellLinked(M) /\ RunLoop!Installed(M) = RunLoop!Installed(L)
  BY <1>1, <1>2, LoopAssumptions, RunLoop!LinksElsewhere
<1>4. QED
  BY <1>3, SameLists, SameOperators

\* addDynamicTask of a task that its walk finds, or that is not installed.
LEMMA AddInstalls ==
  ASSUME NEW L \in Lists, WellLinked(L), NEW t \in Tasks,
         t \notin Installed(L) \/ FoundByAdd(L, t)
  PROVE  /\ AddDynamicTask(L, t) \in Lists
         /\ WellLinked(AddDynamicTask(L, t))
         /\ Installed(AddDynamicTask(L, t)) = Installed(L) \cup {t}
<1>1. /\ L \in RunLoop!Lists /\ RunLoop!WellLinked(L)
      /\ t \notin RunLoop!Installed(L) \/ RunLoop!FoundByAdd(L, t)
  BY SameLists, SameOperators
<1>2. /\ RunLoop!AddDynamicTask(L, t) \in RunLoop!Lists
      /\ RunLoop!WellLinked(RunLoop!AddDynamicTask(L, t))
      /\ RunLoop!Installed(RunLoop!AddDynamicTask(L, t)) = RunLoop!Installed(L) \cup {t}
  BY <1>1, LoopAssumptions, RunLoop!AddInstalls
<1>3. QED
  BY <1>2, SameLists, SameOperators

\* removeDynamicTask of any task.
LEMMA RemoveUninstalls ==
  ASSUME NEW L \in Lists, WellLinked(L), NEW t \in Tasks
  PROVE  /\ RemoveDynamicTask(L, t) \in Lists
         /\ WellLinked(RemoveDynamicTask(L, t))
         /\ Installed(RemoveDynamicTask(L, t)) = Installed(L) \ {t}
BY LoopAssumptions, SameLists, SameOperators, RunLoop!RemoveUninstalls

\* A list without a first task, as the run loop starts with.
LEMMA EmptyList ==
  ASSUME NEW L \in Lists, L.head = NULL
  PROVE  WellLinked(L) /\ Installed(L) = {}
BY LoopAssumptions, SameLists, SameOperators, RunLoop!EmptyList

\* What TypeOK says of the variables that most steps read.
LEMMA Types ==
  TypeOK <=> /\ list \in Lists /\ cursor \in Pointer /\ alive \in SUBSET Tasks
             /\ stage \in Stages /\ restarting \in Pointer
             /\ kind \in [Tasks -> Kinds] /\ running \in [Tasks -> BOOLEAN]
             /\ fired \in [Tasks -> BOOLEAN] /\ interval \in [Tasks -> Intervals]
             /\ attached \in [Tasks -> BOOLEAN] /\ credit \in [Tasks -> Credits]
BY DEF TypeOK, Loop!TypeOK, Loop!Lists, Loop!Pointer, Lists, Pointer

\* The same of the state after a step.
LEMMA TypesAfter ==
  /\ list' \in Lists /\ cursor' \in Pointer /\ alive' \in SUBSET Tasks
  /\ stage' \in Stages /\ restarting' \in Pointer
  /\ kind' \in [Tasks -> Kinds] /\ running' \in [Tasks -> BOOLEAN]
  /\ fired' \in [Tasks -> BOOLEAN] /\ interval' \in [Tasks -> Intervals]
  /\ attached' \in [Tasks -> BOOLEAN] /\ credit' \in [Tasks -> Credits]
  => TypeOK'
BY DEF TypeOK, Loop!TypeOK, Loop!Lists, Loop!Pointer, Lists, Pointer

\* No timer exists yet.
LEMMA TimerInitInv == Init => TimerInv
<1> SUFFICES ASSUME Init PROVE TimerInv
  OBVIOUS
<1>1. list \in Lists /\ list.head = NULL
  BY TimerAssumption DEF Init, Loop!Init, Lists, Pointer
<1>2. WellLinked(list) /\ Installed(list) = {}
  BY <1>1, EmptyList
<1>3. TypeOK
  BY <1>1, Types, TimerAssumption
     DEF Init, Loop!Init, Pointer, Stages, Kinds, Credits
<1>4. \A t \in Tasks : ~running[t] /\ ~attached[t] /\ ~fired[t]
  BY DEF Init
<1>5. RunningIsInstalled
  BY <1>2, <1>3, <1>4 DEF RunningIsInstalled
<1>6. Context /\ Used /\ Accounted
  BY <1>4 DEF Init, Loop!Init, Context, Used, Accounted
<1>7. QED
  BY <1>2, <1>5, <1>6 DEF TimerInv

-----------------------------------------------------------------------------
(* The steps of client code.                                               *)

\* start() of a living timer that is stopped, or that addDynamicTask finds.
LEMMA StartBodyInv ==
  ASSUME TimerInv, NEW t \in Tasks, t \in alive,
         t \notin Installed(list) \/ FoundByAdd(list, t),
         StartBody(t)
  PROVE  /\ list' \in Lists /\ WellLinked(list')
         /\ running' \in [Tasks -> BOOLEAN] /\ fired' \in [Tasks -> BOOLEAN]
         /\ attached' \in [Tasks -> BOOLEAN] /\ credit' \in [Tasks -> Credits]
         /\ \A u \in Tasks : u \in Installed(list') <=> running'[u]
         /\ \A u \in Tasks : running'[u] <=> running[u] \/ u = t
         /\ \A u \in Tasks : attached'[u] => attached[u] \/ u = t
         /\ \A u \in Tasks : fired'[u] => credit'[u] # "none"
         /\ \A u \in Tasks : fired[u] => fired'[u]
<1> USE DEF StartBody
<1>1. TypeOK /\ list \in Lists /\ WellLinked(list)
  BY Types DEF TimerInv, RunningIsInstalled
<1>2. /\ list' \in Lists /\ WellLinked(list')
      /\ Installed(list') = Installed(list) \cup {t}
  BY <1>1, AddInstalls
<1>3. /\ running' = [running EXCEPT ![t] = TRUE] /\ running \in [Tasks -> BOOLEAN]
      /\ attached \in [Tasks -> BOOLEAN] /\ fired \in [Tasks -> BOOLEAN]
      /\ credit \in [Tasks -> Credits]
  BY <1>1, Types
<1>4. \A u \in Tasks : running'[u] <=> running[u] \/ u = t
  BY <1>3
<1>5. \A u \in Tasks : u \in Installed(list') <=> running'[u]
  BY <1>2, <1>4 DEF TimerInv, RunningIsInstalled
<1>6. \A u \in Tasks : fired[u] => credit[u] # "none"
  BY DEF TimerInv, Accounted
<1>7. CASE interval[t] > 0
  <2>1. attached' = [attached EXCEPT ![t] = TRUE] /\ fired' = fired
    BY <1>7
  <2>2. credit' = [credit EXCEPT ![t] = IF fired[t] THEN "leftover" ELSE "none"]
    BY <1>7
  <2>3. \A u \in Tasks : fired'[u] => credit'[u] # "none"
    BY <1>3, <1>6, <2>1, <2>2
  <2>4. credit' \in [Tasks -> Credits] /\ \A u \in Tasks : attached'[u] => attached[u] \/ u = t
    BY <1>3, <2>1, <2>2 DEF Credits
  <2>5. attached' \in [Tasks -> BOOLEAN] /\ running' \in [Tasks -> BOOLEAN]
    BY <1>3, <2>1
  <2>6. QED
    BY <1>2, <1>3, <1>4, <1>5, <2>1, <2>3, <2>4, <2>5
<1>8. CASE ~(interval[t] > 0)
  <2>1. fired' = [fired EXCEPT ![t] = TRUE] /\ attached' = attached
    BY <1>8
  <2>2. credit' = [credit EXCEPT ![t] = "elapsed"]
    BY <1>8
  <2>3. \A u \in Tasks : fired'[u] <=> fired[u] \/ u = t
    BY <1>3, <2>1
  <2>4. \A u \in Tasks : fired'[u] => credit'[u] # "none"
    BY <1>3, <1>6, <2>2, <2>3
  <2>5. credit' \in [Tasks -> Credits] /\ fired' \in [Tasks -> BOOLEAN]
    BY <1>3, <2>1, <2>2 DEF Credits
  <2>6. running' \in [Tasks -> BOOLEAN]
    BY <1>3
  <2>7. QED
    BY <1>2, <1>3, <1>4, <1>5, <2>1, <2>3, <2>4, <2>5, <2>6
<1>9. QED
  BY <1>7, <1>8

\* stop() of any timer.
LEMMA StopBodyInv ==
  ASSUME TimerInv, NEW t \in Tasks, StopBody(t)
  PROVE  /\ list' \in Lists /\ WellLinked(list')
         /\ running' \in [Tasks -> BOOLEAN] /\ attached' \in [Tasks -> BOOLEAN]
         /\ \A u \in Tasks : u \in Installed(list') <=> running'[u]
         /\ \A u \in Tasks : running'[u] <=> running[u] /\ u # t
         /\ \A u \in Tasks : attached'[u] <=> attached[u] /\ u # t
<1>1. /\ list \in Lists /\ WellLinked(list)
      /\ running \in [Tasks -> BOOLEAN] /\ attached \in [Tasks -> BOOLEAN]
  BY Types DEF TimerInv, RunningIsInstalled
<1>2. /\ list' \in Lists /\ WellLinked(list')
      /\ Installed(list') = Installed(list) \ {t}
  BY <1>1, RemoveUninstalls DEF StopBody
<1>3. running' = [running EXCEPT ![t] = FALSE] /\ attached' = [attached EXCEPT ![t] = FALSE]
  BY DEF StopBody
<1>4. \A u \in Tasks : running'[u] <=> running[u] /\ u # t
  BY <1>1, <1>3
<1>5. \A u \in Tasks : attached'[u] <=> attached[u] /\ u # t
  BY <1>1, <1>3
<1>6. \A u \in Tasks : u \in Installed(list') <=> running'[u]
  BY <1>2, <1>4 DEF TimerInv, RunningIsInstalled
<1>7. running' \in [Tasks -> BOOLEAN] /\ attached' \in [Tasks -> BOOLEAN]
  BY <1>1, <1>3
<1>8. QED
  BY <1>2, <1>4, <1>5, <1>6, <1>7

\* The destructor: it leaves the list alone if the timer is not running, and
\* then the timer is not installed, so that it amounts to a removal.
LEMMA DeleteBodyStops ==
  ASSUME TimerInv, NEW t \in Tasks, DeleteBody(t)
  PROVE  StopBody(t) /\ alive' = alive \ {t}
BY DEF DeleteBody, StopBody, TimerInv, RunningIsInstalled, RemoveDynamicTask

\* new: a block that no timer lives in is used.
LEMMA NewInv == ASSUME NEW t \in Tasks PROVE TimerInv /\ New(t) => TimerInv'
<1> SUFFICES ASSUME TimerInv, New(t) PROVE TimerInv'
  OBVIOUS
<1>1. /\ t \notin alive /\ t # cursor /\ alive' = alive \cup {t} /\ cursor' = cursor
      /\ \E n, p \in Garbage : list' = [list EXCEPT !.next[t] = n, !.prev[t] = p]
  BY DEF New, Loop!Construct
<1>2. TypeOK /\ ~running[t] /\ ~attached[t] /\ t \notin Installed(list)
  BY <1>1 DEF TimerInv, RunningIsInstalled
<1>3. list \in Lists /\ WellLinked(list) /\ Installed(list) \subseteq Tasks
  BY <1>2, Types DEF TimerInv, Installed
<1>4. /\ list' \in Lists /\ list'.head = list.head
      /\ \A u \in Tasks \ {t} : list'.next[u] = list.next[u] /\ list'.prev[u] = list.prev[u]
  <2>1. PICK n \in Garbage, p \in Garbage : list' = [list EXCEPT !.next[t] = n, !.prev[t] = p]
    BY <1>1
  <2>2. n \in Pointer /\ p \in Pointer
    BY TimerAssumption
  <2>3. QED
    BY <1>3, <2>1, <2>2 DEF Lists
<1>5. WellLinked(list') /\ Installed(list') = Installed(list)
  BY <1>2, <1>3, <1>4, LinksElsewhere
<1>6. /\ \E k \in Kinds : kind' = [kind EXCEPT ![t] = k]
      /\ running' = [running EXCEPT ![t] = FALSE]
      /\ fired' = [fired EXCEPT ![t] = FALSE]
      /\ \E i \in Intervals : interval' = [interval EXCEPT ![t] = i]
      /\ credit' = [credit EXCEPT ![t] = "none"]
      /\ UNCHANGED <<stage, restarting, attached>>
      /\ ClientRuns
  BY DEF New
<1>7. /\ kind' \in [Tasks -> Kinds] /\ \A u \in Tasks \ {t} : kind'[u] = kind[u]
      /\ running' \in [Tasks -> BOOLEAN] /\ \A u \in Tasks : running'[u] <=> running[u]
      /\ fired' \in [Tasks -> BOOLEAN] /\ \A u \in Tasks : fired'[u] <=> fired[u] /\ u # t
      /\ interval' \in [Tasks -> Intervals]
      /\ credit' \in [Tasks -> Credits] /\ \A u \in Tasks \ {t} : credit'[u] = credit[u]
  <2>1. kind' \in [Tasks -> Kinds] /\ \A u \in Tasks \ {t} : kind'[u] = kind[u]
    BY <1>2, <1>6, Types
  <2>2. running' \in [Tasks -> BOOLEAN] /\ \A u \in Tasks : running'[u] <=> running[u]
    BY <1>2, <1>6, Types
  <2>3. fired' \in [Tasks -> BOOLEAN] /\ \A u \in Tasks : fired'[u] <=> fired[u] /\ u # t
    BY <1>2, <1>6, Types
  <2>4. interval' \in [Tasks -> Intervals]
    BY <1>2, <1>6, Types
  <2>5. credit' \in [Tasks -> Credits] /\ \A u \in Tasks \ {t} : credit'[u] = credit[u]
    BY <1>2, <1>6, Types DEF Credits
  <2>6. QED
    BY <2>1, <2>2, <2>3, <2>4, <2>5
<1>8. TypeOK'
  BY <1>1, <1>2, <1>4, <1>6, <1>7, Types, TypesAfter
<1>9. RunningIsInstalled'
  BY <1>1, <1>5, <1>6, <1>7, <1>8 DEF TimerInv, RunningIsInstalled
<1>10. Context'
  BY <1>1, <1>6 DEF TimerInv, Context
<1>11. Used'
  <2>1. restarting = NULL /\ (stage = "callback" => cursor \in Tasks \ {t})
    BY <1>1, <1>2, <1>6, Types DEF ClientRuns, TimerInv, Context, Pointer
  <2>2. QED
    BY <1>1, <1>6, <1>7, <2>1 DEF TimerInv, Used
<1>12. Accounted'
  <2>1. stage # "matched"
    BY <1>6 DEF ClientRuns, TimerInv, Context
  <2>2. QED
    BY <1>6, <1>7, <2>1 DEF TimerInv, Accounted
<1>13. QED
  BY <1>5, <1>8, <1>9, <1>10, <1>11, <1>12 DEF TimerInv

\* start(), by the client or at the end of setInterval.
LEMMA StartInv ==
  ASSUME Liberties = {},
         TimerInv, (\E t \in Tasks : Start(t)) \/ SetIntervalRestarts
  PROVE  TimerInv'
<1>1. PICK t \in Tasks :
        /\ StartBody(t) /\ t \in alive
        /\ t \notin Installed(list) \/ FoundByAdd(list, t)
        /\ restarting' = NULL
        /\ stage \in {"between", "callback"}
        /\ UNCHANGED <<cursor, alive, stage, kind, interval>>
  <2>1. CASE SetIntervalRestarts
    <3>1. restarting \in Tasks
      BY <2>1, Types DEF SetIntervalRestarts, TimerInv, RunningIsInstalled, Pointer
    <3>2. QED
      BY <2>1, <3>1 DEF SetIntervalRestarts, TimerInv, RunningIsInstalled, Context, Used
  <2>2. CASE \E t \in Tasks : Start(t)
    BY <2>2 DEF Start, MayStart, ClientRuns, TimerInv, Context
  <2>3. QED
    BY <2>1, <2>2
<1>2. /\ list' \in Lists /\ WellLinked(list')
      /\ running' \in [Tasks -> BOOLEAN] /\ fired' \in [Tasks -> BOOLEAN]
      /\ attached' \in [Tasks -> BOOLEAN] /\ credit' \in [Tasks -> Credits]
      /\ \A u \in Tasks : u \in Installed(list') <=> running'[u]
      /\ \A u \in Tasks : running'[u] <=> running[u] \/ u = t
      /\ \A u \in Tasks : attached'[u] => attached[u] \/ u = t
      /\ \A u \in Tasks : fired'[u] => credit'[u] # "none"
  BY <1>1, StartBodyInv
<1>3. TypeOK'
  BY <1>1, <1>2, Types, TypesAfter DEF TimerInv, RunningIsInstalled, Pointer
<1>4. RunningIsInstalled'
  BY <1>1, <1>2, <1>3 DEF TimerInv, RunningIsInstalled
<1>5. (Context /\ Used /\ Accounted)'
  BY <1>1, <1>2 DEF TimerInv, Context, Used, Accounted
<1>6. QED
  BY <1>2, <1>4, <1>5 DEF TimerInv

\* start() of a timer that has its ticker attached: the ticker is removed.
LEMMA RestartInv ==
  ASSUME Liberties = {}, TimerInv, NEW t \in Tasks, Restart(t)
  PROVE  TimerInv'
<1>1. /\ t \in alive
      /\ t \notin Installed(list) \/ FoundByAdd(list, t)
      /\ stage \in {"between", "callback"} /\ attached[t] /\ restarting' = t
      /\ running' = [running EXCEPT ![t] = TRUE] /\ list' = AddDynamicTask(list, t)
      /\ attached' = [attached EXCEPT ![t] = FALSE]
      /\ credit' = [credit EXCEPT ![t] = IF fired[t] THEN "leftover" ELSE "none"]
      /\ UNCHANGED <<cursor, alive, stage, kind, fired, interval>>
  BY DEF Restart, MayStart, Rearms, ClientRuns, TimerInv, Context
<1>2. TypeOK /\ list \in Lists /\ WellLinked(list)
  BY Types DEF TimerInv, RunningIsInstalled
<1>3. /\ list' \in Lists /\ WellLinked(list')
      /\ Installed(list') = Installed(list) \cup {t}
  BY <1>1, <1>2, AddInstalls
<1>4. running' \in [Tasks -> BOOLEAN] /\ \A u \in Tasks : running'[u] <=> running[u] \/ u = t
  BY <1>1, <1>2, Types
<1>5. attached' \in [Tasks -> BOOLEAN] /\ \A u \in Tasks : attached'[u] <=> attached[u] /\ u # t
  BY <1>1, <1>2, Types
<1>6. credit' \in [Tasks -> Credits] /\ \A u \in Tasks : fired[u] => credit'[u] # "none"
  BY <1>1, <1>2, Types DEF Credits, TimerInv, Accounted
<1>7. TypeOK'
  BY <1>1, <1>2, <1>3, <1>4, <1>5, <1>6, Types, TypesAfter DEF Pointer
<1>8. RunningIsInstalled'
  BY <1>1, <1>3, <1>4, <1>5, <1>7 DEF TimerInv, RunningIsInstalled
<1>9. Context' /\ Used'
  <2>1. Context'
    BY <1>1 DEF TimerInv, Context
  <2>2. Used'
    BY <1>1 DEF TimerInv, Used
  <2>3. QED
    BY <2>1, <2>2
<1>10. Accounted'
  <2>1. fired' = fired /\ stage' # "matched"
    BY <1>1
  <2>2. QED
    BY <1>6, <2>1 DEF Accounted
<1>11. QED
  BY <1>3, <1>8, <1>9, <1>10 DEF TimerInv

\* It is inserted again.
LEMMA TickerInsertsInv ==
  ASSUME TimerInv, TickerInserts
  PROVE  TimerInv'
<1>1. /\ restarting # NULL /\ running[restarting] /\ restarting' = NULL
      /\ attached' = [attached EXCEPT ![restarting] = TRUE]
      /\ UNCHANGED <<list, cursor, alive, stage, kind, running, fired, interval, credit>>
  BY DEF TickerInserts
<1>2. TypeOK
  BY DEF TimerInv, RunningIsInstalled
<1>3. /\ attached' \in [Tasks -> BOOLEAN]
      /\ \A u \in Tasks : attached'[u] <=> attached[u] \/ u = restarting
  BY <1>1, <1>2, Types DEF Pointer
<1>4. TypeOK'
  BY <1>1, <1>2, <1>3, Types, TypesAfter DEF Pointer
<1>5. Installed(list') = Installed(list) /\ WellLinked(list')
  BY <1>1 DEF TimerInv
<1>6. RunningIsInstalled'
  BY <1>1, <1>3, <1>4, <1>5 DEF TimerInv, RunningIsInstalled
<1>7. (Context /\ Used /\ Accounted)'
  BY <1>1 DEF TimerInv, Context, Used, Accounted
<1>8. QED
  BY <1>5, <1>6, <1>7 DEF TimerInv

\* The other steps of client code: stop(), the first half of setInterval, and
\* the destructor.
LEMMA StopInv ==
  ASSUME TimerInv, NEW t \in Tasks,
         Stop(t) \/ SetIntervalRunning(t) \/ SetIntervalStopped(t) \/ Delete(t)
  PROVE  TimerInv'
<1>1. /\ TypeOK /\ t \in alive /\ ClientRuns
      /\ UNCHANGED <<cursor, stage, kind, fired, credit>>
  BY DEF TimerInv, RunningIsInstalled, Stop, SetIntervalRunning, SetIntervalStopped, Delete
<1>2. stage \in {"between", "callback"} /\ restarting = NULL
  BY <1>1 DEF ClientRuns, TimerInv, Context
<1>3. interval' \in [Tasks -> Intervals]
  BY <1>1, Types DEF Stop, SetIntervalRunning, SetIntervalStopped, Delete
<1>4. CASE SetIntervalStopped(t)
  <2>1. UNCHANGED <<list, alive, restarting, running, attached>>
    BY <1>4 DEF SetIntervalStopped
  <2>2. TypeOK'
    BY <1>1, <1>3, <2>1, Types, TypesAfter
  <2>3. QED
    BY <1>1, <2>1, <2>2 DEF TimerInv, RunningIsInstalled, Context, Used, Accounted, Installed,
                            ClosedSets, WellLinked, IsOrder
<1>5. CASE Stop(t) \/ SetIntervalRunning(t) \/ Delete(t)
  <2>1. /\ StopBody(t)
        /\ alive' = alive \/ alive' = alive \ {t}
        /\ restarting' = NULL \/ (restarting' = t /\ alive' = alive)
        /\ alive' # alive => ~(t = cursor /\ kind[t] = "callOnce")
    <3>1. CASE Delete(t)
      BY <1>2, <3>1, DeleteBodyStops DEF Delete
    <3>2. CASE Stop(t) \/ SetIntervalRunning(t)
      BY <1>2, <3>2 DEF Stop, SetIntervalRunning
    <3>3. QED
      BY <1>5, <3>1, <3>2
  <2>2. /\ list' \in Lists /\ WellLinked(list')
        /\ running' \in [Tasks -> BOOLEAN] /\ attached' \in [Tasks -> BOOLEAN]
        /\ \A u \in Tasks : u \in Installed(list') <=> running'[u]
        /\ \A u \in Tasks : running'[u] <=> running[u] /\ u # t
        /\ \A u \in Tasks : attached'[u] <=> attached[u] /\ u # t
    BY <2>1, StopBodyInv
  <2>3. TypeOK'
    BY <1>1, <1>3, <2>1, <2>2, Types, TypesAfter DEF Pointer
  <2>4. RunningIsInstalled'
    BY <2>1, <2>2, <2>3 DEF TimerInv, RunningIsInstalled
  <2>5. (Context /\ Accounted)'
    BY <1>1, <1>2, <2>1 DEF TimerInv, Context, Accounted
  <2>6. Used'
    <3>1. restarting' # NULL => restarting' \in alive'
      BY <1>1, <2>1, <2>2
    <3>2. stage = "callback" /\ kind[cursor] = "callOnce" => cursor \in alive'
      BY <2>1 DEF TimerInv, Used
    <3>3. QED
      BY <1>1, <1>2, <3>1, <3>2 DEF Used
  <2>7. QED
    BY <2>2, <2>4, <2>5, <2>6 DEF TimerInv
<1>6. QED
  BY <1>4, <1>5

-----------------------------------------------------------------------------
(* The steps of the run loop, of taskHandler and of the ticker.            *)

\* Steps that change neither the list nor what timers are running.
LEMMA LoopInv ==
  ASSUME TimerInv, BeginPass \/ TaskHandlerIdle \/ CallHandler \/ HandlerReturns
  PROVE  TimerInv'
<1>1. TypeOK /\ list \in Lists /\ restarting = NULL
  BY Types DEF TimerInv, RunningIsInstalled, Context, BeginPass, TaskHandlerIdle, CallHandler,
               HandlerReturns
<1>2. UNCHANGED <<list, alive, restarting, kind, running, interval, attached>>
  BY DEF BeginPass, TaskHandlerIdle, CallHandler, HandlerReturns, Loop!BeginPass,
         Loop!HandlerReturns, timerVars
<1>3. CASE CallHandler
  <2>1. /\ stage = "matched" /\ stage' = "callback" /\ cursor' = cursor /\ cursor \in Tasks
        /\ fired' = [fired EXCEPT ![cursor] = FALSE]
        /\ credit' = [credit EXCEPT ![cursor] = "none"]
    BY <1>1, <1>3, Types DEF CallHandler, TimerInv, Context, Pointer
  <2>2. \A u \in Tasks : fired'[u] => fired[u] /\ u # cursor
    BY <1>1, <2>1, Types
  <2>3. \A u \in Tasks : u # cursor => credit'[u] = credit[u]
    BY <1>1, <2>1, Types
  <2>4. fired' \in [Tasks -> BOOLEAN] /\ credit' \in [Tasks -> Credits]
    BY <1>1, <2>1, Types DEF Credits
  <2>5. TypeOK'
    BY <1>1, <1>2, <2>1, <2>4, Types, TypesAfter DEF Stages
  <2>6. QED
    BY <1>1, <1>2, <2>1, <2>2, <2>3, <2>5
       DEF TimerInv, RunningIsInstalled, Context, Used, Accounted, Installed, ClosedSets,
           WellLinked, IsOrder
<1>4. CASE BeginPass \/ TaskHandlerIdle \/ HandlerReturns
  <2>1. UNCHANGED <<fired, credit>> /\ stage' \in {"between", "called", "returning"}
    BY <1>4 DEF BeginPass, TaskHandlerIdle, HandlerReturns, timerVars
  <2>2. cursor' \in Pointer /\ (stage' = "between" <=> cursor' = NULL)
    <3>1. CASE BeginPass
      BY <1>1, <3>1 DEF BeginPass, Loop!BeginPass, Lists
    <3>2. CASE TaskHandlerIdle
      BY <1>1, <3>2, Types DEF TaskHandlerIdle, TimerInv, Context
    <3>3. CASE HandlerReturns
      <4>1. cursor \in Tasks /\ cursor' = list.next[cursor]
        BY <1>1, <3>3, Types DEF HandlerReturns, Loop!HandlerReturns, Pointer
      <4>2. QED
        BY <1>1, <3>3, <4>1 DEF HandlerReturns, Lists
    <3>4. QED
      BY <1>4, <3>1, <3>2, <3>3
  <2>3. TypeOK'
    BY <1>1, <1>2, <2>1, <2>2, Types, TypesAfter DEF Stages
  <2>4. QED
    BY <1>1, <1>2, <2>1, <2>2, <2>3
       DEF TimerInv, RunningIsInstalled, Context, Used, Accounted, Installed, ClosedSets,
           WellLinked, IsOrder
<1>5. QED
  BY <1>3, <1>4

\* The flag of a running timer is up: a timer that is not recurring is
\* stopped, but it goes on existing.
LEMMA TaskHandlerFiresInv == TimerInv /\ TaskHandlerFires => TimerInv'
<1> SUFFICES ASSUME TimerInv, TaskHandlerFires PROVE TimerInv'
  OBVIOUS
<1>1. /\ stage = "called" /\ stage' = "matched" /\ fired[cursor] /\ running[cursor]
      /\ UNCHANGED <<cursor, alive, restarting, kind, interval, fired, credit>>
  BY DEF TaskHandlerFires
<1>2. TypeOK /\ cursor \in Tasks /\ cursor \in alive /\ restarting = NULL
  BY <1>1, Types DEF TimerInv, RunningIsInstalled, Context, Pointer
<1>3. (Context /\ Used /\ Accounted)'
  BY <1>1, <1>2 DEF TimerInv, Context, Used, Accounted
<1>4. CASE kind[cursor] # "recurring"
  <2>1. StopBody(cursor)
    BY <1>4 DEF TaskHandlerFires
  <2>2. /\ list' \in Lists /\ WellLinked(list')
        /\ running' \in [Tasks -> BOOLEAN] /\ attached' \in [Tasks -> BOOLEAN]
        /\ \A u \in Tasks : u \in Installed(list') <=> running'[u]
        /\ \A u \in Tasks : running'[u] <=> running[u] /\ u # cursor
        /\ \A u \in Tasks : attached'[u] <=> attached[u] /\ u # cursor
    BY <1>2, <2>1, StopBodyInv
  <2>3. TypeOK'
    BY <1>1, <1>2, <2>2, Types, TypesAfter DEF Stages
  <2>4. RunningIsInstalled'
    BY <1>1, <2>2, <2>3 DEF TimerInv, RunningIsInstalled
  <2>5. QED
    BY <1>3, <2>2, <2>4 DEF TimerInv
<1>5. CASE kind[cursor] = "recurring"
  <2>1. UNCHANGED <<list, running, attached>>
    BY <1>5 DEF TaskHandlerFires
  <2>2. TypeOK'
    BY <1>1, <1>2, <2>1, Types, TypesAfter DEF Stages
  <2>3. QED
    BY <1>1, <1>3, <2>1, <2>2 DEF TimerInv, RunningIsInstalled, Installed, ClosedSets,
                                  WellLinked, IsOrder
<1>6. QED
  BY <1>4, <1>5

\* A timer made by callOnce deletes itself.
LEMMA CallbackReturnsInv == TimerInv /\ CallbackReturns => TimerInv'
<1> SUFFICES ASSUME TimerInv, CallbackReturns PROVE TimerInv'
  OBVIOUS
<1>1. /\ stage = "callback" /\ stage' = "returning" /\ restarting = NULL
      /\ UNCHANGED <<cursor, restarting, kind, interval, fired, credit>>
  BY DEF CallbackReturns
<1>2. TypeOK /\ cursor \in Tasks
  BY <1>1, Types DEF TimerInv, RunningIsInstalled, Context, Pointer
<1>3. (Context /\ Used /\ Accounted)'
  BY <1>1, <1>2 DEF TimerInv, Context, Used, Accounted
<1>4. CASE kind[cursor] = "callOnce"
  <2>1. StopBody(cursor) /\ alive' = alive \ {cursor}
    BY <1>2, <1>4, DeleteBodyStops DEF CallbackReturns
  <2>2. /\ list' \in Lists /\ WellLinked(list')
        /\ running' \in [Tasks -> BOOLEAN] /\ attached' \in [Tasks -> BOOLEAN]
        /\ \A u \in Tasks : u \in Installed(list') <=> running'[u]
        /\ \A u \in Tasks : running'[u] <=> running[u] /\ u # cursor
        /\ \A u \in Tasks : attached'[u] <=> attached[u] /\ u # cursor
    BY <1>2, <2>1, StopBodyInv
  <2>3. TypeOK'
    BY <1>1, <1>2, <2>1, <2>2, Types, TypesAfter DEF Stages
  <2>4. RunningIsInstalled'
    BY <2>1, <2>2, <2>3 DEF TimerInv, RunningIsInstalled
  <2>5. QED
    BY <1>3, <2>2, <2>4 DEF TimerInv
<1>5. CASE kind[cursor] # "callOnce"
  <2>1. UNCHANGED <<list, alive, running, attached>>
    BY <1>5 DEF CallbackReturns
  <2>2. TypeOK'
    BY <1>1, <1>2, <2>1, Types, TypesAfter DEF Stages
  <2>3. QED
    BY <1>3, <2>1, <2>2 DEF TimerInv, RunningIsInstalled, Installed, ClosedSets,
                            WellLinked, IsOrder
<1>6. QED
  BY <1>4, <1>5

\* The ticker's interrupt raises the flag for an interval that has elapsed.
LEMMA HwTimerInterruptInv ==
  ASSUME NEW t \in Tasks, TimerInv, HwTimerInterrupt(t) PROVE TimerInv'
<1>1. /\ fired' = [fired EXCEPT ![t] = TRUE] /\ credit' = [credit EXCEPT ![t] = "elapsed"]
      /\ UNCHANGED <<list, cursor, alive, stage, restarting, kind, running, interval, attached>>
  BY DEF HwTimerInterrupt
<1>2. TypeOK
  BY DEF TimerInv, RunningIsInstalled
<1>3. fired' \in [Tasks -> BOOLEAN] /\ \A u \in Tasks : fired'[u] <=> fired[u] \/ u = t
  BY <1>1, <1>2, Types
<1>4. credit' \in [Tasks -> Credits]
      /\ \A u \in Tasks : credit'[u] = IF u = t THEN "elapsed" ELSE credit[u]
  BY <1>1, <1>2, Types DEF Credits
<1>5. TypeOK'
  BY <1>1, <1>2, <1>3, <1>4, Types, TypesAfter
<1>6. Accounted'
  <2>1. stage = "matched" => cursor \in Tasks
    BY <1>2, Types DEF TimerInv, Context, Pointer
  <2>2. QED
    BY <1>1, <1>3, <1>4, <2>1 DEF TimerInv, Accounted
<1>7. QED
  BY <1>1, <1>5, <1>6 DEF TimerInv, RunningIsInstalled, Context, Used, Installed, ClosedSets,
                          WellLinked, IsOrder
-----------------------------------------------------------------------------
(* Timers as clients of the run loop.                                      *)

\* The run loop's list operations are those of TaskList.
LEMMA LoopOperators ==
  ASSUME NEW L, NEW t
  PROVE  /\ Loop!Installed(L) = Installed(L)
         /\ Loop!FoundByAdd(L, t) = FoundByAdd(L, t)
         /\ Loop!AddDynamicTask(L, t) = AddDynamicTask(L, t)
         /\ Loop!RemoveDynamicTask(L, t) = RemoveDynamicTask(L, t)
<1>1. Loop!Installed(L) = Installed(L)
  BY DEF Loop!Installed, Installed, Loop!ClosedSets, ClosedSets
<1>2. Loop!FoundByAdd(L, t) = FoundByAdd(L, t) /\ Loop!LastTask(L) = LastTask(L)
  BY <1>1 DEF Loop!FoundByAdd, FoundByAdd, Loop!LastTask, LastTask
<1>3. Loop!RemoveTaskInQueue(L, t) = RemoveTaskInQueue(L, t)
  BY DEF Loop!RemoveTaskInQueue, RemoveTaskInQueue, Loop!BypassedNext, BypassedNext
<1>4. Loop!AddDynamicTask(L, t) = AddDynamicTask(L, t)
  BY <1>2 DEF Loop!AddDynamicTask, AddDynamicTask
<1>5. QED
  BY <1>1, <1>2, <1>3, <1>4 DEF Loop!RemoveDynamicTask, RemoveDynamicTask

\* Every step of client code is one client action of the run loop, or none.
LEMMA ClientMaps ==
  ASSUME Liberties = {}, TimerInv, Client \/ SetIntervalRestarts
  PROVE  [Loop!Next]_(Loop!vars)
<1>1. CASE SetIntervalRestarts
  <2>1. restarting \in Tasks /\ restarting \in alive /\ restarting \notin Installed(list)
    BY <1>1, Types DEF SetIntervalRestarts, TimerInv, RunningIsInstalled, Pointer, Used
  <2>2. Loop!Add(restarting)
    BY <1>1, <2>1, LoopOperators DEF SetIntervalRestarts, StartBody, Loop!Add
  <2>3. QED
    BY <2>1, <2>2 DEF Loop!Next, Loop!Client
<1>2. ASSUME NEW t \in Tasks, New(t) PROVE Loop!Construct(t)
  BY <1>2 DEF New
<1>3. ASSUME NEW t \in Tasks, Start(t) \/ Restart(t) PROVE Loop!Add(t)
  BY <1>3, LoopOperators DEF Start, Restart, MayStart, StartBody, Loop!Add
<1>4. ASSUME NEW t \in Tasks, Stop(t) \/ SetIntervalRunning(t) PROVE Loop!Remove(t)
  BY <1>4, LoopOperators DEF Stop, SetIntervalRunning, StopBody, Loop!Remove, Loop!MayLeave
<1>5. ASSUME NEW t \in Tasks, Delete(t) PROVE Loop!Destroy(t)
  <2>1. StopBody(t) /\ alive' = alive \ {t}
    BY <1>5, DeleteBodyStops DEF Delete
  <2>2. QED
    BY <1>5, <2>1, LoopOperators DEF Delete, StopBody, Loop!Destroy, Loop!MayLeave
<1>6. ASSUME NEW t \in Tasks, SetIntervalStopped(t) PROVE UNCHANGED Loop!vars
  BY <1>6 DEF SetIntervalStopped, Loop!vars
<1>7. QED
  BY <1>1, <1>2, <1>3, <1>4, <1>5, <1>6 DEF Client, Loop!Next, Loop!Client

\* Every step of the loop, of taskHandler and of the ticker maps, too.
LEMMA StepMaps ==
  ASSUME Liberties = {}, TimerInv, [Next]_vars
  PROVE  [Loop!Next]_(Loop!vars)
<1>1. CASE BeginPass
  BY <1>1 DEF BeginPass, Loop!Next
<1>2. CASE HandlerReturns
  BY <1>2 DEF HandlerReturns, Loop!Next
<1>3. CASE TaskHandlerFires
  <2>1. cursor \in Tasks /\ cursor \in alive
    BY <1>3, Types DEF TaskHandlerFires, TimerInv, RunningIsInstalled, Context, Pointer
  <2>2. CASE kind[cursor] # "recurring"
    <3>1. Loop!Remove(cursor)
      BY <1>3, <2>1, <2>2, LoopOperators DEF TaskHandlerFires, StopBody, Loop!Remove,
                                             Loop!MayLeave
    <3>2. QED
      BY <2>1, <3>1 DEF Loop!Next, Loop!Client
  <2>3. CASE kind[cursor] = "recurring"
    BY <1>3, <2>3 DEF TaskHandlerFires, Loop!vars
  <2>4. QED
    BY <2>2, <2>3
<1>4. CASE CallbackReturns
  <2>1. cursor \in Tasks
    BY <1>4, Types DEF CallbackReturns, TimerInv, RunningIsInstalled, Context, Pointer
  <2>2. CASE kind[cursor] = "callOnce"
    <3>1. cursor \in alive
      BY <1>4, <2>2 DEF CallbackReturns, TimerInv, Used
    <3>2. StopBody(cursor) /\ alive' = alive \ {cursor}
      BY <1>4, <2>1, <2>2, DeleteBodyStops DEF CallbackReturns
    <3>3. Loop!Destroy(cursor)
      BY <1>4, <3>1, <3>2, LoopOperators DEF CallbackReturns, StopBody, Loop!Destroy,
                                             Loop!MayLeave
    <3>4. QED
      BY <2>1, <3>3 DEF Loop!Next, Loop!Client
  <2>3. CASE kind[cursor] # "callOnce"
    BY <1>4, <2>3 DEF CallbackReturns, Loop!vars
  <2>4. QED
    BY <2>2, <2>3
<1>5. CASE TaskHandlerIdle \/ CallHandler \/ TickerInserts \/ \E t \in Tasks : HwTimerInterrupt(t)
  BY <1>5 DEF TaskHandlerIdle, CallHandler, TickerInserts, HwTimerInterrupt, Loop!vars
<1>6. CASE Client \/ SetIntervalRestarts
  BY <1>6, ClientMaps
<1>7. CASE UNCHANGED vars
  BY <1>7 DEF vars, Loop!vars
<1>8. QED
  BY <1>1, <1>2, <1>3, <1>4, <1>5, <1>6, <1>7 DEF Next

-----------------------------------------------------------------------------
(* Theorems.                                                               *)

\* The inductive invariant holds of any number of timers of any kind, with
\* any intervals.
THEOREM TimerInvHolds == ASSUME Liberties = {} PROVE Spec => []TimerInv
<1>1. Init => TimerInv
  BY TimerInitInv
<1>2. TimerInv /\ [Next]_vars => TimerInv'
  <2> SUFFICES ASSUME TimerInv, [Next]_vars PROVE TimerInv'
    OBVIOUS
  <2>1. CASE BeginPass \/ TaskHandlerIdle \/ CallHandler \/ HandlerReturns
    BY <2>1, LoopInv
  <2>2. CASE TaskHandlerFires
    BY <2>2, TaskHandlerFiresInv
  <2>3. CASE CallbackReturns
    BY <2>3, CallbackReturnsInv
  <2>4. CASE (\E t \in Tasks : Start(t)) \/ SetIntervalRestarts
    BY <2>4, StartInv
  <2>5. ASSUME NEW t \in Tasks,
               Stop(t) \/ SetIntervalRunning(t) \/ SetIntervalStopped(t) \/ Delete(t)
        PROVE  TimerInv'
    BY <2>5, StopInv
  <2>6. ASSUME NEW t \in Tasks, New(t) PROVE TimerInv'
    BY <2>6, NewInv
  <2>7. ASSUME NEW t \in Tasks, HwTimerInterrupt(t) PROVE TimerInv'
    BY <2>7, HwTimerInterruptInv
  <2>8. CASE UNCHANGED vars
    <3>1. TypeOK'
      BY <2>8, Types, TypesAfter DEF vars, timerVars, TimerInv, RunningIsInstalled
    <3>2. QED
      BY <2>8, <3>1 DEF vars, timerVars, TimerInv, RunningIsInstalled, Context, Used, Accounted,
                        Installed, ClosedSets, WellLinked, IsOrder
  <2>9. ASSUME NEW t \in Tasks, Restart(t) PROVE TimerInv'
    BY <2>9, RestartInv
  <2>10. CASE TickerInserts
    BY <2>10, TickerInsertsInv
  <2>11. QED
    BY <2>1, <2>2, <2>3, <2>4, <2>5, <2>6, <2>7, <2>8, <2>9, <2>10 DEF Next, Client
<1>3. QED
  BY <1>1, <1>2, PTL DEF Spec

\* A timer is a task of the run loop exactly as long as it is running, and
\* only a running, living timer has its ticker attached: neither the loop nor
\* the interrupt visits a timer that was stopped or deleted.
THEOREM RunningTimersAreInstalled ==
  ASSUME Liberties = {} PROVE Spec => []RunningIsInstalled
<1>1. TimerInv => RunningIsInstalled
  BY DEF TimerInv
<1>2. QED
  BY <1>1, TimerInvHolds, PTL

\* taskHandler calls the callback only if an interval has elapsed since the
\* timer was last started, or the flag was up then.
THEOREM CallbacksAreAccountedFor ==
  ASSUME Liberties = {} PROVE Spec => CallbackIsAccountedFor
<1>1. TimerInv /\ [Next]_vars => [CallHandler => credit[cursor] # "none"]_vars
  <2> SUFFICES ASSUME TimerInv, CallHandler PROVE credit[cursor] # "none"
    OBVIOUS
  <2>1. cursor \in Tasks
    BY Types DEF CallHandler, TimerInv, RunningIsInstalled, Context, Pointer
  <2>2. QED
    BY <2>1 DEF CallHandler, TimerInv, Accounted
<1>2. QED
  BY <1>1, TimerInvHolds, PTL DEF Spec, CallbackIsAccountedFor

\* Timers implement the clients of AppRunLoop: everything they do to the run
\* loop is allowed there, so what is proved of the run loop holds of a loop of
\* timers.
THEOREM TimersUseTheLoop == ASSUME Liberties = {} PROVE Spec => LoopSpec
<1>1. Init => Loop!Init
  BY DEF Init
<1>2. TimerInv /\ [Next]_vars => [Loop!Next]_(Loop!vars)
  BY StepMaps
<1>3. QED
  BY <1>1, <1>2, TimerInvHolds, PTL DEF Spec, LoopSpec, Loop!Spec
-----------------------------------------------------------------------------
(* What is proved of the run loop, for timers.                             *)

\* The run loop that the proofs are about is the run loop of the timers.
LEMMA SameLoop ==
  /\ RunLoop!Init <=> Loop!Init
  /\ [RunLoop!Next]_(RunLoop!vars) <=> [Loop!Next]_(Loop!vars)
<1>2. RunLoop!CursorLeft <=> Loop!CursorLeft
  BY SameOperators, LoopOperators DEF RunLoop!CursorLeft, Loop!CursorLeft
<1>3. ASSUME NEW t \in Tasks
      PROVE  /\ RunLoop!Construct(t) <=> Loop!Construct(t)
             /\ RunLoop!Add(t) <=> Loop!Add(t)
             /\ RunLoop!Remove(t) <=> Loop!Remove(t)
             /\ RunLoop!Destroy(t) <=> Loop!Destroy(t)
  <2>1. RunLoop!Construct(t) <=> Loop!Construct(t)
    BY DEF RunLoop!Construct, Loop!Construct
  <2>2. RunLoop!Add(t) <=> Loop!Add(t)
    BY SameOperators, LoopOperators DEF RunLoop!Add, Loop!Add
  <2>3. RunLoop!Remove(t) <=> Loop!Remove(t)
    BY SameOperators, LoopOperators DEF RunLoop!Remove, Loop!Remove, RunLoop!MayLeave, Loop!MayLeave
  <2>4. RunLoop!Destroy(t) <=> Loop!Destroy(t)
    BY SameOperators, <1>2, LoopOperators DEF RunLoop!Destroy, Loop!Destroy, RunLoop!MayLeave,
                                     Loop!MayLeave
  <2>5. QED
    BY <2>1, <2>2, <2>3, <2>4
<1>4. RunLoop!Client <=> Loop!Client
  BY <1>3 DEF RunLoop!Client, Loop!Client
<1>5. (RunLoop!BeginPass <=> Loop!BeginPass) /\ (RunLoop!HandlerReturns <=> Loop!HandlerReturns)
  BY DEF RunLoop!BeginPass, Loop!BeginPass, RunLoop!HandlerReturns, Loop!HandlerReturns
<1>6. RunLoop!Init <=> Loop!Init
  BY DEF RunLoop!Init, Loop!Init
<1>7. QED
  BY <1>4, <1>5, <1>6 DEF RunLoop!Next, Loop!Next, RunLoop!vars, Loop!vars

\* The run loop never reaches a deleted timer through the nextTask field of one
\* that has left the list, as when a callOnce timer deletes itself in the
\* middle of a pass.
THEOREM PassStaysOnLiveTimers ==
  ASSUME Liberties = {} PROVE Spec => []Loop!PassStaysOnLiveTasks
<1>1. RunLoop!Spec => []RunLoop!PassStaysOnLiveTasks
  BY LoopAssumptions, RunLoop!PassNeverReachesDestroyedTask
<1>2. RunLoop!PassStaysOnLiveTasks <=> Loop!PassStaysOnLiveTasks
  BY DEF RunLoop!PassStaysOnLiveTasks, Loop!PassStaysOnLiveTasks
<1>3. QED
  BY <1>1, <1>2, SameLoop, TimersUseTheLoop, PTL DEF LoopSpec, Loop!Spec, RunLoop!Spec

-----------------------------------------------------------------------------
(* The power saver, which is a client of the timers: its list and cursor   *)
(* are the run loop's.                                                     *)

CONSTANTS button, dimTimer, sleepTimer, Asyncs, Calls, dimBright, fullBright

VARIABLES runningTimers, method, enabled, stepDir, brightness, slept

Saver == INSTANCE PowerSaver WITH running <- runningTimers

\* What PowerSaver assumes of its constants.
SaverConstants ==
  /\ Tasks = {button, dimTimer, sleepTimer} \cup Asyncs
  /\ Cardinality(Tasks) = 3 + Cardinality(Asyncs)
  /\ dimBright \in Nat /\ fullBright \in Nat /\ dimBright < fullBright

\* The list is intact, except that a timer of the saver which has been added
\* while it was the last one is its own predecessor; the button is the first.
Mended(L, p) ==
  /\ WellLinked([L EXCEPT !.prev = p])
  /\ \A t \in Installed(L) : L.prev[t] = p[t] \/ (L.prev[t] = t /\ t \notin Asyncs)

NearlyLinked(L) == L.head = button /\ \E p \in [Tasks -> Pointer] : Mended(L, p)

\* The saver's states between two calls of its methods.
SaverState == [list : Lists, running : SUBSET Tasks, method : [Asyncs -> Saver!Steps],
               enabled : BOOLEAN, stepDir : {"none", "up", "down"},
               brightness : 0..fullBright, slept : BOOLEAN]

\* The button stays in the run loop, and an async() timer only while it runs.
Linked(S) ==
  /\ S \in SaverState
  /\ NearlyLinked(S.list)
  /\ button \notin S.running
  /\ Installed(S.list) \cap Asyncs \subseteq S.running

\* The direction is given up when the saver is disabled, and undimming goes on
\* until it has reached the full brightness.
Restoring(S) ==
  /\ S.stepDir # "none" => S.enabled
  /\ S.stepDir = "up" =>
       S.brightness = fullBright \/ \E a \in S.running \cap Asyncs : S.method[a] = "undimStep"

\* A timer is left for the next async() call.
TimerLeft == \E a \in Asyncs : a \notin runningTimers

\* The inductive invariant.
SaverInv ==
  /\ cursor \in Pointer
  /\ Linked(Saver!State)
  /\ Restoring(Saver!State)
  /\ TimerLeft \/ Asyncs = {}

\* The list operations are the same ones.
LEMMA SameInSaver ==
  ASSUME NEW L, NEW t
  PROVE  /\ Saver!Installed(L) = Installed(L)
         /\ Saver!AddDynamicTask(L, t) = AddDynamicTask(L, t)
         /\ Saver!RemoveDynamicTask(L, t) = RemoveDynamicTask(L, t)
<1>1. Saver!Installed(L) = Installed(L)
  BY DEF Saver!Installed, Installed, Saver!ClosedSets, ClosedSets
<1>2. Saver!FoundByAdd(L, t) = FoundByAdd(L, t) /\ Saver!LastTask(L) = LastTask(L)
  BY <1>1 DEF Saver!FoundByAdd, FoundByAdd, Saver!LastTask, LastTask
<1>3. Saver!RemoveTaskInQueue(L, t) = RemoveTaskInQueue(L, t)
  BY DEF Saver!RemoveTaskInQueue, RemoveTaskInQueue, Saver!BypassedNext, BypassedNext
<1>4. Saver!AddDynamicTask(L, t) = AddDynamicTask(L, t)
  BY <1>2 DEF Saver!AddDynamicTask, AddDynamicTask
<1>5. QED
  BY <1>1, <1>3, <1>4 DEF Saver!RemoveDynamicTask, RemoveDynamicTask

\* The tasks are different ones.
LEMMA SaverTasks ==
  ASSUME SaverConstants
  PROVE  /\ button \in Tasks /\ dimTimer \in Tasks /\ sleepTimer \in Tasks
         /\ Asyncs \subseteq Tasks /\ IsFiniteSet(Asyncs)
         /\ button # dimTimer /\ button # sleepTimer /\ dimTimer # sleepTimer
         /\ button \notin Asyncs /\ dimTimer \notin Asyncs /\ sleepTimer \notin Asyncs
<1>1. IsFiniteSet(Asyncs) /\ Asyncs \subseteq Tasks
  <2>1. Asyncs \subseteq Tasks
    BY DEF SaverConstants
  <2>2. QED
    BY <2>1, TasksAssumption, FS_Subset
<1> DEFINE A1 == Asyncs \cup {button}
           A2 == A1 \cup {dimTimer}
           A3 == A2 \cup {sleepTimer}
<1>2. Cardinality(Asyncs) \in Nat
  BY <1>1, FS_CardinalityType
<1>3. /\ IsFiniteSet(A1)
      /\ Cardinality(A1) = IF button \in Asyncs THEN Cardinality(Asyncs)
                           ELSE Cardinality(Asyncs) + 1
  BY <1>1, FS_AddElement
<1>4. /\ IsFiniteSet(A2)
      /\ Cardinality(A2) = IF dimTimer \in A1 THEN Cardinality(A1) ELSE Cardinality(A1) + 1
  <2> HIDE DEF A1
  <2> QED BY <1>3, FS_AddElement
<1>5. Cardinality(A3) = IF sleepTimer \in A2 THEN Cardinality(A2) ELSE Cardinality(A2) + 1
  <2> HIDE DEF A2
  <2> QED BY <1>4, FS_AddElement
<1>6. Tasks = A3
  BY DEF SaverConstants
<1>7. Cardinality(A3) = 3 + Cardinality(Asyncs)
  BY <1>6 DEF SaverConstants
<1>8. button \notin Asyncs /\ dimTimer \notin A1 /\ sleepTimer \notin A2
  <2> HIDE DEF A1, A2, A3
  <2> QED BY <1>2, <1>3, <1>4, <1>5, <1>7
<1>9. QED
  BY <1>1, <1>6, <1>8

\* In an intact list the links lead back and forth.
LEMMA ThereAndBack ==
  ASSUME NEW L \in Lists, WellLinked(L), NEW t \in Installed(L), L.next[t] # NULL
  PROVE  L.prev[L.next[t]] = t
BY LoopAssumptions, SameLists, SameOperators, RunLoop!PreviousOfNext

\* The tasks of a list do not depend on its links backwards.
LEMMA InstalledForwards ==
  ASSUME NEW L, NEW M, L.head = M.head, L.next = M.next
  PROVE  Installed(L) = Installed(M)
BY DEF Installed, ClosedSets

\* An intact list has one last task.
LEMMA OneLast ==
  ASSUME NEW L \in Lists, WellLinked(L), NEW t \in Installed(L), NEW u \in Installed(L),
         L.next[t] = NULL, L.next[u] = NULL
  PROVE  t = u
BY LoopAssumptions, SameLists, SameOperators, RunLoop!OneLast

\* addDynamicTask of a task that is not installed, or of one of the saver's own
\* timers.
LEMMA NearlyAdd ==
  ASSUME SaverConstants, NEW L \in Lists, NearlyLinked(L), NEW t \in Tasks,
         t # button, t \in Asyncs => t \notin Installed(L)
  PROVE  /\ AddDynamicTask(L, t) \in Lists
         /\ NearlyLinked(AddDynamicTask(L, t))
         /\ Installed(AddDynamicTask(L, t)) = Installed(L) \cup {t}
<1> DEFINE N == AddDynamicTask(L, t)
<1>1. PICK p \in [Tasks -> Pointer] : Mended(L, p)
  BY DEF NearlyLinked
<1> DEFINE M == [L EXCEPT !.prev = p]
<1>2. M \in Lists /\ M.head = L.head /\ M.next = L.next /\ M.prev = p
  BY DEF Lists
<1>3. WellLinked(M) /\ Installed(M) = Installed(L)
  BY <1>1, <1>2, InstalledForwards DEF Mended
<1>4. L.head = button /\ button \in Tasks /\ L.head # NULL
  BY SaverTasks, TasksAssumption DEF NearlyLinked
<1>5. CASE FoundByAdd(L, t)
  <2>1. N = L
    BY <1>4, <1>5 DEF AddDynamicTask
  <2>2. QED
    BY <1>5, <2>1 DEF FoundByAdd
<1>6. CASE t \notin Installed(L)
  <2> DEFINE K == AddDynamicTask(M, t)
             q == K.prev
  <2>1. K \in Lists /\ WellLinked(K) /\ Installed(K) = Installed(L) \cup {t}
    BY <1>2, <1>3, <1>6, AddInstalls
  <2>2. LastTask(L) = LastTask(M)
    BY <1>2, <1>3 DEF LastTask
  <2>0. ~FoundByAdd(L, t) /\ ~FoundByAdd(M, t) /\ M.head # NULL
    BY <1>2, <1>3, <1>4, <1>6 DEF FoundByAdd
  <2>3. /\ N = [head |-> L.head,
                next |-> [L.next EXCEPT ![LastTask(L)] = t, ![t] = NULL],
                prev |-> [L.prev EXCEPT ![t] = LastTask(L)]]
        /\ K = [head |-> L.head,
                next |-> [L.next EXCEPT ![LastTask(L)] = t, ![t] = NULL],
                prev |-> [p EXCEPT ![t] = LastTask(L)]]
    BY <1>2, <1>4, <2>0, <2>2 DEF AddDynamicTask
  <2>4. q \in [Tasks -> Pointer] /\ LastTask(L) \in Pointer
    <3>1. q \in [Tasks -> Pointer] /\ q[t] = LastTask(L)
      BY <2>1, <2>3 DEF Lists
    <3>2. QED
      BY <3>1
  <2>5. N \in Lists
    BY <2>1, <2>3, <2>4 DEF Lists
  <2>6. [N EXCEPT !.prev = q] = K
    BY <2>3
  <2>7. Installed(N) = Installed(K)
    BY <2>3, InstalledForwards
  <2>8. ASSUME NEW u \in Installed(N)
        PROVE  N.prev[u] = q[u] \/ (N.prev[u] = u /\ u \notin Asyncs)
    <3>1. u \in Tasks /\ L.prev \in [Tasks -> Pointer]
      BY DEF Installed, Lists
    <3>2. CASE u = t
      BY <2>3, <3>1, <3>2
    <3>3. CASE u # t
      <4>1. u \in Installed(L)
        BY <2>1, <2>7, <3>3
      <4>2. L.prev[u] = p[u] \/ (L.prev[u] = u /\ u \notin Asyncs)
        BY <1>1, <4>1 DEF Mended
      <4>3. N.prev[u] = L.prev[u] /\ q[u] = p[u]
        BY <2>3, <3>1, <3>3
      <4>4. QED
        BY <4>2, <4>3
    <3>4. QED
      BY <3>2, <3>3
  <2>9. Mended(N, q)
    BY <2>1, <2>6, <2>8 DEF Mended
  <2>10. QED
    BY <1>4, <2>1, <2>3, <2>4, <2>5, <2>7, <2>9, SMTT(30) DEF NearlyLinked
<1>7. CASE t \in Installed(L) /\ L.next[t] = NULL
  <2>1. LastTask(L) = t
    <3>1. ASSUME NEW u \in Installed(L), L.next[u] = NULL PROVE u = t
      BY <1>2, <1>3, <1>7, <3>1, OneLast
    <3>2. QED
      BY <1>7, <3>1 DEF LastTask
  <2>2. N = [head |-> L.head, next |-> [L.next EXCEPT ![t] = t, ![t] = NULL],
             prev |-> [L.prev EXCEPT ![t] = t]]
    BY <1>4, <1>7, <2>1 DEF AddDynamicTask, FoundByAdd
  <2>3. N.head = L.head /\ N.next = L.next /\ N.prev = [L.prev EXCEPT ![t] = t]
    BY <1>7, <2>2 DEF Lists
  <2>4. N \in Lists
    BY <2>2, <2>3 DEF Lists, Pointer
  <2>5. Installed(N) = Installed(L)
    BY <2>3, InstalledForwards
  <2>6. [N EXCEPT !.prev = p] = M
    BY <2>2, <2>3 DEF Lists
  <2>7. ASSUME NEW u \in Installed(N)
        PROVE  N.prev[u] = p[u] \/ (N.prev[u] = u /\ u \notin Asyncs)
    <3>1. u \in Tasks /\ L.prev \in [Tasks -> Pointer]
      BY DEF Installed, Lists
    <3>2. L.prev[u] = p[u] \/ (L.prev[u] = u /\ u \notin Asyncs)
      BY <1>1, <2>5 DEF Mended
    <3>3. QED
      BY <1>7, <2>3, <3>1, <3>2
  <2>8. Mended(N, p)
    BY <1>3, <2>6, <2>7 DEF Mended
  <2>9. QED
    BY <1>4, <1>7, <2>3, <2>4, <2>5, <2>8 DEF NearlyLinked
<1>8. QED
  BY <1>5, <1>6, <1>7 DEF FoundByAdd

\* removeDynamicTask of any task but the button.  It does not take out one
\* that is its own predecessor.
LEMMA NearlyRemove ==
  ASSUME SaverConstants, NEW L \in Lists, NearlyLinked(L), NEW t \in Tasks, t # button
  PROVE  /\ RemoveDynamicTask(L, t) \in Lists
         /\ NearlyLinked(RemoveDynamicTask(L, t))
         /\ \/ Installed(RemoveDynamicTask(L, t)) = Installed(L) \ {t}
            \/ Installed(RemoveDynamicTask(L, t)) = Installed(L) /\ t \notin Asyncs
<1> DEFINE N == RemoveDynamicTask(L, t)
<1>1. PICK p \in [Tasks -> Pointer] : Mended(L, p)
  BY DEF NearlyLinked
<1> DEFINE M == [L EXCEPT !.prev = p]
<1>2. M \in Lists /\ M.head = L.head /\ M.next = L.next /\ M.prev = p
  BY DEF Lists
<1>3. WellLinked(M) /\ Installed(M) = Installed(L)
  BY <1>1, <1>2, InstalledForwards DEF Mended
<1>4. L.head = button /\ button \in Tasks /\ NULL \notin Tasks
  BY SaverTasks, TasksAssumption DEF NearlyLinked
<1>5. CASE t \notin Installed(L)
  <2>1. N = L
    BY <1>5 DEF RemoveDynamicTask
  <2>2. QED
    BY <1>5, <2>1
<1>6. CASE t \in Installed(L) /\ L.prev[t] = p[t]
  <2> DEFINE K == RemoveDynamicTask(M, t)
             q == K.prev
             next == BypassedNext(L, t)
  <2>1. K \in Lists /\ WellLinked(K) /\ Installed(K) = Installed(L) \ {t}
    BY <1>2, <1>3, RemoveUninstalls
  <2>2. BypassedNext(M, t) = next
    BY <1>2, <1>6 DEF BypassedNext
  <2>3. /\ N = [head |-> L.head, next |-> next,
                prev |-> IF next[t] = NULL THEN L.prev
                         ELSE [L.prev EXCEPT ![next[t]] = p[t]]]
        /\ K = [head |-> L.head, next |-> next,
                prev |-> IF next[t] = NULL THEN p ELSE [p EXCEPT ![next[t]] = p[t]]]
    BY <1>2, <1>3, <1>4, <1>6, <2>2 DEF RemoveDynamicTask, RemoveTaskInQueue
  <2>4. q \in [Tasks -> Pointer] /\ p[t] \in Pointer
    BY <2>1 DEF Lists
  <2>5. N \in Lists
    <3>1. L.head \in Pointer /\ next \in [Tasks -> Pointer] /\ L.prev \in [Tasks -> Pointer]
      BY <2>1, <2>3 DEF Lists
    <3>2. N.prev \in [Tasks -> Pointer]
      <4> HIDE DEF N, next, K, q, M
      <4>1. N.prev = IF next[t] = NULL THEN L.prev ELSE [L.prev EXCEPT ![next[t]] = p[t]]
        BY <2>3
      <4>2. QED
        BY <2>4, <3>1, <4>1
    <3>3. N = [head |-> L.head, next |-> next, prev |-> N.prev]
      BY <2>3
    <3> HIDE DEF N, next
    <3>4. QED
      BY <3>1, <3>2, <3>3 DEF Lists
  <2>6. [N EXCEPT !.prev = q] = K
    BY <2>3
  <2>7. Installed(N) = Installed(K)
    BY <2>3, InstalledForwards
  <2>8. ASSUME NEW u \in Installed(N)
        PROVE  N.prev[u] = q[u] \/ (N.prev[u] = u /\ u \notin Asyncs)
    <3>1. u \in Tasks /\ L.prev \in [Tasks -> Pointer]
      BY DEF Installed, Lists
    <3>2. CASE next[t] # NULL /\ u = next[t]
      BY <2>3, <3>1, <3>2
    <3>3. CASE next[t] = NULL \/ u # next[t]
      <4>1. L.prev[u] = p[u] \/ (L.prev[u] = u /\ u \notin Asyncs)
        BY <1>1, <2>1, <2>7 DEF Mended
      <4>2. N.prev[u] = L.prev[u] /\ q[u] = p[u]
        BY <2>3, <3>1, <3>3
      <4>3. QED
        BY <4>1, <4>2
    <3>4. QED
      BY <3>2, <3>3
  <2>9. Mended(N, q)
    BY <2>1, <2>6, <2>8 DEF Mended
  <2>10. N.head = button
    BY <1>4, <2>3
  <2>11. QED
    BY <2>1, <2>4, <2>5, <2>7, <2>9, <2>10 DEF NearlyLinked
<1>7. CASE t \in Installed(L) /\ L.prev[t] = t /\ t \notin Asyncs
  <2>1. BypassedNext(L, t) = L.next
    BY <1>4, <1>7 DEF BypassedNext, Lists
  <2>2. N = [head |-> L.head, next |-> L.next,
             prev |-> IF L.next[t] = NULL THEN L.prev
                      ELSE [L.prev EXCEPT ![L.next[t]] = t]]
    BY <1>4, <1>7, <2>1 DEF RemoveDynamicTask, RemoveTaskInQueue
  <2>3. N \in Lists
    BY <2>2 DEF Lists, Pointer
  <2>4. Installed(N) = Installed(L)
    BY <2>2, InstalledForwards
  <2>5. [N EXCEPT !.prev = p] = M
    BY <2>2 DEF Lists
  <2>6. ASSUME NEW u \in Installed(N)
        PROVE  N.prev[u] = p[u] \/ (N.prev[u] = u /\ u \notin Asyncs)
    <3>1. u \in Tasks /\ L.prev \in [Tasks -> Pointer]
      BY DEF Installed, Lists
    <3>2. CASE L.next[t] # NULL /\ u = L.next[t]
      <4>1. p[u] = t
        BY <1>2, <1>3, <1>7, <3>2, ThereAndBack
      <4>2. N.prev[u] = t
        BY <2>2, <3>1, <3>2
      <4>3. QED
        BY <4>1, <4>2
    <3>3. CASE L.next[t] = NULL \/ u # L.next[t]
      <4>1. L.prev[u] = p[u] \/ (L.prev[u] = u /\ u \notin Asyncs)
        BY <1>1, <2>4 DEF Mended
      <4>2. N.prev[u] = L.prev[u]
        BY <2>2, <3>1, <3>3
      <4>3. QED
        BY <4>1, <4>2
    <3>4. QED
      BY <3>2, <3>3
  <2>7. Mended(N, p)
    BY <1>3, <2>5, <2>6 DEF Mended
  <2>8. N.head = button
    BY <1>4, <2>2
  <2>9. QED
    BY <1>7, <2>3, <2>4, <2>7, <2>8 DEF NearlyLinked
<1>8. QED
  BY <1>1, <1>5, <1>6, <1>7 DEF Mended

\* The links of an async() timer that is not in the list.
LEMMA NearlyElsewhere ==
  ASSUME NEW L \in Lists, NearlyLinked(L), NEW t \in Tasks, t \notin Installed(L),
         NEW N \in Lists, N.head = L.head, N.next = [L.next EXCEPT ![t] = NULL],
         N.prev = [L.prev EXCEPT ![t] = NULL]
  PROVE  NearlyLinked(N) /\ Installed(N) = Installed(L)
<1>1. PICK p \in [Tasks -> Pointer] : Mended(L, p)
  BY DEF NearlyLinked
<1> DEFINE M == [L EXCEPT !.prev = p]
           K == [N EXCEPT !.prev = p]
<1>2. /\ M \in Lists /\ M.head = L.head /\ M.next = L.next /\ M.prev = p
      /\ K \in Lists /\ K.head = N.head /\ K.next = N.next /\ K.prev = p
  BY DEF Lists
<1>3. WellLinked(M) /\ Installed(M) = Installed(L) /\ Installed(K) = Installed(N)
  BY <1>1, <1>2, InstalledForwards DEF Mended
<1>4. \A u \in Installed(M) : K.next[u] = M.next[u] /\ K.prev[u] = M.prev[u]
  <2>1. \A u \in Installed(L) : u \in Tasks /\ u # t
    BY DEF Installed
  <2>2. L.next \in [Tasks -> Pointer]
    BY DEF Lists
  <2>3. QED
    BY <1>2, <1>3, <2>1, <2>2
<1>5. WellLinked(K) /\ Installed(K) = Installed(M)
  BY <1>2, <1>3, <1>4, LinksElsewhere, ZenonT(60)
<1>6. ASSUME NEW u \in Installed(N)
      PROVE  N.prev[u] = p[u] \/ (N.prev[u] = u /\ u \notin Asyncs)
  <2>1. u \in Installed(L) /\ u \in Tasks /\ u # t /\ L.prev \in [Tasks -> Pointer]
    BY <1>3, <1>5 DEF Installed, Lists
  <2>2. L.prev[u] = p[u] \/ (L.prev[u] = u /\ u \notin Asyncs)
    BY <1>1, <2>1 DEF Mended
  <2>3. QED
    BY <2>1, <2>2
<1>7. QED
  BY <1>3, <1>5, <1>6 DEF NearlyLinked, Mended

-----------------------------------------------------------------------------
(* The methods of the saver.                                               *)

\* T has the settings of S.
Alike(S, T) ==
  /\ T.method = S.method /\ T.enabled = S.enabled /\ T.stepDir = S.stepDir
  /\ T.brightness = S.brightness /\ T.slept = S.slept

\* There is a timer for an async() call.
Free(S) == \E a \in Asyncs : a \notin Saver!InUse(S)

\* What a method leads to: at most one more async() timer runs.
Outcome(S, T) ==
  /\ Linked(T)
  /\ Restoring(T)
  /\ \E a \in Asyncs :
       /\ a \notin Saver!InUse(S)
       /\ T.running \cap Asyncs \subseteq S.running \cup {a}

\* Timer::start.
LEMMA StartLinks ==
  ASSUME SaverConstants, NEW S, Linked(S), NEW t \in Tasks, t # button,
         t \in Asyncs => t \notin S.running
  PROVE  /\ Linked(Saver!StartTimer(S, t))
         /\ Saver!StartTimer(S, t).running = S.running \cup {t}
         /\ Alike(S, Saver!StartTimer(S, t))
<1> DEFINE T == Saver!StartTimer(S, t)
<1>1. /\ S \in SaverState /\ S.list \in Lists /\ NearlyLinked(S.list)
      /\ t \in Asyncs => t \notin Installed(S.list)
  BY DEF Linked, SaverState
<1>2. PICK L : L = S.list
  OBVIOUS
<1>3. PICK N : N = AddDynamicTask(L, t)
  OBVIOUS
<1>4. N \in Lists /\ NearlyLinked(N) /\ Installed(N) = Installed(L) \cup {t}
  BY <1>1, <1>2, <1>3, NearlyAdd
<1>5. T = [S EXCEPT !.running = S.running \cup {t}, !.list = N]
  BY <1>1, <1>2, <1>3, SameInSaver DEF Saver!StartTimer, SaverState
<1>6. /\ T \in SaverState /\ T.list = N /\ T.running = S.running \cup {t}
      /\ Alike(S, T)
  <2> HIDE DEF T
  <2> QED BY <1>1, <1>4, <1>5 DEF SaverState, Alike
<1>7. Linked(T)
  <2> HIDE DEF T
  <2> QED BY <1>2, <1>4, <1>6 DEF Linked
<1>8. QED
  BY <1>6, <1>7

\* Timer::stop.
LEMMA StopLinks ==
  ASSUME SaverConstants, NEW S, Linked(S), NEW t \in Tasks, t # button
  PROVE  /\ Linked(Saver!StopTimer(S, t))
         /\ Saver!StopTimer(S, t).running = S.running \ {t}
         /\ Alike(S, Saver!StopTimer(S, t))
<1> DEFINE T == Saver!StopTimer(S, t)
<1>1. S \in SaverState /\ S.list \in Lists /\ NearlyLinked(S.list)
  BY DEF Linked, SaverState
<1>2. PICK L : L = S.list
  OBVIOUS
<1>3. PICK N : N = RemoveDynamicTask(L, t)
  OBVIOUS
<1>4. /\ N \in Lists /\ NearlyLinked(N)
      /\ \/ Installed(N) = Installed(L) \ {t}
         \/ Installed(N) = Installed(L) /\ t \notin Asyncs
  BY <1>1, <1>2, <1>3, NearlyRemove
<1>5. T = [S EXCEPT !.running = S.running \ {t}, !.list = N]
  BY <1>1, <1>2, <1>3, SameInSaver DEF Saver!StopTimer, SaverState
<1>6. /\ T \in SaverState /\ T.list = N /\ T.running = S.running \ {t}
      /\ Alike(S, T)
  <2> HIDE DEF T
  <2> QED BY <1>1, <1>4, <1>5 DEF SaverState, Alike
<1>7. Linked(T)
  <2> HIDE DEF T
  <2> QED BY <1>2, <1>4, <1>6 DEF Linked
<1>8. QED
  BY <1>6, <1>7

\* A change of the settings.
LEMMA SettingsLink ==
  ASSUME NEW S, Linked(S), NEW T \in SaverState, T.list = S.list, T.running = S.running
  PROVE  Linked(T)
BY DEF Linked

\* IApplicationContext::async.
LEMMA AsyncLinks ==
  ASSUME SaverConstants, NEW S, Linked(S), Free(S), NEW step \in Saver!Steps
  PROVE  \E a \in Asyncs :
           /\ a \notin Saver!InUse(S)
           /\ Linked(Saver!Async(S, step))
           /\ Saver!Async(S, step).running = S.running \cup {a}
           /\ Saver!Async(S, step).method = [S.method EXCEPT ![a] = step]
           /\ Saver!Async(S, step).enabled = S.enabled
           /\ Saver!Async(S, step).stepDir = S.stepDir
           /\ Saver!Async(S, step).brightness = S.brightness
<1>1. PICK a : a = CHOOSE b \in Asyncs : b \notin Saver!InUse(S)
  OBVIOUS
<1>2. a \in Asyncs /\ a \notin Saver!InUse(S)
  BY <1>1 DEF Free
<1>3. a \in Tasks /\ a # button /\ a \notin S.running
  BY <1>2, SaverTasks DEF Saver!InUse
<1>4. S \in SaverState
  BY DEF Linked
<1>5. PICK R : R = [S EXCEPT !.method[a] = step]
  OBVIOUS
<1>6. /\ R \in SaverState /\ R.list = S.list /\ R.running = S.running
      /\ R.method = [S.method EXCEPT ![a] = step] /\ R.enabled = S.enabled
      /\ R.stepDir = S.stepDir /\ R.brightness = S.brightness
  BY <1>2, <1>4, <1>5 DEF SaverState
<1>7. Linked(R)
  BY <1>6, SettingsLink
<1>8. PICK T : T = Saver!StartTimer(R, a)
  OBVIOUS
<1>9. Linked(T) /\ T.running = R.running \cup {a} /\ Alike(R, T)
  BY <1>3, <1>6, <1>7, <1>8, StartLinks
<1>10. Saver!Async(S, step) = T
  BY <1>1, <1>5, <1>8 DEF Saver!Async
<1>11. QED
  BY <1>2, <1>6, <1>9, <1>10 DEF Alike

\* Fewer async() timers run, if any has changed.
LEMMA Quietly ==
  ASSUME NEW S, NEW T, Free(S), Linked(T), Restoring(T), T.running \cap Asyncs \subseteq S.running
  PROVE  Outcome(S, T)
BY DEF Outcome, Free

\* startDimTimer and startSleepTimer: one timer is started, the other stopped.
LEMMA SwitchOutcome ==
  ASSUME SaverConstants, NEW S, Linked(S), Free(S), Restoring(S),
         NEW t \in {dimTimer, sleepTimer}, NEW u \in {dimTimer, sleepTimer}
  PROVE  Outcome(S, Saver!StopTimer(Saver!StartTimer([S EXCEPT !.enabled = TRUE], t), u))
<1>1. PICK R : R = [S EXCEPT !.enabled = TRUE]
  OBVIOUS
<1>2. /\ R \in SaverState /\ R.list = S.list /\ R.running = S.running /\ R.method = S.method
      /\ R.enabled = TRUE /\ R.stepDir = S.stepDir /\ R.brightness = S.brightness
  BY <1>1 DEF Linked, SaverState
<1>3. Linked(R)
  BY <1>2, SettingsLink
<1>4. /\ t \in Tasks /\ t # button /\ t \notin Asyncs
      /\ u \in Tasks /\ u # button /\ u \notin Asyncs
  BY SaverTasks
<1>5. PICK Q : Q = Saver!StartTimer(R, t)
  OBVIOUS
<1>6. Linked(Q) /\ Q.running = R.running \cup {t} /\ Alike(R, Q)
  BY <1>3, <1>4, <1>5, StartLinks
<1>7. PICK T : T = Saver!StopTimer(Q, u)
  OBVIOUS
<1>8. Linked(T) /\ T.running = Q.running \ {u} /\ Alike(Q, T)
  BY <1>4, <1>6, <1>7, StopLinks
<1>9. T.running \cap Asyncs = S.running \cap Asyncs
  BY <1>2, <1>4, <1>6, <1>8
<1>10. /\ T.method = S.method /\ T.enabled = TRUE /\ T.stepDir = S.stepDir
       /\ T.brightness = S.brightness
  BY <1>2, <1>6, <1>8 DEF Alike
<1>11. Restoring(T)
  BY <1>9, <1>10 DEF Restoring
<1>12. Outcome(S, T)
  BY <1>8, <1>9, <1>11, Quietly
<1>13. QED
  BY <1>1, <1>5, <1>7, <1>12

LEMMA StartDimTimerOutcome ==
  ASSUME SaverConstants, NEW S, Linked(S), Free(S), Restoring(S)
  PROVE  Outcome(S, Saver!StartDimTimer(S))
BY SwitchOutcome DEF Saver!StartDimTimer

LEMMA StartSleepTimerOutcome ==
  ASSUME SaverConstants, NEW S, Linked(S), Free(S), Restoring(S)
  PROVE  Outcome(S, Saver!StartSleepTimer(S))
BY SwitchOutcome DEF Saver!StartSleepTimer

\* A change of brightness, and an async() call.
LEMMA ChainOutcome ==
  ASSUME SaverConstants, NEW S, Linked(S), Free(S), NEW step \in Saver!Steps,
         NEW level \in 0..fullBright, S.enabled, S.stepDir = "up" => step = "undimStep"
  PROVE  Outcome(S, Saver!Async([S EXCEPT !.brightness = level], step))
<1>1. PICK R : R = [S EXCEPT !.brightness = level]
  OBVIOUS
<1>2. /\ R \in SaverState /\ R.list = S.list /\ R.running = S.running
      /\ R.method = S.method /\ R.enabled = S.enabled /\ R.stepDir = S.stepDir
  BY <1>1 DEF Linked, SaverState
<1>3. Linked(R) /\ Free(R) /\ Saver!InUse(R) = Saver!InUse(S)
  BY <1>2, SettingsLink DEF Free, Saver!InUse
<1>4. PICK T : T = Saver!Async(R, step)
  OBVIOUS
<1>5. PICK a \in Asyncs :
        /\ a \notin Saver!InUse(R)
        /\ Linked(T)
        /\ T.running = R.running \cup {a}
        /\ T.method = [R.method EXCEPT ![a] = step]
        /\ T.enabled = R.enabled /\ T.stepDir = R.stepDir
  BY <1>3, <1>4, AsyncLinks
<1>6. T.method[a] = step
  BY <1>2, <1>5 DEF SaverState
<1>7. Restoring(T)
  BY <1>2, <1>5, <1>6 DEF Restoring
<1>8. Outcome(S, T)
  BY <1>2, <1>3, <1>5, <1>7 DEF Outcome
<1>9. QED
  BY <1>1, <1>4, <1>8

\* The state is one of the saver's.
LEMMA Fields ==
  ASSUME SaverConstants, NEW S, Linked(S)
  PROVE  /\ S \in SaverState /\ S.brightness \in 0..fullBright /\ S.enabled \in BOOLEAN
         /\ S.running \in SUBSET Tasks
         /\ dimBright \in Nat /\ fullBright \in Nat /\ dimBright < fullBright
BY DEF Linked, SaverState, SaverConstants

LEMMA SleepStepOutcome ==
  ASSUME SaverConstants, NEW S, Linked(S), Free(S), Restoring(S)
  PROVE  Outcome(S, Saver!SleepStep(S))
<1>1. CASE ~S.enabled \/ S.stepDir # "down"
  BY <1>1, Quietly DEF Saver!SleepStep
<1>2. CASE S.enabled /\ S.stepDir = "down" /\ S.brightness <= 0
  <2>1. PICK T : T = [S EXCEPT !.brightness = fullBright, !.slept = TRUE]
    OBVIOUS
  <2>2. /\ T \in SaverState /\ T.list = S.list /\ T.running = S.running
        /\ T.stepDir = S.stepDir /\ T.enabled = S.enabled
    <3>1. fullBright \in 0..fullBright
      BY Fields
    <3>2. QED
      BY <2>1, <3>1 DEF Linked, SaverState
  <2>3. Linked(T) /\ Restoring(T)
    BY <1>2, <2>2, SettingsLink DEF Restoring
  <2>4. Saver!SleepStep(S) = T
    BY <1>2, <2>1 DEF Saver!SleepStep, Saver!EnterSleepMode
  <2>5. QED
    BY <2>2, <2>3, <2>4, Quietly
<1>3. CASE S.enabled /\ S.stepDir = "down" /\ ~(S.brightness <= 0)
  <2>1. PICK level : level = S.brightness - 1
    OBVIOUS
  <2>2. level \in 0..fullBright
    BY <1>3, <2>1, Fields
  <2>3. Outcome(S, Saver!Async([S EXCEPT !.brightness = level], "sleepStep"))
    BY <1>3, <2>2, ChainOutcome DEF Saver!Steps
  <2>4. QED
    BY <1>3, <2>1, <2>3 DEF Saver!SleepStep
<1>4. QED
  BY <1>1, <1>2, <1>3

LEMMA DimStepOutcome ==
  ASSUME SaverConstants, NEW S, Linked(S), Free(S), Restoring(S)
  PROVE  Outcome(S, Saver!DimStep(S))
<1>1. CASE ~S.enabled \/ S.stepDir # "down"
  BY <1>1, Quietly DEF Saver!DimStep
<1>2. CASE S.enabled /\ S.stepDir = "down" /\ S.brightness <= dimBright
  BY <1>2, StartSleepTimerOutcome DEF Saver!DimStep
<1>3. CASE S.enabled /\ S.stepDir = "down" /\ ~(S.brightness <= dimBright)
  <2>1. PICK level : level = S.brightness - 1
    OBVIOUS
  <2>2. level \in 0..fullBright
    BY <1>3, <2>1, Fields
  <2>3. Outcome(S, Saver!Async([S EXCEPT !.brightness = level], "dimStep"))
    BY <1>3, <2>2, ChainOutcome DEF Saver!Steps
  <2>4. QED
    BY <1>3, <2>1, <2>3 DEF Saver!DimStep
<1>4. QED
  BY <1>1, <1>2, <1>3

\* Restoring is what this one establishes.
LEMMA UndimStepOutcome ==
  ASSUME SaverConstants, NEW S, Linked(S), Free(S), S.stepDir # "none" => S.enabled
  PROVE  Outcome(S, Saver!UndimStep(S))
<1>1. CASE ~S.enabled \/ S.stepDir # "up"
  <2>1. Restoring(S)
    BY <1>1 DEF Restoring
  <2>2. QED
    BY <1>1, <2>1, Quietly DEF Saver!UndimStep
<1>2. CASE S.enabled /\ S.stepDir = "up" /\ S.brightness >= fullBright
  <2>1. S.brightness = fullBright
    BY <1>2, Fields
  <2>2. Restoring(S)
    BY <1>2, <2>1 DEF Restoring
  <2>3. QED
    BY <1>2, <2>2, StartDimTimerOutcome DEF Saver!UndimStep
<1>3. CASE S.enabled /\ S.stepDir = "up" /\ ~(S.brightness >= fullBright)
  <2>1. PICK level : level = S.brightness + 1
    OBVIOUS
  <2>2. level \in 0..fullBright
    BY <1>3, <2>1, Fields
  <2>3. Outcome(S, Saver!Async([S EXCEPT !.brightness = level], "undimStep"))
    BY <1>3, <2>2, ChainOutcome DEF Saver!Steps
  <2>4. QED
    BY <1>3, <2>1, <2>3 DEF Saver!UndimStep
<1>4. QED
  BY <1>1, <1>2, <1>3

\* What a method that calls another one leads to.
LEMMA OutcomeOf ==
  ASSUME NEW S, NEW R, NEW T, R.running \cap Asyncs = S.running \cap Asyncs, Outcome(R, T)
  PROVE  Outcome(S, T)
BY DEF Outcome, Saver!InUse

LEMMA DimOutcome ==
  ASSUME SaverConstants, NEW S, Linked(S), Free(S)
  PROVE  Outcome(S, Saver!Dim(S))
<1>1. PICK R : R = [S EXCEPT !.enabled = TRUE, !.stepDir = "down"]
  OBVIOUS
<1>2. /\ R \in SaverState /\ R.list = S.list /\ R.running = S.running
      /\ R.enabled = TRUE /\ R.stepDir = "down"
  BY <1>1 DEF Linked, SaverState
<1>3. Linked(R) /\ Free(R) /\ Restoring(R)
  BY <1>2, SettingsLink DEF Free, Saver!InUse, Restoring
<1>4. Outcome(S, Saver!DimStep(R))
  BY <1>2, <1>3, DimStepOutcome, OutcomeOf
<1>5. QED
  BY <1>1, <1>4 DEF Saver!Dim

\* Both timers are stopped.
LEMMA StopBoth ==
  ASSUME SaverConstants, NEW S, Linked(S),
         NEW t \in {dimTimer, sleepTimer}, NEW u \in {dimTimer, sleepTimer}
  PROVE  LET T == Saver!StopTimer(Saver!StopTimer(S, t), u)
         IN  Linked(T) /\ T.running \cap Asyncs = S.running \cap Asyncs /\ Alike(S, T)
<1>1. /\ t \in Tasks /\ t # button /\ t \notin Asyncs
      /\ u \in Tasks /\ u # button /\ u \notin Asyncs
  BY SaverTasks
<1>2. PICK R : R = Saver!StopTimer(S, t)
  OBVIOUS
<1>3. Linked(R) /\ R.running = S.running \ {t} /\ Alike(S, R)
  BY <1>1, <1>2, StopLinks
<1>4. PICK T : T = Saver!StopTimer(R, u)
  OBVIOUS
<1>5. Linked(T) /\ T.running = R.running \ {u} /\ Alike(R, T)
  BY <1>1, <1>3, <1>4, StopLinks
<1>6. T.running \cap Asyncs = S.running \cap Asyncs /\ Alike(S, T)
  BY <1>1, <1>3, <1>5 DEF Alike
<1>7. QED
  BY <1>2, <1>4, <1>5, <1>6

LEMMA UndimOutcome ==
  ASSUME SaverConstants, NEW S, Linked(S), Free(S)
  PROVE  Outcome(S, Saver!Undim(S))
<1>1. PICK R : R = [S EXCEPT !.enabled = TRUE, !.stepDir = "up"]
  OBVIOUS
<1>2. /\ R \in SaverState /\ R.list = S.list /\ R.running = S.running /\ R.enabled = TRUE
  BY <1>1 DEF Linked, SaverState
<1>3. Linked(R)
  BY <1>2, SettingsLink
<1>4. PICK Q : Q = Saver!StopTimer(Saver!StopTimer(R, dimTimer), sleepTimer)
  OBVIOUS
<1>5. Linked(Q) /\ Q.running \cap Asyncs = S.running \cap Asyncs /\ Q.enabled = TRUE
  BY <1>2, <1>3, <1>4, StopBoth DEF Alike
<1>6. Free(Q)
  BY <1>5 DEF Free, Saver!InUse
<1>7. Outcome(S, Saver!UndimStep(Q))
  BY <1>5, <1>6, UndimStepOutcome, OutcomeOf
<1>8. QED
  BY <1>1, <1>4, <1>7 DEF Saver!Undim

LEMMA DeactivateOutcome ==
  ASSUME SaverConstants, NEW S, Linked(S), Free(S)
  PROVE  Outcome(S, Saver!Deactivate(S))
<1>1. PICK R : R = [S EXCEPT !.enabled = FALSE, !.stepDir = "none"]
  OBVIOUS
<1>2. /\ R \in SaverState /\ R.list = S.list /\ R.running = S.running /\ R.stepDir = "none"
  BY <1>1 DEF Linked, SaverState
<1>3. Linked(R)
  BY <1>2, SettingsLink
<1>4. PICK T : T = Saver!StopTimer(Saver!StopTimer(R, sleepTimer), dimTimer)
  OBVIOUS
<1>5. Linked(T) /\ T.running \cap Asyncs = S.running \cap Asyncs /\ T.stepDir = "none"
  BY <1>2, <1>3, <1>4, StopBoth DEF Alike
<1>6. Outcome(S, T)
  BY <1>5, Quietly DEF Restoring
<1>7. QED
  BY <1>1, <1>4, <1>6 DEF Saver!Deactivate

-----------------------------------------------------------------------------
(* The saver's steps.                                                      *)

\* The constructor leaves the button and the dim timer in the run loop.
LEMMA SaverInitInv == ASSUME SaverConstants PROVE Saver!Init => SaverInv
<1> SUFFICES ASSUME Saver!Init PROVE SaverInv
  OBVIOUS
<1> DEFINE none == [t \in Tasks |-> NULL]
<1>1. PICK L0 : L0 = [head |-> NULL, next |-> none, prev |-> none]
  OBVIOUS
<1>2. L0 \in Lists /\ L0.head = NULL
  BY <1>1 DEF Lists, Pointer
<1>3. WellLinked(L0) /\ Installed(L0) = {}
  BY <1>2, EmptyList
<1>4. PICK L1 : L1 = AddDynamicTask(L0, button)
  OBVIOUS
<1>5. L1 \in Lists /\ WellLinked(L1) /\ Installed(L1) = {button}
  BY <1>2, <1>3, <1>4, SaverTasks, AddInstalls
<1>6. L1 = [head |-> button, next |-> none, prev |-> none]
  <2>1. none = [none EXCEPT ![button] = NULL]
    BY SaverTasks
  <2>2. QED
    BY <1>1, <1>4, <2>1 DEF AddDynamicTask
<1>7. PICK L2 : L2 = AddDynamicTask(L1, dimTimer)
  OBVIOUS
<1>8. L2 \in Lists /\ WellLinked(L2) /\ Installed(L2) = {button, dimTimer}
  BY <1>5, <1>7, SaverTasks, AddInstalls
<1>9. L2 = [head |-> button, next |-> [none EXCEPT ![button] = dimTimer, ![dimTimer] = NULL],
            prev |-> [none EXCEPT ![dimTimer] = button]]
  <2>1. L1.head # NULL /\ L1.next[button] = NULL
    BY <1>6, SaverTasks, TasksAssumption
  <2>2. LastTask(L1) = button /\ ~FoundByAdd(L1, dimTimer)
    BY <1>5, <2>1, SaverTasks DEF LastTask, FoundByAdd
  <2>3. QED
    BY <1>6, <1>7, <2>1, <2>2 DEF AddDynamicTask
<1>10. list = L2
  <2>1. [t \in Tasks |-> IF t = button THEN dimTimer ELSE NULL]
          = [none EXCEPT ![button] = dimTimer, ![dimTimer] = NULL]
    BY SaverTasks
  <2>2. [t \in Tasks |-> IF t = dimTimer THEN button ELSE NULL]
          = [none EXCEPT ![dimTimer] = button]
    BY SaverTasks
  <2>3. QED
    BY <1>9, <2>1, <2>2 DEF Saver!Init
<1>11. NearlyLinked(list)
  <2>1. list.prev \in [Tasks -> Pointer] /\ [list EXCEPT !.prev = list.prev] = list
    BY <1>8, <1>10 DEF Lists
  <2>2. Mended(list, list.prev)
    BY <1>8, <1>10, <2>1 DEF Mended
  <2>3. QED
    BY <1>9, <1>10, <2>1, <2>2 DEF NearlyLinked
<1>12. PICK S : S = Saver!State
  OBVIOUS
<1>13. /\ S.list = list /\ S.running = {dimTimer} /\ S.stepDir = "none"
       /\ S \in SaverState
  <2>1. fullBright \in 0..fullBright
    BY DEF SaverConstants
  <2>2. method \in [Asyncs -> Saver!Steps]
    BY DEF Saver!Init, Saver!Steps
  <2>3. list \in Lists /\ {dimTimer} \in SUBSET Tasks
    BY <1>8, <1>10, SaverTasks
  <2>4. QED
    BY <1>12, <2>1, <2>2, <2>3 DEF Saver!Init, Saver!State, SaverState
<1>14. Linked(S) /\ Restoring(S)
  BY <1>8, <1>10, <1>11, <1>13, SaverTasks DEF Linked, Restoring
<1>15. TimerLeft \/ Asyncs = {}
  BY SaverTasks DEF TimerLeft, Saver!Init
<1>16. QED
  BY <1>12, <1>14, <1>15 DEF SaverInv, Saver!Init, Pointer

LEMMA AfterBecomes ==
  ASSUME NEW T \in SaverState, Saver!Becomes(T)
  PROVE  Saver!State' = T
BY DEF SaverState, Saver!Becomes, Saver!State

\* Where a chain may begin, two timers are left.
LEMMA RoomLeft ==
  ASSUME SaverConstants, Saver!RoomForChain, NEW a
  PROVE  \E b \in Asyncs : b # a /\ b \notin Saver!InUse(Saver!State)
<1> DEFINE used == Saver!InUse(Saver!State)
<1>1. IsFiniteSet(Asyncs) /\ used \subseteq Asyncs
  BY SaverTasks DEF Saver!InUse
<1>2. Cardinality(used) + 1 < Cardinality(Asyncs)
  BY DEF Saver!RoomForChain, Saver!Cardinality, Cardinality
<1> HIDE DEF used
<1>3. IsFiniteSet(used) /\ Cardinality(used) \in Nat /\ Cardinality(Asyncs) \in Nat
  BY <1>1, FS_Subset, FS_CardinalityType
<1>4. PICK more : more = used \cup {a}
  OBVIOUS
<1>5. IsFiniteSet(more) /\ Cardinality(more) \in Nat /\ Cardinality(more) <= Cardinality(used) + 1
  BY <1>3, <1>4, FS_AddElement
<1>6. ~(Asyncs \subseteq more)
  <2> SUFFICES ASSUME Asyncs \subseteq more PROVE FALSE
    OBVIOUS
  <2>1. Cardinality(Asyncs) <= Cardinality(more)
    BY <1>5, FS_Subset
  <2>2. QED
    BY <1>2, <1>3, <1>5, <2>1
<1>7. \E b \in Asyncs : b # a /\ b \notin used
  BY <1>4, <1>6
<1>8. QED
  BY <1>7 DEF used

\* A method is called between two passes.
LEMMA CalledInv ==
  ASSUME SaverConstants, SaverInv, Saver!RoomForChain, NEW T,
         Outcome(Saver!Disturbed, T), Saver!Becomes(T), UNCHANGED cursor
  PROVE  SaverInv'
<1>1. Saver!InUse(Saver!Disturbed) = Saver!InUse(Saver!State) /\ Saver!Disturbed.running = runningTimers
  BY DEF Saver!InUse, Saver!Disturbed, Saver!State
<1>2. PICK a \in Asyncs : T.running \cap Asyncs \subseteq runningTimers \cup {a}
  BY <1>1 DEF Outcome
<1>3. PICK b \in Asyncs : b # a /\ b \notin runningTimers
  BY RoomLeft DEF Saver!InUse, Saver!State
<1>4. Linked(T) /\ Restoring(T) /\ T \in SaverState
  BY DEF Outcome, Linked
<1>5. Saver!State' = T /\ runningTimers' = T.running
  BY <1>4, AfterBecomes DEF Saver!Becomes
<1>6. TimerLeft'
  BY <1>2, <1>3, <1>5 DEF TimerLeft
<1>7. cursor' \in Pointer
  BY DEF SaverInv
<1>8. QED
  BY <1>4, <1>5, <1>6, <1>7 DEF SaverInv

\* The saver as a method finds it then.
LEMMA DisturbedIsLinked ==
  ASSUME SaverConstants, SaverInv, Saver!RoomForChain
  PROVE  Linked(Saver!Disturbed) /\ Restoring(Saver!Disturbed) /\ Free(Saver!Disturbed)
<1>1. PICK S : S = Saver!State
  OBVIOUS
<1>2. PICK R : R = [S EXCEPT !.slept = FALSE]
  OBVIOUS
<1>3. Linked(S) /\ Restoring(S)
  BY <1>1 DEF SaverInv
<1>4. /\ R \in SaverState /\ R.list = S.list /\ R.running = S.running /\ R.method = S.method
      /\ R.enabled = S.enabled /\ R.stepDir = S.stepDir /\ R.brightness = S.brightness
  BY <1>2, <1>3 DEF Linked, SaverState
<1>5. Linked(R)
  BY <1>3, <1>4, SettingsLink
<1>6. Restoring(R)
  BY <1>3, <1>4 DEF Restoring
<1>7. Free(R)
  BY <1>1, <1>4, RoomLeft DEF Free, Saver!InUse
<1>8. QED
  BY <1>1, <1>2, <1>5, <1>6, <1>7 DEF Saver!Disturbed

LEMMA SaverTouchInv == ASSUME SaverConstants PROVE SaverInv /\ Saver!Touch => SaverInv'
<1> SUFFICES ASSUME SaverInv, Saver!Touch PROVE SaverInv'
  OBVIOUS
<1>1. Saver!RoomForChain /\ Saver!Becomes(Saver!Undim(Saver!Disturbed)) /\ UNCHANGED cursor
  BY DEF Saver!Touch, Saver!InputComes
<1>2. Outcome(Saver!Disturbed, Saver!Undim(Saver!Disturbed))
  BY <1>1, DisturbedIsLinked, UndimOutcome
<1>3. QED
  BY <1>1, <1>2, CalledInv

LEMMA SaverClientInv ==
  ASSUME SaverConstants, Calls \subseteq {"startDimTimer", "startSleepTimer", "dim", "undim", "deactivate"}
  PROVE  SaverInv /\ Saver!ClientCalls => SaverInv'
<1> SUFFICES ASSUME SaverInv, Saver!ClientCalls PROVE SaverInv'
  OBVIOUS
<1>1. PICK S : S = Saver!Disturbed
  OBVIOUS
<1>2. Saver!RoomForChain /\ UNCHANGED cursor
  BY DEF Saver!ClientCalls, Saver!InputComes
<1>3. \/ Saver!Becomes(Saver!StartDimTimer(S)) \/ Saver!Becomes(Saver!StartSleepTimer(S))
      \/ Saver!Becomes(Saver!Dim(S)) \/ Saver!Becomes(Saver!Undim(S))
      \/ Saver!Becomes(Saver!Deactivate(S))
  BY <1>1 DEF Saver!ClientCalls
<1>4. Linked(S) /\ Restoring(S) /\ Free(S)
  BY <1>1, <1>2, DisturbedIsLinked
<1>5. /\ Outcome(S, Saver!StartDimTimer(S)) /\ Outcome(S, Saver!StartSleepTimer(S))
      /\ Outcome(S, Saver!Dim(S)) /\ Outcome(S, Saver!Undim(S))
      /\ Outcome(S, Saver!Deactivate(S))
  BY <1>4, StartDimTimerOutcome, StartSleepTimerOutcome, DimOutcome, UndimOutcome, DeactivateOutcome
<1>6. PICK T : Outcome(S, T) /\ Saver!Becomes(T)
  BY <1>3, <1>5
<1>7. QED
  BY <1>1, <1>2, <1>6, CalledInv

\* The pass goes on.
LEMMA SaverPassInv ==
  ASSUME SaverConstants
  PROVE  SaverInv /\ (Saver!BeginPass \/ Saver!HandlerIdle) => SaverInv'
<1> SUFFICES ASSUME SaverInv, Saver!BeginPass \/ Saver!HandlerIdle PROVE SaverInv'
  OBVIOUS
<1>1. Saver!State' = Saver!State /\ runningTimers' = runningTimers
  BY DEF Saver!BeginPass, Saver!HandlerIdle, Saver!State
<1>2. list \in Lists /\ cursor \in Pointer
  BY DEF SaverInv, Linked, SaverState, Saver!State
<1>3. cursor' \in Pointer
  <2>1. list.head \in Pointer /\ list.next \in [Tasks -> Pointer]
    BY <1>2 DEF Lists
  <2>2. CASE Saver!BeginPass
    BY <2>1, <2>2 DEF Saver!BeginPass
  <2>3. CASE Saver!HandlerIdle
    <3>1. cursor \in Tasks /\ cursor' = list.next[cursor]
      BY <1>2, <2>3 DEF Saver!HandlerIdle, Pointer
    <3>2. QED
      BY <2>1, <3>1
  <2>4. QED
    BY <2>2, <2>3
<1>4. QED
  BY <1>1, <1>3 DEF SaverInv, TimerLeft

\* A timer is stopped, calls back, and is deleted if an async() call has made it.
LEMMA SaverFiresInv ==
  ASSUME SaverConstants, SaverInv, NEW t \in Tasks, Saver!Fires(t)
  PROVE  SaverInv'
<1>1. cursor = t /\ t \in runningTimers /\ (t \in Asyncs \/ Saver!RoomForChain)
  BY DEF Saver!Fires
<1>2. PICK S : S = Saver!State
  OBVIOUS
<1>3. Linked(S) /\ Restoring(S) /\ S.running = runningTimers /\ S.method = method
  BY <1>2 DEF SaverInv, Saver!State
<1>4. t # button /\ t \in {dimTimer, sleepTimer} \cup Asyncs
  BY <1>1, <1>3 DEF Linked, SaverConstants
<1>5. PICK S0 : S0 = Saver!StopTimer(S, t)
  OBVIOUS
<1>6. Linked(S0) /\ S0.running = S.running \ {t} /\ Alike(S, S0)
  BY <1>3, <1>4, <1>5, StopLinks
<1>7. Free(S0)
  <2>1. CASE t \in Asyncs
    <3>1. PICK b \in Asyncs : b \notin runningTimers
      BY <2>1 DEF SaverInv, TimerLeft
    <3>2. QED
      BY <1>1, <1>3, <1>6, <3>1 DEF Free, Saver!InUse
  <2>2. CASE t \notin Asyncs
    BY <1>1, <1>2, <1>6, <2>2, RoomLeft DEF Free, Saver!InUse
  <2>3. QED
    BY <2>1, <2>2
<1>8. t \notin Asyncs \/ method[t] # "undimStep" => Restoring(S0)
  BY <1>3, <1>6 DEF Restoring, Alike
<1>9. PICK S1 : S1 = Saver!CalledBack(S0, t)
  OBVIOUS
<1>10. Outcome(S0, S1)
  <2>1. CASE t = dimTimer
    <3>1. t # sleepTimer /\ t \notin Asyncs
      BY <2>1, SaverTasks
    <3>2. S1 = Saver!Dim(S0)
      BY <1>9, <2>1, <3>1 DEF Saver!CalledBack
    <3>3. QED
      BY <1>6, <1>7, <3>2, DimOutcome
  <2>2. CASE t = sleepTimer
    <3>1. t # dimTimer /\ t \notin Asyncs
      BY <2>2, SaverTasks
    <3>2. S1 = Saver!SleepStep(S0)
      BY <1>9, <2>2, <3>1 DEF Saver!CalledBack
    <3>3. QED
      BY <1>6, <1>7, <1>8, <3>1, <3>2, SleepStepOutcome
  <2>3. CASE t \in Asyncs
    <3>1. t # dimTimer /\ t # sleepTimer
      BY <2>3, SaverTasks
    <3>2. method[t] \in {"dimStep", "sleepStep", "undimStep"}
      <4>1. S.method \in [Asyncs -> Saver!Steps]
        BY <1>3 DEF Linked, SaverState
      <4>2. QED
        BY <1>3, <2>3, <4>1 DEF Saver!Steps
    <3>3. CASE method[t] = "dimStep"
      <4>1. S1 = Saver!DimStep(S0)
        BY <1>9, <2>3, <3>1, <3>3 DEF Saver!CalledBack
      <4>2. QED
        BY <1>6, <1>7, <1>8, <3>3, <4>1, DimStepOutcome
    <3>4. CASE method[t] = "sleepStep"
      <4>1. S1 = Saver!SleepStep(S0)
        BY <1>9, <2>3, <3>1, <3>4 DEF Saver!CalledBack
      <4>2. QED
        BY <1>6, <1>7, <1>8, <3>4, <4>1, SleepStepOutcome
    <3>5. CASE method[t] = "undimStep"
      <4>1. S1 = Saver!UndimStep(S0)
        BY <1>9, <2>3, <3>1, <3>5 DEF Saver!CalledBack
      <4>2. S0.stepDir # "none" => S0.enabled
        BY <1>3, <1>6 DEF Restoring, Alike
      <4>3. QED
        BY <1>6, <1>7, <4>1, <4>2, UndimStepOutcome
    <3>6. QED
      BY <3>2, <3>3, <3>4, <3>5
  <2>4. QED
    BY <1>4, <2>1, <2>2, <2>3
<1>11. PICK a \in Asyncs :
         a \notin Saver!InUse(S0) /\ S1.running \cap Asyncs \subseteq S0.running \cup {a}
  BY <1>10 DEF Outcome
<1>12. t \in Asyncs => t \notin S1.running
  BY <1>1, <1>6, <1>11 DEF Saver!InUse
<1>13. Linked(S1) /\ Restoring(S1) /\ S1 \in SaverState
  BY <1>10 DEF Outcome, Linked
<1>14. PICK R : R = Saver!Released(S1, t)
  OBVIOUS
<1>15. Linked(R) /\ Restoring(R) /\ R.running = S1.running
  <2>1. CASE t \in Asyncs
    <3>1. PICK L : L = S1.list
      OBVIOUS
    <3>2. PICK N : N = [L EXCEPT !.next[t] = NULL, !.prev[t] = NULL]
      OBVIOUS
    <3>3. L \in Lists /\ NearlyLinked(L) /\ t \notin Installed(L)
      BY <1>12, <1>13, <2>1, <3>1 DEF Linked, SaverState
    <3>4. /\ N \in Lists /\ N.head = L.head /\ N.next = [L.next EXCEPT ![t] = NULL]
          /\ N.prev = [L.prev EXCEPT ![t] = NULL]
      BY <3>2, <3>3 DEF Lists, Pointer
    <3>5. NearlyLinked(N) /\ Installed(N) = Installed(L)
      BY <3>3, <3>4, NearlyElsewhere
    <3>6. R = [S1 EXCEPT !.list = N, !.method[t] = "dimStep"]
      <4>1. R = [S1 EXCEPT !.list.next[t] = NULL, !.list.prev[t] = NULL, !.method[t] = "dimStep"]
        BY <1>14, <2>1 DEF Saver!Released
      <4>2. S1 = [S1 EXCEPT !.list = L]
        BY <1>13, <3>1 DEF SaverState
      <4>3. QED
        BY <1>13, <3>1, <3>2, <4>1, <4>2 DEF SaverState, Lists
    <3>7. /\ R \in SaverState /\ R.list = N /\ R.running = S1.running
          /\ R.method = [S1.method EXCEPT ![t] = "dimStep"] /\ R.enabled = S1.enabled
          /\ R.stepDir = S1.stepDir /\ R.brightness = S1.brightness
      BY <1>13, <2>1, <3>4, <3>6 DEF SaverState, Saver!Steps
    <3>8. Linked(R)
      BY <1>13, <3>1, <3>5, <3>7 DEF Linked
    <3>9. \A b \in S1.running \cap Asyncs : R.method[b] = S1.method[b]
      BY <1>12, <1>13, <2>1, <3>7 DEF SaverState
    <3>10. QED
      BY <1>13, <3>7, <3>8, <3>9 DEF Restoring
  <2>2. CASE t \notin Asyncs
    BY <1>13, <1>14, <2>2 DEF Saver!Released
  <2>3. QED
    BY <2>1, <2>2
<1>16. Saver!Becomes(R) /\ cursor' = S1.list.next[t]
  BY <1>2, <1>5, <1>9, <1>14 DEF Saver!Fires
<1>17. Saver!State' = R /\ runningTimers' = R.running
  BY <1>15, <1>16, AfterBecomes DEF Linked, Saver!Becomes
<1>18. cursor' \in Pointer
  BY <1>13, <1>16 DEF SaverState, Lists
<1>19. TimerLeft'
  <2>1. CASE t \in Asyncs
    BY <1>12, <1>15, <1>17, <2>1 DEF TimerLeft
  <2>2. CASE t \notin Asyncs
    <3>1. PICK b \in Asyncs : b # a /\ b \notin Saver!InUse(S)
      BY <1>1, <1>2, <2>2, RoomLeft
    <3>2. b \notin S1.running
      BY <1>6, <1>11, <3>1 DEF Saver!InUse
    <3>3. QED
      BY <1>15, <1>17, <3>2 DEF TimerLeft
  <2>3. QED
    BY <2>1, <2>2
<1>20. QED
  BY <1>15, <1>17, <1>18, <1>19 DEF SaverInv

LEMMA SaverInvImplies == ASSUME SaverConstants PROVE SaverInv => Saver!TouchRestores
<1> SUFFICES ASSUME SaverInv PROVE Saver!TouchRestores
  OBVIOUS
<1>1. /\ list \in Lists /\ runningTimers \in SUBSET Tasks /\ method \in [Asyncs -> Saver!Steps]
      /\ enabled \in BOOLEAN /\ stepDir \in {"none", "up", "down"}
      /\ brightness \in 0..fullBright /\ slept \in BOOLEAN
  BY DEF SaverInv, Linked, SaverState, Saver!State
<1>2. Saver!TypeOK
  BY <1>1 DEF SaverInv, Saver!TypeOK, Saver!Lists, Lists, Saver!Pointer, Pointer
<1>3. stepDir = "up" => Saver!Undimming \/ brightness = fullBright
  BY DEF SaverInv, Restoring, Saver!State, Saver!Undimming
<1>4. QED
  BY <1>2, <1>3 DEF Saver!TouchRestores

\* What touch has begun to restore is restored, however many chains of steps
\* overlap, for any number of timers and levels of brightness.
THEOREM TouchIsRestored ==
  ASSUME SaverConstants,
         Calls \subseteq {"startDimTimer", "startSleepTimer", "dim", "undim", "deactivate"}
  PROVE  Saver!Spec => []Saver!TouchRestores
<1>1. Saver!Init => SaverInv
  BY SaverInitInv
<1>2. SaverInv /\ [Saver!Next]_(Saver!vars) => SaverInv'
  <2> SUFFICES ASSUME SaverInv, [Saver!Next]_(Saver!vars) PROVE SaverInv'
    OBVIOUS
  <2>1. CASE Saver!Touch
    BY <2>1, SaverTouchInv
  <2>2. CASE Saver!ClientCalls
    BY <2>2, SaverClientInv
  <2>3. CASE Saver!BeginPass \/ Saver!HandlerIdle
    BY <2>3, SaverPassInv
  <2>4. CASE \E t \in Tasks : Saver!Fires(t)
    BY <2>4, SaverFiresInv
  <2>5. CASE UNCHANGED Saver!vars
    BY <2>5 DEF Saver!vars, SaverInv, TimerLeft, Saver!State
  <2>6. QED
    BY <2>1, <2>2, <2>3, <2>4, <2>5 DEF Saver!Next
<1>3. SaverInv => Saver!TouchRestores
  BY SaverInvImplies
<1>4. QED
  BY <1>1, <1>2, <1>3, PTL DEF Saver!Spec
=============================================================================
