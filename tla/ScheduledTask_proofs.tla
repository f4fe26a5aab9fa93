------------------------ MODULE ScheduledTask_proofs ------------------------
(***************************************************************************)
(* Proofs of the safety properties of ScheduledTask, for any number of     *)
(* tasks, as long as clients take none of the liberties.                   *)
(***************************************************************************)
EXTENDS ScheduledTask, GenericQueue_proofs, SequenceTheorems

\* remove clears the link of the task that leaves.
Unlinked == \A t \in Items \ Members(queue) : queue.next[t] = NULL

\* Every task in the queue waits for its handler.
Credited == \A t \in Members(queue) : credit[t]

\* processScheduledTasks may go on to t: it is due only while it is queued.
Visitable(t) == t \in alive /\ (InQueue(t) \/ time[t] = "invalid")

\* The pointers of a call of processScheduledTasks.  Before the handler of its
\* task, nobody has touched the queue since the call read the next task.
Holds(c) ==
  IF c.running THEN c.next # NULL => Visitable(c.next)
  ELSE Visitable(c.task) /\ c.next = queue.next[c.task]

\* Below processScheduledTasks is the run loop or the loop of EnterSleep.
Loops == {<<>>, <<Sleep>>}

Place ==
  stack \in Loops \/ \E below \in Loops, c \in Process : stack = Append(below, c) /\ Holds(c)

\* The inductive invariant.  QueueIntact alone says nothing of the pointers a
\* call of processScheduledTasks holds while a handler rewrites the queue.
TasksInv == QueueIntact /\ Unlinked /\ Credited /\ Place
-----------------------------------------------------------------------------
(* The stack.                                                              *)

LEMMA StackWithoutCall ==
  ASSUME stack \in Loops
  PROVE  /\ Processing = {}
         /\ ~InHandler /\ ~AtTask
         /\ InLoop <=> stack = <<>>
         /\ InSleepLoop <=> stack = <<Sleep>>
         /\ InSleepLoop => Below = <<>>
<1>1. CASE stack = <<>>
  BY <1>1 DEF Calls, Processing, InLoop, InSleepLoop, InHandler, AtTask
<1>2. CASE stack = <<Sleep>>
  <2>1. Len(stack) = 1 /\ DOMAIN stack = {1} /\ stack[1] = Sleep /\ stack # <<>>
    BY <1>2
  <2>2. Top = Sleep /\ Sleep.call = "sleep"
    BY <2>1 DEF Top, Sleep
  <2>3. Calls = {Sleep}
    BY <2>1 DEF Calls
  <2>4. Below = <<>>
    BY <1>2 DEF Below
  <2>5. QED
    BY <1>2, <2>1, <2>2, <2>3, <2>4 DEF Processing, InLoop, InSleepLoop, InHandler, AtTask
<1>3. QED
  BY <1>1, <1>2 DEF Loops

LEMMA StackWithCall ==
  ASSUME NEW below \in Loops, NEW c \in Process, stack = Append(below, c)
  PROVE  /\ Top = c /\ Below = below /\ Processing = {c}
         /\ ~InLoop /\ ~InSleepLoop
         /\ InHandler <=> c.running
         /\ AtTask <=> ~c.running
<1> DEFINE S == Process \cup {Sleep}
           n == Len(below)
<1>1. c.call = "process" /\ Sleep.call = "sleep" /\ c # Sleep
  BY DEF Process, Sleep
<1>2. below \in Seq(S) /\ n \in {0, 1} /\ \A i \in 1..n : below[i] = Sleep
  <2>1. CASE below = <<>>
    BY <2>1
  <2>2. CASE below = <<Sleep>>
    BY <2>2
  <2>3. QED
    BY <2>1, <2>2 DEF Loops
<1>3. /\ stack \in Seq(S) /\ stack # <<>> /\ Len(stack) = n + 1
      /\ \A i \in 1..n : stack[i] = below[i]
      /\ stack[n + 1] = c
  <2> HIDE DEF S
  <2>1. c \in S
    BY DEF S
  <2>2. QED
    BY <1>2, <2>1, AppendProperties
<1>4. DOMAIN stack = 1..(n + 1) /\ Len(stack) - 1 = n
  BY <1>2, <1>3, LenProperties
<1>5. Top = c
  BY <1>2, <1>3 DEF Top
<1>6. Below = below
  <2>1. Below = SubSeq(stack, 1, n)
    BY <1>4 DEF Below
  <2>2. \A i \in 1..n : stack[i] \in S
    BY <1>2, <1>3
  <2>3. /\ Below \in Seq(S)
        /\ Len(Below) = IF 1 <= n THEN n - 1 + 1 ELSE 0
        /\ \A i \in 1..(n - 1 + 1) : Below[i] = stack[1 + i - 1]
    <3> HIDE DEF S
    <3>1. n \in Int
      BY <1>2
    <3>2. QED
      BY <2>1, <2>2, <3>1, SubSeqProperties
  <2>4. Len(Below) = n
    BY <1>2, <2>3
  <2>5. \A i \in 1..n : Below[i] = below[i]
    BY <1>2, <1>3, <2>3
  <2> HIDE DEF S
  <2>6. QED
    BY <1>2, <2>3, <2>4, <2>5, SeqEqual
<1>7. Processing = {c}
  BY <1>1, <1>2, <1>3, <1>4 DEF Processing, Calls
<1>8. QED
  BY <1>1, <1>3, <1>5, <1>6, <1>7 DEF InLoop, InSleepLoop, InHandler, AtTask

\* The stacks of Place have their type.
LEMMA StackType ==
  ASSUME NEW s, s \in Loops \/ \E below \in Loops, c \in Process : s = Append(below, c)
  PROVE  Len(s) <= 3 /\ \A i \in DOMAIN s : s[i] \in Process \/ s[i] = Sleep
<1> DEFINE S == Process \cup {Sleep}
<1>1. ASSUME NEW b \in Loops PROVE b \in Seq(S) /\ Len(b) <= 1
  <2>1. CASE b = <<>>
    BY <2>1
  <2>2. CASE b = <<Sleep>>
    BY <2>2
  <2>3. QED
    BY <2>1, <2>2 DEF Loops
<1>2. s \in Seq(S) /\ Len(s) <= 3
  <2> HIDE DEF S
  <2>1. CASE s \in Loops
    BY <1>1, <2>1, LenProperties
  <2>2. CASE \E below \in Loops, c \in Process : s = Append(below, c)
    <3>1. PICK below \in Loops, c \in Process : s = Append(below, c)
      BY <2>2
    <3>2. c \in S /\ below \in Seq(S) /\ Len(below) <= 1 /\ Len(below) \in Nat
      BY <1>1, LenProperties DEF S
    <3>3. s \in Seq(S) /\ Len(s) = Len(below) + 1
      BY <3>1, <3>2, AppendProperties
    <3>4. QED
      BY <3>2, <3>3
  <2>3. QED
    BY <2>1, <2>2
<1>3. \A i \in DOMAIN s : s[i] \in S
  <2> HIDE DEF S
  <2>1. QED
    BY <1>2, LenProperties
<1>4. QED
  BY <1>2, <1>3

\* Visit of a task that may be visited, with the queue as it is afterwards.
LEMMA VisitPlace ==
  ASSUME queue' \in Queues, NEW below \in Loops, NEW t \in ItemPointer, NEW inSleep \in BOOLEAN,
         t # NULL => Visitable(t)', stack' = Visit(below, queue', t, inSleep)
  PROVE  Place'
<1>1. CASE t = NULL
  BY <1>1 DEF Visit, Place
<1>2. CASE t # NULL
  <2>1. t \in Items /\ queue'.next[t] \in ItemPointer
    BY <1>2 DEF ItemPointer, Queues
  <2>2. PICK c : c = [call |-> "process", inSleep |-> inSleep, task |-> t,
                      next |-> queue'.next[t], running |-> FALSE]
    OBVIOUS
  <2>3. c \in Process
    BY <2>1, <2>2 DEF Process
  <2>4. stack' = Append(below, c)
    BY <1>2, <2>2 DEF Visit
  <2>5. Holds(c)'
    BY <1>2, <2>2 DEF Holds
  <2>6. QED
    BY <2>3, <2>4, <2>5 DEF Place
<1>3. QED
  BY <1>1, <1>2
-----------------------------------------------------------------------------
(* The steps.                                                              *)

LEMMA TasksInitInv == Init => TasksInv
<1> SUFFICES ASSUME Init PROVE TasksInv
  OBVIOUS
<1>1. IsQueue(queue) /\ Members(queue) = {}
  BY QueueWithoutItems DEF Init
<1>2. queue \in Queues /\ Unlinked
  BY DEF Init, Queues, ItemPointer, Unlinked
<1>3. Place
  BY DEF Init, Place, Loops
<1>4. TypeOK
  <2>1. Len(stack) <= 3 /\ \A i \in DOMAIN stack : stack[i] \in Process \/ stack[i] = Sleep
    BY StackType DEF Init, Loops
  <2>2. QED
    BY <1>2, <2>1 DEF Init, TypeOK, Times
<1>5. QED
  BY <1>1, <1>2, <1>3, <1>4 DEF TasksInv, QueueIntact, Credited

\* A step that leaves the queue and the blocks alone and keeps Place.
LEMMA QueueUntouched ==
  ASSUME TasksInv, UNCHANGED <<queue, alive, credit>>, Place',
         time' \in [Items -> Times], runInSleep' \in [Items -> BOOLEAN], flag' \in BOOLEAN
  PROVE  TasksInv'
<1>1. Len(stack') <= 3 /\ \A i \in DOMAIN stack' : stack'[i] \in Process \/ stack'[i] = Sleep
  <2>1. stack' \in Loops \/ \E below \in Loops, c \in Process : stack' = Append(below, c)
    BY DEF Place
  <2>2. QED
    BY <2>1, StackType
<1>2. TypeOK'
  BY <1>1 DEF TasksInv, QueueIntact, TypeOK
<1>3. QED
  BY <1>2 DEF TasksInv, QueueIntact, Unlinked, Credited

\* Time passes: no invalid time becomes due.
LEMMA RtcInterruptInv == TasksInv /\ RtcInterrupt => TasksInv'
<1> SUFFICES ASSUME TasksInv, RtcInterrupt PROVE TasksInv'
  OBVIOUS
<1>1. PICK S \in SUBSET {t \in Items : time[t] = "future"} :
        time' = [t \in Items |-> IF t \in S THEN "due" ELSE time[t]]
  BY DEF RtcInterrupt
<1>2. time' \in [Items -> Times]
  BY <1>1 DEF TasksInv, QueueIntact, TypeOK, Times
<1>3. \A t \in Items : Visitable(t) => Visitable(t)'
  BY <1>1 DEF RtcInterrupt, Visitable, InQueue
<1>4. \A c \in Process : Holds(c) => Holds(c)'
  BY <1>3 DEF Holds, Process, ItemPointer, RtcInterrupt
<1>5. Place'
  BY <1>4 DEF RtcInterrupt, TasksInv, Place
<1>6. QED
  BY <1>2, <1>5, QueueUntouched DEF RtcInterrupt, TasksInv, QueueIntact, TypeOK

\* processScheduledTasks starts at the first task of the queue.
LEMMA StartInv ==
  ASSUME TasksInv, stack \in Loops, NEW inSleep \in BOOLEAN, StartProcessing(inSleep)
  PROVE  TasksInv'
<1>1. queue.top # NULL => Visitable(queue.top)'
  BY LinksOfMembers DEF TasksInv, QueueIntact, StartProcessing, Visitable, InQueue
<1>2. queue.top \in ItemPointer /\ queue \in Queues
  BY DEF TasksInv, QueueIntact, TypeOK, Queues
<1>3. Place'
  BY <1>1, <1>2, VisitPlace DEF StartProcessing
<1>4. QED
  BY <1>3, QueueUntouched DEF StartProcessing, TasksInv, QueueIntact, TypeOK

\* Below the top of the stack there is a loop, and on it what Place says.
LEMMA PlaceWithCall ==
  ASSUME TasksInv, stack \notin Loops
  PROVE  \E below \in Loops, c \in Process :
           /\ stack = Append(below, c) /\ Holds(c)
           /\ Top = c /\ Below = below /\ Processing = {c}
           /\ ~InLoop /\ ~InSleepLoop
           /\ InHandler <=> c.running
           /\ AtTask <=> ~c.running
<1>1. PICK below \in Loops, c \in Process : stack = Append(below, c) /\ Holds(c)
  BY DEF TasksInv, Place
<1>2. QED
  BY <1>1, StackWithCall

\* The successor of a task the call may visit may be visited itself: a
\* cancelled task has none.
LEMMA SuccessorVisitable ==
  ASSUME TasksInv, NEW t \in Items, Visitable(t), queue.next[t] # NULL
  PROVE  InQueue(t) /\ queue.next[t] # t /\ InQueue(queue.next[t]) /\ Visitable(queue.next[t])
<1>1. InQueue(t)
  BY DEF TasksInv, Unlinked, InQueue
<1>2. queue.next[t] \in Members(queue) \ {t}
  BY <1>1, LinksOfMembers DEF TasksInv, QueueIntact, InQueue
<1>3. QED
  BY <1>1, <1>2 DEF TasksInv, QueueIntact, InQueue, Visitable

LEMMA SkipTaskInv == TasksInv /\ SkipTask => TasksInv'
<1> SUFFICES ASSUME TasksInv, SkipTask PROVE TasksInv'
  OBVIOUS
<1>1. stack \notin Loops
  BY StackWithoutCall DEF SkipTask
<1>2. PICK below \in Loops, c \in Process :
        /\ Holds(c) /\ Top = c /\ Below = below
        /\ AtTask <=> ~c.running
  BY <1>1, PlaceWithCall
<1>3. ~c.running /\ c.task \in Items /\ c.next \in ItemPointer /\ c.inSleep \in BOOLEAN
  BY <1>2 DEF SkipTask, Process
<1>4. Visitable(c.task) /\ c.next = queue.next[c.task]
  BY <1>2, <1>3 DEF Holds
<1>5. c.next # NULL => Visitable(c.next)'
  <2>1. c.next # NULL => Visitable(c.next)
    BY <1>3, <1>4, SuccessorVisitable
  <2>2. QED
    BY <2>1 DEF SkipTask, Visitable, InQueue
<1>6. queue \in Queues
  BY DEF TasksInv, QueueIntact, TypeOK
<1>7. Place'
  BY <1>2, <1>3, <1>5, <1>6, VisitPlace DEF SkipTask
<1>8. QED
  BY <1>7, QueueUntouched DEF SkipTask, TasksInv, QueueIntact, TypeOK

LEMMA HandlerReturnsInv == TasksInv /\ HandlerReturns => TasksInv'
<1> SUFFICES ASSUME TasksInv, HandlerReturns PROVE TasksInv'
  OBVIOUS
<1>1. stack \notin Loops
  BY StackWithoutCall DEF HandlerReturns
<1>2. PICK below \in Loops, c \in Process :
        /\ Holds(c) /\ Top = c /\ Below = below
        /\ InHandler <=> c.running
  BY <1>1, PlaceWithCall
<1>3. c.running /\ c.next \in ItemPointer /\ c.inSleep \in BOOLEAN
  BY <1>2 DEF HandlerReturns, Process
<1>4. c.next # NULL => Visitable(c.next)'
  BY <1>2, <1>3 DEF Holds, HandlerReturns, Visitable, InQueue
<1>5. queue \in Queues
  BY DEF TasksInv, QueueIntact, TypeOK
<1>6. Place'
  BY <1>2, <1>3, <1>4, <1>5, VisitPlace DEF HandlerReturns
<1>7. QED
  BY <1>6, QueueUntouched DEF HandlerReturns, TasksInv, QueueIntact, TypeOK

\* runTask: the task that leaves the queue is never the next one.
LEMMA RunTaskInv == TasksInv /\ RunTask => TasksInv'
<1> SUFFICES ASSUME TasksInv, RunTask PROVE TasksInv'
  OBVIOUS
<1>1. stack \notin Loops
  BY StackWithoutCall DEF RunTask
<1>2. PICK below \in Loops, c \in Process :
        /\ Holds(c) /\ Top = c /\ Below = below
        /\ AtTask <=> ~c.running
  BY <1>1, PlaceWithCall
<1> DEFINE t == c.task
<1>3. ~c.running /\ t \in Items /\ c.next \in ItemPointer /\ c.inSleep \in BOOLEAN
  BY <1>2 DEF RunTask, Process
<1>4. Visitable(t) /\ c.next = queue.next[t]
  BY <1>2, <1>3 DEF Holds
<1>5. /\ queue' \in Queues /\ IsQueue(queue')
      /\ Members(queue') = Members(queue) \ {t}
      /\ t \in Members(queue) => queue'.next[t] = NULL
      /\ \A u \in Items \ Members(queue) : queue'.next[u] = queue.next[u]
  <2>1. queue' = RemoveItem(queue, t) /\ queue \in Queues /\ IsQueue(queue)
    BY <1>2 DEF RunTask, TasksInv, QueueIntact, TypeOK
  <2>2. QED
    BY <1>3, <2>1, RemoveItemLeaves
<1>6. c.next # NULL => Visitable(c.next)'
  <2>1. c.next # NULL => c.next # t /\ InQueue(c.next) /\ c.next \in alive
    BY <1>3, <1>4, SuccessorVisitable DEF Visitable
  <2>2. QED
    BY <1>5, <2>1 DEF Visitable, InQueue, RunTask
<1>7. Place'
  <2>1. CASE c.inSleep => runInSleep[t]
    <3>1. PICK d : d = [c EXCEPT !.running = TRUE]
      OBVIOUS
    <3>2. d \in Process /\ d.running /\ d.next = c.next
      BY <3>1 DEF Process
    <3>3. stack' = Append(below, d)
      BY <1>2, <2>1, <3>1 DEF RunTask
    <3>4. Holds(d)'
      BY <1>6, <3>2 DEF Holds
    <3>5. QED
      BY <3>2, <3>3, <3>4 DEF Place
  <2>2. CASE ~(c.inSleep => runInSleep[t])
    <3>1. stack' = Visit(below, queue', c.next, c.inSleep)
      BY <1>2, <2>2 DEF RunTask
    <3>2. QED
      BY <1>3, <1>5, <1>6, <3>1, VisitPlace
  <2>3. QED
    BY <2>1, <2>2
<1>8. credit' \in [Items -> BOOLEAN] /\ \A u \in Items \ {t} : credit'[u] = credit[u]
  <2>1. credit' = credit \/ credit' = [credit EXCEPT ![t] = FALSE]
    BY <1>2 DEF RunTask
  <2>2. credit \in [Items -> BOOLEAN]
    BY DEF TasksInv, QueueIntact, TypeOK
  <2>3. QED
    BY <2>1, <2>2
<1>9. TypeOK'
  <2>1. Len(stack') <= 3 /\ \A i \in DOMAIN stack' : stack'[i] \in Process \/ stack'[i] = Sleep
    <3>1. stack' \in Loops \/ \E b \in Loops, d \in Process : stack' = Append(b, d)
      BY <1>7 DEF Place
    <3>2. QED
      BY <3>1, StackType
  <2>2. QED
    BY <1>5, <1>8, <2>1 DEF TasksInv, QueueIntact, TypeOK, RunTask
<1>10. Unlinked'
  BY <1>5 DEF TasksInv, Unlinked
<1>11. Credited'
  BY <1>5, <1>8 DEF TasksInv, Credited, Members
<1>12. Members(queue') \subseteq alive'
  BY <1>5 DEF TasksInv, QueueIntact, RunTask
<1>13. QED
  BY <1>5, <1>7, <1>9, <1>10, <1>11, <1>12 DEF TasksInv, QueueIntact
-----------------------------------------------------------------------------
(* Client code.                                                            *)

\* Clients do not touch the task that processScheduledTasks goes to next.
LEMMA ClientPlace ==
  ASSUME TasksInv, InClient, UNCHANGED stack,
         \A c \in Processing : c.next # NULL /\ Visitable(c.next) => Visitable(c.next)'
  PROVE  Place'
<1>1. CASE stack \in Loops
  BY <1>1 DEF Place
<1>2. CASE stack \notin Loops
  <2>1. PICK below \in Loops, c \in Process :
          /\ stack = Append(below, c) /\ Holds(c)
          /\ Processing = {c} /\ ~InLoop
          /\ InHandler <=> c.running
    BY <1>2, PlaceWithCall
  <2>2. c.running
    BY <2>1 DEF InClient
  <2>3. Holds(c)'
    BY <2>1, <2>2 DEF Holds
  <2>4. QED
    BY <2>1, <2>3 DEF Place
<1>3. QED
  BY <1>1, <1>2

\* What Schedule makes of a queue from which the task may have been taken.
LEMMA ScheduleKeeps ==
  ASSUME TasksInv, NEW q \in Queues, IsQueue(q), NEW t \in Items, NEW tm \in Times,
         Members(q) \subseteq Members(queue), \A u \in Items \ Members(q) : q.next[u] = NULL,
         Schedule(q, t, tm), t \in alive', alive \subseteq alive', alive' \subseteq Items
  PROVE  /\ queue' \in Queues /\ IsQueue(queue')
         /\ Members(queue') = IF tm = "future" THEN Members(q) \cup {t} ELSE Members(q)
         /\ Members(queue') \subseteq alive'
         /\ Unlinked' /\ Credited'
         /\ time' \in [Items -> Times] /\ time'[t] = tm
         /\ \A u \in Items \ {t} : time'[u] = time[u]
         /\ credit' \in [Items -> BOOLEAN]
<1>1. /\ queue' \in Queues /\ IsQueue(queue')
      /\ Members(queue') = IF tm = "future" THEN Members(q) \cup {t} ELSE Members(q)
      /\ \A u \in Items \ Members(queue') : queue'.next[u] = NULL
  <2>1. CASE tm = "future"
    <3>1. queue' = Enqueue(q, t)
      BY <2>1 DEF Schedule
    <3>2. QED
      BY <2>1, <3>1, EnqueueJoins
  <2>2. CASE tm # "future"
    BY <2>2 DEF Schedule
  <2>3. QED
    BY <2>1, <2>2
<1>2. Members(queue') \subseteq alive' /\ Members(queue') \subseteq Items
  BY <1>1 DEF TasksInv, QueueIntact
<1>3. time \in [Items -> Times] /\ credit \in [Items -> BOOLEAN]
  BY DEF TasksInv, QueueIntact, TypeOK
<1>4. /\ time' \in [Items -> Times] /\ time'[t] = tm
      /\ \A u \in Items \ {t} : time'[u] = time[u]
  BY <1>3 DEF Schedule
<1>5. /\ credit' \in [Items -> BOOLEAN]
      /\ t \in Members(queue') => credit'[t]
      /\ \A u \in Items \ {t} : credit'[u] = credit[u]
  <2> DEFINE b == t \in Members(queue')
  <2>1. credit' = [credit EXCEPT ![t] = b] /\ b \in BOOLEAN
    BY DEF Schedule
  <2>2. b => credit' = [credit EXCEPT ![t] = TRUE]
    BY <2>1
  <2>3. ~b => credit' = [credit EXCEPT ![t] = FALSE]
    BY <2>1
  <2> HIDE DEF b
  <2>4. credit' \in [Items -> BOOLEAN] /\ (b => credit'[t])
    BY <1>3, <2>2, <2>3
  <2>5. \A u \in Items \ {t} : credit'[u] = credit[u]
    BY <1>3, <2>2, <2>3
  <2>6. QED
    BY <2>4, <2>5 DEF b
<1>6. Credited'
  BY <1>1, <1>2, <1>5 DEF TasksInv, Credited
<1>7. QED
  BY <1>1, <1>2, <1>4, <1>5, <1>6 DEF Unlinked

\* A step that schedules a task keeps the invariant, if it is not one that
\* is visited next or the task stays visitable.
LEMMA ScheduleInv ==
  ASSUME TasksInv, InClient, NEW q \in Queues, IsQueue(q), NEW t \in Items, NEW tm \in Times,
         Members(q) \subseteq Members(queue), Members(queue) \subseteq Members(q) \cup {t},
         \A u \in Items \ Members(q) : q.next[u] = NULL,
         Schedule(q, t, tm), t \in alive', alive \subseteq alive', alive' \subseteq Items,
         runInSleep' \in [Items -> BOOLEAN], UNCHANGED <<flag, stack>>,
         tm \in {"future", "invalid"} \/ \A c \in Processing : c.next # t
  PROVE  TasksInv'
<1>1. /\ queue' \in Queues /\ IsQueue(queue')
      /\ Members(queue') = IF tm = "future" THEN Members(q) \cup {t} ELSE Members(q)
      /\ Members(queue') \subseteq alive'
      /\ Unlinked' /\ Credited'
      /\ time' \in [Items -> Times] /\ time'[t] = tm
      /\ \A u \in Items \ {t} : time'[u] = time[u]
      /\ credit' \in [Items -> BOOLEAN]
  BY ScheduleKeeps
<1>2. ASSUME NEW c \in Processing, c.next # NULL, Visitable(c.next)
      PROVE  Visitable(c.next)'
  <2>1. c.next \in Items /\ c.next \in alive'
    BY <1>2 DEF Visitable, TasksInv, QueueIntact, TypeOK
  <2>2. CASE c.next = t
    BY <1>1, <2>1, <2>2 DEF Visitable, InQueue
  <2>3. CASE c.next # t
    BY <1>1, <1>2, <2>1, <2>3 DEF Visitable, InQueue
  <2>4. QED
    BY <2>2, <2>3
<1>3. Place'
  BY <1>2, ClientPlace
<1>4. TypeOK'
  BY <1>1 DEF TasksInv, QueueIntact, TypeOK
<1>5. QED
  BY <1>1, <1>3, <1>4 DEF TasksInv, QueueIntact

\* The queue as a constructor finds it.
LEMMA FreshLink ==
  ASSUME TasksInv, NEW t \in Items \ alive, NEW q, q = [queue EXCEPT !.next[t] = NULL]
  PROVE  /\ q \in Queues /\ IsQueue(q) /\ Members(q) = Members(queue)
         /\ \A u \in Items \ Members(q) : q.next[u] = NULL
<1>1. queue \in Queues /\ IsQueue(queue) /\ t \notin Members(queue)
  BY DEF TasksInv, QueueIntact, TypeOK
<1>2. q = [top |-> queue.top, end |-> queue.end, next |-> [queue.next EXCEPT ![t] = NULL]]
  BY <1>1 DEF Queues
<1>3. q \in Queues
  BY <1>1, <1>2 DEF Queues, ItemPointer
<1>4. \A u \in Items \ {t} : q.next[u] = queue.next[u]
  BY <1>1, <1>2 DEF Queues
<1>5. Members(queue) \subseteq Items
  BY DEF Members
<1>6. q.top = queue.top /\ q.end = queue.end /\ q.next[t] = NULL
  BY <1>1, <1>2 DEF Queues
<1>7. IsQueue(q) /\ Members(q) = Members(queue)
  BY <1>1, <1>4, <1>5, <1>6, LinksElsewhere
<1>8. QED
  BY <1>3, <1>4, <1>6, <1>7 DEF TasksInv, Unlinked

LEMMA ConstructInv ==
  ASSUME TasksInv, NEW t \in Items, NEW tm \in {"future", "invalid"}, Construct(t, tm)
  PROVE  TasksInv'
<1>1. PICK q : q = [queue EXCEPT !.next[t] = NULL]
  OBVIOUS
<1>2. Schedule(q, t, tm) /\ t \in Items \ alive
  BY <1>1 DEF Construct
<1>3. /\ q \in Queues /\ IsQueue(q) /\ Members(q) = Members(queue)
      /\ \A u \in Items \ Members(q) : q.next[u] = NULL
  BY <1>1, <1>2, FreshLink
<1>4. t \in alive' /\ alive \subseteq alive' /\ alive' \subseteq Items
  BY DEF Construct, TasksInv, QueueIntact, TypeOK
<1>5. runInSleep' \in [Items -> BOOLEAN]
  BY DEF Construct, TasksInv, QueueIntact, TypeOK
<1>6. tm \in Times
  BY DEF Times
<1>7. QED
  BY <1>2, <1>3, <1>4, <1>5, <1>6, ScheduleInv DEF Construct

\* The copy has the time of the other task.  A call that goes on to a task
\* goes on to a live one, not to the block of the copy.
LEMMA CopyConstructInv ==
  ASSUME TasksInv, NEW t \in Items, NEW other \in Items, CopyConstruct(t, other)
  PROVE  TasksInv'
<1>1. PICK q : q = [queue EXCEPT !.next[t] = NULL]
  OBVIOUS
<1>2. Schedule(q, t, time[other]) /\ t \in Items \ alive
  BY <1>1 DEF CopyConstruct
<1>3. /\ q \in Queues /\ IsQueue(q) /\ Members(q) = Members(queue)
      /\ \A u \in Items \ Members(q) : q.next[u] = NULL
  BY <1>1, <1>2, FreshLink
<1>4. t \in alive' /\ alive \subseteq alive' /\ alive' \subseteq Items
  BY DEF CopyConstruct, TasksInv, QueueIntact, TypeOK
<1>5. runInSleep' \in [Items -> BOOLEAN] /\ time[other] \in Times
  <2>1. runInSleep \in [Items -> BOOLEAN] /\ time \in [Items -> Times]
    BY DEF TasksInv, QueueIntact, TypeOK
  <2>2. runInSleep[other] \in BOOLEAN
    BY <2>1
  <2>3. runInSleep' = [runInSleep EXCEPT ![t] = runInSleep[other]]
    BY DEF CopyConstruct
  <2>4. QED
    BY <2>1, <2>2, <2>3
<1>6. \A c \in Processing : c.next # t
  <2>1. CASE stack \in Loops
    BY <2>1, StackWithoutCall
  <2>2. CASE stack \notin Loops
    <3>1. PICK c \in Process : /\ Holds(c) /\ Processing = {c} /\ ~InLoop
                               /\ InHandler <=> c.running
      BY <2>2, PlaceWithCall
    <3>2. c.running
      BY <3>1 DEF CopyConstruct, InClient
    <3>3. QED
      BY <1>2, <3>1, <3>2, ItemsAssumption DEF Holds, Visitable
  <2>3. QED
    BY <2>1, <2>2
<1>7. InClient /\ UNCHANGED <<flag, stack>>
  BY DEF CopyConstruct
<1>8. QED
  BY <1>2, <1>3, <1>4, <1>5, <1>6, <1>7, ScheduleInv

LEMMA AssignInv ==
  ASSUME Liberties = {}, TasksInv, NEW t \in Items, NEW other \in Items, Assign(t, other)
  PROVE  TasksInv'
<1>1. queue \in Queues /\ IsQueue(queue) /\ \A u \in Items \ Members(queue) : queue.next[u] = NULL
  BY DEF TasksInv, QueueIntact, TypeOK, Unlinked
<1>2. Schedule(queue, t, time[other]) /\ InClient /\ UNCHANGED <<alive, flag, stack>> /\ t \in alive
  BY DEF Assign
<1>3. \A c \in Processing : c.next # t
  BY DEF Assign, Untouched
<1>4. runInSleep' \in [Items -> BOOLEAN] /\ time[other] \in Times
  <2>1. runInSleep \in [Items -> BOOLEAN] /\ time \in [Items -> Times]
    BY DEF TasksInv, QueueIntact, TypeOK
  <2>2. runInSleep[other] \in BOOLEAN
    BY <2>1
  <2>3. runInSleep' = [runInSleep EXCEPT ![t] = runInSleep[other]]
    BY DEF Assign
  <2>4. QED
    BY <2>1, <2>2, <2>3
<1>5. alive' \subseteq Items
  BY <1>2 DEF TasksInv, QueueIntact, TypeOK
<1>6. QED
  BY <1>1, <1>2, <1>3, <1>4, <1>5, ScheduleInv

LEMMA RescheduleInv ==
  ASSUME TasksInv, NEW t \in Items, NEW tm \in {"future", "invalid"}, Reschedule(t, tm)
  PROVE  TasksInv'
<1>1. PICK q : q = RemoveItem(queue, t)
  OBVIOUS
<1>2. queue \in Queues /\ IsQueue(queue) /\ \A u \in Items \ Members(queue) : queue.next[u] = NULL
  BY DEF TasksInv, QueueIntact, TypeOK, Unlinked
<1>3. /\ q \in Queues /\ IsQueue(q) /\ Members(q) = Members(queue) \ {t}
      /\ \A u \in Items \ Members(q) : q.next[u] = NULL
  BY <1>1, <1>2, RemoveItemLeaves, SMTT(30)
<1>4. Schedule(q, t, tm) /\ InClient /\ UNCHANGED <<runInSleep, alive, flag, stack>> /\ t \in alive
  BY <1>1 DEF Reschedule
<1>5. runInSleep' \in [Items -> BOOLEAN] /\ alive' \subseteq Items /\ tm \in Times
  BY <1>4 DEF TasksInv, QueueIntact, TypeOK, Times
<1>6. QED
  BY <1>3, <1>4, <1>5, ScheduleInv

LEMMA SetRunInSleepInv ==
  ASSUME TasksInv, NEW t \in Items, NEW run \in BOOLEAN, SetRunInSleep(t, run)
  PROVE  TasksInv'
<1>1. Place'
  BY ClientPlace DEF SetRunInSleep, Visitable, InQueue
<1>2. runInSleep' \in [Items -> BOOLEAN]
  BY DEF SetRunInSleep, TasksInv, QueueIntact, TypeOK
<1>3. QED
  BY <1>1, <1>2, QueueUntouched DEF SetRunInSleep, TasksInv, QueueIntact, TypeOK

LEMMA DestroyInv ==
  ASSUME Liberties = {}, TasksInv, NEW t \in Items, Destroy(t)
  PROVE  TasksInv'
<1>1. /\ queue' \in Queues /\ IsQueue(queue') /\ Members(queue') = Members(queue) \ {t}
      /\ t \in Members(queue) => queue'.next[t] = NULL
      /\ \A u \in Items \ Members(queue) : queue'.next[u] = queue.next[u]
  BY RemoveItemLeaves DEF TasksInv, QueueIntact, TypeOK, Destroy
<1>2. \A c \in Processing : c.next # NULL /\ Visitable(c.next) => Visitable(c.next)'
  BY <1>1 DEF Destroy, Untouched, Visitable, InQueue
<1>3. Place'
  BY <1>2, ClientPlace DEF Destroy
<1>4. credit' \in [Items -> BOOLEAN] /\ \A u \in Items \ {t} : credit'[u] = credit[u]
  BY DEF Destroy, TasksInv, QueueIntact, TypeOK
<1>5. TypeOK'
  BY <1>1, <1>4 DEF Destroy, TasksInv, QueueIntact, TypeOK
<1>6. Members(queue') \subseteq alive'
  BY <1>1 DEF Destroy, TasksInv, QueueIntact
<1>7. Unlinked' /\ Credited'
  BY <1>1, <1>4 DEF TasksInv, Unlinked, Credited, Members
<1>8. QED
  BY <1>1, <1>3, <1>5, <1>6, <1>7 DEF TasksInv, QueueIntact
-----------------------------------------------------------------------------
(* The theorems.                                                           *)

\* EnterSleep and the end of sleep mode change the stack alone.
LEMMA SleepStepsInv ==
  ASSUME Liberties = {}, TasksInv, EnterSleep \/ WakeUp
  PROVE  TasksInv'
<1>1. Place'
  <2>1. CASE EnterSleep
    <3>1. stack = <<>>
      BY <2>1 DEF EnterSleep, InLoop
    <3>2. stack' = Append(<<>>, Sleep)
      BY <2>1, <3>1 DEF EnterSleep
    <3>3. stack' = <<Sleep>>
      BY <3>2
    <3>4. QED
      BY <3>3 DEF Place, Loops
  <2>2. CASE WakeUp
    <3>1. stack \in Loops
      BY <2>2, PlaceWithCall DEF WakeUp
    <3>2. stack' = <<>>
      BY <2>2, <3>1, StackWithoutCall DEF WakeUp
    <3>3. QED
      BY <3>2 DEF Place, Loops
  <2>3. QED
    BY <2>1, <2>2
<1>2. QED
  BY <1>1, QueueUntouched DEF EnterSleep, WakeUp, TasksInv, QueueIntact, TypeOK

LEMMA TasksNextInv == ASSUME Liberties = {} PROVE TasksInv /\ [Next]_vars => TasksInv'
<1> SUFFICES ASSUME TasksInv, [Next]_vars PROVE TasksInv'
  OBVIOUS
<1>1. CASE RtcInterrupt
  BY <1>1, RtcInterruptInv
<1>2. CASE ProcessInLoop
  <2>1. stack \in Loops /\ StartProcessing(FALSE)
    BY <1>2 DEF ProcessInLoop, InLoop, Loops
  <2>2. QED
    BY <2>1, StartInv
<1>3. CASE ProcessInSleep
  <2>1. stack \in Loops /\ StartProcessing(TRUE)
    BY <1>3, PlaceWithCall DEF ProcessInSleep
  <2>2. QED
    BY <2>1, StartInv
<1>4. CASE SkipTask
  BY <1>4, SkipTaskInv
<1>5. CASE RunTask
  BY <1>5, RunTaskInv
<1>6. CASE HandlerReturns
  BY <1>6, HandlerReturnsInv
<1>7. CASE EnterSleep \/ WakeUp
  BY <1>7, SleepStepsInv
<1>8. CASE Client
  BY <1>8, ConstructInv, RescheduleInv, CopyConstructInv, AssignInv, SetRunInSleepInv,
     DestroyInv DEF Client
<1>9. CASE UNCHANGED vars
  <2>1. \A t : Visitable(t) => Visitable(t)'
    BY <1>9 DEF vars, Visitable, InQueue
  <2>2. Place'
    BY <1>9, <2>1 DEF vars, TasksInv, Place, Holds
  <2>3. QED
    BY <1>9, <2>2, QueueUntouched DEF vars, TasksInv, QueueIntact, TypeOK
<1>10. QED
  BY <1>1, <1>2, <1>3, <1>4, <1>5, <1>6, <1>7, <1>8, <1>9 DEF Next

\* The invariant holds as long as handlers do not put the system to sleep and
\* leave the task that is visited next alone.
THEOREM TasksInvHolds == ASSUME Liberties = {} PROVE Spec => []TasksInv
<1>1. Init => TasksInv
  BY TasksInitInv
<1>2. TasksInv /\ [Next]_vars => TasksInv'
  BY TasksNextInv
<1>3. QED
  BY <1>1, <1>2, PTL DEF Spec

\* Whatever handlers schedule, cancel and destroy, the queue stays one chain
\* of live tasks.
THEOREM QueueStaysIntact == ASSUME Liberties = {} PROVE Spec => []QueueIntact
<1>1. TasksInv => QueueIntact
  BY DEF TasksInv
<1>2. QED
  BY <1>1, TasksInvHolds, PTL

\* The task read before a handler is called is live when the loop goes on to
\* it, and so is the task at which the loop is.
THEOREM VisitsLiveTasks == ASSUME Liberties = {} PROVE Spec => []ProcessingStaysOnLiveTasks
<1>1. TasksInv => ProcessingStaysOnLiveTasks
  <2> SUFFICES ASSUME TasksInv, NEW c \in Processing
               PROVE  (c.next # NULL => c.next \in alive) /\ (c.running \/ c.task \in alive)
    BY DEF ProcessingStaysOnLiveTasks
  <2>1. stack \notin Loops
    BY StackWithoutCall
  <2>2. Holds(c) /\ c \in Process
    BY <2>1, PlaceWithCall
  <2>3. CASE c.running
    BY <2>2, <2>3 DEF Holds, Visitable
  <2>4. CASE ~c.running
    <3>1. c.task \in Items /\ Visitable(c.task) /\ c.next = queue.next[c.task]
      BY <2>2, <2>4 DEF Holds, Process
    <3>2. QED
      BY <3>1, SuccessorVisitable DEF Visitable
  <2>5. QED
    BY <2>3, <2>4
<1>2. QED
  BY <1>1, TasksInvHolds, PTL

\* No handler is called twice for one scheduling.
THEOREM RunsOnce == ASSUME Liberties = {} PROVE Spec => []ExecutesOnce
<1>1. TasksInv => ExecutesOnce
  <2> SUFFICES ASSUME TasksInv, AtTask, time[Top.task] = "due" PROVE credit[Top.task]
    BY DEF ExecutesOnce
  <2>1. stack \notin Loops
    BY StackWithoutCall
  <2>2. PICK c \in Process : Holds(c) /\ Top = c /\ (AtTask <=> ~c.running)
    BY <2>1, PlaceWithCall
  <2>3. InQueue(Top.task)
    BY <2>2 DEF Holds, Visitable
  <2>4. QED
    BY <2>3 DEF TasksInv, Credited, InQueue
<1>2. QED
  BY <1>1, TasksInvHolds, PTL
=============================================================================
