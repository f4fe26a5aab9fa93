------------------------- MODULE RedpineModule_proofs -------------------------
(***************************************************************************)
(* Proofs of the safety properties of RedpineModule, for any number of     *)
(* frames, as long as no client deletes the last frame of a queue; and of  *)
(* those of HttpClient, for any number of clients, frames and timers.      *)
(***************************************************************************)
EXTENDS RedpineModule, GenericQueue_proofs, SequenceTheorems

OneAwaited == \A f, g \in Members(ResponseQueue) : f = g

\* A frame whose completion handler runs has left the queues.
CurIsLoose ==
  cur # NULL => cur \in alive \ Committed /\ stage \in {"calling", "failing"}

\* A frame is sent once: none that waits is among the commands in the module.
OwedApart ==
  \A i \in DOMAIN owed :
    /\ owed[i].frame \notin Members(RequestQueue)
    /\ \A j \in DOMAIN owed : owed[i].frame = owed[j].frame => i = j

\* Until a join has been successful or has failed, an IP configuration is
\* behind its join: in the queue, or the join is awaited.
JoinComesFirst ==
  ~joined /\ ~joinFailed =>
    /\ \A g \in Members(ResponseQueue) : kind[g] # "ip"
    /\ \A g \in Members(RequestQueue) : kind[g] = "ip" =>
         \/ \E f \in Members(RequestQueue) : kind[f] = "join" /\ next[f] = g
         \/ \E f \in Members(ResponseQueue) : kind[f] = "join"

\* The module offers a frame of the answer to f.
Answers(f) == /\ input.cmd = kind[f] /\ input.cmd \in Kinds /\ input.frame = f
              /\ ~input.last => input.ok

\* The module owes the answer to the awaited request and no other.
AnswersInOrder ==
  ~taken =>
    \/ owed = <<>> /\ response.top = NULL /\ input.cmd \in {"none", "async"}
    \/ owed = <<>> /\ response.top # NULL /\ Answers(response.top) /\ input.last
    \/ /\ response.top # NULL
       /\ owed = <<[cmd |-> kind[response.top], frame |-> response.top]>>
       /\ input.cmd \in {"none", "async"} \/ (Answers(response.top) /\ ~input.last)

\* The inductive invariant.
RequestsInv ==
  /\ QueuesIntact /\ OneAwaited /\ CurIsLoose /\ OwedApart
  /\ ReadyMeansJoined /\ JoinComesFirst /\ AnswersInOrder
-----------------------------------------------------------------------------
(* Two queues that share their links.                                      *)

Apart(Q, R) ==
  /\ Q \in Queues /\ R \in Queues /\ Q.next = R.next
  /\ IsQueue(Q) /\ IsQueue(R)
  /\ Members(Q) \cap Members(R) = {}

\* R with the links of P.
Relinked(R, P) == [top |-> R.top, end |-> R.end, next |-> P.next]

LEMMA Relinks ==
  ASSUME NEW R \in Queues, IsQueue(R), NEW P \in Queues,
         \A u \in Members(R) : P.next[u] = R.next[u]
  PROVE  /\ Relinked(R, P) \in Queues /\ IsQueue(Relinked(R, P))
         /\ Members(Relinked(R, P)) = Members(R)
<1>1. Relinked(R, P) \in Queues
  BY DEF Relinked, Queues
<1>2. PICK S : S = Relinked(R, P)
  OBVIOUS
<1>3. S.top = R.top /\ S.end = R.end /\ \A u \in Members(R) : S.next[u] = R.next[u]
  BY <1>2 DEF Relinked
<1>4. IsQueue(S) /\ Members(S) = Members(R)
  BY <1>3, LinksElsewhere
<1>5. QED
  BY <1>1, <1>2, <1>4

\* A block that is in neither queue is cleared.
LEMMA ApartClear ==
  ASSUME NEW Q, NEW R, Apart(Q, R), NEW n \in [Items -> ItemPointer],
         \A u \in Members(Q) \cup Members(R) : n[u] = Q.next[u]
  PROVE  LET P == [top |-> Q.top, end |-> Q.end, next |-> n]
         IN  /\ Apart(P, Relinked(R, P))
             /\ Members(P) = Members(Q) /\ Members(Relinked(R, P)) = Members(R)
<1>1. PICK P : P = [top |-> Q.top, end |-> Q.end, next |-> n]
  OBVIOUS
<1>2. P \in Queues /\ P.top = Q.top /\ P.end = Q.end /\ P.next = n
  BY <1>1 DEF Apart, Queues
<1>3. IsQueue(P) /\ Members(P) = Members(Q)
  BY <1>2, LinksElsewhere DEF Apart
<1>4. /\ Relinked(R, P) \in Queues /\ IsQueue(Relinked(R, P))
      /\ Members(Relinked(R, P)) = Members(R)
  BY <1>2, Relinks DEF Apart
<1>5. P.next = Relinked(R, P).next
  BY DEF Relinked
<1>6. Apart(P, Relinked(R, P))
  BY <1>2, <1>3, <1>4, <1>5 DEF Apart
<1>7. QED
  BY <1>1, <1>3, <1>4, <1>6

LEMMA ApartEnqueue ==
  ASSUME NEW Q, NEW R, Apart(Q, R), NEW t \in Items \ (Members(Q) \cup Members(R))
  PROVE  LET P == Enqueue(Q, t)
         IN  /\ Apart(P, Relinked(R, P))
             /\ Members(P) = Members(Q) \cup {t} /\ Members(Relinked(R, P)) = Members(R)
             /\ P.end = t /\ P.next[t] = NULL /\ (Q.end # NULL => P.next[Q.end] = t)
             /\ \A u \in Members(Q) : Q.next[u] # NULL => P.next[u] = Q.next[u]
             /\ \A u \in Items \ (Members(Q) \cup {t}) : P.next[u] = Q.next[u]
<1>1. PICK P : P = Enqueue(Q, t)
  OBVIOUS
<1>2. /\ P \in Queues /\ IsQueue(P) /\ Members(P) = Members(Q) \cup {t}
      /\ \A u \in Items \ (Members(Q) \cup {t}) : P.next[u] = Q.next[u]
  BY <1>1, EnqueueJoins DEF Apart
<1>8. /\ P.end = t /\ P.next[t] = NULL /\ (Q.end # NULL => P.next[Q.end] = t)
      /\ \A u \in Members(Q) : Q.next[u] # NULL => P.next[u] = Q.next[u]
  BY <1>1, EnqueueLinks DEF Apart
<1>3. \A u \in Members(R) : P.next[u] = R.next[u]
  BY <1>2 DEF Apart, Members
<1>4. /\ Relinked(R, P) \in Queues /\ IsQueue(Relinked(R, P))
      /\ Members(Relinked(R, P)) = Members(R)
  BY <1>2, <1>3, Relinks DEF Apart
<1>5. P.next = Relinked(R, P).next
  BY DEF Relinked
<1>6. Apart(P, Relinked(R, P))
  BY <1>2, <1>4, <1>5 DEF Apart
<1>7. QED
  BY <1>1, <1>2, <1>4, <1>6, <1>8

LEMMA ApartRemove ==
  ASSUME NEW Q, NEW R, Apart(Q, R), NEW t \in Items
  PROVE  LET P == RemoveItem(Q, t)
         IN  /\ Apart(P, Relinked(R, P))
             /\ Members(P) = Members(Q) \ {t} /\ Members(Relinked(R, P)) = Members(R)
<1>1. PICK P : P = RemoveItem(Q, t)
  OBVIOUS
<1>2. /\ P \in Queues /\ IsQueue(P) /\ Members(P) = Members(Q) \ {t}
      /\ \A u \in Items \ Members(Q) : P.next[u] = Q.next[u]
  BY <1>1, RemoveItemLeaves DEF Apart
<1>3. \A u \in Members(R) : P.next[u] = R.next[u]
  BY <1>2 DEF Apart, Members
<1>4. /\ Relinked(R, P) \in Queues /\ IsQueue(Relinked(R, P))
      /\ Members(Relinked(R, P)) = Members(R)
  BY <1>2, <1>3, Relinks DEF Apart
<1>5. P.next = Relinked(R, P).next
  BY DEF Relinked
<1>6. Apart(P, Relinked(R, P))
  BY <1>2, <1>4, <1>5 DEF Apart
<1>7. QED
  BY <1>1, <1>2, <1>4, <1>6

LEMMA ApartDequeue ==
  ASSUME NEW Q, NEW R, Apart(Q, R)
  PROVE  /\ Apart(Dequeue(Q), R)
         /\ Members(Dequeue(Q)) = Members(Q) \ {Q.top} /\ Dequeue(Q).next = Q.next
<1>1. /\ Dequeue(Q) \in Queues /\ IsQueue(Dequeue(Q))
      /\ Members(Dequeue(Q)) = Members(Q) \ {Q.top} /\ Dequeue(Q).next = Q.next
  BY DequeueLeaves DEF Apart
<1>2. QED
  BY <1>1 DEF Apart
-----------------------------------------------------------------------------
(* What the parts of the invariant rest on.                                *)

LEMMA AtMostOne ==
  ASSUME NEW S, \A f, g \in S : f = g
  PROVE  Cardinality(S) <= 1
<1>1. CASE S = {}
  BY <1>1, FS_EmptySet
<1>2. CASE S # {}
  <2>1. PICK x : S = {x}
    BY <1>2
  <2>2. Cardinality({x}) = 1
    BY FS_Singleton
  <2>3. QED
    BY <2>1, <2>2
<1>3. QED
  BY <1>1, <1>2

\* No more commands are owed an answer than there are frames.
LEMMA OwedIsBounded ==
  ASSUME NEW o \in Seq([cmd : Kinds, frame : Items]),
         \A i, j \in DOMAIN o : o[i].frame = o[j].frame => i = j
  PROVE  Len(o) <= Cardinality(Items)
<1>1. Len(o) \in Nat /\ DOMAIN o = 1..Len(o)
  BY LenProperties
<1>2. \A i \in 1..Len(o) : o[i].frame \in Items
  <2>1. \A i \in 1..Len(o) : o[i] \in [cmd : Kinds, frame : Items]
    BY ElementOfSeq
  <2>2. QED
    BY <2>1
<1> DEFINE F == [i \in 1..Len(o) |-> o[i].frame]
<1>3. F \in Injection(1..Len(o), Items)
  BY <1>1, <1>2 DEF Injection, IsInjective
<1>4. Cardinality(1..Len(o)) <= Cardinality(Items)
  BY <1>3, FS_Injection, ItemsAssumption
<1>5. Cardinality(1..Len(o)) = Len(o)
  BY <1>1, FS_Interval, SMTT(30)
<1>6. QED
  BY <1>4, <1>5

LEMMA QueuesApart ==
  ASSUME QueuesIntact
  PROVE  /\ Apart(RequestQueue, ResponseQueue) /\ Apart(ResponseQueue, RequestQueue)
         /\ Relinked(RequestQueue, ResponseQueue) = RequestQueue
         /\ Relinked(ResponseQueue, RequestQueue) = ResponseQueue
<1>1. RequestQueue \in Queues /\ ResponseQueue \in Queues
  BY DEF QueuesIntact, TypeOK, Ends, RequestQueue, ResponseQueue, Queues
<1>2. RequestQueue.next = ResponseQueue.next
  BY DEF RequestQueue, ResponseQueue
<1>3. QED
  BY <1>1, <1>2 DEF QueuesIntact, Apart, Relinked, RequestQueue, ResponseQueue

\* The awaited frame is the one in the response queue, without a successor.
LEMMA Awaited ==
  ASSUME QueuesIntact, OneAwaited
  PROVE  /\ Members(ResponseQueue) = IF response.top = NULL THEN {} ELSE {response.top}
         /\ \A f \in Members(ResponseQueue) : next[f] = NULL
         /\ Members(RequestQueue) \subseteq Items /\ response.top \in ItemPointer
         /\ request.top # NULL => request.top \in Members(RequestQueue)
         /\ \A f \in Members(RequestQueue) : next[f] = request.top => request.top = NULL
<1>1. /\ ResponseQueue.top = response.top /\ ResponseQueue.next = next
      /\ RequestQueue.top = request.top /\ RequestQueue.next = next
  BY DEF RequestQueue, ResponseQueue
<1>2. /\ ResponseQueue.top # NULL => ResponseQueue.top \in Members(ResponseQueue)
      /\ ResponseQueue.top = NULL => Members(ResponseQueue) = {}
      /\ \A t \in Members(ResponseQueue) : ResponseQueue.next[t] # NULL =>
           ResponseQueue.next[t] \in Members(ResponseQueue) \ {t}
  BY LinksOfMembers DEF QueuesIntact
<1>3. /\ Members(RequestQueue) \subseteq Items
      /\ RequestQueue.top # NULL => RequestQueue.top \in Members(RequestQueue)
      /\ \A t \in Members(RequestQueue) :
           RequestQueue.next[t] = RequestQueue.top => RequestQueue.top = NULL
  BY LinksOfMembers DEF QueuesIntact
<1>4. response.top \in ItemPointer
  BY DEF QueuesIntact, TypeOK, Ends
<1>5. QED
  BY <1>1, <1>2, <1>3, <1>4 DEF OneAwaited

LEMMA QueuesAre ==
  ASSUME NEW Q, NEW R, Apart(Q, R), request' = EndsOf(Q), response' = EndsOf(R), next' = Q.next
  PROVE  /\ RequestQueue' = Q /\ ResponseQueue' = R
         /\ Apart(RequestQueue, ResponseQueue)'
         /\ Members(RequestQueue)' = Members(Q) /\ Members(ResponseQueue)' = Members(R)
         /\ request' \in Ends /\ response' \in Ends /\ next' \in [Items -> ItemPointer]
<1>1. /\ Q = [top |-> Q.top, end |-> Q.end, next |-> Q.next]
      /\ R = [top |-> R.top, end |-> R.end, next |-> R.next]
      /\ Q.next = R.next /\ Q.next \in [Items -> ItemPointer]
      /\ Q.top \in ItemPointer /\ Q.end \in ItemPointer
      /\ R.top \in ItemPointer /\ R.end \in ItemPointer
  BY DEF Apart, Queues
<1>2. RequestQueue' = Q
  BY <1>1 DEF EndsOf, RequestQueue
<1>3. ResponseQueue' = R
  BY <1>1 DEF EndsOf, ResponseQueue
<1>4. request' \in Ends /\ response' \in Ends
  BY <1>1 DEF EndsOf, Ends
<1>5. QED
  BY <1>1, <1>2, <1>3, <1>4

\* The same when the response queue stays as it is.
LEMMA ResponsesStand ==
  ASSUME NEW Q, NEW P, QueuesIntact, response' = response, request' = EndsOf(Q), next' = Q.next,
         P.top = response.top, P.end = response.end,
         Apart(Q, Relinked(P, Q)), Members(Relinked(P, Q)) = Members(ResponseQueue)
  PROVE  /\ Apart(RequestQueue, ResponseQueue)'
         /\ Members(RequestQueue)' = Members(Q)
         /\ Members(ResponseQueue)' = Members(ResponseQueue)
         /\ request' \in Ends /\ next' \in [Items -> ItemPointer]
<1>1. response' = EndsOf(Relinked(P, Q))
  BY DEF QueuesIntact, TypeOK, Ends, EndsOf, Relinked
<1>2. QED
  BY <1>1, QueuesAre

LEMMA IntactAfter ==
  ASSUME TypeOK', Apart(RequestQueue, ResponseQueue)', OneAwaited', Committed' \subseteq alive'
  PROVE  QueuesIntact'
<1>1. (Cardinality(Members(ResponseQueue)) <= 1)'
  <2>1. PICK S : S = Members(ResponseQueue)'
    OBVIOUS
  <2>2. Cardinality(S) <= 1
    BY <2>1, AtMostOne DEF OneAwaited
  <2>3. QED
    BY <2>1, <2>2
<1>2. QED
  BY <1>1 DEF QueuesIntact, Apart

LEMMA RequestsInitInv == Init => RequestsInv
<1> SUFFICES ASSUME Init PROVE RequestsInv
  OBVIOUS
<1>1. /\ RequestQueue.top = NULL /\ RequestQueue.end = NULL
      /\ ResponseQueue.top = NULL /\ ResponseQueue.end = NULL
  BY DEF Init, RequestQueue, ResponseQueue
<1>2. /\ IsQueue(RequestQueue) /\ Members(RequestQueue) = {}
      /\ IsQueue(ResponseQueue) /\ Members(ResponseQueue) = {}
  BY <1>1, QueueWithoutItems
<1>3. TypeOK
  <2>1. owed = <<>> /\ DOMAIN owed = {} /\ owed \in Seq([cmd : Kinds, frame : Items])
    BY DEF Init
  <2>2. Len(owed) <= Cardinality(Items)
    BY <2>1, OwedIsBounded
  <2>3. 0 \in 0..MaxKicks
    BY FramesAssumption
  <2>4. QED
    BY <2>1, <2>2, <2>3 DEF Init, TypeOK, Ends, ItemPointer, Kinds, Inputs
<1>4. OneAwaited /\ OwedApart /\ CurIsLoose
  BY <1>2 DEF Init, OneAwaited, OwedApart, CurIsLoose
<1>5. QueuesIntact
  BY <1>2, <1>3, <1>4, AtMostOne DEF OneAwaited, QueuesIntact, Committed
<1>6. ReadyMeansJoined /\ JoinComesFirst /\ AnswersInOrder
  BY <1>2 DEF Init, ReadyMeansJoined, JoinComesFirst, AnswersInOrder, Nothing
<1>7. QED
  BY <1>4, <1>5, <1>6 DEF RequestsInv
-----------------------------------------------------------------------------
(* Client code and the frames that delete themselves.                      *)

\* The request queue changes: joins that are in front of their IP
\* configuration stay there.
LEMMA RequestsChange ==
  ASSUME RequestsInv, UNCHANGED <<response, moduleVars, networkVars, history>>,
         Apart(RequestQueue, ResponseQueue)', request' \in Ends, next' \in [Items -> ItemPointer],
         Members(ResponseQueue)' = Members(ResponseQueue),
         Committed' \subseteq alive', alive' \subseteq Items,
         kind' \in [Items -> Kinds], \A f \in Members(ResponseQueue) : kind'[f] = kind[f],
         \A i \in DOMAIN owed : owed[i].frame \notin Members(RequestQueue)',
         kicks' \in 0..MaxKicks, edge' \in BOOLEAN, success' \in BOOLEAN, cur' \in ItemPointer,
         stage' \in {"between", "calling", "failing", "sending"}, CurIsLoose',
         \A g \in Members(RequestQueue)' : kind'[g] = "ip" =>
           \/ g \in Members(RequestQueue) /\ kind[g] = "ip"
           \/ \E f \in Members(RequestQueue)' : kind'[f] = "join" /\ next'[f] = g,
         \A f, g \in Members(RequestQueue) : kind[f] = "join" /\ next[f] = g /\ kind[g] = "ip" =>
           f \in Members(RequestQueue)' /\ kind'[f] = "join" /\ next'[f] = g
  PROVE  RequestsInv'
<1>1. TypeOK'
  BY DEF RequestsInv, QueuesIntact, TypeOK, moduleVars, networkVars, history
<1>2. OneAwaited'
  BY DEF RequestsInv, OneAwaited
<1>3. QueuesIntact'
  BY <1>1, <1>2, IntactAfter
<1>4. OwedApart'
  BY DEF RequestsInv, OwedApart, moduleVars
<1>5. ReadyMeansJoined'
  BY DEF RequestsInv, ReadyMeansJoined, networkVars
<1>6. JoinComesFirst'
  <2> SUFFICES ASSUME ~joined, ~joinFailed
               PROVE  /\ \A g \in Members(ResponseQueue) : kind'[g] # "ip"
                      /\ \A g \in Members(RequestQueue)' : kind'[g] = "ip" =>
                           \/ \E f \in Members(RequestQueue)' : kind'[f] = "join" /\ next'[f] = g
                           \/ \E f \in Members(ResponseQueue) : kind'[f] = "join"
    BY DEF JoinComesFirst, networkVars
  <2>1. /\ \A g \in Members(ResponseQueue) : kind[g] # "ip"
        /\ \A g \in Members(RequestQueue) : kind[g] = "ip" =>
             \/ \E f \in Members(RequestQueue) : kind[f] = "join" /\ next[f] = g
             \/ \E f \in Members(ResponseQueue) : kind[f] = "join"
    BY DEF RequestsInv, JoinComesFirst
  <2>2. QED
    BY <2>1
<1>7. AnswersInOrder'
  <2>1. response.top # NULL => response.top \in Members(ResponseQueue)
    BY Awaited DEF RequestsInv
  <2>2. response.top # NULL => kind'[response.top] = kind[response.top]
    BY <2>1
  <2>3. UNCHANGED <<response, owed, input, taken>>
    BY DEF moduleVars, history
  <2>4. response.top # NULL => Answers(response.top)' = Answers(response.top)
    BY <2>2, <2>3 DEF Answers
  <2>5. QED
    BY <2>2, <2>3, <2>4 DEF RequestsInv, AnswersInOrder, Answers
<1>8. QED
  BY <1>2, <1>3, <1>4, <1>5, <1>6, <1>7 DEF RequestsInv

\* new writes into the link field of a block that no queue contains.
LEMMA FrameIsNew ==
  ASSUME RequestsInv, NEW n \in [Items -> ItemPointer], \A u \in alive : n[u] = next[u],
         NEW P, P = [top |-> request.top, end |-> request.end, next |-> n]
  PROVE  /\ P \in Queues
         /\ Apart(P, Relinked(ResponseQueue, P))
         /\ Members(P) = Members(RequestQueue)
         /\ Members(Relinked(ResponseQueue, P)) = Members(ResponseQueue)
         /\ \A u \in Committed : P.next[u] = next[u]
<1>1. /\ Apart(RequestQueue, ResponseQueue) /\ Committed \subseteq alive
      /\ RequestQueue.next = next
      /\ RequestQueue.top = request.top /\ RequestQueue.end = request.end
  <2>1. QueuesIntact
    BY DEF RequestsInv
  <2>2. QED
    BY <2>1, QueuesApart DEF QueuesIntact, RequestQueue
<1>2. \A u \in Committed : n[u] = next[u]
  BY <1>1
<1>3. /\ Apart(P, Relinked(ResponseQueue, P))
      /\ Members(P) = Members(RequestQueue)
      /\ Members(Relinked(ResponseQueue, P)) = Members(ResponseQueue)
  BY <1>1, <1>2, ApartClear DEF Committed
<1>4. P \in Queues
  BY <1>3 DEF Apart
<1>5. QED
  BY <1>2, <1>3, <1>4

LEMMA CommitAsyncInv ==
  ASSUME RequestsInv, NEW f \in Items, CommitAsync(f)
  PROVE  RequestsInv'
<1>1. /\ QueuesIntact /\ f \notin alive /\ Committed \subseteq alive
      /\ (cur # NULL => cur \in alive \ Committed) /\ next \in [Items -> ItemPointer]
  BY DEF RequestsInv, QueuesIntact, TypeOK, CurIsLoose, CommitAsync, Unused
<1> DEFINE n == [next EXCEPT ![f] = NULL]
<1>2. PICK P : P = [top |-> request.top, end |-> request.end, next |-> n]
  OBVIOUS
<1>3. /\ P \in Queues /\ Members(P) = Members(RequestQueue)
      /\ Apart(P, Relinked(ResponseQueue, P))
      /\ Members(Relinked(ResponseQueue, P)) = Members(ResponseQueue)
      /\ \A u \in Committed : P.next[u] = next[u]
  <2>1. n \in [Items -> ItemPointer] /\ \A u \in alive : n[u] = next[u]
    BY <1>1 DEF RequestsInv, QueuesIntact, TypeOK, ItemPointer
  <2> HIDE DEF n
  <2>2. QED
    BY <1>2, <2>1, FrameIsNew
<1>4. PICK Q : Q = Enqueue(P, f)
  OBVIOUS
<1>5. PICK R : R = Relinked(ResponseQueue, P)
  OBVIOUS
<1>6. R.top = response.top /\ R.end = response.end
  BY <1>5 DEF Relinked, ResponseQueue
<1>7. /\ Apart(Q, Relinked(R, Q))
      /\ Members(Q) = Members(RequestQueue) \cup {f}
      /\ Members(Relinked(R, Q)) = Members(ResponseQueue)
      /\ \A u \in Members(P) : P.next[u] # NULL => Q.next[u] = P.next[u]
  <2>1. f \in Items \ (Members(P) \cup Members(R))
    BY <1>1, <1>3, <1>5 DEF Committed
  <2>2. Apart(P, R)
    BY <1>3, <1>5
  <2>3. QED
    BY <1>3, <1>4, <1>5, <2>1, <2>2, ApartEnqueue
<1>8. request' = EndsOf(Q) /\ next' = Q.next /\ response' = response
  <2>1. [RequestQueue EXCEPT !.next[f] = NULL] = P
    BY <1>1, <1>2 DEF RequestQueue
  <2>2. QED
    BY <1>4, <2>1 DEF CommitAsync
<1>9. /\ Apart(RequestQueue, ResponseQueue)'
      /\ Members(RequestQueue)' = Members(RequestQueue) \cup {f}
      /\ Members(ResponseQueue)' = Members(ResponseQueue)
      /\ request' \in Ends /\ next' \in [Items -> ItemPointer]
  BY <1>1, <1>6, <1>7, <1>8, ResponsesStand
<1>10. /\ UNCHANGED <<moduleVars, networkVars, history, edge, stage, cur, success>>
       /\ kind' = [kind EXCEPT ![f] = "get"] /\ kind \in [Items -> Kinds]
       /\ alive' = alive \cup {f} /\ kicks' \in 0..MaxKicks
       /\ \A i \in DOMAIN owed : owed[i].frame # f
  BY FramesAssumption DEF CommitAsync, Unused, RequestsInv, QueuesIntact, TypeOK
<1>11. Committed' \subseteq alive' /\ alive' \subseteq Items /\ kind' \in [Items -> Kinds]
  BY <1>9, <1>10 DEF RequestsInv, QueuesIntact, TypeOK, Committed, Kinds
<1>12. CurIsLoose'
  BY <1>1, <1>9, <1>10 DEF RequestsInv, CurIsLoose, Committed
<1>13. \A i \in DOMAIN owed : owed[i].frame \notin Members(RequestQueue)'
  BY <1>9, <1>10 DEF RequestsInv, OwedApart
<1>14. \A u \in Committed : kind'[u] = kind[u]
  BY <1>1, <1>10
<1>15. \A g \in Members(RequestQueue)' : kind'[g] = "ip" => g \in Members(RequestQueue) /\ kind[g] = "ip"
  BY <1>9, <1>10, <1>11 DEF Committed
<1>16. \A u, g \in Members(RequestQueue) : kind[u] = "join" /\ next[u] = g /\ kind[g] = "ip" =>
         u \in Members(RequestQueue)' /\ kind'[u] = "join" /\ next'[u] = g
  <2>1. \A g \in Members(RequestQueue) : g # NULL
    BY ItemsAssumption DEF Members
  <2>2. QED
    BY <1>3, <1>7, <1>8, <1>9, <1>14, <2>1 DEF Committed
<1>17. /\ edge' \in BOOLEAN /\ success' \in BOOLEAN /\ cur' \in ItemPointer
       /\ stage' \in {"between", "calling", "failing", "sending"}
  BY <1>10 DEF RequestsInv, QueuesIntact, TypeOK
<1>18. QED
  BY <1>8, <1>9, <1>10, <1>11, <1>12, <1>13, <1>14, <1>15, <1>16, <1>17, RequestsChange
     DEF Committed

\* new writes into the link fields of both frames of a set-up.
LEMMA ClearTwo ==
  ASSUME NEW f, NEW g
  PROVE  [RequestQueue EXCEPT !.next[f] = NULL, !.next[g] = NULL] =
           [top |-> request.top, end |-> request.end,
            next |-> [[next EXCEPT ![f] = NULL] EXCEPT ![g] = NULL]]
<1> DEFINE n == [next EXCEPT ![f] = NULL]
<1>1. PICK A : A = [RequestQueue EXCEPT !.next[f] = NULL]
  OBVIOUS
<1>2. A = [top |-> request.top, end |-> request.end, next |-> n]
  BY <1>1 DEF RequestQueue
<1>3. [RequestQueue EXCEPT !.next[f] = NULL, !.next[g] = NULL] = [A EXCEPT !.next[g] = NULL]
  BY <1>1 DEF RequestQueue
<1> HIDE DEF n
<1>4. [A EXCEPT !.next[g] = NULL]
        = [top |-> request.top, end |-> request.end, next |-> [n EXCEPT ![g] = NULL]]
  BY <1>2
<1>5. QED
  BY <1>3, <1>4 DEF n

LEMMA SetupWifiOnlyInv ==
  ASSUME RequestsInv, NEW f \in Items, NEW g \in Items, SetupWifiOnly(f, g)
  PROVE  RequestsInv'
<1>1. /\ QueuesIntact /\ f \notin alive /\ g \notin alive /\ f # g /\ Committed \subseteq alive
      /\ (cur # NULL => cur \in alive \ Committed) /\ next \in [Items -> ItemPointer]
  BY DEF RequestsInv, QueuesIntact, TypeOK, CurIsLoose, SetupWifiOnly, Unused
<1> DEFINE n == [next EXCEPT ![f] = NULL]
           m == [n EXCEPT ![g] = NULL]
<1>2. PICK P : P = [top |-> request.top, end |-> request.end, next |-> m]
  OBVIOUS
<1>3. /\ P \in Queues /\ Members(P) = Members(RequestQueue)
      /\ Apart(P, Relinked(ResponseQueue, P))
      /\ Members(Relinked(ResponseQueue, P)) = Members(ResponseQueue)
      /\ \A u \in Committed : P.next[u] = next[u]
  <2>1. n \in [Items -> ItemPointer] /\ \A u \in alive : n[u] = next[u]
    BY <1>1 DEF RequestsInv, QueuesIntact, TypeOK, ItemPointer
  <2> HIDE DEF n
  <2>2. m \in [Items -> ItemPointer] /\ \A u \in alive : m[u] = next[u]
    BY <1>1, <2>1 DEF RequestsInv, QueuesIntact, TypeOK, ItemPointer
  <2> HIDE DEF m
  <2>3. QED
    BY <1>2, <2>2, FrameIsNew
<1>4. PICK Q : Q = Enqueue(P, f)
  OBVIOUS
<1>5. PICK R : R = Relinked(ResponseQueue, P)
  OBVIOUS
<1>6. /\ Apart(Q, Relinked(R, Q))
      /\ Members(Q) = Members(RequestQueue) \cup {f}
      /\ Members(Relinked(R, Q)) = Members(ResponseQueue)
      /\ Q.end = f /\ f # NULL
      /\ \A u \in Members(P) : P.next[u] # NULL => Q.next[u] = P.next[u]
  <2>1. f \in Items \ (Members(P) \cup Members(R)) /\ f # NULL
    BY <1>1, <1>3, <1>5, ItemsAssumption DEF Committed
  <2>2. Apart(P, R)
    BY <1>3, <1>5
  <2>3. QED
    BY <1>3, <1>4, <1>5, <2>1, <2>2, ApartEnqueue
<1>7. PICK Q2 : Q2 = Enqueue(Q, g)
  OBVIOUS
<1>8. PICK R2 : R2 = Relinked(R, Q)
  OBVIOUS
<1>9. R2.top = response.top /\ R2.end = response.end
  BY <1>5, <1>8 DEF Relinked, ResponseQueue
<1>10. /\ Apart(Q2, Relinked(R2, Q2))
       /\ Members(Q2) = Members(RequestQueue) \cup {f, g}
       /\ Members(Relinked(R2, Q2)) = Members(ResponseQueue)
       /\ Q2.next[f] = g
       /\ \A u \in Members(Q) : Q.next[u] # NULL => Q2.next[u] = Q.next[u]
  <2>1. g \in Items \ (Members(Q) \cup Members(R2))
    BY <1>1, <1>6, <1>8 DEF Committed
  <2>2. Apart(Q, R2)
    BY <1>6, <1>8
  <2>3. /\ Apart(Q2, Relinked(R2, Q2))
        /\ Members(Q2) = Members(Q) \cup {g} /\ Members(Relinked(R2, Q2)) = Members(R2)
        /\ Q.end # NULL => Q2.next[Q.end] = g
        /\ \A u \in Members(Q) : Q.next[u] # NULL => Q2.next[u] = Q.next[u]
    BY <1>7, <2>1, <2>2, ApartEnqueue
  <2>4. QED
    BY <1>6, <1>8, <2>3
<1>11. request' = EndsOf(Q2) /\ next' = Q2.next /\ response' = response
  BY <1>2, <1>4, <1>7, ClearTwo DEF SetupWifiOnly
<1>12. /\ Apart(RequestQueue, ResponseQueue)'
       /\ Members(RequestQueue)' = Members(RequestQueue) \cup {f, g}
       /\ Members(ResponseQueue)' = Members(ResponseQueue)
       /\ request' \in Ends /\ next' \in [Items -> ItemPointer]
  BY <1>1, <1>9, <1>10, <1>11, ResponsesStand
<1>13. /\ UNCHANGED <<moduleVars, networkVars, history, edge, stage, cur, success>>
       /\ kind' = [kind EXCEPT ![f] = "join", ![g] = "ip"] /\ kind \in [Items -> Kinds]
       /\ alive' = alive \cup {f, g} /\ kicks' \in 0..MaxKicks
       /\ \A i \in DOMAIN owed : owed[i].frame # f /\ owed[i].frame # g
  BY FramesAssumption DEF SetupWifiOnly, Unused, RequestsInv, QueuesIntact, TypeOK
<1>14. Committed' \subseteq alive' /\ alive' \subseteq Items /\ kind' \in [Items -> Kinds]
  BY <1>12, <1>13 DEF RequestsInv, QueuesIntact, TypeOK, Committed, Kinds
<1>15. CurIsLoose'
  BY <1>1, <1>12, <1>13 DEF RequestsInv, CurIsLoose, Committed
<1>16. \A i \in DOMAIN owed : owed[i].frame \notin Members(RequestQueue)'
  BY <1>12, <1>13 DEF RequestsInv, OwedApart
<1>17. (\A u \in Committed : kind'[u] = kind[u]) /\ kind'[f] = "join"
  <2>1. \A u \in Committed : u \in Items /\ u # f /\ u # g
    BY <1>1 DEF Committed, Members
  <2>2. QED
    BY <1>1, <1>13, <2>1
<1>18. \A h \in Members(RequestQueue)' : kind'[h] = "ip" =>
         \/ h \in Members(RequestQueue) /\ kind[h] = "ip"
         \/ \E u \in Members(RequestQueue)' : kind'[u] = "join" /\ next'[u] = h
  BY <1>10, <1>11, <1>12, <1>17 DEF Committed
<1>19. \A u, h \in Members(RequestQueue) : kind[u] = "join" /\ next[u] = h /\ kind[h] = "ip" =>
         u \in Members(RequestQueue)' /\ kind'[u] = "join" /\ next'[u] = h
  <2>1. \A h \in Members(RequestQueue) : h # NULL
    BY ItemsAssumption DEF Members
  <2>2. QED
    BY <1>3, <1>6, <1>10, <1>11, <1>12, <1>17, <2>1 DEF Committed
<1>20. /\ edge' \in BOOLEAN /\ success' \in BOOLEAN /\ cur' \in ItemPointer
       /\ stage' \in {"between", "calling", "failing", "sending"}
  BY <1>13 DEF RequestsInv, QueuesIntact, TypeOK
<1>21. QED
  BY <1>11, <1>12, <1>13, <1>14, <1>15, <1>16, <1>17, <1>18, <1>19, <1>20, RequestsChange
     DEF Committed

\* A request of a client leaves the request queue: its predecessor, if it is a
\* join, was not followed by an IP configuration.
LEMMA AbortInv ==
  ASSUME RequestsInv, NEW f \in Items, Abort(f)
  PROVE  RequestsInv'
<1>1. /\ QueuesIntact /\ f \in Members(RequestQueue) /\ kind[f] = "get" /\ cur # f
      /\ Apart(RequestQueue, ResponseQueue) /\ RequestQueue.next = next
  BY QueuesApart DEF RequestsInv, Abort, RequestQueue
<1>2. PICK Q : Q = RemoveItem(RequestQueue, f)
  OBVIOUS
<1>3. /\ Apart(Q, Relinked(ResponseQueue, Q))
      /\ Members(Q) = Members(RequestQueue) \ {f}
      /\ Members(Relinked(ResponseQueue, Q)) = Members(ResponseQueue)
  BY <1>1, <1>2, ApartRemove
<1>4. \A u \in Items \ {f} : next[u] # f => Q.next[u] = next[u]
  BY <1>1, <1>2, RemoveItemLeaves DEF Apart
<1>5. request' = EndsOf(Q) /\ next' = Q.next /\ response' = response
  BY <1>2 DEF Abort
<1>6. ResponseQueue.top = response.top /\ ResponseQueue.end = response.end
  BY DEF ResponseQueue
<1>7. /\ Apart(RequestQueue, ResponseQueue)'
      /\ Members(RequestQueue)' = Members(RequestQueue) \ {f}
      /\ Members(ResponseQueue)' = Members(ResponseQueue)
      /\ request' \in Ends /\ next' \in [Items -> ItemPointer]
  <2>1. PICK P : P = ResponseQueue
    OBVIOUS
  <2>2. QED
    BY <1>1, <1>3, <1>5, <1>6, <2>1, ResponsesStand
<1>8. /\ UNCHANGED <<moduleVars, networkVars, history, edge, stage, cur, success, kind, kicks>>
      /\ alive' = alive \ {f} /\ alive \subseteq Items /\ kind \in [Items -> Kinds]
      /\ kicks \in 0..MaxKicks /\ Members(RequestQueue) \subseteq Items
      /\ Committed \subseteq alive /\ f \notin Members(ResponseQueue)
  BY <1>1 DEF Abort, RequestsInv, QueuesIntact, TypeOK, Members
<1>9. Committed' \subseteq alive' /\ alive' \subseteq Items /\ kind' \in [Items -> Kinds]
  BY <1>7, <1>8 DEF Committed
<1>10. CurIsLoose'
  BY <1>1, <1>7, <1>8 DEF RequestsInv, CurIsLoose, Committed
<1>11. \A i \in DOMAIN owed : owed[i].frame \notin Members(RequestQueue)'
  BY <1>7 DEF RequestsInv, OwedApart
<1>12. \A u, g \in Members(RequestQueue) : kind[u] = "join" /\ next[u] = g /\ kind[g] = "ip" =>
         u \in Members(RequestQueue)' /\ kind'[u] = "join" /\ next'[u] = g
  BY <1>1, <1>4, <1>5, <1>7, <1>8
<1>13. /\ edge' \in BOOLEAN /\ success' \in BOOLEAN /\ cur' \in ItemPointer
       /\ stage' \in {"between", "calling", "failing", "sending"}
  BY <1>8 DEF RequestsInv, QueuesIntact, TypeOK
<1>14. QED
  BY <1>5, <1>7, <1>8, <1>9, <1>10, <1>11, <1>12, <1>13, RequestsChange

LEMMA QueuesStand ==
  ASSUME RequestsInv, UNCHANGED <<request, response, next>>
  PROVE  /\ Apart(RequestQueue, ResponseQueue)'
         /\ Members(RequestQueue)' = Members(RequestQueue)
         /\ Members(ResponseQueue)' = Members(ResponseQueue)
         /\ request' \in Ends /\ next' \in [Items -> ItemPointer]
<1>1. RequestQueue' = RequestQueue /\ ResponseQueue' = ResponseQueue
  BY DEF RequestQueue, ResponseQueue
<1>2. QueuesIntact
  BY DEF RequestsInv
<1>3. QED
  BY <1>1, <1>2, QueuesApart DEF QueuesIntact, TypeOK

\* ~ModuleFrame of a frame that is in no queue, or has a successor in the
\* request queue.
LEMMA DeleteFrameLeaves ==
  ASSUME RequestsInv, NEW f \in Items, DeleteFrame(f), f \notin Members(ResponseQueue),
         f \in Members(RequestQueue) => next[f] # NULL
  PROVE  /\ Apart(RequestQueue, ResponseQueue)'
         /\ Members(RequestQueue)' = Members(RequestQueue) \ {f}
         /\ Members(ResponseQueue)' = Members(ResponseQueue)
         /\ request' \in Ends /\ response' = response /\ next' \in [Items -> ItemPointer]
         /\ \A u \in Items \ {f} : next[u] # f => next'[u] = next[u]
         /\ ItemOrderOf(RequestQueue)' = ItemOrderOf(RemoveItem(RequestQueue, f))
<1>1. /\ QueuesIntact /\ Apart(RequestQueue, ResponseQueue) /\ RequestQueue.next = next
      /\ ResponseQueue.top = response.top /\ ResponseQueue.end = response.end
      /\ next \in [Items -> ItemPointer]
  BY QueuesApart DEF RequestsInv, QueuesIntact, TypeOK, RequestQueue, ResponseQueue
<1>2. CASE next[f] = NULL
  <2>1. UNCHANGED <<request, response, next>> /\ f \notin Members(RequestQueue)
    BY <1>2 DEF DeleteFrame
  <2>2. RequestQueue' = RequestQueue /\ RemoveItem(RequestQueue, f) = RequestQueue
    BY <2>1 DEF RequestQueue, RemoveItem
  <2>3. QED
    BY <2>1, <2>2, QueuesStand
<1>3. CASE next[f] # NULL
  <2>1. PICK Q : Q = RemoveItem(RequestQueue, f)
    OBVIOUS
  <2>2. /\ Apart(Q, Relinked(ResponseQueue, Q))
        /\ Members(Q) = Members(RequestQueue) \ {f}
        /\ Members(Relinked(ResponseQueue, Q)) = Members(ResponseQueue)
    BY <1>1, <2>1, ApartRemove
  <2>3. \A u \in Items \ {f} : next[u] # f => Q.next[u] = next[u]
    BY <1>1, <2>1, RemoveItemLeaves DEF Apart
  <2>4. PICK R : R = Relinked(ResponseQueue, Q)
    OBVIOUS
  <2>5. [ResponseQueue EXCEPT !.next = Q.next] = R
    BY <2>4 DEF Relinked, ResponseQueue
  <2>6. RemoveItem(R, f) = R
    BY <2>2, <2>4 DEF RemoveItem
  <2>7. R.top = response.top /\ R.end = response.end /\ R.next = Q.next
    BY <2>4 DEF Relinked, ResponseQueue
  <2>8. /\ request' = EndsOf(Q) /\ response' = EndsOf(R)
        /\ next' = [R.next EXCEPT ![f] = NULL]
    BY <1>3, <2>1, <2>5, <2>6 DEF DeleteFrame
  <2>9. response' = response
    BY <1>1, <2>7, <2>8 DEF QueuesIntact, TypeOK, Ends, EndsOf
  <2>10. Q.next \in [Items -> ItemPointer]
    BY <2>2 DEF Apart, Queues
  <2>11. next' \in [Items -> ItemPointer] /\ \A u \in Items \ {f} : next'[u] = Q.next[u]
    BY <2>7, <2>8, <2>10 DEF ItemPointer
  <2>12. PICK n \in [Items -> ItemPointer] : n = next'
    BY <2>11
  <2>13. PICK P : P = [top |-> Q.top, end |-> Q.end, next |-> n]
    OBVIOUS
  <2>14. /\ Apart(P, Relinked(R, P))
         /\ Members(P) = Members(Q) /\ Members(Relinked(R, P)) = Members(R)
    <3>1. \A u \in Members(Q) \cup Members(R) : n[u] = Q.next[u]
      BY <2>2, <2>4, <2>11, <2>12 DEF Members
    <3>2. Apart(Q, R)
      BY <2>2, <2>4
    <3>3. QED
      BY <2>13, <3>1, <3>2, ApartClear
  <2>15. request' = EndsOf(P) /\ next' = P.next
    BY <2>8, <2>12, <2>13 DEF EndsOf
  <2>16. /\ Apart(RequestQueue, ResponseQueue)'
         /\ Members(RequestQueue)' = Members(P)
         /\ Members(ResponseQueue)' = Members(ResponseQueue)
         /\ request' \in Ends /\ next' \in [Items -> ItemPointer]
    BY <1>1, <2>2, <2>4, <2>7, <2>9, <2>14, <2>15, ResponsesStand
  <2>17. ItemOrderOf(RequestQueue)' = ItemOrderOf(Q)
    <3>1. RequestQueue' = P
      BY <2>13, <2>15 DEF RequestQueue, EndsOf
    <3>2. \A u \in Members(Q) : P.next[u] = Q.next[u]
      BY <2>2, <2>11, <2>12, <2>13 DEF Members
    <3>3. ItemOrderOf(P) = ItemOrderOf(Q)
      BY <2>2, <2>13, <3>2, OrderElsewhere DEF Apart
    <3>4. QED
      BY <3>1, <3>3
  <2>18. QED
    BY <2>1, <2>2, <2>3, <2>9, <2>11, <2>14, <2>16, <2>17
<1>4. QED
  BY <1>2, <1>3

\* A client's frame, or the one that has been completed, is deleted.
LEMMA DeleteFrameKeeps ==
  ASSUME RequestsInv, NEW f \in alive, DeleteFrame(f), f \notin Members(ResponseQueue),
         f \in Members(RequestQueue) => next[f] # NULL /\ kind[f] = "get",
         UNCHANGED <<moduleVars, networkVars, history, kicks, edge>>,
         cur' \in ItemPointer, cur' # f, success' \in BOOLEAN,
         stage' \in {"between", "calling", "failing", "sending"},
         cur' # NULL => UNCHANGED <<cur, stage>>
  PROVE  RequestsInv'
<1>1. /\ f \in Items /\ kind \in [Items -> Kinds] /\ alive \subseteq Items
      /\ Committed \subseteq alive /\ kicks' \in 0..MaxKicks /\ edge' \in BOOLEAN
      /\ Members(RequestQueue) \subseteq Items
  BY DEF RequestsInv, QueuesIntact, TypeOK, Members
<1>2. /\ Apart(RequestQueue, ResponseQueue)'
      /\ Members(RequestQueue)' = Members(RequestQueue) \ {f}
      /\ Members(ResponseQueue)' = Members(ResponseQueue)
      /\ request' \in Ends /\ response' = response /\ next' \in [Items -> ItemPointer]
      /\ \A u \in Items \ {f} : next[u] # f => next'[u] = next[u]
  BY <1>1, DeleteFrameLeaves
<1>3. alive' = alive \ {f} /\ kind' = [kind EXCEPT ![f] = "get"]
  BY DEF DeleteFrame
<1>4. Committed' \subseteq alive' /\ alive' \subseteq Items /\ kind' \in [Items -> Kinds]
  BY <1>1, <1>2, <1>3 DEF Committed, Kinds
<1>5. \A u \in Items \ {f} : kind'[u] = kind[u]
  BY <1>1, <1>3
<1>6. \A u \in Members(ResponseQueue) : kind'[u] = kind[u]
  BY <1>1, <1>5 DEF Committed
<1>7. \A i \in DOMAIN owed : owed[i].frame \notin Members(RequestQueue)'
  BY <1>2 DEF RequestsInv, OwedApart
<1>8. CurIsLoose'
  BY <1>2, <1>3 DEF RequestsInv, CurIsLoose, Committed
<1>9. \A g \in Members(RequestQueue)' : kind'[g] = "ip" => g \in Members(RequestQueue) /\ kind[g] = "ip"
  BY <1>1, <1>2, <1>5
<1>10. \A u, g \in Members(RequestQueue) : kind[u] = "join" /\ next[u] = g /\ kind[g] = "ip" =>
         u \in Members(RequestQueue)' /\ kind'[u] = "join" /\ next'[u] = g
  <2> SUFFICES ASSUME NEW u \in Members(RequestQueue), NEW g \in Members(RequestQueue),
                      kind[u] = "join", next[u] = g, kind[g] = "ip"
               PROVE  u \in Members(RequestQueue)' /\ kind'[u] = "join" /\ next'[u] = g
    OBVIOUS
  <2>1. u # f /\ g # f
    OBVIOUS
  <2>2. QED
    BY <1>1, <1>2, <1>5, <2>1
<1>11. QED
  BY <1>1, <1>2, <1>4, <1>6, <1>7, <1>8, <1>9, <1>10, RequestsChange

LEMMA DeleteInv ==
  ASSUME Liberties = {}, RequestsInv, NEW f \in Items, Delete(f)
  PROVE  RequestsInv'
<1>1. f \in alive \ {cur} /\ kind[f] = "get" /\ next[f] # NULL /\ DeleteFrame(f)
  BY DEF Delete
<1>2. f \notin Members(ResponseQueue)
  BY <1>1, Awaited DEF RequestsInv
<1>3. /\ UNCHANGED <<moduleVars, networkVars, history, kicks, edge, cur, success, stage>>
      /\ cur \in ItemPointer /\ success \in BOOLEAN
      /\ stage \in {"between", "calling", "failing", "sending"}
  BY DEF Delete, RequestsInv, QueuesIntact, TypeOK
<1>4. QED
  BY <1>1, <1>2, <1>3, DeleteFrameKeeps

LEMMA CallbackReturnsInv == RequestsInv /\ CallbackReturns => RequestsInv'
<1> SUFFICES ASSUME RequestsInv, CallbackReturns PROVE RequestsInv'
  OBVIOUS
<1>1. /\ cur' = NULL /\ success' = TRUE /\ stage' \in {"between", "sending"}
      /\ UNCHANGED <<kicks, edge, moduleVars, networkVars, history>>
      /\ cur \in ItemPointer /\ NULL \notin Items /\ NULL \in ItemPointer
  BY ItemsAssumption DEF CallbackReturns, RequestsInv, QueuesIntact, TypeOK, ItemPointer
<1>2. CASE cur = NULL
  <2>1. UNCHANGED <<request, response, next, alive, kind>>
    BY <1>2 DEF CallbackReturns, queueVars
  <2>2. /\ Apart(RequestQueue, ResponseQueue)'
        /\ Members(RequestQueue)' = Members(RequestQueue)
        /\ Members(ResponseQueue)' = Members(ResponseQueue)
        /\ request' \in Ends /\ next' \in [Items -> ItemPointer]
    BY <2>1, QueuesStand
  <2>3. /\ alive' \subseteq Items /\ Committed' \subseteq alive' /\ kind' \in [Items -> Kinds]
        /\ kicks' \in 0..MaxKicks /\ edge' \in BOOLEAN
    BY <1>1, <2>1, <2>2 DEF RequestsInv, QueuesIntact, TypeOK, Committed
  <2>4. \A i \in DOMAIN owed : owed[i].frame \notin Members(RequestQueue)'
    BY <2>2 DEF RequestsInv, OwedApart
  <2>5. CurIsLoose'
    BY <1>1 DEF CurIsLoose
  <2>6. QED
    BY <1>1, <2>1, <2>2, <2>3, <2>4, <2>5, RequestsChange
<1>3. CASE cur # NULL
  <2>1. cur \in alive /\ cur \notin Committed /\ DeleteFrame(cur)
    BY <1>3 DEF CallbackReturns, RequestsInv, CurIsLoose
  <2>2. PICK f \in alive : f = cur
    BY <2>1
  <2>3. /\ DeleteFrame(f) /\ f \notin Members(ResponseQueue) /\ f \notin Members(RequestQueue)
        /\ cur' # f
    BY <1>1, <1>3, <2>1, <2>2 DEF Committed
  <2>4. QED
    BY <1>1, <2>2, <2>3, DeleteFrameKeeps
<1>4. QED
  BY <1>2, <1>3
-----------------------------------------------------------------------------
(* The handler and the wireless module.                                    *)

LEMMA InputCommand ==
  ASSUME NEW i \in Inputs
  PROVE  /\ i.cmd \in Kinds \cup {"async", "none"} /\ (i.cmd = "none" <=> i = Nothing)
         /\ i.cmd \in Kinds => i.ok \in BOOLEAN /\ i.last \in BOOLEAN
  BY DEF Inputs, Nothing, Kinds

\* Steps that leave the queues, the network and the last completion alone.
LEMMA QueuesUntouched ==
  ASSUME RequestsInv, UNCHANGED <<queueVars, cur, success, networkVars>>, TypeOK', OwedApart',
         cur # NULL => stage' \in {"calling", "failing"}, AnswersInOrder'
  PROVE  RequestsInv'
<1>1. UNCHANGED <<request, response, next, alive, kind, cur, joined, joinFailed, networkInitialized>>
  BY DEF queueVars, networkVars
<1>2. /\ Apart(RequestQueue, ResponseQueue)'
      /\ Members(RequestQueue)' = Members(RequestQueue)
      /\ Members(ResponseQueue)' = Members(ResponseQueue)
  BY <1>1, QueuesStand
<1>3. OneAwaited' /\ CurIsLoose' /\ Committed' \subseteq alive'
  BY <1>1, <1>2 DEF RequestsInv, QueuesIntact, OneAwaited, CurIsLoose, Committed
<1>4. QueuesIntact'
  BY <1>2, <1>3, IntactAfter
<1>5. ReadyMeansJoined' /\ JoinComesFirst'
  BY <1>1, <1>2 DEF RequestsInv, ReadyMeansJoined, JoinComesFirst
<1>6. QED
  BY <1>3, <1>4, <1>5 DEF RequestsInv

LEMMA EventIsTaken ==
  ASSUME RequestsInv, TakeEvent
  PROVE  kicks' \in 0..MaxKicks /\ edge' \in BOOLEAN
<1>1. kicks \in 0..MaxKicks /\ edge \in BOOLEAN /\ MaxKicks \in Nat
  BY FramesAssumption DEF RequestsInv, QueuesIntact, TypeOK
<1>2. (kicks > 0 /\ kicks' = kicks - 1) \/ kicks' = kicks
  BY DEF TakeEvent
<1>3. edge' = edge \/ edge' = FALSE
  BY DEF TakeEvent
<1>4. kicks' \in 0..MaxKicks
  BY <1>1, <1>2
<1>5. edge' \in BOOLEAN
  BY <1>1, <1>3
<1>6. QED
  BY <1>4, <1>5

LEMMA NoInputInv == RequestsInv /\ NoInput => RequestsInv'
<1> SUFFICES ASSUME RequestsInv, NoInput PROVE RequestsInv'
  OBVIOUS
<1>1. /\ cur = NULL /\ stage' = "sending" /\ kicks' \in 0..MaxKicks /\ edge' \in BOOLEAN
      /\ UNCHANGED <<queueVars, cur, success, moduleVars, networkVars, history>>
  BY EventIsTaken DEF NoInput, RequestsInv, CurIsLoose
<1>2. TypeOK' /\ OwedApart' /\ AnswersInOrder'
  BY <1>1 DEF RequestsInv, QueuesIntact, TypeOK, OwedApart, AnswersInOrder, Answers,
     RequestQueue, queueVars, moduleVars, networkVars, history
<1>3. QED
  BY <1>1, <1>2, QueuesUntouched

LEMMA NothingToSendInv == RequestsInv /\ NothingToSend => RequestsInv'
<1> SUFFICES ASSUME RequestsInv, NothingToSend PROVE RequestsInv'
  OBVIOUS
<1>1. /\ cur = NULL /\ stage' = "between"
      /\ UNCHANGED <<queueVars, kicks, edge, cur, success, moduleVars, networkVars, history>>
  BY DEF NothingToSend, RequestsInv, CurIsLoose
<1>2. TypeOK' /\ OwedApart' /\ AnswersInOrder'
  BY <1>1 DEF RequestsInv, QueuesIntact, TypeOK, OwedApart, AnswersInOrder, Answers,
     RequestQueue, queueVars, moduleVars, networkVars, history
<1>3. QED
  BY <1>1, <1>2, QueuesUntouched

LEMMA UnaskedInputInv == RequestsInv /\ UnaskedInput => RequestsInv'
<1> SUFFICES ASSUME RequestsInv, UnaskedInput PROVE RequestsInv'
  OBVIOUS
<1>1. /\ cur = NULL /\ stage' \in {"calling", "sending"} /\ input' = Nothing
      /\ kicks' \in 0..MaxKicks /\ edge' \in BOOLEAN /\ response.top = NULL
      /\ UNCHANGED <<queueVars, cur, success, owed, networkVars, history>>
  BY EventIsTaken DEF UnaskedInput, RequestsInv, CurIsLoose
<1>2. TypeOK' /\ OwedApart'
  BY <1>1 DEF RequestsInv, QueuesIntact, TypeOK, OwedApart, Inputs,
     RequestQueue, queueVars, networkVars, history
<1>3. AnswersInOrder'
  BY <1>1 DEF RequestsInv, AnswersInOrder, Nothing, queueVars, history
<1>4. QED
  BY <1>1, <1>2, <1>3, QueuesUntouched

LEMMA ModuleReportsInv == RequestsInv /\ ModuleReports => RequestsInv'
<1> SUFFICES ASSUME RequestsInv, ModuleReports PROVE RequestsInv'
  OBVIOUS
<1>1. /\ UNCHANGED <<queueVars, kicks, stage, cur, success, owed, networkVars, history>>
      /\ input.cmd = "none" /\ input'.cmd = "async" /\ input' \in Inputs /\ edge' = TRUE
  BY DEF ModuleReports, Inputs, Nothing
<1>2. TypeOK' /\ OwedApart'
  BY <1>1 DEF RequestsInv, QueuesIntact, TypeOK, OwedApart, RequestQueue, queueVars, networkVars,
     history
<1>3. AnswersInOrder'
  BY <1>1 DEF RequestsInv, AnswersInOrder, Answers, queueVars, history, Kinds
<1>4. cur # NULL => stage' \in {"calling", "failing"}
  BY <1>1 DEF RequestsInv, CurIsLoose
<1>5. QED
  BY <1>1, <1>2, <1>3, <1>4, QueuesUntouched

LEMMA ModuleAnswersInv == RequestsInv /\ ModuleAnswers => RequestsInv'
<1> SUFFICES ASSUME RequestsInv, ModuleAnswers PROVE RequestsInv'
  OBVIOUS
<1>1. /\ UNCHANGED <<queueVars, kicks, stage, cur, success, networkVars, history>>
      /\ input = Nothing /\ owed # <<>> /\ edge' = TRUE
      /\ owed \in Seq([cmd : Kinds, frame : Items]) /\ Len(owed) <= Cardinality(Items)
  BY DEF ModuleAnswers, RequestsInv, QueuesIntact, TypeOK
<1>2. PICK ok \in BOOLEAN, last \in BOOLEAN :
        /\ last \/ (ok /\ owed[1].cmd = "get")
        /\ input' = [cmd |-> owed[1].cmd, frame |-> owed[1].frame, ok |-> ok, last |-> last]
        /\ owed' = IF last THEN Tail(owed) ELSE owed
  BY DEF ModuleAnswers
<1>3. /\ owed[1] \in [cmd : Kinds, frame : Items]
      /\ Tail(owed) \in Seq([cmd : Kinds, frame : Items])
      /\ Len(Tail(owed)) = Len(owed) - 1 /\ Len(owed) \in Nat /\ DOMAIN owed = 1..Len(owed)
      /\ DOMAIN Tail(owed) = 1..(Len(owed) - 1)
      /\ \A i \in 1..(Len(owed) - 1) : Tail(owed)[i] = owed[i + 1]
  <2>1. Len(owed) \in Nat /\ Len(owed) # 0 /\ 1 \in 1..Len(owed) /\ DOMAIN owed = 1..Len(owed)
    BY <1>1, LenProperties, EmptySeq
  <2>2. owed[1] \in [cmd : Kinds, frame : Items]
    BY <1>1, <2>1, ElementOfSeq
  <2>3. /\ Tail(owed) \in Seq([cmd : Kinds, frame : Items])
        /\ Len(Tail(owed)) = Len(owed) - 1
        /\ \A i \in 1..Len(Tail(owed)) : Tail(owed)[i] = owed[i + 1]
    BY <1>1, HeadTailProperties
  <2>4. DOMAIN Tail(owed) = 1..Len(Tail(owed))
    BY <2>3, LenProperties
  <2>5. QED
    BY <2>1, <2>2, <2>3, <2>4
<1>4. TypeOK'
  <2>1. input' \in Inputs
    BY <1>2, <1>3 DEF Inputs
  <2>2. owed' \in Seq([cmd : Kinds, frame : Items]) /\ Len(owed') <= Cardinality(Items)
    <3>1. CASE last
      <4>1. Cardinality(Items) \in Nat
        BY ItemsAssumption, FS_CardinalityType
      <4>2. QED
        BY <1>1, <1>2, <1>3, <3>1, <4>1
    <3>2. CASE ~last
      BY <1>1, <1>2, <3>2
    <3>3. QED
      BY <3>1, <3>2
  <2>3. QED
    BY <1>1, <2>1, <2>2 DEF RequestsInv, QueuesIntact, TypeOK, queueVars, networkVars, history
<1>5. OwedApart'
  <2>1. Members(RequestQueue)' = Members(RequestQueue)
    BY <1>1, QueuesStand DEF queueVars
  <2>2. CASE last
    <3>1. \A i \in 1..(Len(owed) - 1) : i + 1 \in DOMAIN owed
      BY <1>3
    <3>2. \A i, j \in 1..(Len(owed) - 1) : i + 1 = j + 1 => i = j
      BY <1>3
    <3>3. QED
      BY <1>2, <1>3, <2>1, <2>2, <3>1, <3>2 DEF RequestsInv, OwedApart
  <2>3. CASE ~last
    BY <1>2, <2>1, <2>3 DEF RequestsInv, OwedApart
  <2>4. QED
    BY <2>2, <2>3
<1>6. AnswersInOrder'
  <2>1. SUFFICES ASSUME ~taken PROVE AnswersInOrder'
    BY <1>1 DEF AnswersInOrder, history
  <2>2. /\ response.top # NULL
        /\ owed = <<[cmd |-> kind[response.top], frame |-> response.top]>>
    BY <1>1, <2>1 DEF RequestsInv, AnswersInOrder, Answers, Nothing, Kinds
  <2>3. /\ input'.cmd = kind[response.top] /\ input'.cmd \in Kinds /\ input'.frame = response.top
        /\ input'.last = last /\ (~last => input'.ok)
    BY <1>2, <1>3, <2>2
  <2>4. UNCHANGED <<response, kind>>
    BY <1>1 DEF queueVars
  <2>5. Answers(response.top)'
    BY <2>3, <2>4 DEF Answers
  <2>6. last => owed' = <<>>
    BY <1>2, <2>2
  <2>7. QED
    BY <1>2, <2>2, <2>3, <2>4, <2>5, <2>6 DEF AnswersInOrder
<1>7. cur # NULL => stage' \in {"calling", "failing"}
  BY <1>1 DEF RequestsInv, CurIsLoose
<1>8. QED
  BY <1>1, <1>4, <1>5, <1>6, <1>7, QueuesUntouched

\* The last frame of the answer has come: its request is completed.
LEMMA DiscardInv ==
  ASSUME RequestsInv, stage = "between", input # Nothing, response.top # NULL, TakeEvent,
         input' = Nothing, stage' = "calling", taken' = (taken \/ input.cmd = "async"),
         Discard(response.top, IsResponse(response.top)),
         ~(IsResponse(response.top) /\ input.cmd # "async" /\ ~input.last),
         UNCHANGED <<alive, kind, owed, writeFailed>>
  PROVE  RequestsInv'
<1>1. PICK f : f = response.top
  OBVIOUS
<1>2. /\ QueuesIntact /\ Apart(ResponseQueue, RequestQueue)
      /\ Relinked(RequestQueue, ResponseQueue) = RequestQueue
      /\ RequestQueue.top = request.top /\ RequestQueue.end = request.end
      /\ ResponseQueue.next = next /\ RequestQueue.next = next
      /\ request \in Ends
  BY QueuesApart DEF RequestsInv, QueuesIntact, TypeOK, RequestQueue, ResponseQueue
<1>3. /\ Members(ResponseQueue) = {f} /\ f \in Items /\ Members(RequestQueue) \subseteq Items
      /\ f \notin Members(RequestQueue) /\ f \in alive
  BY <1>1, Awaited DEF RequestsInv, QueuesIntact, Committed, ItemPointer
<1>4. PICK R : R = RemoveItem(ResponseQueue, f)
  OBVIOUS
<1>5. /\ Apart(R, Relinked(RequestQueue, R)) /\ Members(R) = {}
      /\ Members(Relinked(RequestQueue, R)) = Members(RequestQueue)
  BY <1>2, <1>3, <1>4, ApartRemove
<1>6. PICK Q : Q = Relinked(RequestQueue, R)
  OBVIOUS
<1>7. Q.top = request.top /\ Q.end = request.end /\ Q.next = R.next
  BY <1>2, <1>6 DEF Relinked
<1>8. /\ response' = EndsOf(R) /\ next' = R.next /\ request' = request /\ cur' = f
      /\ Completed(f, IsResponse(f))
  BY <1>1, <1>4 DEF Discard
<1>9. /\ Apart(RequestQueue, ResponseQueue)'
      /\ Members(RequestQueue)' = Members(RequestQueue) /\ Members(ResponseQueue)' = {}
      /\ request' \in Ends /\ response' \in Ends /\ next' \in [Items -> ItemPointer]
  <2>1. request' = EndsOf(Q)
    BY <1>2, <1>7, <1>8 DEF Ends, EndsOf
  <2>2. Apart(Q, R)
    BY <1>5, <1>6 DEF Apart
  <2>3. QED
    BY <1>5, <1>6, <1>7, <1>8, <2>1, <2>2, QueuesAre
<1>10. \A u \in Members(RequestQueue) : next'[u] = next[u]
  <2>1. \A u \in Items \ Members(ResponseQueue) : R.next[u] = ResponseQueue.next[u]
    BY <1>2, <1>3, <1>4, RemoveItemLeaves DEF Apart
  <2>2. QED
    BY <1>2, <1>3, <1>8, <2>1
<1>11. response'.top = NULL
  <2>1. R.top = NULL
    BY <1>5, LinksOfMembers DEF Apart
  <2>2. QED
    BY <1>8, <2>1 DEF EndsOf
<1>12. IsResponse(f) \in BOOLEAN
  BY DEF IsResponse
<1>13. PICK ok \in BOOLEAN : ok = IsResponse(f)
  BY <1>12
<1>14. /\ success' = ok
       /\ joinFailed' = (joinFailed \/ (kind[f] = "join" /\ ~ok))
       /\ networkInitialized' = (networkInitialized \/ (kind[f] = "ip" /\ ok /\ ~joinFailed))
       /\ joined' = IF kind[f] = "join" THEN ok ELSE joined
  BY <1>8, <1>13 DEF Completed
<1>15. /\ joined \in BOOLEAN /\ joinFailed \in BOOLEAN /\ networkInitialized \in BOOLEAN
       /\ taken \in BOOLEAN /\ input \in Inputs
  BY <1>2 DEF QueuesIntact, TypeOK
<1>16. TypeOK'
  <2>1. /\ success' \in BOOLEAN /\ joinFailed' \in BOOLEAN /\ networkInitialized' \in BOOLEAN
        /\ joined' \in BOOLEAN
    BY <1>14, <1>15
  <2>2. taken' \in BOOLEAN /\ cur' \in ItemPointer /\ input' \in Inputs
    BY <1>3, <1>8, <1>15 DEF ItemPointer, Inputs
  <2>3. kicks' \in 0..MaxKicks /\ edge' \in BOOLEAN
    BY EventIsTaken
  <2>4. QED
    BY <1>2, <1>9, <2>1, <2>2, <2>3 DEF QueuesIntact, TypeOK
<1>17. OneAwaited' /\ CurIsLoose' /\ Committed' \subseteq alive'
  BY <1>3, <1>8, <1>9 DEF RequestsInv, QueuesIntact, OneAwaited, CurIsLoose, Committed
<1>18. QueuesIntact'
  BY <1>9, <1>16, <1>17, IntactAfter
<1>19. OwedApart'
  BY <1>9 DEF RequestsInv, OwedApart
<1>20. ReadyMeansJoined'
  <2>1. ~joined /\ ~joinFailed => kind[f] # "ip"
    BY <1>3 DEF RequestsInv, JoinComesFirst
  <2>2. networkInitialized /\ ~joinFailed => joined
    BY DEF RequestsInv, ReadyMeansJoined
  <2>3. networkInitialized' /\ ~joinFailed' => joined'
    <3>1. CASE kind[f] = "join"
      BY <1>14, <3>1
    <3>2. CASE kind[f] # "join"
      <4>1. joinFailed' = joinFailed /\ joined' = joined
        BY <1>14, <1>15, <3>2
      <4>2. QED
        BY <1>14, <2>1, <2>2, <4>1
    <3>3. QED
      BY <3>1, <3>2
  <2>4. QED
    BY <2>3 DEF ReadyMeansJoined
<1>21. JoinComesFirst'
  <2>1. CASE kind[f] = "join"
    BY <1>14, <2>1 DEF JoinComesFirst
  <2>2. CASE kind[f] # "join"
    <3>1. joinFailed' = joinFailed /\ joined' = joined
      BY <1>14, <1>15, <2>2
    <3>2. QED
      BY <1>3, <1>9, <1>10, <2>2, <3>1 DEF RequestsInv, JoinComesFirst
  <2>3. QED
    BY <2>1, <2>2
<1>22. AnswersInOrder'
  <2>1. SUFFICES ASSUME ~taken' PROVE owed = <<>>
    BY <1>11 DEF AnswersInOrder, Nothing
  <2>2. ~taken /\ input.cmd # "async" /\ input.cmd # "none"
    BY <1>15, <2>1, InputCommand
  <2>3. owed = <<>> \/ (Answers(f) /\ ~input.last)
    BY <1>1, <2>2 DEF RequestsInv, AnswersInOrder
  <2>4. ~(Answers(f) /\ ~input.last)
    BY <1>1, <2>2 DEF Answers, IsResponse
  <2>5. QED
    BY <2>3, <2>4
<1>23. QED
  BY <1>17, <1>18, <1>19, <1>20, <1>21, <1>22 DEF RequestsInv

LEMMA ResponseInv == RequestsInv /\ Response => RequestsInv'
<1> SUFFICES ASSUME RequestsInv, Response PROVE RequestsInv'
  OBVIOUS
<1>1. /\ stage = "between" /\ input # Nothing /\ response.top # NULL /\ TakeEvent
      /\ input' = Nothing /\ stage' = "calling" /\ taken' = (taken \/ input.cmd = "async")
      /\ UNCHANGED <<alive, kind, owed, writeFailed>>
  BY DEF Response
<1>2. CASE IsResponse(response.top) /\ input.cmd # "async" /\ ~input.last
  <2>1. UNCHANGED <<queueVars, cur, success, networkVars>>
    BY <1>1, <1>2 DEF Response, queueVars
  <2>2. kicks' \in 0..MaxKicks /\ edge' \in BOOLEAN
    BY <1>1, EventIsTaken
  <2>3. input \in Inputs /\ taken \in BOOLEAN /\ taken' = taken
    BY <1>1, <1>2 DEF RequestsInv, QueuesIntact, TypeOK
  <2>4. TypeOK' /\ OwedApart'
    BY <1>1, <2>1, <2>2, <2>3 DEF RequestsInv, QueuesIntact, TypeOK, OwedApart, Inputs,
       RequestQueue, queueVars, networkVars
  <2>5. ~taken => owed = <<[cmd |-> kind[response.top], frame |-> response.top]>>
    BY <1>1, <1>2 DEF RequestsInv, AnswersInOrder
  <2>6. AnswersInOrder'
    BY <1>1, <2>1, <2>3, <2>5 DEF AnswersInOrder, queueVars, Nothing
  <2>7. QED
    BY <1>1, <2>1, <2>4, <2>6, QueuesUntouched
<1>3. CASE ~(IsResponse(response.top) /\ input.cmd # "async" /\ ~input.last)
  <2>1. Discard(response.top, IsResponse(response.top))
    BY <1>3 DEF Response
  <2>2. QED
    BY <1>1, <1>3, <2>1, DiscardInv
<1>4. QED
  BY <1>2, <1>3

\* The first request goes from one queue to the other.
LEMMA SendRequestInv == RequestsInv /\ SendRequest => RequestsInv'
<1> SUFFICES ASSUME RequestsInv, SendRequest PROVE RequestsInv'
  OBVIOUS
<1>1. PICK f : f = request.top
  OBVIOUS
<1>2. /\ QueuesIntact /\ Apart(RequestQueue, ResponseQueue)
      /\ RequestQueue.next = next /\ ResponseQueue.next = next
      /\ RequestQueue.top = request.top /\ ResponseQueue.top = response.top
  BY QueuesApart DEF RequestsInv, RequestQueue, ResponseQueue
<1>3. /\ response.top = NULL /\ input = Nothing /\ cur = NULL
      /\ Members(ResponseQueue) = {} /\ f \in Members(RequestQueue)
      /\ f \in Items /\ f # NULL /\ Members(RequestQueue) \subseteq Items
  BY <1>1, Awaited, ItemsAssumption DEF SendRequest, MaySend, RequestsInv, CurIsLoose
<1>4. PICK Q : Q = Dequeue(RequestQueue)
  OBVIOUS
<1>5. /\ Apart(Q, ResponseQueue) /\ Apart(ResponseQueue, Q) /\ Q.next = next
      /\ Members(Q) = Members(RequestQueue) \ {f}
  BY <1>1, <1>2, <1>4, ApartDequeue DEF Apart
<1>6. PICK R : R = Enqueue(ResponseQueue, f)
  OBVIOUS
<1>7. PICK S : S = Relinked(Q, R)
  OBVIOUS
<1>8. /\ Apart(R, S) /\ Members(R) = {f} /\ Members(S) = Members(RequestQueue) \ {f}
      /\ \A u \in Items \ {f} : R.next[u] = next[u]
  <2>1. f \in Items \ (Members(ResponseQueue) \cup Members(Q))
    BY <1>3, <1>5
  <2>2. /\ Apart(R, Relinked(Q, R))
        /\ Members(R) = Members(ResponseQueue) \cup {f}
        /\ Members(Relinked(Q, R)) = Members(Q)
        /\ \A u \in Items \ (Members(ResponseQueue) \cup {f}) : R.next[u] = ResponseQueue.next[u]
    BY <1>5, <1>6, <2>1, ApartEnqueue
  <2>3. QED
    BY <1>2, <1>3, <1>5, <1>7, <2>2
<1>9. /\ request' = EndsOf(S) /\ response' = EndsOf(R) /\ next' = S.next /\ next' = R.next
      /\ owed' = Append(owed, [cmd |-> kind[f], frame |-> f])
  <2>1. [ResponseQueue EXCEPT !.next = Q.next] = ResponseQueue
    BY <1>5 DEF ResponseQueue
  <2>2. /\ request' = EndsOf(Q) /\ response' = EndsOf(R) /\ next' = R.next
        /\ owed' = Append(owed, [cmd |-> kind[f], frame |-> f])
    BY <1>1, <1>4, <1>6, <2>1 DEF SendRequest
  <2>3. S.top = Q.top /\ S.end = Q.end /\ S.next = R.next
    BY <1>7 DEF Relinked
  <2>4. QED
    BY <2>2, <2>3 DEF EndsOf
<1>10. /\ Apart(RequestQueue, ResponseQueue)'
       /\ Members(RequestQueue)' = Members(RequestQueue) \ {f} /\ Members(ResponseQueue)' = {f}
       /\ request' \in Ends /\ response' \in Ends /\ next' \in [Items -> ItemPointer]
  <2>1. Apart(S, R)
    BY <1>8 DEF Apart
  <2>2. QED
    BY <1>8, <1>9, <2>1, QueuesAre
<1>11. response'.top = f
  <2>1. R.top = f
    BY <1>8, LinksOfMembers DEF Apart
  <2>2. QED
    BY <1>9, <2>1 DEF EndsOf
<1>12. /\ UNCHANGED <<alive, kind, kicks, edge, cur, success, input, networkVars, taken>>
       /\ stage' = "between" /\ writeFailed' = FALSE
  BY DEF SendRequest
<1>13. /\ owed \in Seq([cmd : Kinds, frame : Items]) /\ kind \in [Items -> Kinds]
       /\ kind[f] \in Kinds
  BY <1>2, <1>3 DEF QueuesIntact, TypeOK
<1>14. /\ owed' \in Seq([cmd : Kinds, frame : Items])
       /\ Len(owed) \in Nat /\ DOMAIN owed = 1..Len(owed) /\ DOMAIN owed' = 1..(Len(owed) + 1)
       /\ \A i \in 1..Len(owed) : owed'[i] = owed[i]
       /\ owed'[Len(owed) + 1].frame = f
  <2>1. PICK e : e = [cmd |-> kind[f], frame |-> f]
    OBVIOUS
  <2>2. e \in [cmd : Kinds, frame : Items] /\ e.frame = f
    BY <1>3, <1>13, <2>1
  <2>3. /\ Append(owed, e) \in Seq([cmd : Kinds, frame : Items])
        /\ Len(Append(owed, e)) = Len(owed) + 1
        /\ \A i \in 1..Len(owed) : Append(owed, e)[i] = owed[i]
        /\ Append(owed, e)[Len(owed) + 1] = e
    BY <1>13, <2>2, AppendProperties
  <2>4. Len(owed) \in Nat /\ DOMAIN owed = 1..Len(owed)
    BY <1>13, LenProperties
  <2>5. DOMAIN Append(owed, e) = 1..Len(Append(owed, e))
    BY <2>3, LenProperties
  <2>6. QED
    BY <1>9, <2>1, <2>2, <2>3, <2>4, <2>5
<1>15. OwedApart'
  <2>1. \A i \in 1..Len(owed) :
          /\ owed[i].frame \notin Members(RequestQueue)
          /\ \A j \in 1..Len(owed) : owed[i].frame = owed[j].frame => i = j
    BY <1>14 DEF RequestsInv, OwedApart
  <2>2. \A i \in 1..(Len(owed) + 1) : i \in 1..Len(owed) \/ i = Len(owed) + 1
    BY <1>14
  <2>3. ASSUME NEW i \in 1..(Len(owed) + 1)
        PROVE  owed'[i].frame \notin Members(RequestQueue)'
    BY <1>10, <1>14, <2>1, <2>2
  <2>4. ASSUME NEW i \in 1..(Len(owed) + 1), NEW j \in 1..(Len(owed) + 1),
               owed'[i].frame = owed'[j].frame
        PROVE  i = j
    BY <1>3, <1>14, <2>1, <2>2, <2>4
  <2>5. QED
    BY <1>14, <2>3, <2>4 DEF OwedApart
<1>16. TypeOK'
  <2>1. PICK o : o = owed'
    OBVIOUS
  <2>2. \A i, j \in DOMAIN o : o[i].frame = o[j].frame => i = j
    BY <1>15, <2>1 DEF OwedApart
  <2>3. Len(o) <= Cardinality(Items)
    BY <1>14, <2>1, <2>2, OwedIsBounded
  <2>4. QED
    BY <1>2, <1>10, <1>12, <1>14, <2>1, <2>3 DEF QueuesIntact, TypeOK, networkVars
<1>17. OneAwaited' /\ CurIsLoose' /\ Committed' \subseteq alive'
  BY <1>3, <1>10, <1>12 DEF RequestsInv, QueuesIntact, OneAwaited, CurIsLoose, Committed
<1>18. QueuesIntact'
  BY <1>10, <1>16, <1>17, IntactAfter
<1>19. ReadyMeansJoined'
  BY <1>12 DEF RequestsInv, ReadyMeansJoined, networkVars
<1>20. JoinComesFirst'
  <2> SUFFICES ASSUME ~joined, ~joinFailed
               PROVE  /\ kind[f] # "ip"
                      /\ \A g \in Members(RequestQueue) \ {f} : kind[g] = "ip" =>
                           \/ \E u \in Members(RequestQueue) \ {f} : kind[u] = "join" /\ next'[u] = g
                           \/ kind[f] = "join"
    BY <1>10, <1>12 DEF JoinComesFirst, networkVars
  <2>1. \A g \in Members(RequestQueue) : kind[g] = "ip" =>
          \E u \in Members(RequestQueue) : kind[u] = "join" /\ next[u] = g
    BY <1>3 DEF RequestsInv, JoinComesFirst
  <2>2. kind[f] # "ip"
    BY <1>1, <1>3, <2>1, Awaited DEF RequestsInv
  <2>3. \A u \in Members(RequestQueue) \ {f} : next'[u] = next[u]
    BY <1>3, <1>8, <1>9
  <2>4. QED
    BY <2>1, <2>2, <2>3
<1>21. AnswersInOrder'
  <2>1. ~taken => owed = <<>>
    BY <1>3 DEF RequestsInv, AnswersInOrder
  <2>2. ~taken => owed' = <<[cmd |-> kind[f], frame |-> f]>>
    BY <1>9, <2>1
  <2>3. QED
    BY <1>3, <1>11, <1>12, <2>2 DEF AnswersInOrder, Nothing
<1>22. QED
  BY <1>15, <1>17, <1>18, <1>19, <1>20, <1>21 DEF RequestsInv

\* The first request cannot be written.
LEMMA SendFailsInv == RequestsInv /\ SendFails => RequestsInv'
<1> SUFFICES ASSUME RequestsInv, SendFails PROVE RequestsInv'
  OBVIOUS
<1>1. PICK f : f = request.top
  OBVIOUS
<1>2. /\ QueuesIntact /\ Apart(RequestQueue, ResponseQueue)
      /\ RequestQueue.next = next /\ RequestQueue.top = request.top /\ response \in Ends
  BY QueuesApart DEF RequestsInv, QueuesIntact, TypeOK, RequestQueue
<1>3. /\ response.top = NULL /\ Members(ResponseQueue) = {} /\ f \in Members(RequestQueue)
      /\ f \in Items /\ f # NULL /\ Members(RequestQueue) \subseteq Items /\ f \in alive
  BY <1>1, Awaited, ItemsAssumption DEF SendFails, MaySend, RequestsInv, QueuesIntact, Committed
<1>4. PICK Q : Q = Dequeue(RequestQueue)
  OBVIOUS
<1>5. /\ Apart(Q, ResponseQueue) /\ Q.next = next
      /\ Members(Q) = Members(RequestQueue) \ {f}
  BY <1>1, <1>2, <1>4, ApartDequeue
<1>6. /\ UNCHANGED <<response, next, alive, kind, kicks, edge, moduleVars, taken>>
      /\ request' = EndsOf(Q) /\ cur' = f /\ stage' = "failing" /\ writeFailed' = TRUE
      /\ success' = FALSE
      /\ joinFailed' = (joinFailed \/ (kind[f] = "join" /\ ~FALSE))
      /\ networkInitialized' = (networkInitialized \/ (kind[f] = "ip" /\ FALSE /\ ~joinFailed))
      /\ joined' = IF kind[f] = "join" THEN FALSE ELSE joined
  BY <1>1, <1>4 DEF SendFails, Completed
<1>7. /\ Apart(RequestQueue, ResponseQueue)'
      /\ Members(RequestQueue)' = Members(RequestQueue) \ {f} /\ Members(ResponseQueue)' = {}
      /\ request' \in Ends /\ response' \in Ends /\ next' \in [Items -> ItemPointer]
  <2>1. response' = EndsOf(ResponseQueue)
    BY <1>2, <1>6 DEF Ends, EndsOf, ResponseQueue
  <2>2. PICK R : R = ResponseQueue
    OBVIOUS
  <2>3. QED
    BY <1>3, <1>5, <1>6, <2>1, <2>2, QueuesAre
<1>8. joined \in BOOLEAN /\ joinFailed \in BOOLEAN /\ networkInitialized \in BOOLEAN
  BY <1>2 DEF QueuesIntact, TypeOK
<1>9. /\ kind[f] = "join" => joinFailed' = TRUE /\ joined' = FALSE
      /\ kind[f] # "join" => joinFailed' = joinFailed /\ joined' = joined
      /\ networkInitialized' = networkInitialized
  BY <1>6, <1>8
<1>10. TypeOK'
  <2>1. joined' \in BOOLEAN /\ joinFailed' \in BOOLEAN /\ networkInitialized' \in BOOLEAN
    BY <1>8, <1>9
  <2>2. cur' \in ItemPointer
    BY <1>3, <1>6 DEF ItemPointer
  <2>3. QED
    BY <1>2, <1>6, <1>7, <2>1, <2>2 DEF QueuesIntact, TypeOK, moduleVars
<1>11. OneAwaited' /\ CurIsLoose' /\ Committed' \subseteq alive'
  BY <1>3, <1>6, <1>7 DEF RequestsInv, QueuesIntact, OneAwaited, CurIsLoose, Committed
<1>12. QueuesIntact'
  BY <1>7, <1>10, <1>11, IntactAfter
<1>13. OwedApart'
  BY <1>6, <1>7 DEF RequestsInv, OwedApart, moduleVars
<1>14. ReadyMeansJoined'
  BY <1>9 DEF RequestsInv, ReadyMeansJoined
<1>15. JoinComesFirst'
  <2>1. CASE kind[f] = "join"
    BY <1>9, <2>1 DEF JoinComesFirst
  <2>2. CASE kind[f] # "join"
    BY <1>3, <1>6, <1>7, <1>9, <2>2 DEF RequestsInv, JoinComesFirst
  <2>3. QED
    BY <2>1, <2>2
<1>16. AnswersInOrder'
  BY <1>3, <1>6 DEF RequestsInv, AnswersInOrder, moduleVars
<1>17. QED
  BY <1>11, <1>12, <1>13, <1>14, <1>15, <1>16 DEF RequestsInv
-----------------------------------------------------------------------------
(* The theorems.                                                           *)

LEMMA RequestsNextInv == ASSUME Liberties = {} PROVE RequestsInv /\ [Next]_vars => RequestsInv'
<1> SUFFICES ASSUME RequestsInv, [Next]_vars PROVE RequestsInv'
  OBVIOUS
<1>1. CASE \E f \in Items : CommitAsync(f) \/ Abort(f) \/ Delete(f)
  BY <1>1, CommitAsyncInv, AbortInv, DeleteInv
<1>2. CASE \E f, g \in Items : SetupWifiOnly(f, g)
  BY <1>2, SetupWifiOnlyInv
<1>3. CASE NoInput \/ UnaskedInput \/ Response
  BY <1>3, NoInputInv, UnaskedInputInv, ResponseInv
<1>4. CASE CallbackReturns
  BY <1>4, CallbackReturnsInv
<1>5. CASE NothingToSend \/ SendRequest \/ SendFails
  BY <1>5, NothingToSendInv, SendRequestInv, SendFailsInv
<1>6. CASE ModuleAnswers \/ ModuleReports
  BY <1>6, ModuleAnswersInv, ModuleReportsInv
<1>7. CASE UNCHANGED vars
  <2>1. /\ UNCHANGED <<queueVars, kicks, edge, stage, cur, success>>
        /\ UNCHANGED <<moduleVars, networkVars, history>>
    BY <1>7 DEF vars
  <2>2. TypeOK' /\ OwedApart' /\ AnswersInOrder'
    BY <2>1 DEF RequestsInv, QueuesIntact, TypeOK, OwedApart, AnswersInOrder, Answers,
       RequestQueue, queueVars, moduleVars, networkVars, history
  <2>3. cur # NULL => stage' \in {"calling", "failing"}
    BY <2>1 DEF RequestsInv, CurIsLoose
  <2>4. QED
    BY <2>1, <2>2, <2>3, QueuesUntouched
<1>8. QED
  BY <1>1, <1>2, <1>3, <1>4, <1>5, <1>6, <1>7 DEF Next, Client, EventHandler

\* The invariant holds as long as no client deletes a pending frame that is
\* the last of its queue.
THEOREM RequestsInvHolds == ASSUME Liberties = {} PROVE Spec => []RequestsInv
<1>1. Init => RequestsInv
  BY RequestsInitInv
<1>2. RequestsInv /\ [Next]_vars => RequestsInv'
  BY RequestsNextInv
<1>3. QED
  BY <1>1, <1>2, PTL DEF Spec

\* The two queues, which share the link field of a frame, stay two lists of
\* existing frames, and one answer at most is awaited.
THEOREM FrameQueuesStayIntact == ASSUME Liberties = {} PROVE Spec => []QueuesIntact
<1>1. RequestsInv => QueuesIntact
  BY DEF RequestsInv
<1>2. QED
  BY <1>1, RequestsInvHolds, PTL

\* IsNetworkReady says no until a join has been successful, however requests,
\* failures and late answers follow each other.
THEOREM ReadyIsJoined == ASSUME Liberties = {} PROVE Spec => []ReadyMeansJoined
<1>1. RequestsInv => ReadyMeansJoined
  BY DEF RequestsInv
<1>2. QED
  BY <1>1, RequestsInvHolds, PTL

\* A request is completed successfully by its own answer, as long as no
\* asynchronous frame has been taken for one.
THEOREM AnswersAreOwn == ASSUME Liberties = {} PROVE Spec => OwnAnswer
<1> DEFINE Own == \A f \in Items :
       Response /\ cur' = f /\ success' => taken \/ (input.cmd # "async" /\ input.frame = f)
<1>1. RequestsInv /\ [Next]_vars => [Own]_vars
  <2> SUFFICES ASSUME RequestsInv, NEW f \in Items, Response, cur' = f, success', ~taken
               PROVE  input.cmd # "async" /\ input.frame = f
    OBVIOUS
  <2>1. cur = NULL /\ f # NULL /\ input \in Inputs
    BY ItemsAssumption DEF Response, RequestsInv, CurIsLoose, QueuesIntact, TypeOK
  <2>2. Discard(response.top, IsResponse(response.top))
    BY <2>1 DEF Response
  <2>3. f = response.top /\ IsResponse(f) /\ f # NULL
    BY <2>1, <2>2 DEF Discard, Completed
  <2>4. kind[f] \in Kinds /\ input.cmd = kind[f]
    BY <2>3 DEF IsResponse, RequestsInv, QueuesIntact, TypeOK
  <2>5. Answers(f)
    BY <2>3, <2>4 DEF RequestsInv, AnswersInOrder, Kinds
  <2>6. QED
    BY <2>4, <2>5 DEF Answers, Kinds
<1>2. QED
  BY <1>1, RequestsInvHolds, PTL DEF Spec, OwnAnswer
-----------------------------------------------------------------------------
(* The links and the handler implement the pipe of requests.               *)

\* The order of the request queue is what waits in the pipe.
LEMMA Waiting ==
  ASSUME RequestsInv
  PROVE  /\ RequestQueue \in Queues /\ IsQueue(RequestQueue)
         /\ RequestQueue.top = request.top /\ RequestQueue.end = request.end
         /\ RequestQueue.next = next
         /\ ItemOrderOf(RequestQueue) \in Seq(Items)
         /\ \A f : Pipe!IsWaiting(f) <=> f \in Members(RequestQueue)
         /\ request.top # NULL => ItemOrderOf(RequestQueue) # <<>>
                                  /\ Head(ItemOrderOf(RequestQueue)) = request.top
         /\ response.top # NULL => response.top \in Members(ResponseQueue)
         /\ Committed \subseteq alive /\ alive \subseteq Items
<1>1. QueuesIntact /\ Apart(RequestQueue, ResponseQueue)
  BY QueuesApart DEF RequestsInv
<1>2. RequestQueue \in Queues /\ IsQueue(RequestQueue)
  BY <1>1 DEF Apart
<1>3. /\ RequestQueue.top = request.top /\ RequestQueue.end = request.end
      /\ RequestQueue.next = next
  BY DEF RequestQueue
<1>4. /\ ItemOrderOf(RequestQueue) \in Seq(Items)
      /\ Members(RequestQueue) =
           {ItemOrderOf(RequestQueue)[i] : i \in DOMAIN ItemOrderOf(RequestQueue)}
      /\ RequestQueue.top # NULL => ItemOrderOf(RequestQueue) # <<>>
                                    /\ Head(ItemOrderOf(RequestQueue)) = RequestQueue.top
  BY <1>2, OrderOfQueue
<1>5. \A f : Pipe!IsWaiting(f) <=> f \in Members(RequestQueue)
  BY <1>4 DEF Pipe!IsWaiting
<1>6. response.top # NULL => response.top \in Members(ResponseQueue)
  BY Awaited DEF RequestsInv
<1>7. Committed \subseteq alive /\ alive \subseteq Items
  BY <1>1 DEF QueuesIntact, TypeOK
<1>8. QED
  BY <1>2, <1>3, <1>4, <1>5, <1>6, <1>7

\* The request queue of the next state.
LEMMA RequestQueueIs ==
  ASSUME NEW Q \in Queues, request' = EndsOf(Q), next' = Q.next
  PROVE  ItemOrderOf(RequestQueue)' = ItemOrderOf(Q)
<1>1. Q = [top |-> Q.top, end |-> Q.end, next |-> Q.next]
  BY DEF Queues
<1>2. RequestQueue' = Q
  BY <1>1 DEF EndsOf, RequestQueue
<1>3. QED
  BY <1>2

\* A new frame whose link is cleared is not in the queue yet.
LEMMA ClearedQueue ==
  ASSUME RequestsInv, NEW n \in [Items -> ItemPointer], \A u \in alive : n[u] = next[u],
         NEW P, P = [top |-> request.top, end |-> request.end, next |-> n]
  PROVE  /\ P \in Queues /\ IsQueue(P) /\ Members(P) = Members(RequestQueue)
         /\ ItemOrderOf(P) = ItemOrderOf(RequestQueue)
<1>1. P \in Queues /\ Apart(P, Relinked(ResponseQueue, P)) /\ Members(P) = Members(RequestQueue)
  BY FrameIsNew
<1>2. P.top = RequestQueue.top /\ P.end = RequestQueue.end
      /\ \A u \in Members(RequestQueue) : P.next[u] = RequestQueue.next[u]
  BY Waiting DEF Committed
<1>3. ItemOrderOf(P) = ItemOrderOf(RequestQueue)
  <2>1. PICK Q : Q = RequestQueue
    OBVIOUS
  <2>2. QED
    BY <1>2, <2>1, Waiting, OrderElsewhere
<1>4. QED
  BY <1>1, <1>3 DEF Apart

\* commitAsync appends the frame.
LEMMA CommitAsyncMaps ==
  ASSUME RequestsInv, NEW f \in Items, CommitAsync(f)
  PROVE  Pipe!Commit(f)
<1>1. f \notin alive /\ next \in [Items -> ItemPointer] /\ response' = response /\ f # NULL
  BY ItemsAssumption DEF CommitAsync, Unused, RequestsInv, QueuesIntact, TypeOK
<1>2. ~Pipe!IsWaiting(f) /\ f # response.top /\ f \notin Members(RequestQueue)
  BY <1>1, Waiting DEF Committed
<1> DEFINE n == [next EXCEPT ![f] = NULL]
<1>3. PICK P : P = [top |-> request.top, end |-> request.end, next |-> n]
  OBVIOUS
<1>4. /\ P \in Queues /\ IsQueue(P) /\ Members(P) = Members(RequestQueue)
      /\ ItemOrderOf(P) = ItemOrderOf(RequestQueue)
  <2>1. n \in [Items -> ItemPointer] /\ \A u \in alive : n[u] = next[u]
    BY <1>1, Waiting DEF ItemPointer
  <2> HIDE DEF n
  <2>2. QED
    BY <1>3, <2>1, ClearedQueue
<1>5. PICK Q : Q = Enqueue(P, f)
  OBVIOUS
<1>6. Q \in Queues /\ ItemOrderOf(Q) = Append(ItemOrderOf(RequestQueue), f)
  BY <1>2, <1>4, <1>5, EnqueueJoins, EnqueueAppends
<1>7. request' = EndsOf(Q) /\ next' = Q.next
  <2>1. [RequestQueue EXCEPT !.next[f] = NULL] = P
    BY <1>1, <1>3 DEF RequestQueue
  <2>2. QED
    BY <1>5, <2>1 DEF CommitAsync
<1>8. ItemOrderOf(RequestQueue)' = Append(ItemOrderOf(RequestQueue), f)
  BY <1>6, <1>7, RequestQueueIs
<1>9. QED
  BY <1>1, <1>2, <1>8 DEF Pipe!Commit

LEMMA AppendTwice ==
  ASSUME NEW s \in Seq(Items), NEW f \in Items, NEW g \in Items
  PROVE  Append(Append(s, f), g) = s \o <<f, g>>
OBVIOUS

\* setupWifiOnly appends the join and the IP configuration.
LEMMA SetupWifiOnlyMaps ==
  ASSUME RequestsInv, NEW f \in Items, NEW g \in Items, SetupWifiOnly(f, g)
  PROVE  Pipe!CommitTwo(f, g)
<1>1. /\ f \notin alive /\ g \notin alive /\ f # g /\ next \in [Items -> ItemPointer]
      /\ response' = response /\ f # NULL /\ g # NULL
  BY ItemsAssumption DEF SetupWifiOnly, Unused, RequestsInv, QueuesIntact, TypeOK
<1>2. /\ ~Pipe!IsWaiting(f) /\ ~Pipe!IsWaiting(g) /\ response.top \notin {f, g}
      /\ f \notin Members(RequestQueue) /\ g \notin Members(RequestQueue)
  BY <1>1, Waiting DEF Committed
<1> DEFINE n == [next EXCEPT ![f] = NULL]
           m == [n EXCEPT ![g] = NULL]
<1>3. PICK P : P = [top |-> request.top, end |-> request.end, next |-> m]
  OBVIOUS
<1>4. /\ P \in Queues /\ IsQueue(P) /\ Members(P) = Members(RequestQueue)
      /\ ItemOrderOf(P) = ItemOrderOf(RequestQueue)
  <2>1. n \in [Items -> ItemPointer] /\ \A u \in alive : n[u] = next[u]
    BY <1>1, Waiting DEF ItemPointer
  <2> HIDE DEF n
  <2>2. m \in [Items -> ItemPointer] /\ \A u \in alive : m[u] = next[u]
    BY <1>1, <2>1, Waiting DEF ItemPointer
  <2> HIDE DEF m
  <2>3. QED
    BY <1>3, <2>2, ClearedQueue
<1>5. PICK Q : Q = Enqueue(P, f)
  OBVIOUS
<1>6. /\ Q \in Queues /\ IsQueue(Q) /\ g \notin Members(Q)
      /\ ItemOrderOf(Q) = Append(ItemOrderOf(RequestQueue), f)
  BY <1>1, <1>2, <1>4, <1>5, EnqueueJoins, EnqueueAppends
<1>7. PICK Q2 : Q2 = Enqueue(Q, g)
  OBVIOUS
<1>8. Q2 \in Queues /\ ItemOrderOf(Q2) = Append(ItemOrderOf(Q), g)
  BY <1>6, <1>7, EnqueueJoins, EnqueueAppends
<1>9. request' = EndsOf(Q2) /\ next' = Q2.next
  BY <1>3, <1>5, <1>7, ClearTwo DEF SetupWifiOnly
<1>10. ItemOrderOf(RequestQueue)' = ItemOrderOf(RequestQueue) \o <<f, g>>
  BY <1>6, <1>8, <1>9, RequestQueueIs, Waiting, AppendTwice
<1>11. QED
  BY <1>1, <1>2, <1>10 DEF Pipe!CommitTwo

\* Taking a request out of the queue takes its place out of the pipe.
LEMMA Withdrawn ==
  ASSUME RequestsInv, NEW f \in Members(RequestQueue), response' = response,
         ItemOrderOf(RequestQueue)' = ItemOrderOf(RemoveItem(RequestQueue, f))
  PROVE  Pipe!Withdraw(f)
<1>1. PICK Q : Q = RequestQueue
  OBVIOUS
<1>2. \E k \in DOMAIN ItemOrderOf(Q) :
        /\ ItemOrderOf(Q)[k] = f
        /\ ItemOrderOf(RemoveItem(Q, f)) =
             SubSeq(ItemOrderOf(Q), 1, k - 1) \o SubSeq(ItemOrderOf(Q), k + 1, Len(ItemOrderOf(Q)))
  BY <1>1, Waiting, RemoveItemTakesOut
<1>3. QED
  BY <1>1, <1>2 DEF Pipe!Withdraw, Pipe!RemoveAt

LEMMA AbortMaps ==
  ASSUME RequestsInv, NEW f \in Items, Abort(f)
  PROVE  Pipe!Withdraw(f)
<1>1. PICK Q : Q = RemoveItem(RequestQueue, f)
  OBVIOUS
<1>2. Q \in Queues
  BY <1>1, Waiting, RemoveItemLeaves
<1>3. request' = EndsOf(Q) /\ next' = Q.next
  BY <1>1 DEF Abort
<1>4. ItemOrderOf(RequestQueue)' = ItemOrderOf(Q)
  BY <1>2, <1>3, RequestQueueIs
<1>5. f \in Members(RequestQueue) /\ response' = response
  BY DEF Abort
<1>6. QED
  BY <1>1, <1>4, <1>5, Withdrawn

\* ~ModuleFrame withdraws a request that waits, and no other frame.
LEMMA DeleteFrameMaps ==
  ASSUME RequestsInv, NEW f \in Items, DeleteFrame(f), f \notin Members(ResponseQueue),
         f \in Members(RequestQueue) => next[f] # NULL
  PROVE  Pipe!Withdraw(f) \/ UNCHANGED Pipe!vars
<1>1. /\ ItemOrderOf(RequestQueue)' = ItemOrderOf(RemoveItem(RequestQueue, f))
      /\ response' = response
  BY DeleteFrameLeaves
<1>2. CASE f \in Members(RequestQueue)
  BY <1>1, <1>2, Withdrawn
<1>3. CASE f \notin Members(RequestQueue)
  BY <1>1, <1>3 DEF RemoveItem, Pipe!vars
<1>4. QED
  BY <1>2, <1>3

LEMMA DeleteMaps ==
  ASSUME Liberties = {}, RequestsInv, NEW f \in Items, Delete(f)
  PROVE  Pipe!Withdraw(f) \/ UNCHANGED Pipe!vars
<1>1. next[f] # NULL /\ DeleteFrame(f)
  BY DEF Delete
<1>2. f \notin Members(ResponseQueue)
  BY <1>1, Awaited DEF RequestsInv
<1>3. QED
  BY <1>1, <1>2, DeleteFrameMaps

\* A frame that has left the queues deletes itself.
LEMMA CallbackReturnsMaps == RequestsInv /\ CallbackReturns => UNCHANGED Pipe!vars
<1> SUFFICES ASSUME RequestsInv, CallbackReturns PROVE UNCHANGED Pipe!vars
  OBVIOUS
<1>1. CASE cur = NULL
  BY <1>1 DEF CallbackReturns, queueVars, RequestQueue, Pipe!vars
<1>2. CASE cur # NULL
  <2>1. cur \in alive /\ cur \notin Committed /\ DeleteFrame(cur)
    BY <1>2 DEF CallbackReturns, RequestsInv, CurIsLoose
  <2>2. PICK f \in Items : f = cur
    BY <2>1, Waiting
  <2>3. DeleteFrame(f) /\ f \notin Members(ResponseQueue) /\ f \notin Members(RequestQueue)
    BY <2>1, <2>2 DEF Committed
  <2>4. /\ ItemOrderOf(RequestQueue)' = ItemOrderOf(RemoveItem(RequestQueue, f))
        /\ response' = response
    BY <2>3, DeleteFrameLeaves
  <2>5. QED
    BY <2>3, <2>4 DEF RemoveItem, Pipe!vars
<1>3. QED
  BY <1>1, <1>2

\* The completion of the awaited request leaves those that wait alone.
LEMMA ResponseMaps == RequestsInv /\ Response => Pipe!Complete \/ UNCHANGED Pipe!vars
<1> SUFFICES ASSUME RequestsInv, Response PROVE Pipe!Complete \/ UNCHANGED Pipe!vars
  OBVIOUS
<1>1. CASE UNCHANGED <<request, response, next>>
  BY <1>1 DEF RequestQueue, Pipe!vars
<1>2. CASE Discard(response.top, IsResponse(response.top))
  <2>1. PICK f : f = response.top
    OBVIOUS
  <2>2. /\ QueuesIntact /\ Apart(ResponseQueue, RequestQueue) /\ ResponseQueue.next = next
        /\ ResponseQueue \in Queues /\ IsQueue(ResponseQueue)
    BY QueuesApart DEF RequestsInv, Apart, ResponseQueue
  <2>3. f # NULL /\ f \in Items /\ Members(ResponseQueue) = {f}
    BY <2>1, <2>2, Awaited DEF Response, RequestsInv, Members
  <2>4. PICK R : R = RemoveItem(ResponseQueue, f)
    OBVIOUS
  <2>5. /\ R \in Queues /\ IsQueue(R) /\ Members(R) = {}
        /\ \A u \in Items \ {f} : R.next[u] = next[u]
    BY <2>2, <2>3, <2>4, RemoveItemLeaves
  <2>6. R.top = NULL
    BY <2>5, LinksOfMembers
  <2>7. response' = EndsOf(R) /\ next' = R.next /\ request' = request
    BY <1>2, <2>1, <2>4 DEF Discard
  <2>8. ItemOrderOf(RequestQueue)' = ItemOrderOf(RequestQueue)
    <3>1. PICK P : P = RequestQueue'
      OBVIOUS
    <3>2. /\ P.top = RequestQueue.top /\ P.end = RequestQueue.end
          /\ P.next = next'
      BY <2>7, <3>1 DEF RequestQueue
    <3>3. \A u \in Members(RequestQueue) : P.next[u] = RequestQueue.next[u]
      BY <2>2, <2>3, <2>5, <2>7, <3>2, Waiting DEF Apart, Members
    <3>4. PICK Q : Q = RequestQueue
      OBVIOUS
    <3>5. ItemOrderOf(P) = ItemOrderOf(Q)
      BY <3>2, <3>3, <3>4, Waiting, OrderElsewhere
    <3>6. QED
      BY <3>1, <3>4, <3>5
  <2>9. response'.top = NULL /\ response.top # NULL
    BY <2>1, <2>3, <2>6, <2>7 DEF EndsOf
  <2>10. QED
    BY <2>8, <2>9 DEF Pipe!Complete
<1>3. QED
  BY <1>1, <1>2 DEF Response

\* The first request is sent, and then awaited.
LEMMA SendRequestMaps == RequestsInv /\ SendRequest => Pipe!Send
<1> SUFFICES ASSUME RequestsInv, SendRequest PROVE Pipe!Send
  OBVIOUS
<1>1. PICK f : f = request.top
  OBVIOUS
<1>2. /\ response.top = NULL /\ f # NULL /\ Members(ResponseQueue) = {}
      /\ f \in Members(RequestQueue) /\ f \in Items
      /\ ResponseQueue.top = response.top /\ ResponseQueue.next = next
      /\ next \in [Items -> ItemPointer]
  BY <1>1, Awaited DEF SendRequest, MaySend, RequestsInv, ResponseQueue, QueuesIntact, TypeOK
<1>3. PICK Q : Q = Dequeue(RequestQueue)
  OBVIOUS
<1>4. /\ Q \in Queues /\ IsQueue(Q) /\ Q.next = next
      /\ Members(Q) = Members(RequestQueue) \ {f}
  BY <1>1, <1>3, Waiting, DequeueLeaves
<1>5. ItemOrderOf(Q) = Tail(ItemOrderOf(RequestQueue))
  <2>1. PICK P : P = RequestQueue
    OBVIOUS
  <2>2. QED
    BY <1>1, <1>2, <1>3, <2>1, Waiting, DequeueTakesFirst
<1>6. PICK R : R = Enqueue(ResponseQueue, f)
  OBVIOUS
<1>7. R.top = f /\ R.next = [next EXCEPT ![f] = NULL]
  BY <1>2, <1>6 DEF Enqueue
<1>8. request' = EndsOf(Q) /\ response' = EndsOf(R) /\ next' = R.next
  <2>1. [ResponseQueue EXCEPT !.next = Q.next] = ResponseQueue
    BY <1>4 DEF ResponseQueue
  <2>2. QED
    BY <1>1, <1>3, <1>6, <2>1 DEF SendRequest
<1>9. ItemOrderOf(RequestQueue)' = Tail(ItemOrderOf(RequestQueue))
  <2>1. PICK P : P = RequestQueue'
    OBVIOUS
  <2>2. P.top = Q.top /\ P.end = Q.end /\ P.next = R.next
    BY <1>8, <2>1 DEF RequestQueue, EndsOf
  <2>3. \A u \in Members(Q) : P.next[u] = Q.next[u]
    BY <1>2, <1>4, <1>7, <2>2 DEF Members
  <2>4. ItemOrderOf(P) = ItemOrderOf(Q)
    BY <1>4, <2>2, <2>3, OrderElsewhere
  <2>5. QED
    BY <1>5, <2>1, <2>4
<1>10. response'.top = f
  BY <1>7, <1>8 DEF EndsOf
<1>11. QED
  BY <1>1, <1>2, <1>9, <1>10, Waiting DEF Pipe!Send

\* A request that cannot be written leaves.
LEMMA SendFailsMaps == RequestsInv /\ SendFails => Pipe!Refuse
<1> SUFFICES ASSUME RequestsInv, SendFails PROVE Pipe!Refuse
  OBVIOUS
<1>1. response.top = NULL /\ request.top # NULL /\ response' = response
  BY DEF SendFails, MaySend
<1>2. PICK Q : Q = Dequeue(RequestQueue)
  OBVIOUS
<1>3. Q \in Queues /\ Q.next = next
  BY <1>2, Waiting, DequeueLeaves
<1>4. ItemOrderOf(Q) = Tail(ItemOrderOf(RequestQueue))
  <2>1. PICK P : P = RequestQueue
    OBVIOUS
  <2>2. QED
    BY <1>1, <1>2, <2>1, Waiting, DequeueTakesFirst
<1>5. request' = EndsOf(Q) /\ next' = Q.next
  BY <1>2, <1>3 DEF SendFails
<1>6. ItemOrderOf(RequestQueue)' = Tail(ItemOrderOf(RequestQueue))
  BY <1>3, <1>4, <1>5, RequestQueueIs
<1>7. QED
  BY <1>1, <1>6, Waiting DEF Pipe!Refuse

LEMMA PipeStep ==
  ASSUME Liberties = {} PROVE RequestsInv /\ [Next]_vars => [Pipe!Next]_(Pipe!vars)
<1> SUFFICES ASSUME RequestsInv, [Next]_vars PROVE [Pipe!Next]_(Pipe!vars)
  OBVIOUS
<1>1. ASSUME NEW f \in Items, CommitAsync(f) \/ Abort(f) \/ Delete(f)
      PROVE  [Pipe!Next]_(Pipe!vars)
  BY <1>1, CommitAsyncMaps, AbortMaps, DeleteMaps DEF Pipe!Next
<1>2. ASSUME NEW f \in Items, NEW g \in Items, SetupWifiOnly(f, g)
      PROVE  [Pipe!Next]_(Pipe!vars)
  BY <1>2, SetupWifiOnlyMaps DEF Pipe!Next
<1>3. CASE Response
  BY <1>3, ResponseMaps DEF Pipe!Next
<1>4. CASE CallbackReturns
  BY <1>4, CallbackReturnsMaps
<1>5. CASE SendRequest \/ SendFails
  BY <1>5, SendRequestMaps, SendFailsMaps DEF Pipe!Next
<1>6. CASE \/ NoInput \/ UnaskedInput \/ NothingToSend \/ ModuleAnswers \/ ModuleReports
           \/ UNCHANGED vars
  BY <1>6 DEF NoInput, UnaskedInput, NothingToSend, ModuleAnswers, ModuleReports, vars,
     queueVars, RequestQueue, Pipe!vars
<1>7. QED
  BY <1>1, <1>2, <1>3, <1>4, <1>5, <1>6 DEF Next, Client, EventHandler

\* The two queues and moduleEventHandler implement the pipe of requests:
\* requests are sent in the order of their commits, one at a time, and each
\* leaves exactly once.
THEOREM QueuesImplementPipe == ASSUME Liberties = {} PROVE Spec => PipeSpec
<1>1. Init => Pipe!Init
  <2> SUFFICES ASSUME Init PROVE Pipe!Init
    OBVIOUS
  <2>1. PICK Q : Q = RequestQueue
    OBVIOUS
  <2>2. Q.top = NULL /\ Q.end = NULL /\ response.top = NULL
    BY <2>1 DEF Init, RequestQueue
  <2>3. ItemOrderOf(Q) = <<>>
    BY <2>2, QueueWithoutItems, OrderOfQueue
  <2>4. QED
    BY <2>1, <2>2, <2>3 DEF Pipe!Init
<1>2. RequestsInv /\ [Next]_vars => [Pipe!Next]_(Pipe!vars)
  BY PipeStep
<1>3. QED
  BY <1>1, <1>2, RequestsInvHolds, PTL DEF Spec, PipeSpec, Pipe!Spec

-----------------------------------------------------------------------------
(* The module's clients, to whom it is only the pipe of requests.  Their   *)
(* frames are items of its queues.                                         *)

CONSTANTS Clients, Timers, MaxChunks, NetworkStates, ClientLiberties

VARIABLES
  clients, obj, frame, waiting, pending, calls, sending,
  delivered, copied, lost, refused, freedTwice

Http == INSTANCE HttpClient
  WITH Frames <- Items, Liberties <- ClientLiberties, alive <- clients

\* What the proofs need of HttpAssumption.
HttpConstants ==
  /\ MaxChunks \in Nat \ {0} /\ MaxKicks \in Nat
  /\ NULL \notin Clients \cup Items \cup Timers

Objects == [posts : BOOLEAN, shouldPost : BOOLEAN, state : Http!States,
            dnsFrame : Items \cup {NULL}, request : Items \cup {NULL},
            cbTimers : SUBSET Timers, respData : Http!Chunks]
HttpFrames == [use : {"free", "dns", "http"}, ctx : Clients \cup {NULL},
               n : 0..MaxChunks, address : BOOLEAN]
Calls == [what : {"error", "data"}, to : Clients, timer : Timers \cup {NULL}] \cup {Http!Kick}

Entries(s) == {s[i] : i \in DOMAIN s}
Once(s) == \A i, j \in DOMAIN s : s[i] = s[j] => i = j

\* A timer makes one call.
TimersApart(s) == \A i, j \in DOMAIN s : s[i].timer = s[j].timer => i = j \/ s[i].timer = NULL

\* A frame calls a client that exists and that points at the frame.
FramesOwned ==
  \A f \in Items : frame[f].ctx # NULL =>
    /\ frame[f].ctx \in clients
    /\ f \in {obj[frame[f].ctx].dnsFrame, obj[frame[f].ctx].request}
    /\ f = obj[frame[f].ctx].dnsFrame => frame[f].use = "dns"

\* A request has somebody to call, and a part of its response is still to come.
FramesServed ==
  \A f \in Items : frame[f].n < MaxChunks /\ (frame[f].use = "http" => frame[f].ctx # NULL)

\* A client has the frame of its resolver or its own, and one timer.
ClientsSound ==
  \A c \in Clients :
    /\ obj[c].dnsFrame = NULL \/ obj[c].request = NULL
    /\ \A t, u \in obj[c].cbTimers : t = u

\* A timer calls a client that exists; an error is reported to one without
\* frames.
Sound(k) ==
  \/ k = Http!Kick
  \/ k.what = "data" /\ k.to \in clients /\ k.timer = NULL
  \/ /\ k.what = "error" /\ k.to \in clients
     /\ obj[k.to].dnsFrame = NULL /\ obj[k.to].request = NULL

CallsSound == (\A k \in Entries(calls) : Sound(k)) /\ TimersApart(calls)

\* The inductive invariant of what calls back.
ClientsInv == Http!TypeOK /\ FramesOwned /\ FramesServed /\ ClientsSound /\ CallsSound

-----------------------------------------------------------------------------
(* Sequences from which one entry is left out.                             *)

\* The i-th entry of q is left out.
LeavesOut(r, q, i) ==
  /\ Len(r) = Len(q) - 1
  /\ \A j \in 1..(Len(q) - 1) : r[j] = IF j < i THEN q[j] ELSE q[j + 1]

LEMMA CutOut ==
  ASSUME NEW S, NEW q \in Seq(S), NEW i \in 1..Len(q)
  PROVE  LET r == SubSeq(q, 1, i - 1) \o SubSeq(q, i + 1, Len(q))
         IN  r \in Seq(S) /\ LeavesOut(r, q, i)
<1> DEFINE a == SubSeq(q, 1, i - 1)
           b == SubSeq(q, i + 1, Len(q))
<1>1. PICK n \in Nat : n = Len(q) /\ q \in [1..n -> S]
  BY LenProperties
<1>2. a \in Seq(S) /\ Len(a) = i - 1 /\ \A j \in 1..(i - 1) : a[j] = q[j]
  BY <1>1
<1>3. b \in Seq(S) /\ Len(b) = n - i /\ \A j \in 1..(n - i) : b[j] = q[j + i]
  <2>1. PICK k \in 2..(n + 1) : k = i + 1
    BY <1>1
  <2>2. b = SubSeq(q, k, n)
    BY <1>1, <2>1
  <2>3. \A j \in k..n : q[j] \in S
    BY <1>1, <2>1
  <2>4. b \in Seq(S) /\ Len(b) = n - k + 1 /\ \A j \in 1..(n - k + 1) : b[j] = q[k + j - 1]
    <3>1. /\ b \in Seq(S) /\ Len(b) = (IF k <= n THEN n - k + 1 ELSE 0)
          /\ \A j \in 1..(n - k + 1) : b[j] = q[k + j - 1]
      BY <2>2, <2>3, SubSeqProperties
    <3>2. (IF k <= n THEN n - k + 1 ELSE 0) = n - k + 1
      OBVIOUS
    <3>3. QED
      BY <3>1, <3>2, Zenon
  <2>5. n - k + 1 = n - i
    BY <2>1
  <2>6. \A j \in 1..(n - i) : b[j] = q[j + i]
    <3> SUFFICES ASSUME NEW j \in 1..(n - i) PROVE b[j] = q[j + i]
      OBVIOUS
    <3>1. k + j - 1 = j + i
      BY <2>1
    <3>2. b[j] = q[k + j - 1]
      BY <2>4, <2>5
    <3>3. QED
      BY <3>1, <3>2, Zenon
  <2>7. QED
    BY <2>4, <2>5, <2>6
<1>4. PICK r : r = a \o b
  OBVIOUS
<1> HIDE DEF a, b
<1>5. /\ r \in Seq(S) /\ Len(r) = n - 1
      /\ \A j \in 1..(n - 1) : r[j] = IF j < i THEN a[j] ELSE b[j - i + 1]
  <2>1. /\ r \in Seq(S) /\ Len(r) = Len(a) + Len(b)
        /\ \A j \in 1..(Len(a) + Len(b)) : r[j] = IF j <= Len(a) THEN a[j] ELSE b[j - Len(a)]
    BY <1>2, <1>3, <1>4, ConcatProperties
  <2>2. Len(a) + Len(b) = n - 1
    BY <1>1, <1>2, <1>3
  <2>3. \A j \in 1..(n - 1) : r[j] = IF j < i THEN a[j] ELSE b[j - i + 1]
    <3> SUFFICES ASSUME NEW j \in 1..(n - 1) PROVE r[j] = IF j < i THEN a[j] ELSE b[j - i + 1]
      OBVIOUS
    <3>1. j - Len(a) = j - i + 1 /\ (j <= Len(a) <=> j < i)
      BY <1>2
    <3>2. r[j] = IF j <= Len(a) THEN a[j] ELSE b[j - Len(a)]
      BY <2>1, <2>2
    <3>3. QED
      BY <3>1, <3>2, Zenon
  <2>4. QED
    BY <2>1, <2>2, <2>3
<1>6. \A j \in 1..(n - 1) : r[j] = IF j < i THEN q[j] ELSE q[j + 1]
  <2> SUFFICES ASSUME NEW j \in 1..(n - 1)
               PROVE  r[j] = IF j < i THEN q[j] ELSE q[j + 1]
    OBVIOUS
  <2>1. CASE j >= i
    <3>1. j - i + 1 \in 1..(n - i) /\ (j - i + 1) + i = j + 1
      BY <1>1, <2>1
    <3>2. b[j - i + 1] = q[j + 1]
      BY <1>3, <3>1
    <3>3. QED
      BY <1>5, <2>1, <3>2
  <2>2. CASE j < i
    BY <1>2, <1>5, <2>2
  <2>3. QED
    BY <2>1, <2>2
<1>7. LeavesOut(r, q, i)
  BY <1>1, <1>5, <1>6 DEF LeavesOut
<1>8. QED
  BY <1>4, <1>5, <1>7 DEF a, b

LEMMA TailLeavesOut ==
  ASSUME NEW S, NEW q \in Seq(S), q # <<>>
  PROVE  1 \in 1..Len(q) /\ q[1] = Head(q) /\ Tail(q) \in Seq(S) /\ LeavesOut(Tail(q), q, 1)
BY DEF LeavesOut

\* The other entries stay, in their order.
LEMMA OthersStay ==
  ASSUME NEW S, NEW q \in Seq(S), NEW i \in 1..Len(q), NEW r \in Seq(S), LeavesOut(r, q, i)
  PROVE  /\ \A j \in DOMAIN r : \E m \in DOMAIN q : m # i /\ r[j] = q[m]
         /\ \A m \in DOMAIN q : m # i => \E j \in DOMAIN r : r[j] = q[m]
         /\ Once(q) => Once(r) /\ Entries(r) = Entries(q) \ {q[i]}
         /\ TimersApart(q) => TimersApart(r)
         /\ Entries(r) \subseteq Entries(q)
<1>1. PICK n \in Nat : n = Len(q) /\ DOMAIN q = 1..n /\ DOMAIN r = 1..(n - 1)
  BY DEF LeavesOut
<1>2. \A j \in 1..(n - 1) : r[j] = IF j < i THEN q[j] ELSE q[j + 1]
  BY <1>1 DEF LeavesOut
<1>3. ASSUME NEW j \in DOMAIN r PROVE \E m \in DOMAIN q : m # i /\ r[j] = q[m]
  <2>1. CASE j < i
    BY <1>1, <1>2, <2>1
  <2>2. CASE ~(j < i)
    <3>1. j + 1 \in 1..n /\ j + 1 # i
      BY <1>1, <2>2
    <3>2. QED
      BY <1>1, <1>2, <2>2, <3>1
  <2>3. QED
    BY <2>1, <2>2
<1>4. ASSUME NEW m \in DOMAIN q, m # i PROVE \E j \in DOMAIN r : r[j] = q[m]
  <2>1. CASE m < i
    BY <1>1, <1>2, <2>1
  <2>2. CASE m > i
    <3>1. m - 1 \in 1..(n - 1) /\ (m - 1) + 1 = m /\ ~(m - 1 < i)
      BY <1>1, <2>2
    <3>2. r[m - 1] = q[m]
      BY <1>2, <3>1
    <3>3. QED
      BY <1>1, <3>1, <3>2
  <2>3. QED
    BY <1>1, <1>4, <2>1, <2>2
<1>5. ASSUME NEW j \in DOMAIN r, NEW k \in DOMAIN r, j # k
      PROVE  \E m, l \in DOMAIN q : m # l /\ r[j] = q[m] /\ r[k] = q[l]
  <2>1. PICK m \in DOMAIN q : m = IF j < i THEN j ELSE j + 1
    BY <1>1
  <2>2. PICK l \in DOMAIN q : l = IF k < i THEN k ELSE k + 1
    BY <1>1
  <2>3. m # l /\ r[j] = q[m] /\ r[k] = q[l]
    BY <1>1, <1>2, <1>5, <2>1, <2>2, SMTT(30)
  <2>4. QED
    BY <2>3
<1>6. Once(q) => Once(r)
  BY <1>5 DEF Once
<1>7. TimersApart(q) => TimersApart(r)
  BY <1>5 DEF TimersApart
<1>8. Entries(r) \subseteq Entries(q)
  BY <1>3 DEF Entries
<1>9. Once(q) => Entries(r) = Entries(q) \ {q[i]}
  <2> SUFFICES ASSUME Once(q) PROVE Entries(r) = Entries(q) \ {q[i]}
    OBVIOUS
  <2>1. \A x \in Entries(r) : x \in Entries(q) /\ x # q[i]
    BY <1>1, <1>3 DEF Entries, Once
  <2>2. \A x \in Entries(q) \ {q[i]} : x \in Entries(r)
    BY <1>4 DEF Entries
  <2>3. QED
    BY <2>1, <2>2
<1>10. QED
  BY <1>3, <1>4, <1>6, <1>7, <1>8, <1>9

LEMMA AppendEntries ==
  ASSUME NEW S, NEW q \in Seq(S), NEW x \in S
  PROVE  /\ Append(q, x) \in Seq(S) /\ Entries(Append(q, x)) = Entries(q) \cup {x}
         /\ Once(q) /\ x \notin Entries(q) => Once(Append(q, x))
         /\ TimersApart(q) /\ (x.timer = NULL \/ \A y \in Entries(q) : y.timer # x.timer)
              => TimersApart(Append(q, x))
<1>1. PICK n \in Nat : n = Len(q) /\ DOMAIN q = 1..n
  OBVIOUS
<1>2. PICK r : r = Append(q, x)
  OBVIOUS
<1>3. /\ r \in Seq(S) /\ DOMAIN r = 1..(n + 1) /\ r[n + 1] = x
      /\ \A j \in 1..n : r[j] = q[j]
  BY <1>1, <1>2
<1>4. \A j \in 1..(n + 1) : j \in 1..n \/ j = n + 1
  OBVIOUS
<1>5. Entries(r) = Entries(q) \cup {x}
  <2>1. n + 1 \in 1..(n + 1) /\ 1..n \subseteq 1..(n + 1)
    OBVIOUS
  <2>2. QED
    BY <1>1, <1>3, <1>4, <2>1 DEF Entries
<1>6. Once(q) /\ x \notin Entries(q) => Once(r)
  BY <1>1, <1>3, <1>4 DEF Once, Entries
<1>7. TimersApart(q) /\ (x.timer = NULL \/ \A y \in Entries(q) : y.timer # x.timer) => TimersApart(r)
  BY <1>1, <1>3, <1>4 DEF TimersApart, Entries
<1>8. QED
  BY <1>2, <1>3, <1>5, <1>6, <1>7

-----------------------------------------------------------------------------
(* What the clients' steps have in common.                                 *)

\* The types of what is not called back.
RestTypeOK ==
  /\ waiting \in Seq(Items) /\ pending \in Items \cup {NULL}
  /\ sending \in BOOLEAN /\ delivered \in [Clients -> Seq(Http!Chunks)]
  /\ copied \in SUBSET Clients /\ lost \in SUBSET Clients
  /\ refused \in BOOLEAN /\ freedTwice \in BOOLEAN

LEMMA HttpTypes ==
  Http!TypeOK <=> /\ clients \in SUBSET Clients /\ obj \in [Clients -> Objects]
                  /\ frame \in [Items -> HttpFrames] /\ calls \in Seq(Calls) /\ RestTypeOK
BY DEF Http!TypeOK, RestTypeOK, Objects, HttpFrames, Calls

LEMMA HttpTypesAfter ==
  /\ clients' \in SUBSET Clients /\ obj' \in [Clients -> Objects]
  /\ frame' \in [Items -> HttpFrames] /\ calls' \in Seq(Calls) /\ RestTypeOK'
  => Http!TypeOK'
BY DEF Http!TypeOK, RestTypeOK, Objects, HttpFrames, Calls

\* The pointers of a client.
SamePointers(o, p) == p.dnsFrame = o.dnsFrame /\ p.request = o.request

\* Nothing happens to the frames, and clients keep pointing at them.
LEMMA FramesKept ==
  ASSUME FramesOwned, FramesServed, frame' = frame, clients \subseteq clients',
         \A x \in clients : SamePointers(obj[x], obj'[x])
  PROVE  FramesOwned' /\ FramesServed'
BY DEF FramesOwned, FramesServed, SamePointers

\* Calls stay sound if their clients stay and get no frames.
LEMMA CallsKept ==
  ASSUME CallsSound, TimersApart(calls'), clients \subseteq clients',
         \A k \in Entries(calls') : k \in Entries(calls) \/ Sound(k)',
         \A x \in clients : obj[x].dnsFrame = NULL /\ obj[x].request = NULL
           => obj'[x].dnsFrame = NULL /\ obj'[x].request = NULL
  PROVE  CallsSound'
BY DEF CallsSound, Sound, Http!Kick

\* The tail of the run loop's calls.
LEMMA CallIsMade ==
  ASSUME ClientsInv, calls # <<>>
  PROVE  /\ Tail(calls) \in Seq(Calls) /\ TimersApart(Tail(calls))
         /\ Entries(Tail(calls)) \subseteq Entries(calls)
         /\ Head(calls) \in Entries(calls) /\ Head(calls) \in Calls
<1>1. calls \in Seq(Calls) /\ TimersApart(calls)
  BY HttpTypes DEF ClientsInv, CallsSound
<1>2. /\ 1 \in 1..Len(calls) /\ calls[1] = Head(calls) /\ Tail(calls) \in Seq(Calls)
      /\ LeavesOut(Tail(calls), calls, 1)
  BY <1>1, TailLeavesOut
<1>3. TimersApart(Tail(calls)) /\ Entries(Tail(calls)) \subseteq Entries(calls)
  BY <1>1, <1>2, OthersStay
<1>4. QED
  BY <1>1, <1>2, <1>3 DEF Entries

\* A call without a timer that anybody remembers is added.
LEMMA CallIsAdded ==
  ASSUME NEW q \in Seq(Calls), TimersApart(q), NEW k \in Calls, k.timer = NULL
  PROVE  /\ Append(q, k) \in Seq(Calls) /\ TimersApart(Append(q, k))
         /\ Entries(Append(q, k)) = Entries(q) \cup {k}
BY AppendEntries

\* An event that starts no timer.
LEMMA PlainEvent ==
  ASSUME ClientsInv, Http!Event(<<>>)
  PROVE  /\ calls' \in Seq(Calls) /\ TimersApart(calls') /\ sending' = TRUE
         /\ Entries(calls') \subseteq Entries(calls)
<1>1. calls \in Seq(Calls) /\ TimersApart(calls)
  BY HttpTypes DEF ClientsInv, CallsSound
<1>2. sending' = TRUE /\ (calls' = calls \o <<>> \/ (calls # <<>> /\ calls' = Tail(calls) \o <<>>))
  BY DEF Http!Event
<1>3. ASSUME NEW q \in Seq(Calls) PROVE q \o <<>> = q
  OBVIOUS
<1>4. calls' = calls \/ (calls # <<>> /\ calls' = Tail(calls))
  BY <1>1, <1>2, <1>3, CallIsMade
<1>5. QED
  BY <1>1, <1>2, <1>4, CallIsMade

\* An event that starts one.
LEMMA CallingEvent ==
  ASSUME ClientsInv, NEW k \in Calls, k.timer = NULL, Http!Event(<<k>>)
  PROVE  /\ calls' \in Seq(Calls) /\ TimersApart(calls') /\ sending' = TRUE
         /\ Entries(calls') \subseteq Entries(calls) \cup {k}
<1>1. calls \in Seq(Calls) /\ TimersApart(calls)
  BY HttpTypes DEF ClientsInv, CallsSound
<1>2. /\ sending' = TRUE
      /\ calls' = calls \o <<k>> \/ (calls # <<>> /\ calls' = Tail(calls) \o <<k>>)
  BY DEF Http!Event
<1>3. ASSUME NEW q \in Seq(Calls) PROVE q \o <<k>> = Append(q, k)
  OBVIOUS
<1>4. calls' = Append(calls, k) \/ (calls # <<>> /\ calls' = Append(Tail(calls), k))
  BY <1>1, <1>2, <1>3, CallIsMade
<1>5. CASE calls' = Append(calls, k)
  BY <1>1, <1>2, <1>5, CallIsAdded
<1>6. CASE calls # <<>> /\ calls' = Append(Tail(calls), k)
  <2>1. PICK q : q = Tail(calls)
    OBVIOUS
  <2>2. q \in Seq(Calls) /\ TimersApart(q) /\ Entries(q) \subseteq Entries(calls)
    BY <1>6, <2>1, CallIsMade
  <2>3. QED
    BY <1>2, <1>6, <2>1, <2>2, CallIsAdded
<1>7. QED
  BY <1>4, <1>5, <1>6

\* The kick of a commit.
LEMMA KickIsCall == Http!Kick \in Calls /\ Http!Kick.timer = NULL /\ \A k : k = Http!Kick => Sound(k)'
BY DEF Http!Kick, Calls, Sound

LEMMA CommitCalls ==
  ASSUME ClientsInv, NEW f \in Items, Http!CommitAsync(f)
  PROVE  /\ calls' \in Seq(Calls) /\ TimersApart(calls')
         /\ \A k \in Entries(calls') : k \in Entries(calls) \/ Sound(k)'
         /\ waiting' \in Seq(Items) /\ waiting' = Append(waiting, f) /\ pending' = pending
<1>1. calls \in Seq(Calls) /\ TimersApart(calls) /\ waiting \in Seq(Items)
  BY HttpTypes DEF ClientsInv, CallsSound, RestTypeOK
<1>2. /\ calls' = Append(calls, Http!Kick) /\ waiting' = Append(waiting, f)
      /\ pending' = pending
  BY DEF Http!CommitAsync
<1>3. /\ calls' \in Seq(Calls) /\ TimersApart(calls')
      /\ Entries(calls') = Entries(calls) \cup {Http!Kick}
  BY <1>1, <1>2, KickIsCall, CallIsAdded
<1>4. waiting' \in Seq(Items)
  BY <1>1, <1>2
<1>5. QED
  BY <1>2, <1>3, <1>4, KickIsCall

\* The frame of a client is its only one.
LEMMA OneFrame ==
  ASSUME HttpConstants, ClientsInv, NEW f \in Items, frame[f].ctx # NULL
  PROVE  /\ frame[f].ctx \in Clients /\ frame[f].ctx \in clients
         /\ f # NULL /\ f \in {obj[frame[f].ctx].dnsFrame, obj[frame[f].ctx].request}
         /\ \A g \in Items : frame[g].ctx = frame[f].ctx => g = f
<1>1. frame[f].ctx \in Clients /\ frame[f].ctx \in clients
  BY HttpTypes DEF ClientsInv, FramesOwned
<1>2. f # NULL
  BY DEF HttpConstants
<1>3. f \in {obj[frame[f].ctx].dnsFrame, obj[frame[f].ctx].request}
  BY DEF ClientsInv, FramesOwned
<1>4. ASSUME NEW g \in Items, frame[g].ctx = frame[f].ctx PROVE g = f
  <2>1. g \in {obj[frame[f].ctx].dnsFrame, obj[frame[f].ctx].request}
    BY <1>4 DEF ClientsInv, FramesOwned
  <2>2. g # NULL
    BY DEF HttpConstants
  <2>3. obj[frame[f].ctx].dnsFrame = NULL \/ obj[frame[f].ctx].request = NULL
    BY <1>1 DEF ClientsInv, ClientsSound
  <2>4. QED
    BY <1>2, <1>3, <2>1, <2>2, <2>3
<1>5. QED
  BY <1>1, <1>2, <1>3, <1>4

\* A frame fails: its client is told, and it deletes itself.
LEMMA FrameFailsKeeps ==
  ASSUME HttpConstants, ClientsInv, NEW f \in Items, Http!FrameFails(f), clients' = clients
  PROVE  /\ obj' \in [Clients -> Objects] /\ frame' \in [Items -> HttpFrames]
         /\ FramesOwned' /\ FramesServed' /\ ClientsSound'
         /\ \A x \in Clients : obj[x].dnsFrame = NULL /\ obj[x].request = NULL
              => obj'[x].dnsFrame = NULL /\ obj'[x].request = NULL
<1> DEFINE c == frame[f].ctx
<1>1. obj \in [Clients -> Objects] /\ frame \in [Items -> HttpFrames]
  BY HttpTypes DEF ClientsInv
<1>2. Http!Free \in HttpFrames /\ Http!Free.ctx = NULL /\ Http!Free.n < MaxChunks /\ Http!Free.use # "http"
  BY DEF Http!Free, HttpFrames, HttpConstants
<1>3. frame' = [frame EXCEPT ![f] = Http!Free]
  BY DEF Http!FrameFails
<1>4. frame' \in [Items -> HttpFrames]
  BY <1>1, <1>2, <1>3
<1>5. FramesServed'
  BY <1>1, <1>2, <1>3 DEF FramesServed, ClientsInv
<1>6. CASE c = NULL
  <2>1. obj' = obj
    BY <1>6 DEF Http!FrameFails, Http!Failed
  <2>2. FramesOwned'
    BY <1>1, <1>2, <1>3, <2>1 DEF FramesOwned, ClientsInv
  <2>3. ClientsSound'
    BY <2>1 DEF ClientsSound, ClientsInv
  <2>4. QED
    BY <1>1, <1>4, <1>5, <2>1, <2>2, <2>3
<1>7. CASE c # NULL
  <2>1. c \in Clients /\ \A g \in Items : frame[g].ctx = c => g = f
    BY <1>7, OneFrame
  <2>2. obj' = [obj EXCEPT ![c].state = "error", ![c].dnsFrame = NULL]
    BY <1>7 DEF Http!FrameFails, Http!Failed
  <2>3. PICK o \in Objects : o = obj[c]
    BY <1>1, <2>1
  <2>4. PICK p : p = [o EXCEPT !.state = "error", !.dnsFrame = NULL]
    OBVIOUS
  <2>5. /\ p \in Objects /\ p.dnsFrame = NULL /\ p.request = o.request /\ p.cbTimers = o.cbTimers
    BY <2>3, <2>4 DEF Objects, Http!States
  <2>6. obj' = [obj EXCEPT ![c] = p]
    BY <1>1, <2>1, <2>2, <2>3, <2>4
  <2>7. obj' \in [Clients -> Objects]
    BY <1>1, <2>5, <2>6
  <2>8. \A x \in Clients : IF x = c THEN obj'[x] = p ELSE obj'[x] = obj[x]
    BY <1>1, <2>1, <2>6
  <2> HIDE DEF c
  <2>9. ClientsSound'
    BY <2>3, <2>5, <2>8 DEF ClientsSound, ClientsInv
  <2>10. FramesOwned'
    <3> SUFFICES ASSUME NEW g \in Items, frame'[g].ctx # NULL
                 PROVE  /\ frame'[g].ctx \in clients'
                        /\ g \in {obj'[frame'[g].ctx].dnsFrame, obj'[frame'[g].ctx].request}
                        /\ g = obj'[frame'[g].ctx].dnsFrame => frame'[g].use = "dns"
      BY DEF FramesOwned
    <3>1. g # f /\ frame'[g] = frame[g]
      BY <1>1, <1>2, <1>3
    <3>2. frame[g].ctx # c /\ frame[g].ctx \in Clients
      BY <1>1, <2>1, <3>1 DEF HttpFrames
    <3>3. obj'[frame[g].ctx] = obj[frame[g].ctx]
      BY <2>8, <3>2
    <3>4. QED
      BY <3>1, <3>3 DEF FramesOwned, ClientsInv
  <2>11. \A x \in Clients : obj[x].dnsFrame = NULL /\ obj[x].request = NULL
              => obj'[x].dnsFrame = NULL /\ obj'[x].request = NULL
    BY <2>3, <2>5, <2>8
  <2>12. QED
    BY <1>4, <1>5, <2>7, <2>9, <2>10, <2>11
<1>8. QED
  BY <1>6, <1>7

-----------------------------------------------------------------------------
(* Client code.                                                            *)

\* A client without callbacks gets fields, and the frames that come to call
\* it are its own.
LEMMA FieldsAreSet ==
  ASSUME HttpConstants, ClientsInv, NEW c \in Clients, NEW p \in Objects,
         \A f \in Items : frame[f].ctx # c,
         clients' = clients \cup {c}, obj' = [obj EXCEPT ![c] = p],
         p.dnsFrame = NULL \/ p.request = NULL, \A t, u \in p.cbTimers : t = u,
         frame' \in [Items -> HttpFrames],
         \A f \in Items :
           \/ frame'[f] = frame[f]
           \/ /\ frame'[f].ctx = c /\ frame'[f].n < MaxChunks
              /\ f \in {p.dnsFrame, p.request}
              /\ f = p.dnsFrame => frame'[f].use = "dns"
  PROVE  /\ clients' \in SUBSET Clients /\ obj' \in [Clients -> Objects]
         /\ FramesOwned' /\ FramesServed' /\ ClientsSound'
         /\ \A x \in Clients \ {c} : obj'[x] = obj[x]
         /\ obj'[c] = p /\ c \in clients'
<1>1. /\ clients \in SUBSET Clients /\ obj \in [Clients -> Objects]
      /\ frame \in [Items -> HttpFrames]
  BY HttpTypes DEF ClientsInv
<1>2. /\ obj' \in [Clients -> Objects] /\ obj'[c] = p
      /\ \A x \in Clients \ {c} : obj'[x] = obj[x]
  BY <1>1
<1>3. clients' \in SUBSET Clients /\ c \in clients'
  BY <1>1
<1>4. c # NULL
  BY DEF HttpConstants
<1>5. FramesServed'
  BY <1>1, <1>4 DEF FramesServed, ClientsInv
<1>6. FramesOwned'
  <2> SUFFICES ASSUME NEW f \in Items, frame'[f].ctx # NULL
               PROVE  /\ frame'[f].ctx \in clients'
                      /\ f \in {obj'[frame'[f].ctx].dnsFrame, obj'[frame'[f].ctx].request}
                      /\ f = obj'[frame'[f].ctx].dnsFrame => frame'[f].use = "dns"
    BY DEF FramesOwned
  <2>1. CASE frame'[f] = frame[f]
    <3>1. frame[f].ctx \in Clients \ {c}
      BY <1>1, <2>1 DEF HttpFrames
    <3>2. obj'[frame[f].ctx] = obj[frame[f].ctx]
      BY <1>2, <3>1
    <3>3. QED
      BY <2>1, <3>2 DEF FramesOwned, ClientsInv
  <2>2. CASE frame'[f] # frame[f]
    BY <1>2, <1>3, <2>2
  <2>3. QED
    BY <2>1, <2>2
<1>7. ClientsSound'
  BY <1>2 DEF ClientsSound, ClientsInv
<1>8. QED
  BY <1>2, <1>3, <1>5, <1>6, <1>7

\* A client that does not exist has no callbacks.
LEMMA NotThere ==
  ASSUME HttpConstants, ClientsInv, NEW c \in Clients, c \notin clients
  PROVE  /\ \A f \in Items : frame[f].ctx # c
         /\ \A k \in Entries(calls) : Sound(k) => k = Http!Kick \/ k.to # c
<1>1. c # NULL
  BY DEF HttpConstants
<1>2. QED
  BY <1>1 DEF ClientsInv, FramesOwned, Sound

\* A new client's calls.
LEMMA NewCalls ==
  ASSUME HttpConstants, ClientsInv, NEW c \in Clients, c \notin clients,
         clients' = clients \cup {c}, \A x \in Clients \ {c} : obj'[x] = obj[x],
         TimersApart(calls'),
         \A k \in Entries(calls') : k \in Entries(calls) \/ Sound(k)'
  PROVE  CallsSound'
<1>1. \A x \in clients : x \in Clients \ {c}
  BY HttpTypes DEF ClientsInv
<1>2. \A x \in clients : obj[x].dnsFrame = NULL /\ obj[x].request = NULL
           => obj'[x].dnsFrame = NULL /\ obj'[x].request = NULL
  BY <1>1
<1>3. QED
  BY <1>2, CallsKept DEF ClientsInv

\* The fields of new clients.
LEMMA BlankObject ==
  ASSUME HttpConstants
  PROVE  /\ Http!Blank \in Objects
         /\ Http!Blank.dnsFrame = NULL /\ Http!Blank.request = NULL /\ Http!Blank.cbTimers = {}
         /\ Http!Free \in HttpFrames
         /\ Http!Free.ctx = NULL /\ Http!Free.n < MaxChunks /\ Http!Free.use = "free"
BY DEF Http!Blank, Objects, Http!States, Http!Chunks, Http!NoChunk, Http!Free, HttpFrames, HttpConstants

LEMMA NewForDomainKeeps ==
  ASSUME HttpConstants, ClientsInv, NEW c \in Clients, NEW f \in Items,
         Http!NewForDomain(c, f), sending' = sending
  PROVE  ClientsInv'
<1>1. c \notin clients /\ clients' = clients \cup {c} /\ Http!CommitAsync(f) /\ UNCHANGED Http!history
  BY DEF Http!NewForDomain
<1>2. /\ obj \in [Clients -> Objects] /\ frame \in [Items -> HttpFrames] /\ RestTypeOK
  BY HttpTypes DEF ClientsInv
<1>3. PICK posts \in BOOLEAN :
        obj' = [obj EXCEPT ![c] = [Http!Blank EXCEPT !.posts = posts, !.dnsFrame = f,
                                     !.state = IF posts THEN "setup" ELSE "inProgress"]]
  BY DEF Http!NewForDomain
<1>4. PICK p : p = [Http!Blank EXCEPT !.posts = posts, !.dnsFrame = f,
                      !.state = IF posts THEN "setup" ELSE "inProgress"]
  OBVIOUS
<1>5. p \in Objects /\ p.dnsFrame = f /\ p.request = NULL /\ p.cbTimers = {}
  BY <1>4, BlankObject DEF Http!Blank, Objects, Http!States, Http!Chunks, Http!NoChunk
<1>6. PICK h : h = [Http!Free EXCEPT !.use = "dns", !.ctx = c]
  OBVIOUS
<1>7. h \in HttpFrames /\ h.use = "dns" /\ h.ctx = c /\ h.n < MaxChunks
  <2>1. h = [use |-> "dns", ctx |-> c, n |-> 0, address |-> FALSE]
    BY <1>6 DEF Http!Free
  <2>2. 0 \in 0..MaxChunks /\ 0 < MaxChunks
    BY DEF HttpConstants
  <2>3. QED
    BY <2>1, <2>2 DEF HttpFrames
<1>8. frame' = [frame EXCEPT ![f] = h]
  BY <1>6 DEF Http!NewForDomain
<1>9. obj' = [obj EXCEPT ![c] = p]
  BY <1>3, <1>4
<1>10. frame' \in [Items -> HttpFrames] /\ \A g \in Items : frame'[g] = IF g = f THEN h ELSE frame[g]
  BY <1>2, <1>7, <1>8
<1>11. /\ clients' \in SUBSET Clients /\ obj' \in [Clients -> Objects]
       /\ FramesOwned' /\ FramesServed' /\ ClientsSound'
       /\ \A x \in Clients \ {c} : obj'[x] = obj[x]
  <2>1. \A g \in Items : frame[g].ctx # c
    BY <1>1, NotThere
  <2>2. \A g \in Items :
          \/ frame'[g] = frame[g]
          \/ /\ frame'[g].ctx = c /\ frame'[g].n < MaxChunks
             /\ g \in {p.dnsFrame, p.request}
             /\ g = p.dnsFrame => frame'[g].use = "dns"
    BY <1>5, <1>7, <1>10
  <2>3. p.dnsFrame = NULL \/ p.request = NULL
    BY <1>5
  <2>4. \A t, u \in p.cbTimers : t = u
    BY <1>5
  <2>5. QED
    BY <1>1, <1>5, <1>9, <1>10, <2>1, <2>2, <2>3, <2>4, FieldsAreSet, ZenonT(60)
<1>12. /\ calls' \in Seq(Calls) /\ TimersApart(calls')
       /\ \A k \in Entries(calls') : k \in Entries(calls) \/ Sound(k)'
       /\ waiting' \in Seq(Items) /\ pending' = pending
  BY <1>1, CommitCalls
<1>13. CallsSound'
  BY <1>1, <1>11, <1>12, NewCalls
<1>14. RestTypeOK'
  BY <1>1, <1>2, <1>12 DEF RestTypeOK, Http!history
<1>15. QED
  BY <1>10, <1>11, <1>12, <1>13, <1>14, HttpTypesAfter DEF ClientsInv

LEMMA NewOfflineKeeps ==
  ASSUME HttpConstants, ClientsInv, NEW c \in Clients, NEW t \in Timers,
         Http!NewOffline(c, t), sending' = sending
  PROVE  ClientsInv'
<1>1. /\ c \notin clients /\ clients' = clients \cup {c} /\ lost' = lost \cup {c}
      /\ UNCHANGED <<frame, Http!pipe, calls, delivered, copied, refused, freedTwice>>
  BY DEF Http!NewOffline
<1>2. /\ obj \in [Clients -> Objects] /\ frame \in [Items -> HttpFrames]
      /\ calls \in Seq(Calls) /\ RestTypeOK /\ TimersApart(calls)
  BY HttpTypes DEF ClientsInv, CallsSound
<1>3. PICK posts \in BOOLEAN :
        obj' = [obj EXCEPT ![c] = [Http!Blank EXCEPT !.posts = posts, !.cbTimers = {t},
                                     !.state = IF posts THEN "setup" ELSE "inProgress"]]
  BY DEF Http!NewOffline
<1>4. PICK p : p = [Http!Blank EXCEPT !.posts = posts, !.cbTimers = {t},
                      !.state = IF posts THEN "setup" ELSE "inProgress"]
  OBVIOUS
<1>5. p \in Objects /\ p.dnsFrame = NULL /\ p.request = NULL /\ p.cbTimers = {t}
  BY <1>4, BlankObject DEF Http!Blank, Objects, Http!States, Http!Chunks, Http!NoChunk
<1>6. obj' = [obj EXCEPT ![c] = p]
  BY <1>3, <1>4
<1>7. /\ clients' \in SUBSET Clients /\ obj' \in [Clients -> Objects]
      /\ FramesOwned' /\ FramesServed' /\ ClientsSound'
      /\ \A x \in Clients \ {c} : obj'[x] = obj[x]
  BY <1>1, <1>2, <1>5, <1>6, NotThere, FieldsAreSet, ZenonT(60)
<1>8. CallsSound'
  BY <1>1, <1>2, <1>7, NewCalls
<1>9. RestTypeOK'
  BY <1>1, <1>2 DEF RestTypeOK, Http!pipe
<1>10. QED
  BY <1>1, <1>2, <1>7, <1>8, <1>9, HttpTypesAfter DEF ClientsInv

LEMMA NewForAddressKeeps ==
  ASSUME HttpConstants, ClientsInv, NEW c \in Clients, NEW f \in Items,
         Http!NewForAddress(c, f), sending' = sending
  PROVE  ClientsInv'
<1>1. c \notin clients /\ clients' = clients \cup {c} /\ UNCHANGED Http!history
  BY DEF Http!NewForAddress
<1>2. /\ obj \in [Clients -> Objects] /\ frame \in [Items -> HttpFrames]
      /\ calls \in Seq(Calls) /\ RestTypeOK /\ TimersApart(calls)
  BY HttpTypes DEF ClientsInv, CallsSound
<1>3. PICK posts \in BOOLEAN :
        /\ obj' = [obj EXCEPT ![c] = [Http!Blank EXCEPT !.posts = posts, !.request = f,
                                        !.state = IF posts THEN "setup" ELSE "inProgress"]]
        /\ IF posts THEN UNCHANGED <<Http!pipe, calls>> ELSE Http!CommitAsync(f)
  BY DEF Http!NewForAddress
<1>4. PICK p : p = [Http!Blank EXCEPT !.posts = posts, !.request = f,
                      !.state = IF posts THEN "setup" ELSE "inProgress"]
  OBVIOUS
<1>5. p \in Objects /\ p.dnsFrame = NULL /\ p.request = f /\ p.cbTimers = {}
  BY <1>4, BlankObject DEF Http!Blank, Objects, Http!States, Http!Chunks, Http!NoChunk
<1>6. PICK h : h = [Http!Free EXCEPT !.use = "http", !.ctx = c, !.address = TRUE]
  OBVIOUS
<1>7. h \in HttpFrames /\ h.use = "http" /\ h.ctx = c /\ h.n < MaxChunks
  <2>1. h = [use |-> "http", ctx |-> c, n |-> 0, address |-> TRUE]
    BY <1>6 DEF Http!Free
  <2>2. 0 \in 0..MaxChunks /\ 0 < MaxChunks
    BY DEF HttpConstants
  <2>3. QED
    BY <2>1, <2>2 DEF HttpFrames
<1>8. frame' = [frame EXCEPT ![f] = h]
  BY <1>6 DEF Http!NewForAddress
<1>9. obj' = [obj EXCEPT ![c] = p]
  BY <1>3, <1>4
<1>10. frame' \in [Items -> HttpFrames] /\ \A g \in Items : frame'[g] = IF g = f THEN h ELSE frame[g]
  BY <1>2, <1>7, <1>8
<1>11. f # NULL
  BY DEF HttpConstants
<1>12. /\ clients' \in SUBSET Clients /\ obj' \in [Clients -> Objects]
       /\ FramesOwned' /\ FramesServed' /\ ClientsSound'
       /\ \A x \in Clients \ {c} : obj'[x] = obj[x]
  <2>1. \A g \in Items : frame[g].ctx # c
    BY <1>1, NotThere
  <2>2. \A g \in Items :
          \/ frame'[g] = frame[g]
          \/ /\ frame'[g].ctx = c /\ frame'[g].n < MaxChunks
             /\ g \in {p.dnsFrame, p.request}
             /\ g = p.dnsFrame => frame'[g].use = "dns"
    BY <1>5, <1>7, <1>10, <1>11
  <2>3. p.dnsFrame = NULL \/ p.request = NULL
    BY <1>5
  <2>4. \A t, u \in p.cbTimers : t = u
    BY <1>5
  <2>5. QED
    BY <1>1, <1>5, <1>9, <1>10, <2>1, <2>2, <2>3, <2>4, FieldsAreSet, ZenonT(60)
<1>13. /\ calls' \in Seq(Calls) /\ TimersApart(calls')
       /\ \A k \in Entries(calls') : k \in Entries(calls) \/ Sound(k)'
       /\ waiting' \in Seq(Items) /\ pending' = pending
  <2>1. CASE posts
    BY <1>2, <1>3, <2>1 DEF Http!pipe, RestTypeOK
  <2>2. CASE ~posts
    BY <1>3, <2>2, CommitCalls
  <2>3. QED
    BY <2>1, <2>2
<1>14. CallsSound'
  BY <1>1, <1>12, <1>13, NewCalls
<1>15. RestTypeOK'
  BY <1>1, <1>2, <1>13 DEF RestTypeOK, Http!history
<1>16. QED
  BY <1>10, <1>12, <1>13, <1>14, <1>15, HttpTypesAfter DEF ClientsInv

LEMMA NewForBadUrlKeeps ==
  ASSUME HttpConstants, ClientsInv, NEW c \in Clients, NEW t \in Timers,
         Http!NewForBadUrl(c, t), sending' = sending
  PROVE  ClientsInv'
<1>1. /\ c \notin clients /\ clients' = clients \cup {c} /\ Http!UnusedTimer(t)
      /\ calls' = Append(calls, Http!Call(c, "error", t))
      /\ UNCHANGED <<frame, Http!pipe, Http!history>>
  BY DEF Http!NewForBadUrl
<1>2. /\ obj \in [Clients -> Objects] /\ frame \in [Items -> HttpFrames]
      /\ calls \in Seq(Calls) /\ RestTypeOK /\ TimersApart(calls)
  BY HttpTypes DEF ClientsInv, CallsSound
<1>3. PICK p : p = [Http!Blank EXCEPT !.cbTimers = {t}]
  OBVIOUS
<1>4. p \in Objects /\ p.dnsFrame = NULL /\ p.request = NULL /\ p.cbTimers = {t}
  BY <1>3, BlankObject DEF Http!Blank, Objects, Http!States, Http!Chunks, Http!NoChunk
<1>5. obj' = [obj EXCEPT ![c] = p]
  BY <1>3 DEF Http!NewForBadUrl
<1>6. /\ clients' \in SUBSET Clients /\ obj' \in [Clients -> Objects]
      /\ FramesOwned' /\ FramesServed' /\ ClientsSound'
      /\ \A x \in Clients \ {c} : obj'[x] = obj[x]
      /\ obj'[c] = p /\ c \in clients'
  BY <1>1, <1>2, <1>4, <1>5, NotThere, FieldsAreSet, ZenonT(60)
<1>7. PICK k : k = Http!Call(c, "error", t)
  OBVIOUS
<1>8. k \in Calls /\ k.timer = t /\ Sound(k)'
  BY <1>4, <1>6, <1>7 DEF Http!Call, Calls, Sound, Http!Kick
<1>9. \A y \in Entries(calls) : y.timer # t
  BY <1>1 DEF Http!UnusedTimer, Http!Running, Entries
<1>10. calls' \in Seq(Calls) /\ TimersApart(calls') /\ Entries(calls') = Entries(calls) \cup {k}
  BY <1>1, <1>2, <1>7, <1>8, <1>9, AppendEntries
<1>11. CallsSound'
  BY <1>1, <1>6, <1>8, <1>10, NewCalls
<1>12. RestTypeOK'
  BY <1>1, <1>2 DEF RestTypeOK, Http!pipe, Http!history
<1>13. QED
  BY <1>1, <1>2, <1>6, <1>10, <1>11, <1>12, HttpTypesAfter DEF ClientsInv

\* Nobody calls the client that becomes the copy, and the frames of the
\* other turn to it.
LEMMA CopyKeeps ==
  ASSUME HttpConstants, ClientsInv, NEW c \in Clients, NEW d \in Clients, c # d,
         Http!MayBeCopied(d), Http!Copy(c, d),
         \A f \in Items : frame[f].ctx # c,
         \A k \in Entries(calls) : k = Http!Kick \/ k.to # c,
         clients' = clients \cup {c}, lost' \subseteq lost,
         UNCHANGED <<Http!pipe, calls, sending, refused, freedTwice>>
  PROVE  ClientsInv'
<1>1. /\ obj \in [Clients -> Objects] /\ frame \in [Items -> HttpFrames]
      /\ calls \in Seq(Calls) /\ RestTypeOK /\ TimersApart(calls)
      /\ \A k \in Entries(calls) : Sound(k)
  BY HttpTypes DEF ClientsInv, CallsSound
<1>2. /\ obj' = [obj EXCEPT ![c] = obj[d]]
      /\ frame' = [f \in Items |-> IF f \in {obj[d].dnsFrame, obj[d].request}
                                     THEN [frame[f] EXCEPT !.ctx = c] ELSE frame[f]]
      /\ delivered' = [delivered EXCEPT ![c] = delivered[d]]
      /\ copied' = (copied \ {c}) \cup {d}
  BY DEF Http!Copy
<1>3. PICK p \in Objects : p = obj[d]
  BY <1>1
<1>4. (p.dnsFrame = NULL \/ p.request = NULL) /\ \A t, u \in p.cbTimers : t = u
  BY <1>3 DEF ClientsInv, ClientsSound
<1>5. ASSUME NEW f \in Items
      PROVE  /\ frame'[f] \in HttpFrames
             /\ \/ frame'[f] = frame[f]
                \/ /\ frame'[f].ctx = c /\ frame'[f].n < MaxChunks
                   /\ f \in {p.dnsFrame, p.request}
                   /\ f = p.dnsFrame => frame'[f].use = "dns"
  <2>1. PICK h \in HttpFrames : h = frame[f]
    BY <1>1
  <2>2. CASE f \in {p.dnsFrame, p.request}
    <3>1. frame'[f] = [h EXCEPT !.ctx = c]
      BY <1>2, <1>3, <2>1, <2>2
    <3>2. /\ frame'[f] \in HttpFrames /\ frame'[f].ctx = c /\ frame'[f].n = h.n
          /\ frame'[f].use = h.use
      BY <3>1 DEF HttpFrames
    <3>3. frame[f].ctx = d /\ d # NULL
      BY <1>3, <2>2 DEF Http!MayBeCopied, HttpConstants
    <3>4. h.n < MaxChunks
      BY <2>1 DEF ClientsInv, FramesServed
    <3>5. f = p.dnsFrame => h.use = "dns"
      BY <1>3, <2>1, <3>3 DEF ClientsInv, FramesOwned
    <3>6. QED
      BY <2>2, <3>2, <3>4, <3>5
  <2>3. CASE f \notin {p.dnsFrame, p.request}
    BY <1>2, <1>3, <2>1, <2>3
  <2>4. QED
    BY <2>2, <2>3
<1>6. frame' \in [Items -> HttpFrames]
  BY <1>2, <1>5
<1>7. obj' = [obj EXCEPT ![c] = p]
  BY <1>2, <1>3
<1>8. /\ clients' \in SUBSET Clients /\ obj' \in [Clients -> Objects]
      /\ FramesOwned' /\ FramesServed' /\ ClientsSound'
      /\ \A x \in Clients \ {c} : obj'[x] = obj[x]
  BY <1>4, <1>5, <1>6, <1>7, FieldsAreSet, ZenonT(60)
<1>9. CallsSound'
  <2> SUFFICES ASSUME NEW k \in Entries(calls) PROVE Sound(k)'
    BY <1>1 DEF CallsSound
  <2>1. Sound(k) /\ (k = Http!Kick \/ k.to # c)
    BY <1>1
  <2>2. k = Http!Kick \/ (k.to \in clients' /\ k.to \in Clients \ {c})
    BY <2>1, HttpTypes DEF Sound, ClientsInv
  <2>3. QED
    BY <1>8, <2>1, <2>2 DEF Sound, Http!Kick
<1>10. RestTypeOK'
  <2>1. delivered' \in [Clients -> Seq(Http!Chunks)] /\ copied' \in SUBSET Clients
    BY <1>1, <1>2 DEF RestTypeOK
  <2>2. QED
    BY <1>1, <2>1 DEF RestTypeOK, Http!pipe
<1>11. QED
  BY <1>1, <1>6, <1>8, <1>9, <1>10, HttpTypesAfter DEF ClientsInv

LEMMA CopyConstructKeeps ==
  ASSUME HttpConstants, ClientsInv, NEW c \in Clients, NEW d \in Clients,
         Http!CopyConstruct(c, d), sending' = sending
  PROVE  ClientsInv'
<1>1. /\ c \notin clients /\ Http!MayBeCopied(d) /\ Http!Copy(c, d) /\ clients' = clients \cup {c}
      /\ UNCHANGED <<Http!pipe, calls, lost, refused, freedTwice>>
  BY DEF Http!CopyConstruct
<1>2. c # d
  BY <1>1 DEF Http!MayBeCopied
<1>3. \A k \in Entries(calls) : k = Http!Kick \/ k.to # c
  BY <1>1, NotThere DEF ClientsInv, CallsSound
<1>4. \A f \in Items : frame[f].ctx # c
  BY <1>1, NotThere
<1>5. QED
  BY <1>1, <1>2, <1>3, <1>4, CopyKeeps

LEMMA AssignKeeps ==
  ASSUME HttpConstants, ClientsInv, NEW c \in Clients, NEW d \in Clients,
         Http!Assign(c, d), sending' = sending
  PROVE  ClientsInv'
<1>1. /\ c \in clients /\ c # d /\ Http!MayBeCopied(d) /\ Http!Copy(c, d) /\ ~Http!Underway(c)
      /\ lost' = lost \ {c} /\ UNCHANGED <<clients, Http!pipe, calls, refused, freedTwice>>
  BY DEF Http!Assign
<1>2. \A k \in Entries(calls) : k.to # c
  BY <1>1 DEF Http!Underway, Entries
<1>3. \A f \in Items : frame[f].ctx # c
  BY <1>1 DEF Http!Underway
<1>4. clients' = clients \cup {c} /\ lost' \subseteq lost
  BY <1>1
<1>5. QED
  BY <1>1, <1>2, <1>3, <1>4, CopyKeeps

LEMMA PostKeeps ==
  ASSUME HttpConstants, ClientsInv, NEW c \in Clients, Http!Post(c), sending' = sending
  PROVE  ClientsInv'
<1>1. /\ obj \in [Clients -> Objects] /\ clients \in SUBSET Clients
      /\ frame \in [Items -> HttpFrames] /\ calls \in Seq(Calls) /\ RestTypeOK
      /\ TimersApart(calls)
  BY HttpTypes DEF ClientsInv, CallsSound
<1>2. PICK o \in Objects : o = obj[c]
  BY <1>1
<1>3. UNCHANGED <<clients, frame, Http!history>>
  BY DEF Http!Post
<1>4. PICK p \in Objects : /\ obj' = [obj EXCEPT ![c] = p] /\ SamePointers(o, p)
                           /\ p.cbTimers = o.cbTimers
  <2>1. CASE o.request # NULL
    <3>1. PICK p : p = [o EXCEPT !.shouldPost = TRUE, !.state = "inProgress"]
      OBVIOUS
    <3>2. obj' = [obj EXCEPT ![c] = p]
      BY <1>1, <1>2, <2>1, <3>1 DEF Http!Post
    <3>3. p \in Objects /\ SamePointers(o, p) /\ p.cbTimers = o.cbTimers
      BY <1>2, <3>1 DEF Objects, Http!States, SamePointers
    <3>4. QED
      BY <3>2, <3>3
  <2>2. CASE o.request = NULL
    <3>1. PICK p : p = [o EXCEPT !.shouldPost = TRUE]
      OBVIOUS
    <3>2. obj' = [obj EXCEPT ![c] = p]
      BY <1>1, <1>2, <2>2, <3>1 DEF Http!Post
    <3>3. p \in Objects /\ SamePointers(o, p) /\ p.cbTimers = o.cbTimers
      BY <1>2, <3>1 DEF Objects, SamePointers
    <3>4. QED
      BY <3>2, <3>3
  <2>3. QED
    BY <2>1, <2>2
<1>5. /\ obj' \in [Clients -> Objects]
      /\ \A x \in Clients : SamePointers(obj[x], obj'[x]) /\ obj'[x].cbTimers = obj[x].cbTimers
  BY <1>1, <1>2, <1>4 DEF SamePointers
<1>6. /\ calls' \in Seq(Calls) /\ TimersApart(calls')
      /\ \A k \in Entries(calls') : k \in Entries(calls) \/ Sound(k)'
      /\ waiting' \in Seq(Items) /\ pending' = pending
  <2>1. CASE obj[c].request # NULL
    <3>1. obj[c].request \in Items /\ Http!CommitAsync(obj[c].request)
      BY <1>1, <2>1 DEF Http!Post, Objects
    <3>2. QED
      BY <3>1, CommitCalls
  <2>2. CASE obj[c].request = NULL
    BY <1>1, <2>2 DEF Http!Post, Http!pipe, RestTypeOK
  <2>3. QED
    BY <2>1, <2>2
<1>7. FramesOwned' /\ FramesServed'
  BY <1>1, <1>3, <1>5, FramesKept DEF ClientsInv
<1>8. ClientsSound'
  BY <1>5 DEF ClientsSound, ClientsInv, SamePointers
<1>9. CallsSound'
  BY <1>1, <1>3, <1>5, <1>6, CallsKept DEF ClientsInv, SamePointers
<1>10. RestTypeOK'
  BY <1>1, <1>3, <1>6 DEF RestTypeOK, Http!history
<1>11. QED
  BY <1>1, <1>3, <1>5, <1>6, <1>7, <1>8, <1>9, <1>10, HttpTypesAfter DEF ClientsInv

\* What remains of the pipe when a waiting request is taken out.
LEMMA WithdrawTypes ==
  ASSUME NEW f, waiting \in Seq(Items), pending \in Items \cup {NULL}, Http!Pipe!Withdraw(f)
  PROVE  /\ waiting' \in Seq(Items) /\ pending' = pending
         /\ \E i \in 1..Len(waiting) : waiting[i] = f /\ LeavesOut(waiting', waiting, i)
<1>1. PICK i \in DOMAIN waiting :
        /\ waiting[i] = f
        /\ waiting' = SubSeq(waiting, 1, i - 1) \o SubSeq(waiting, i + 1, Len(waiting))
  BY DEF Http!Pipe!Withdraw, Http!Pipe!RemoveAt
<1>2. i \in 1..Len(waiting)
  BY <1>1
<1>3. waiting' \in Seq(Items) /\ LeavesOut(waiting', waiting, i)
  BY <1>1, <1>2, CutOut
<1>4. QED
  BY <1>1, <1>2, <1>3 DEF Http!Pipe!Withdraw

\* The timers of a client that is destroyed made the only call to it.
LEMMA CallsOfDestroyed ==
  ASSUME HttpConstants, ClientsInv, NEW c \in Clients,
         \A i \in DOMAIN calls : calls[i].to = c => calls[i].timer \in obj[c].cbTimers,
         calls' = Http!CallsWithout(obj[c].cbTimers)
  PROVE  /\ calls' \in Seq(Calls) /\ TimersApart(calls')
         /\ Entries(calls') \subseteq Entries(calls)
         /\ \A k \in Entries(calls') : k.to # c
<1> DEFINE timers == obj[c].cbTimers
<1>1. calls \in Seq(Calls) /\ TimersApart(calls) /\ timers \subseteq Timers
  BY HttpTypes DEF ClientsInv, CallsSound, Objects
<1>2. NULL \notin timers
  BY <1>1 DEF HttpConstants
<1>3. \A t, u \in timers : t = u
  BY DEF ClientsInv, ClientsSound
<1> HIDE DEF timers
<1>4. CASE ~\E t \in timers : Http!Running(t)
  <2>1. calls' = calls
    BY <1>4 DEF Http!CallsWithout, timers
  <2>2. \A i \in DOMAIN calls : calls[i].to # c
    BY <1>4 DEF Http!Running, timers
  <2>3. QED
    BY <1>1, <2>1, <2>2 DEF Entries
<1>5. CASE \E t \in timers : Http!Running(t)
  <2>1. \E i \in DOMAIN calls : calls[i].timer \in timers
    BY <1>5 DEF Http!Running
  <2>2. PICK i \in DOMAIN calls :
          /\ i = CHOOSE j \in DOMAIN calls : calls[j].timer \in timers
          /\ calls[i].timer \in timers
    BY <2>1, SMTT(30)
  <2>3. calls' = SubSeq(calls, 1, i - 1) \o SubSeq(calls, i + 1, Len(calls))
    BY <1>5, <2>2 DEF Http!CallsWithout, Http!RemoveAt, timers
  <2>4. i \in 1..Len(calls)
    BY <1>1, <2>2
  <2>5. calls' \in Seq(Calls) /\ LeavesOut(calls', calls, i)
    BY <1>1, <2>3, <2>4, CutOut
  <2>6. /\ \A j \in DOMAIN calls' : \E m \in DOMAIN calls : m # i /\ calls'[j] = calls[m]
        /\ TimersApart(calls') /\ Entries(calls') \subseteq Entries(calls)
    BY <1>1, <2>4, <2>5, OthersStay
  <2>7. \A m \in DOMAIN calls : m # i => calls[m].to # c
    <3> SUFFICES ASSUME NEW m \in DOMAIN calls, calls[m].to = c PROVE m = i
      OBVIOUS
    <3>1. calls[m].timer = calls[i].timer /\ calls[m].timer # NULL
      BY <1>2, <1>3, <2>2 DEF timers
    <3>2. QED
      BY <1>1, <3>1 DEF TimersApart
  <2>8. QED
    BY <2>5, <2>6, <2>7 DEF Entries
<1>6. QED
  BY <1>4, <1>5

LEMMA DestroyKeeps ==
  ASSUME HttpConstants, ClientsInv, NEW c \in Clients, Http!Destroy(c), sending' = sending
  PROVE  ClientsInv'
<1>1. /\ obj \in [Clients -> Objects] /\ clients \in SUBSET Clients
      /\ frame \in [Items -> HttpFrames] /\ calls \in Seq(Calls) /\ RestTypeOK
      /\ \A k \in Entries(calls) : Sound(k)
  BY HttpTypes DEF ClientsInv, CallsSound
<1>2. PICK o \in Objects : o = obj[c]
  BY <1>1
<1>3. /\ o.request # NULL => frame[o.request].ctx \notin {c, NULL}
      /\ \A i \in DOMAIN calls : calls[i].to = c => calls[i].timer \in obj[c].cbTimers
      /\ IF o.dnsFrame # NULL /\ frame[o.dnsFrame].ctx = c
           THEN Http!ResolverDestroyed(o.dnsFrame) ELSE UNCHANGED <<frame, Http!pipe>>
      /\ calls' = Http!CallsWithout(obj[c].cbTimers)
      /\ clients' = clients \ {c}
      /\ obj' = [obj EXCEPT ![c] = Http!Blank]
  BY <1>2 DEF Http!Destroy
<1>4. /\ freedTwice' = (freedTwice \/ \E t \in obj[c].cbTimers : ~Http!Running(t))
      /\ delivered' = [delivered EXCEPT ![c] = <<>>]
      /\ copied' = copied \ {c} /\ lost' = lost \ {c} /\ refused' = refused
  BY DEF Http!Destroy
<1>5. /\ obj' \in [Clients -> Objects] /\ obj'[c] = Http!Blank
      /\ \A x \in Clients \ {c} : obj'[x] = obj[x]
  BY <1>1, <1>3, BlankObject
<1>6. /\ frame' \in [Items -> HttpFrames] /\ waiting' \in Seq(Items) /\ pending' = pending
      /\ \A f \in Items : \/ frame'[f] = frame[f] /\ frame[f].ctx # c
                          \/ /\ frame'[f].ctx = NULL /\ frame'[f].n < MaxChunks
                             /\ frame'[f].use # "http"
  <2>1. ASSUME NEW f \in Items, frame[f].ctx = c PROVE f = o.dnsFrame
    <3>1. c # NULL
      BY DEF HttpConstants
    <3>2. f \in {o.dnsFrame, o.request}
      BY <1>2, <2>1, <3>1 DEF ClientsInv, FramesOwned
    <3>3. f # NULL
      BY DEF HttpConstants
    <3>4. QED
      BY <1>3, <2>1, <3>2, <3>3
  <2>2. CASE o.dnsFrame # NULL /\ frame[o.dnsFrame].ctx = c
    <3>1. PICK f \in Items : f = o.dnsFrame
      BY <1>2, <2>2 DEF Objects
    <3>2. PICK h \in HttpFrames : h = frame[f]
      BY <1>1
    <3>3. h.use = "dns" /\ h.n < MaxChunks
      <4>1. c # NULL
        BY DEF HttpConstants
      <4>2. QED
        BY <1>2, <2>2, <3>1, <3>2, <4>1 DEF ClientsInv, FramesOwned, FramesServed
    <3>4. Http!ResolverDestroyed(f)
      BY <1>3, <2>2, <3>1
    <3>5. PICK g \in HttpFrames :
            /\ frame' = [frame EXCEPT ![f] = g] /\ g.ctx = NULL /\ g.n < MaxChunks /\ g.use # "http"
      <4>1. CASE Http!Pipe!IsWaiting(f)
        BY <3>4, <4>1, BlankObject DEF Http!ResolverDestroyed
      <4>2. CASE ~Http!Pipe!IsWaiting(f)
        <5>1. PICK g : g = [h EXCEPT !.ctx = NULL]
          OBVIOUS
        <5>2. g \in HttpFrames /\ g.ctx = NULL /\ g.n = h.n /\ g.use = h.use
          BY <5>1 DEF HttpFrames
        <5>3. frame' = [frame EXCEPT ![f] = g]
          BY <1>1, <3>2, <3>4, <4>2, <5>1 DEF Http!ResolverDestroyed
        <5>4. QED
          BY <3>3, <5>2, <5>3
      <4>3. QED
        BY <4>1, <4>2
    <3>6. /\ frame' \in [Items -> HttpFrames]
          /\ \A x \in Items : frame'[x] = IF x = f THEN g ELSE frame[x]
      BY <1>1, <3>5
    <3>7. waiting' \in Seq(Items) /\ pending' = pending
      <4>1. waiting \in Seq(Items) /\ pending \in Items \cup {NULL}
        BY <1>1 DEF RestTypeOK
      <4>2. QED
        BY <3>4, <4>1, WithdrawTypes DEF Http!ResolverDestroyed, Http!pipe
    <3>8. \A x \in Items : x # f => frame[x].ctx # c
      BY <2>1, <3>1
    <3>9. QED
      BY <3>5, <3>6, <3>7, <3>8
  <2>3. CASE ~(o.dnsFrame # NULL /\ frame[o.dnsFrame].ctx = c)
    <3>1. frame' = frame /\ waiting' = waiting /\ pending' = pending
      BY <1>3, <2>3 DEF Http!pipe
    <3>2. ASSUME NEW f \in Items PROVE frame[f].ctx # c
      <4>1. f # NULL
        BY DEF HttpConstants
      <4>2. QED
        BY <2>1, <2>3, <4>1
    <3>3. QED
      BY <1>1, <3>1, <3>2 DEF RestTypeOK
  <2>4. QED
    BY <2>2, <2>3
<1>7. FramesServed'
  BY <1>6 DEF FramesServed, ClientsInv
<1>8. FramesOwned'
  <2> SUFFICES ASSUME NEW f \in Items, frame'[f].ctx # NULL
               PROVE  /\ frame'[f].ctx \in clients'
                      /\ f \in {obj'[frame'[f].ctx].dnsFrame, obj'[frame'[f].ctx].request}
                      /\ f = obj'[frame'[f].ctx].dnsFrame => frame'[f].use = "dns"
    BY DEF FramesOwned
  <2>1. frame'[f] = frame[f] /\ frame[f].ctx # c
    BY <1>6
  <2>2. frame[f].ctx \in Clients \ {c}
    BY <1>1, <2>1 DEF HttpFrames
  <2>3. obj'[frame[f].ctx] = obj[frame[f].ctx] /\ frame[f].ctx # NULL
    BY <1>5, <2>1, <2>2
  <2>4. QED
    BY <1>3, <2>1, <2>2, <2>3 DEF FramesOwned, ClientsInv
<1>9. ClientsSound'
  BY <1>5, BlankObject DEF ClientsSound, ClientsInv
<1>10. /\ calls' \in Seq(Calls) /\ TimersApart(calls') /\ Entries(calls') \subseteq Entries(calls)
       /\ \A k \in Entries(calls') : k.to # c
  BY <1>3, CallsOfDestroyed
<1>11. CallsSound'
  <2> SUFFICES ASSUME NEW k \in Entries(calls') PROVE Sound(k)'
    BY <1>10 DEF CallsSound
  <2>1. Sound(k) /\ k.to # c
    BY <1>1, <1>10
  <2>2. k = Http!Kick \/ (k.to \in clients' /\ k.to \in Clients \ {c})
    BY <1>1, <1>3, <2>1 DEF Sound
  <2>3. QED
    BY <1>5, <2>1, <2>2 DEF Sound, Http!Kick
<1>12. RestTypeOK'
  <2>1. delivered' \in [Clients -> Seq(Http!Chunks)]
    BY <1>1, <1>4 DEF RestTypeOK
  <2>2. freedTwice' \in BOOLEAN
    BY <1>4
  <2>3. QED
    BY <1>1, <1>4, <1>6, <2>1, <2>2 DEF RestTypeOK
<1>13. clients' \in SUBSET Clients
  BY <1>1, <1>3
<1>14. QED
  BY <1>5, <1>6, <1>7, <1>8, <1>9, <1>10, <1>11, <1>12, <1>13, HttpTypesAfter DEF ClientsInv

-----------------------------------------------------------------------------
(* The module's event handler, its callbacks and the run loop.             *)

\* What a step leaves that only makes or drops calls.
LEMMA OnlyCalls ==
  ASSUME HttpConstants, ClientsInv, UNCHANGED <<clients, obj, frame>>,
         calls' \in Seq(Calls), TimersApart(calls'), Entries(calls') \subseteq Entries(calls),
         RestTypeOK'
  PROVE  ClientsInv'
<1>1. FramesOwned' /\ FramesServed'
  BY FramesKept DEF SamePointers, ClientsInv
<1>2. CallsSound'
  BY CallsKept DEF ClientsInv
<1>3. ClientsSound'
  BY DEF ClientsInv, ClientsSound
<1>4. QED
  BY <1>1, <1>2, <1>3, HttpTypes, HttpTypesAfter DEF ClientsInv

LEMMA NoInputKeeps ==
  ASSUME HttpConstants, ClientsInv, Http!NoInput
  PROVE  ClientsInv'
<1>1. /\ calls # <<>> /\ calls' = Tail(calls) /\ sending' = TRUE
      /\ UNCHANGED <<clients, obj, frame, Http!pipe, Http!history>>
  BY DEF Http!NoInput
<1>2. RestTypeOK'
  BY <1>1, HttpTypes DEF ClientsInv, RestTypeOK, Http!pipe, Http!history
<1>3. /\ calls' \in Seq(Calls) /\ TimersApart(calls') /\ Entries(calls') \subseteq Entries(calls)
  BY <1>1, CallIsMade
<1>4. QED
  BY <1>1, <1>2, <1>3, OnlyCalls

\* The steps of the pipe that HttpClient takes.
LEMMA PipeTypes ==
  ASSUME waiting \in Seq(Items), pending \in Items \cup {NULL},
         Http!Pipe!Send \/ Http!Pipe!Refuse \/ Http!Pipe!Complete
  PROVE  waiting' \in Seq(Items) /\ pending' \in Items \cup {NULL}
BY DEF Http!Pipe!Send, Http!Pipe!Refuse, Http!Pipe!Complete

LEMMA SendKeeps ==
  ASSUME HttpConstants, ClientsInv, Http!Send \/ Http!NothingToSend
  PROVE  ClientsInv'
<1>1. /\ sending' = FALSE /\ UNCHANGED <<clients, obj, frame, calls, Http!history>>
      /\ Http!Pipe!Send \/ UNCHANGED Http!pipe
  BY DEF Http!Send, Http!NothingToSend
<1>2. RestTypeOK /\ calls \in Seq(Calls) /\ TimersApart(calls)
  BY HttpTypes DEF ClientsInv, CallsSound
<1>3. waiting' \in Seq(Items) /\ pending' \in Items \cup {NULL}
  BY <1>1, <1>2, PipeTypes DEF RestTypeOK, Http!pipe
<1>4. RestTypeOK'
  BY <1>1, <1>2, <1>3 DEF RestTypeOK, Http!history
<1>5. QED
  BY <1>1, <1>2, <1>4, OnlyCalls

\* A frame fails in a step that makes no call.
LEMMA FailingKeeps ==
  ASSUME HttpConstants, ClientsInv, NEW f \in Items, Http!FrameFails(f), clients' = clients,
         calls' \in Seq(Calls), TimersApart(calls'), Entries(calls') \subseteq Entries(calls),
         RestTypeOK'
  PROVE  ClientsInv'
<1>1. /\ obj' \in [Clients -> Objects] /\ frame' \in [Items -> HttpFrames]
      /\ FramesOwned' /\ FramesServed' /\ ClientsSound'
      /\ \A x \in Clients : obj[x].dnsFrame = NULL /\ obj[x].request = NULL
           => obj'[x].dnsFrame = NULL /\ obj'[x].request = NULL
  BY FrameFailsKeeps
<1>2. clients \in SUBSET Clients
  BY HttpTypes DEF ClientsInv
<1>3. CallsSound'
  BY <1>1, <1>2, CallsKept DEF ClientsInv
<1>4. QED
  BY <1>1, <1>2, <1>3, HttpTypesAfter DEF ClientsInv

LEMMA RefuseKeeps ==
  ASSUME HttpConstants, ClientsInv, Http!Refuse
  PROVE  ClientsInv'
<1>1. /\ sending' = FALSE /\ Http!Pipe!Refuse /\ Http!FrameFails(Head(waiting)) /\ refused' = TRUE
      /\ UNCHANGED <<clients, calls, delivered, copied, lost, freedTwice>>
  BY DEF Http!Refuse
<1>2. RestTypeOK /\ calls \in Seq(Calls) /\ TimersApart(calls)
  BY HttpTypes DEF ClientsInv, CallsSound
<1>3. Head(waiting) \in Items
  BY <1>1, <1>2 DEF RestTypeOK, Http!Pipe!Refuse
<1>4. waiting' \in Seq(Items) /\ pending' \in Items \cup {NULL}
  BY <1>1, <1>2, PipeTypes DEF RestTypeOK
<1>5. RestTypeOK'
  BY <1>1, <1>2, <1>4 DEF RestTypeOK
<1>6. QED
  BY <1>1, <1>2, <1>3, <1>5, FailingKeeps

LEMMA AnswerFailsKeeps ==
  ASSUME HttpConstants, ClientsInv, Http!AnswerFails
  PROVE  ClientsInv'
<1>1. /\ Http!Pipe!Complete /\ Http!FrameFails(pending) /\ Http!Event(<<>>)
      /\ UNCHANGED <<clients, Http!history>>
  BY DEF Http!AnswerFails
<1>2. RestTypeOK
  BY HttpTypes DEF ClientsInv
<1>3. pending \in Items
  BY <1>1, <1>2 DEF RestTypeOK, Http!Pipe!Complete
<1>4. /\ calls' \in Seq(Calls) /\ TimersApart(calls') /\ sending' = TRUE
      /\ Entries(calls') \subseteq Entries(calls)
  BY <1>1, PlainEvent
<1>5. waiting' \in Seq(Items) /\ pending' \in Items \cup {NULL}
  BY <1>1, <1>2, PipeTypes DEF RestTypeOK
<1>6. RestTypeOK'
  BY <1>1, <1>2, <1>4, <1>5 DEF RestTypeOK, Http!history
<1>7. QED
  BY <1>1, <1>3, <1>4, <1>6, FailingKeeps

LEMMA ResolvedForNobodyKeeps ==
  ASSUME HttpConstants, ClientsInv, Http!ResolvedForNobody
  PROVE  ClientsInv'
<1>1. /\ Http!Pipe!Complete /\ frame[pending].ctx = NULL
      /\ frame' = [frame EXCEPT ![pending] = Http!Free]
      /\ Http!Event(<<>>) /\ UNCHANGED <<clients, obj, Http!history>>
  BY DEF Http!ResolvedForNobody
<1>2. RestTypeOK
  BY HttpTypes DEF ClientsInv
<1>3. pending \in Items
  BY <1>1, <1>2 DEF RestTypeOK, Http!Pipe!Complete
<1>4. /\ calls' \in Seq(Calls) /\ TimersApart(calls') /\ sending' = TRUE
      /\ Entries(calls') \subseteq Entries(calls)
  BY <1>1, PlainEvent
<1>5. waiting' \in Seq(Items) /\ pending' \in Items \cup {NULL}
  BY <1>1, <1>2, PipeTypes DEF RestTypeOK
<1>6. RestTypeOK'
  BY <1>1, <1>2, <1>4, <1>5 DEF RestTypeOK, Http!history
<1>7. Http!FrameFails(pending)
  BY <1>1 DEF Http!FrameFails, Http!Failed
<1>8. QED
  BY <1>1, <1>3, <1>4, <1>6, <1>7, FailingKeeps

LEMMA ResponseDataKeeps ==
  ASSUME HttpConstants, ClientsInv, Http!ResponseData
  PROVE  ClientsInv'
<1>1. /\ pending # NULL /\ frame[pending].use = "http"
      /\ UNCHANGED <<clients, Http!history>>
  BY DEF Http!ResponseData
<1>2. PICK last \in BOOLEAN :
        /\ last \/ frame[pending].n + 1 < MaxChunks
        /\ Http!HttpData(frame[pending].ctx, [n |-> frame[pending].n + 1, last |-> last])
        /\ IF last
             THEN Http!Pipe!Complete /\ frame' = [frame EXCEPT ![pending] = Http!Free]
             ELSE UNCHANGED Http!pipe /\ frame' = [frame EXCEPT ![pending].n = @ + 1]
  BY DEF Http!ResponseData
<1>3. /\ obj \in [Clients -> Objects] /\ clients \in SUBSET Clients
      /\ frame \in [Items -> HttpFrames] /\ RestTypeOK
  BY HttpTypes DEF ClientsInv
<1>4. PICK f \in Items : f = pending
  BY <1>1, <1>3 DEF RestTypeOK
<1>5. PICK h \in HttpFrames : h = frame[f]
  BY <1>3
<1>6. h.use = "http" /\ h.n \in 0..MaxChunks /\ h.n < MaxChunks /\ h.ctx # NULL
  BY <1>1, <1>4, <1>5 DEF HttpFrames, ClientsInv, FramesServed
<1>7. PICK c \in Clients : c = h.ctx /\ c \in clients
  BY <1>4, <1>5, <1>6, OneFrame
<1>8. PICK chunk \in Http!Chunks : chunk = [n |-> h.n + 1, last |-> last]
  <2>1. h.n + 1 \in 0..MaxChunks
    BY <1>6 DEF HttpConstants
  <2>2. QED
    BY <2>1 DEF Http!Chunks
<1>9. Http!HttpData(c, chunk)
  BY <1>2, <1>4, <1>5, <1>7, <1>8
<1>10. PICK k \in Calls : k = Http!Call(c, "data", NULL) /\ k.timer = NULL
  <2>1. PICK k : k = [what |-> "data", to |-> c, timer |-> NULL]
    OBVIOUS
  <2>2. k \in Calls /\ k.timer = NULL
    BY <2>1 DEF Calls
  <2>3. QED
    BY <2>1, <2>2 DEF Http!Call
<1>11. /\ calls' \in Seq(Calls) /\ TimersApart(calls') /\ sending' = TRUE
       /\ Entries(calls') \subseteq Entries(calls) \cup {k}
  BY <1>9, <1>10, CallingEvent DEF Http!HttpData
<1>12. PICK o \in Objects : o = obj[c]
  BY <1>3
<1>13. PICK p : p = [o EXCEPT !.respData = chunk]
  OBVIOUS
<1>14. p \in Objects /\ SamePointers(o, p) /\ p.cbTimers = o.cbTimers
  BY <1>12, <1>13 DEF Objects, SamePointers
<1>15. obj' = [obj EXCEPT ![c] = p]
  BY <1>3, <1>9, <1>12, <1>13 DEF Http!HttpData
<1>16. /\ obj' \in [Clients -> Objects]
       /\ \A x \in Clients : SamePointers(obj[x], obj'[x]) /\ obj'[x].cbTimers = obj[x].cbTimers
  BY <1>3, <1>12, <1>14, <1>15 DEF SamePointers
<1>17. PICK g \in HttpFrames :
         /\ frame' = [frame EXCEPT ![f] = g] /\ g.n < MaxChunks
         /\ \/ g.ctx = NULL /\ g.use = "free"
            \/ g.ctx = h.ctx /\ g.use = h.use
  <2>1. CASE last
    BY <1>2, <1>4, <2>1, BlankObject
  <2>2. CASE ~last
    <3>1. PICK g : g = [h EXCEPT !.n = h.n + 1]
      OBVIOUS
    <3>2. h.n + 1 < MaxChunks /\ h.n + 1 \in 0..MaxChunks
      BY <1>2, <1>4, <1>5, <1>6, <2>2 DEF HttpConstants
    <3>3. g \in HttpFrames /\ g.n = h.n + 1 /\ g.ctx = h.ctx /\ g.use = h.use
      BY <3>1, <3>2 DEF HttpFrames
    <3>4. frame' = [frame EXCEPT ![f] = g]
      BY <1>2, <1>3, <1>4, <1>5, <2>2, <3>1
    <3>5. QED
      BY <3>2, <3>3, <3>4
  <2>3. QED
    BY <2>1, <2>2
<1>18. /\ frame' \in [Items -> HttpFrames]
       /\ \A x \in Items : frame'[x] = IF x = f THEN g ELSE frame[x]
  BY <1>3, <1>17
<1>19. FramesServed'
  BY <1>5, <1>6, <1>17, <1>18 DEF FramesServed, ClientsInv
<1>20. FramesOwned'
  <2> SUFFICES ASSUME NEW x \in Items, frame'[x].ctx # NULL
               PROVE  /\ frame'[x].ctx \in clients'
                      /\ x \in {obj'[frame'[x].ctx].dnsFrame, obj'[frame'[x].ctx].request}
                      /\ x = obj'[frame'[x].ctx].dnsFrame => frame'[x].use = "dns"
    BY DEF FramesOwned
  <2>1. frame'[x].ctx = frame[x].ctx /\ frame'[x].use = frame[x].use
    BY <1>5, <1>17, <1>18
  <2>2. frame[x].ctx \in Clients
    BY <1>3, <2>1 DEF HttpFrames
  <2>3. SamePointers(obj[frame[x].ctx], obj'[frame[x].ctx])
    BY <1>16, <2>2
  <2>4. QED
    BY <1>1, <2>1, <2>3 DEF FramesOwned, ClientsInv, SamePointers
<1>21. ClientsSound'
  BY <1>16 DEF ClientsSound, ClientsInv, SamePointers
<1>22. CallsSound'
  <2>1. Sound(k)'
    BY <1>1, <1>7, <1>10 DEF Sound, Http!Call
  <2>2. \A x \in clients : obj[x].dnsFrame = NULL /\ obj[x].request = NULL
           => obj'[x].dnsFrame = NULL /\ obj'[x].request = NULL
    BY <1>3, <1>16 DEF SamePointers
  <2>3. QED
    BY <1>1, <1>11, <2>1, <2>2, CallsKept DEF ClientsInv
<1>23. RestTypeOK'
  <2>1. waiting' \in Seq(Items) /\ pending' \in Items \cup {NULL}
    BY <1>2, <1>3, PipeTypes DEF RestTypeOK, Http!pipe
  <2>2. QED
    BY <1>1, <1>3, <1>11, <2>1 DEF RestTypeOK, Http!history
<1>24. QED
  BY <1>1, <1>3, <1>11, <1>16, <1>18, <1>19, <1>20, <1>21, <1>22, <1>23, HttpTypesAfter DEF ClientsInv

\* A frame of a resolver is answered: it makes its client's request.
LEMMA ResolvedFrames ==
  ASSUME HttpConstants, ClientsInv, NEW f \in Items, frame[f].use = "dns", frame[f].ctx # NULL,
         NEW h \in Items, Http!Unused(h), NEW c, c = frame[f].ctx,
         NEW g \in HttpFrames, g.use = "http", g.ctx = c, g.n < MaxChunks,
         frame' = [frame EXCEPT ![f] = Http!Free, ![h] = g],
         NEW p \in Objects, p.dnsFrame = NULL, p.request = h, p.cbTimers = obj[c].cbTimers,
         obj' = [obj EXCEPT ![c] = p], clients' = clients
  PROVE  /\ obj' \in [Clients -> Objects] /\ frame' \in [Items -> HttpFrames]
         /\ FramesOwned' /\ FramesServed' /\ ClientsSound'
         /\ \A x \in Clients : obj[x].dnsFrame = NULL /\ obj[x].request = NULL => obj'[x] = obj[x]
<1>1. /\ obj \in [Clients -> Objects] /\ clients \in SUBSET Clients
      /\ frame \in [Items -> HttpFrames]
  BY HttpTypes DEF ClientsInv
<1>2. /\ c \in Clients /\ c \in clients /\ f # NULL /\ f \in {obj[c].dnsFrame, obj[c].request}
      /\ \A x \in Items : frame[x].ctx = c => x = f
  BY OneFrame
<1>3. h # f /\ h # NULL
  BY BlankObject DEF Http!Unused, HttpConstants
<1>4. /\ frame' \in [Items -> HttpFrames]
      /\ \A x \in Items : frame'[x] = IF x = h THEN g ELSE IF x = f THEN Http!Free ELSE frame[x]
  BY <1>1, <1>3, BlankObject
<1>5. /\ obj' \in [Clients -> Objects]
      /\ \A x \in Clients : obj'[x] = IF x = c THEN p ELSE obj[x]
  BY <1>1, <1>2
<1>6. FramesServed'
  BY <1>2, <1>4, BlankObject DEF FramesServed, ClientsInv
<1>7. FramesOwned'
  <2> SUFFICES ASSUME NEW x \in Items, frame'[x].ctx # NULL
               PROVE  /\ frame'[x].ctx \in clients'
                      /\ x \in {obj'[frame'[x].ctx].dnsFrame, obj'[frame'[x].ctx].request}
                      /\ x = obj'[frame'[x].ctx].dnsFrame => frame'[x].use = "dns"
    BY DEF FramesOwned
  <2>1. CASE x = h
    BY <1>2, <1>3, <1>4, <1>5, <2>1
  <2>2. CASE x # h
    <3>1. x # f /\ frame'[x] = frame[x]
      BY <1>4, <2>2, BlankObject
    <3>2. frame[x].ctx # c /\ frame[x].ctx \in Clients
      BY <1>1, <1>2, <3>1 DEF HttpFrames
    <3>3. obj'[frame[x].ctx] = obj[frame[x].ctx]
      BY <1>5, <3>2
    <3>4. QED
      BY <3>1, <3>3 DEF FramesOwned, ClientsInv
  <2>3. QED
    BY <2>1, <2>2
<1>8. ClientsSound'
  BY <1>5 DEF ClientsSound, ClientsInv
<1>9. \A x \in Clients : obj[x].dnsFrame = NULL /\ obj[x].request = NULL => obj'[x] = obj[x]
  BY <1>2, <1>5
<1>10. QED
  BY <1>4, <1>5, <1>6, <1>7, <1>8, <1>9

LEMMA ResolvedKeeps ==
  ASSUME HttpConstants, ClientsInv, NEW h \in Items, Http!Resolved(h)
  PROVE  ClientsInv'
<1>1. /\ pending # NULL /\ frame[pending].use = "dns" /\ frame[pending].ctx # NULL
      /\ Http!Unused(h) /\ pending' = NULL /\ UNCHANGED <<clients, Http!history>>
  BY DEF Http!Resolved
<1>2. /\ obj \in [Clients -> Objects] /\ clients \in SUBSET Clients
      /\ frame \in [Items -> HttpFrames] /\ RestTypeOK
  BY HttpTypes DEF ClientsInv
<1>3. PICK f \in Items : f = pending
  BY <1>1, <1>2 DEF RestTypeOK
<1>4. PICK c \in Clients : c = frame[f].ctx
  BY <1>1, <1>3, OneFrame, SMTT(30)
<1>5. PICK address \in BOOLEAN :
        /\ frame' = [frame EXCEPT ![f] = Http!Free,
                       ![h] = [Http!Free EXCEPT !.use = "http", !.ctx = c, !.address = address]]
        /\ obj' = [obj EXCEPT ![c].dnsFrame = NULL, ![c].request = h,
                              ![c].state = IF Http!CommitNow(c) THEN "inProgress" ELSE @]
        /\ IF Http!CommitNow(c) THEN waiting' = Append(waiting, h) /\ Http!Event(<<Http!Kick>>)
                                ELSE UNCHANGED waiting /\ Http!Event(<<>>)
  BY <1>3, <1>4 DEF Http!Resolved
<1>6. PICK g : g = [Http!Free EXCEPT !.use = "http", !.ctx = c, !.address = address]
  OBVIOUS
<1>7. g \in HttpFrames /\ g.use = "http" /\ g.ctx = c /\ g.n < MaxChunks
  <2>1. g = [use |-> "http", ctx |-> c, n |-> 0, address |-> address]
    BY <1>6 DEF Http!Free
  <2>2. 0 \in 0..MaxChunks /\ 0 < MaxChunks
    BY DEF HttpConstants
  <2>3. QED
    BY <2>1, <2>2 DEF HttpFrames
<1>8. PICK o \in Objects : o = obj[c]
  BY <1>2
<1>9. PICK s \in Http!States : s = IF Http!CommitNow(c) THEN "inProgress" ELSE o.state
  BY <1>8 DEF Http!States, Objects
<1>10. PICK p : p = [o EXCEPT !.dnsFrame = NULL, !.request = h, !.state = s]
  OBVIOUS
<1>11. p \in Objects /\ p.dnsFrame = NULL /\ p.request = h /\ p.cbTimers = o.cbTimers
  BY <1>8, <1>9, <1>10 DEF Objects
<1>12. obj' = [obj EXCEPT ![c] = p]
  BY <1>2, <1>5, <1>8, <1>9, <1>10
<1>13. /\ obj' \in [Clients -> Objects] /\ frame' \in [Items -> HttpFrames]
       /\ FramesOwned' /\ FramesServed' /\ ClientsSound'
       /\ \A x \in Clients : obj[x].dnsFrame = NULL /\ obj[x].request = NULL => obj'[x] = obj[x]
  <2>1. frame[f].use = "dns" /\ frame[f].ctx # NULL /\ Http!Unused(h) /\ clients' = clients
    BY <1>1, <1>3
  <2>2. frame' = [frame EXCEPT ![f] = Http!Free, ![h] = g]
    BY <1>5, <1>6
  <2>3. QED
    BY <1>4, <1>7, <1>8, <1>11, <1>12, <2>1, <2>2, ResolvedFrames
<1>14. /\ waiting' \in Seq(Items) /\ calls' \in Seq(Calls) /\ TimersApart(calls')
       /\ sending' = TRUE /\ Entries(calls') \subseteq Entries(calls) \cup {Http!Kick}
  <2>1. CASE Http!CommitNow(c)
    <3>1. waiting' \in Seq(Items)
      <4>1. waiting' = Append(waiting, h)
        BY <1>5, <2>1
      <4>2. waiting \in Seq(Items)
        BY <1>2 DEF RestTypeOK
      <4>3. QED
        BY <4>1, <4>2
    <3>2. PICK k \in Calls : k = Http!Kick /\ k.timer = NULL
      BY KickIsCall
    <3>3. Http!Event(<<k>>)
      BY <1>5, <2>1, <3>2
    <3>4. QED
      BY <3>1, <3>2, <3>3, CallingEvent
  <2>2. CASE ~Http!CommitNow(c)
    <3>1. waiting' \in Seq(Items)
      BY <1>2, <1>5, <2>2 DEF RestTypeOK
    <3>2. QED
      BY <1>5, <2>2, <3>1, PlainEvent
  <2>3. QED
    BY <2>1, <2>2
<1>15. CallsSound'
  <2>1. \A x \in clients : obj[x].dnsFrame = NULL /\ obj[x].request = NULL
           => obj'[x].dnsFrame = NULL /\ obj'[x].request = NULL
    BY <1>2, <1>13
  <2>2. QED
    BY <1>1, <1>14, <2>1, KickIsCall, CallsKept DEF ClientsInv
<1>16. RestTypeOK'
  BY <1>1, <1>2, <1>14 DEF RestTypeOK, Http!history
<1>17. QED
  BY <1>1, <1>2, <1>13, <1>14, <1>15, <1>16, HttpTypesAfter DEF ClientsInv

\* The run loop makes a call: to a client that exists.
LEMMA RunCallKeeps ==
  ASSUME HttpConstants, ClientsInv, Http!RunCall
  PROVE  ClientsInv'
<1>1. /\ calls # <<>> /\ Head(calls) # Http!Kick /\ calls' = Tail(calls)
      /\ UNCHANGED <<clients, frame, Http!pipe, sending, copied, lost, refused, freedTwice>>
  BY DEF Http!RunCall
<1>2. /\ obj \in [Clients -> Objects] /\ clients \in SUBSET Clients
      /\ frame \in [Items -> HttpFrames] /\ RestTypeOK
  BY HttpTypes DEF ClientsInv
<1>3. PICK k \in Calls : k = Head(calls) /\ k \in Entries(calls)
  BY <1>1, CallIsMade
<1>4. /\ calls' \in Seq(Calls) /\ TimersApart(calls') /\ Entries(calls') \subseteq Entries(calls)
  BY <1>1, CallIsMade
<1>5. Sound(k) /\ k # Http!Kick
  BY <1>1, <1>3 DEF ClientsInv, CallsSound
<1>6. PICK c \in Clients : c = k.to
  BY <1>2, <1>5 DEF Sound
<1>7. PICK o \in Objects : o = obj[c]
  BY <1>2
<1>8. PICK p \in Objects :
        /\ obj' = [obj EXCEPT ![c] = p] /\ SamePointers(o, p) /\ p.cbTimers = o.cbTimers
        /\ delivered' \in [Clients -> Seq(Http!Chunks)]
  <2>1. CASE k.what = "data"
    <3>1. /\ delivered' = [delivered EXCEPT ![c] = Append(@, o.respData)]
          /\ obj' = IF o.respData.last THEN [obj EXCEPT ![c].state = "completed"] ELSE obj
      BY <1>3, <1>6, <1>7, <2>1 DEF Http!RunCall, Http!TriggerDataReady
    <3>2. delivered' \in [Clients -> Seq(Http!Chunks)]
      <4>1. delivered \in [Clients -> Seq(Http!Chunks)] /\ o.respData \in Http!Chunks
        BY <1>2, <1>7 DEF RestTypeOK, Objects
      <4>2. PICK q \in Seq(Http!Chunks) : q = delivered[c]
        BY <4>1
      <4>3. Append(q, o.respData) \in Seq(Http!Chunks)
        BY <4>1, <4>2
      <4>4. delivered' = [delivered EXCEPT ![c] = Append(q, o.respData)]
        BY <3>1, <4>2
      <4>5. QED
        BY <4>1, <4>3, <4>4
    <3>3. PICK p : p = [o EXCEPT !.state = "completed"]
      OBVIOUS
    <3>4. p \in Objects /\ SamePointers(o, p) /\ p.cbTimers = o.cbTimers
      BY <1>7, <3>3 DEF Objects, Http!States, SamePointers
    <3>5. obj' = [obj EXCEPT ![c] = p] \/ obj' = [obj EXCEPT ![c] = o]
      BY <1>2, <1>7, <3>1, <3>3
    <3>6. SamePointers(o, o)
      BY DEF SamePointers
    <3>7. QED
      BY <1>7, <3>2, <3>4, <3>5, <3>6
  <2>2. CASE k.what # "data"
    <3>1. o.dnsFrame = NULL
      BY <1>5, <1>6, <1>7, <2>2 DEF Sound
    <3>2. c # NULL
      BY DEF HttpConstants
    <3>3. /\ obj' = [obj EXCEPT ![c].state = "error", ![c].dnsFrame = NULL]
          /\ delivered' = delivered
      BY <1>3, <1>6, <2>2, <3>2 DEF Http!RunCall, Http!Failed
    <3>4. PICK p : p = [o EXCEPT !.state = "error", !.dnsFrame = NULL]
      OBVIOUS
    <3>5. p \in Objects /\ SamePointers(o, p) /\ p.cbTimers = o.cbTimers
      BY <1>7, <3>1, <3>4 DEF Objects, Http!States, SamePointers
    <3>6. obj' = [obj EXCEPT ![c] = p]
      BY <1>2, <1>7, <3>3, <3>4
    <3>7. QED
      BY <1>2, <3>3, <3>5, <3>6 DEF RestTypeOK
  <2>3. QED
    BY <2>1, <2>2
<1>9. /\ obj' \in [Clients -> Objects]
      /\ \A x \in Clients : SamePointers(obj[x], obj'[x]) /\ obj'[x].cbTimers = obj[x].cbTimers
  BY <1>2, <1>7, <1>8 DEF SamePointers
<1>10. FramesOwned' /\ FramesServed'
  BY <1>1, <1>2, <1>9, FramesKept DEF ClientsInv
<1>11. ClientsSound'
  BY <1>9 DEF ClientsSound, ClientsInv, SamePointers
<1>12. CallsSound'
  <2>1. \A x \in clients : obj[x].dnsFrame = NULL /\ obj[x].request = NULL
           => obj'[x].dnsFrame = NULL /\ obj'[x].request = NULL
    BY <1>2, <1>9 DEF SamePointers
  <2>2. QED
    BY <1>1, <1>4, <2>1, CallsKept DEF ClientsInv
<1>13. RestTypeOK'
  BY <1>1, <1>2, <1>8 DEF RestTypeOK, Http!pipe
<1>14. QED
  BY <1>1, <1>2, <1>4, <1>9, <1>10, <1>11, <1>12, <1>13, HttpTypesAfter DEF ClientsInv

-----------------------------------------------------------------------------
(* The theorem.                                                            *)

LEMMA ClientsInit ==
  ASSUME HttpConstants, Http!Init
  PROVE  ClientsInv
<1>1. /\ clients = {} /\ obj = [c \in Clients |-> Http!Blank]
      /\ frame = [f \in Items |-> Http!Free] /\ Http!Pipe!Init /\ calls = <<>> /\ sending = FALSE
      /\ delivered = [c \in Clients |-> <<>>] /\ copied = {} /\ lost = {}
      /\ refused = FALSE /\ freedTwice = FALSE
  BY DEF Http!Init
<1>2. obj \in [Clients -> Objects] /\ frame \in [Items -> HttpFrames] /\ calls \in Seq(Calls)
  BY <1>1, BlankObject
<1>3. RestTypeOK
  <2>1. delivered \in [Clients -> Seq(Http!Chunks)]
    BY <1>1
  <2>2. waiting \in Seq(Items) /\ pending \in Items \cup {NULL}
    BY <1>1 DEF Http!Pipe!Init
  <2>3. QED
    BY <1>1, <2>1, <2>2 DEF RestTypeOK
<1>4. FramesOwned /\ FramesServed
  BY <1>1, BlankObject DEF FramesOwned, FramesServed
<1>5. ClientsSound
  BY <1>1, BlankObject DEF ClientsSound
<1>6. CallsSound
  <2>1. DOMAIN calls = {}
    BY <1>1
  <2>2. QED
    BY <2>1 DEF CallsSound, Entries, TimersApart
<1>7. Http!TypeOK
  BY <1>1, <1>2, <1>3, HttpTypes
<1>8. QED
  BY <1>4, <1>5, <1>6, <1>7 DEF ClientsInv

LEMMA ClientsNext ==
  ASSUME HttpConstants, ClientsInv, [Http!Next]_Http!vars
  PROVE  ClientsInv'
<1>1. CASE Http!ClientCode
  <2>1. sending' = sending
    BY <1>1 DEF Http!ClientCode
  <2>2. CASE \E c \in Clients, f \in Items : Http!NewForDomain(c, f) \/ Http!NewForAddress(c, f)
    BY <2>1, <2>2, NewForDomainKeeps, NewForAddressKeeps
  <2>3. CASE \E c \in Clients, t \in Timers : Http!NewOffline(c, t) \/ Http!NewForBadUrl(c, t)
    BY <2>1, <2>3, NewOfflineKeeps, NewForBadUrlKeeps
  <2>4. CASE \E c, d \in Clients : Http!CopyConstruct(c, d) \/ Http!Assign(c, d)
    BY <2>1, <2>4, CopyConstructKeeps, AssignKeeps
  <2>5. CASE \E c \in Clients : Http!Post(c) \/ Http!Destroy(c)
    BY <2>1, <2>5, PostKeeps, DestroyKeeps
  <2>6. QED
    BY <1>1, <2>2, <2>3, <2>4, <2>5 DEF Http!ClientCode
<1>2. CASE Http!NoInput
  BY <1>2, NoInputKeeps
<1>3. CASE Http!Send \/ Http!NothingToSend
  BY <1>3, SendKeeps
<1>4. CASE Http!Callbacks
  BY <1>4, RefuseKeeps, AnswerFailsKeeps, ResolvedForNobodyKeeps, ResolvedKeeps,
     ResponseDataKeeps, RunCallKeeps DEF Http!Callbacks
<1>5. CASE UNCHANGED Http!vars
  <2>1. UNCHANGED <<clients, obj, frame, calls, Http!pipe, sending, Http!history>>
    BY <1>5 DEF Http!vars
  <2>2. RestTypeOK' /\ calls' \in Seq(Calls) /\ TimersApart(calls')
    <3>1. RestTypeOK /\ calls \in Seq(Calls) /\ TimersApart(calls)
      BY HttpTypes DEF ClientsInv, CallsSound
    <3>2. QED
      BY <2>1, <3>1 DEF RestTypeOK, Http!pipe, Http!history
  <2>3. Entries(calls') \subseteq Entries(calls)
    BY <2>1
  <2>4. QED
    BY <2>1, <2>2, <2>3, OnlyCalls
<1>6. QED
  BY <1>1, <1>2, <1>3, <1>4, <1>5 DEF Http!Next

LEMMA ClientsInvHolds ==
  ASSUME HttpConstants
  PROVE  Http!Spec => []ClientsInv
<1>1. Http!Init => ClientsInv
  BY ClientsInit
<1>2. ClientsInv /\ [Http!Next]_Http!vars => ClientsInv'
  BY ClientsNext
<1>3. QED
  BY <1>1, <1>2, PTL DEF Http!Spec

\* No frame in the module's pipe and no timer in the run loop calls a client
\* that is gone, however clients are copied, assigned and destroyed, for any
\* number of clients, frames and timers (HttpClient, DnsResolver and
\* INetworkRequest: the copies turn the callbacks, the destructors clear them
\* or delete the timer).
THEOREM CallbacksFindTheirClients ==
  ASSUME HttpConstants
  PROVE  Http!Spec => []Http!CallbacksReachLiving
<1>1. ASSUME ClientsInv PROVE Http!CallbacksReachLiving
  <2>1. \A f \in Items : frame[f].ctx \in clients \cup {NULL}
    BY <1>1 DEF ClientsInv, FramesOwned
  <2>2. ASSUME NEW i \in DOMAIN calls, calls[i] # Http!Kick PROVE calls[i].to \in clients
    <3>1. Sound(calls[i])
      BY <1>1 DEF ClientsInv, CallsSound, Entries
    <3>2. QED
      BY <2>2, <3>1 DEF Sound
  <2>3. QED
    BY <1>1, <2>1, <2>2 DEF Http!CallbacksReachLiving, ClientsInv
<1>2. QED
  BY <1>1, ClientsInvHolds, PTL

-----------------------------------------------------------------------------
(* The pipe: a frame enters it once.                                       *)

InPipe(f) == f \in Entries(waiting) \/ f = pending

\* A request made for a client that has not called post().
Unposted(c) == obj[c].posts /\ ~obj[c].shouldPost /\ obj[c].request # NULL

\* The same request, posted or not.
SamePost(o, p) == p.posts = o.posts /\ p.shouldPost = o.shouldPost /\ p.request = o.request

FramesApart == Once(waiting) /\ pending \notin Entries(waiting)

InPipeUsed == \A f \in Items : InPipe(f) => frame[f].use # "free"

UnpostedOutside ==
  \A c \in clients \ copied : Unposted(c) =>
    /\ frame[obj[c].request].ctx = c /\ frame[obj[c].request].use = "http"
    /\ ~InPipe(obj[c].request)

\* What ClientsInv needs besides, that no frame is committed twice.
PipeInv == FramesApart /\ InPipeUsed /\ UnpostedOutside

LEMMA IsWaitingEntries == \A f : Http!Pipe!IsWaiting(f) <=> f \in Entries(waiting)
BY DEF Http!Pipe!IsWaiting, Entries

\* A frame that is not there joins the requests.
LEMMA FrameJoins ==
  ASSUME waiting \in Seq(Items), FramesApart, NEW f \in Items, ~InPipe(f),
         waiting' = Append(waiting, f), pending' = pending
  PROVE  /\ Http!Pipe!Commit(f) /\ FramesApart' /\ \A g : InPipe(g)' <=> InPipe(g) \/ g = f
<1>1. Once(waiting') /\ Entries(waiting') = Entries(waiting) \cup {f}
  BY AppendEntries DEF FramesApart, InPipe
<1>2. FramesApart'
  BY <1>1 DEF FramesApart, InPipe
<1>3. Http!Pipe!Commit(f)
  BY IsWaitingEntries DEF Http!Pipe!Commit, InPipe
<1>4. \A g : InPipe(g)' <=> InPipe(g) \/ g = f
  BY <1>1 DEF InPipe
<1>5. QED
  BY <1>2, <1>3, <1>4

LEMMA HeadLeaves ==
  ASSUME HttpConstants, waiting \in Seq(Items), FramesApart, waiting # <<>>, waiting' = Tail(waiting)
  PROVE  /\ Head(waiting) \in Items /\ Head(waiting) \in Entries(waiting) /\ Once(waiting')
         /\ Entries(waiting') = Entries(waiting) \ {Head(waiting)}
<1>1. /\ 1 \in 1..Len(waiting) /\ waiting[1] = Head(waiting) /\ waiting' \in Seq(Items)
      /\ LeavesOut(waiting', waiting, 1)
  BY TailLeavesOut
<1>2. PICK i : i = 1
  OBVIOUS
<1>3. i \in 1..Len(waiting) /\ LeavesOut(waiting', waiting, i)
  BY <1>1, <1>2
<1>4. Once(waiting') /\ Entries(waiting') = Entries(waiting) \ {waiting[i]}
  <2>1. PICK r \in Seq(Items) : r = waiting'
    BY <1>1
  <2>2. Once(waiting) /\ i \in 1..Len(waiting)
    BY <1>3 DEF FramesApart
  <2>3. LeavesOut(r, waiting, i)
    BY <1>3, <2>1
  <2>4. Once(r) /\ Entries(r) = Entries(waiting) \ {waiting[i]}
    BY <2>2, <2>3, OthersStay
  <2>5. QED
    BY <2>1, <2>4
<1>5. waiting[i] \in Items /\ waiting[i] \in Entries(waiting)
  BY <1>3 DEF Entries
<1>6. waiting[i] = Head(waiting)
  BY <1>1, <1>2
<1>7. QED
  BY <1>4, <1>5, <1>6

LEMMA FrameIsSent ==
  ASSUME HttpConstants, waiting \in Seq(Items), FramesApart, Http!Pipe!Send
  PROVE  FramesApart' /\ \A g \in Items : InPipe(g)' <=> InPipe(g)
<1>1. pending = NULL /\ waiting # <<>> /\ pending' = Head(waiting) /\ waiting' = Tail(waiting)
  BY DEF Http!Pipe!Send
<1>2. /\ Head(waiting) \in Items /\ Head(waiting) \in Entries(waiting) /\ Once(waiting')
      /\ Entries(waiting') = Entries(waiting) \ {Head(waiting)}
  BY <1>1, HeadLeaves
<1>3. NULL \notin Items
  BY DEF HttpConstants
<1>4. FramesApart'
  BY <1>1, <1>2 DEF FramesApart
<1>5. \A g \in Items : InPipe(g)' <=> InPipe(g)
  BY <1>1, <1>2, <1>3 DEF InPipe
<1>6. QED
  BY <1>4, <1>5

LEMMA FrameIsRefused ==
  ASSUME HttpConstants, waiting \in Seq(Items), FramesApart, Http!Pipe!Refuse
  PROVE  /\ Head(waiting) \in Items /\ InPipe(Head(waiting)) /\ FramesApart'
         /\ \A g \in Items : InPipe(g)' <=> InPipe(g) /\ g # Head(waiting)
<1>1. pending = NULL /\ waiting # <<>> /\ pending' = NULL /\ waiting' = Tail(waiting)
  BY DEF Http!Pipe!Refuse
<1>2. /\ Head(waiting) \in Items /\ Head(waiting) \in Entries(waiting) /\ Once(waiting')
      /\ Entries(waiting') = Entries(waiting) \ {Head(waiting)}
  BY <1>1, HeadLeaves
<1>3. NULL \notin Items
  BY DEF HttpConstants
<1>4. FramesApart'
  BY <1>1, <1>2 DEF FramesApart
<1>5. \A g \in Items : InPipe(g)' <=> InPipe(g) /\ g # Head(waiting)
  BY <1>1, <1>2, <1>3 DEF InPipe
<1>6. QED
  BY <1>2, <1>4, <1>5 DEF InPipe

LEMMA FrameIsAnswered ==
  ASSUME HttpConstants, waiting \in Seq(Items), pending \in Items, FramesApart, pending' = NULL,
         waiting' = waiting
  PROVE  Http!Pipe!Complete /\ FramesApart' /\ \A g \in Items : InPipe(g)' <=> InPipe(g) /\ g # pending
<1>1. NULL \notin Items
  BY DEF HttpConstants
<1>2. Entries(waiting) \subseteq Items
  BY DEF Entries
<1>3. QED
  BY <1>1, <1>2 DEF FramesApart, InPipe, Http!Pipe!Complete

LEMMA FrameIsWithdrawn ==
  ASSUME HttpConstants, waiting \in Seq(Items), pending \in Items \cup {NULL}, FramesApart,
         NEW f \in Items, Http!Pipe!Withdraw(f)
  PROVE  InPipe(f) /\ FramesApart' /\ \A g \in Items : InPipe(g)' <=> InPipe(g) /\ g # f
<1>1. /\ waiting' \in Seq(Items) /\ pending' = pending
      /\ \E i \in 1..Len(waiting) : waiting[i] = f /\ LeavesOut(waiting', waiting, i)
  BY WithdrawTypes
<1>2. PICK i \in 1..Len(waiting) : waiting[i] = f /\ LeavesOut(waiting', waiting, i)
  BY <1>1
<1>3. Once(waiting') /\ Entries(waiting') = Entries(waiting) \ {f}
  BY <1>1, <1>2, OthersStay DEF FramesApart
<1>4. f \in Entries(waiting)
  BY <1>2 DEF Entries
<1>5. FramesApart'
  BY <1>1, <1>3 DEF FramesApart
<1>6. \A g \in Items : InPipe(g)' <=> InPipe(g) /\ g # f
  BY <1>1, <1>3, <1>4 DEF InPipe, FramesApart
<1>7. QED
  BY <1>4, <1>5, <1>6 DEF InPipe

\* A frame in the pipe is in use.
LEMMA UnusedOutside ==
  ASSUME PipeInv, NEW f \in Items, Http!Unused(f)
  PROVE  ~InPipe(f) /\ \A x \in clients : obj[x].request # f
BY DEF PipeInv, InPipeUsed, Http!Unused, Http!Free

\* The pipe and its frames stay as they are.
LEMMA PipeStays ==
  ASSUME HttpConstants, ClientsInv, PipeInv, UNCHANGED Http!pipe,
         \A f \in Items : InPipe(f) => frame'[f].use = frame[f].use,
         \A c \in clients' \ copied' : Unposted(c)' =>
           /\ frame'[obj'[c].request].ctx = c /\ frame'[obj'[c].request].use = "http"
           /\ ~InPipe(obj'[c].request)
  PROVE  PipeInv' /\ UNCHANGED Http!Pipe!vars
<1>1. waiting' = waiting /\ pending' = pending
  BY DEF Http!pipe
<1>2. \A f : InPipe(f)' <=> InPipe(f)
  BY <1>1 DEF InPipe
<1>3. FramesApart' /\ InPipeUsed'
  BY <1>1, <1>2 DEF PipeInv, FramesApart, InPipeUsed
<1>4. UnpostedOutside'
  BY <1>2 DEF UnpostedOutside
<1>5. QED
  BY <1>1, <1>3, <1>4 DEF PipeInv, Http!Pipe!vars

\* A frame that is not in the pipe joins it; the others stay as they are.
LEMMA PipeGrows ==
  ASSUME HttpConstants, ClientsInv, PipeInv, NEW f \in Items, ~InPipe(f),
         waiting' = Append(waiting, f), pending' = pending, frame'[f].use # "free",
         \A g \in Items : InPipe(g) => frame'[g].use = frame[g].use,
         \A c \in clients' \ copied' : Unposted(c)' =>
           /\ frame'[obj'[c].request].ctx = c /\ frame'[obj'[c].request].use = "http"
           /\ ~InPipe(obj'[c].request) /\ obj'[c].request # f
  PROVE  PipeInv' /\ Http!Pipe!Next
<1>1. waiting \in Seq(Items) /\ FramesApart
  BY HttpTypes DEF ClientsInv, RestTypeOK, PipeInv
<1>2. /\ Http!Pipe!Commit(f) /\ FramesApart' /\ \A g : InPipe(g)' <=> InPipe(g) \/ g = f
  BY <1>1, FrameJoins
<1>3. InPipeUsed'
  BY <1>2 DEF PipeInv, InPipeUsed
<1>4. UnpostedOutside'
  BY <1>2 DEF UnpostedOutside
<1>5. QED
  BY <1>2, <1>3, <1>4 DEF PipeInv, Http!Pipe!Next

LEMMA NewForDomainPipe ==
  ASSUME HttpConstants, ClientsInv, PipeInv, NEW c \in Clients, NEW f \in Items,
         Http!NewForDomain(c, f)
  PROVE  PipeInv' /\ Http!Pipe!Next
<1>1. /\ c \notin clients /\ clients' = clients \cup {c} /\ copied' = copied
      /\ waiting' = Append(waiting, f) /\ pending' = pending /\ Http!Unused(f)
      /\ frame' = [frame EXCEPT ![f] = [Http!Free EXCEPT !.use = "dns", !.ctx = c]]
  BY DEF Http!NewForDomain, Http!CommitAsync, Http!history
<1>2. /\ obj \in [Clients -> Objects] /\ frame \in [Items -> HttpFrames] /\ clients \in SUBSET Clients
  BY HttpTypes DEF ClientsInv
<1>3. ~InPipe(f) /\ \A x \in clients : obj[x].request # f
  BY <1>1, UnusedOutside
<1>4. /\ \A x \in clients : obj'[x] = obj[x]
      /\ obj'[c].request = NULL
  <2>1. PICK posts \in BOOLEAN :
          obj' = [obj EXCEPT ![c] = [Http!Blank EXCEPT !.posts = posts, !.dnsFrame = f,
                                       !.state = IF posts THEN "setup" ELSE "inProgress"]]
    BY DEF Http!NewForDomain
  <2>2. PICK p : p = [Http!Blank EXCEPT !.posts = posts, !.dnsFrame = f,
                        !.state = IF posts THEN "setup" ELSE "inProgress"]
    OBVIOUS
  <2>3. p.request = NULL
    BY <2>2 DEF Http!Blank
  <2>4. obj' = [obj EXCEPT ![c] = p]
    BY <2>1, <2>2
  <2>5. QED
    BY <1>1, <1>2, <2>3, <2>4
<1>5. frame'[f].use # "free" /\ \A g \in Items \ {f} : frame'[g] = frame[g]
  BY <1>1, <1>2 DEF Http!Free
<1>6. \A g \in Items : InPipe(g) => frame'[g].use = frame[g].use
  BY <1>3, <1>5
<1>7. ASSUME NEW x \in clients' \ copied', Unposted(x)'
      PROVE  /\ frame'[obj'[x].request].ctx = x /\ frame'[obj'[x].request].use = "http"
             /\ ~InPipe(obj'[x].request) /\ obj'[x].request # f
  <2>1. x \in clients \ copied /\ obj'[x] = obj[x] /\ Unposted(x)
    BY <1>1, <1>4, <1>7 DEF Unposted
  <2>2. obj[x].request \in Items \ {f}
    BY <1>2, <1>3, <2>1 DEF Unposted, Objects
  <2>3. QED
    BY <1>5, <2>1, <2>2 DEF PipeInv, UnpostedOutside
<1>8. QED
  BY <1>1, <1>3, <1>5, <1>6, <1>7, PipeGrows

LEMMA NewForAddressPipe ==
  ASSUME HttpConstants, ClientsInv, PipeInv, NEW c \in Clients, NEW f \in Items,
         Http!NewForAddress(c, f)
  PROVE  PipeInv' /\ (Http!Pipe!Next \/ UNCHANGED Http!Pipe!vars)
<1>1. /\ c \notin clients /\ clients' = clients \cup {c} /\ copied' = copied /\ Http!Unused(f)
      /\ frame' = [frame EXCEPT ![f] = [Http!Free EXCEPT !.use = "http", !.ctx = c, !.address = TRUE]]
  BY DEF Http!NewForAddress, Http!history
<1>2. /\ obj \in [Clients -> Objects] /\ frame \in [Items -> HttpFrames] /\ clients \in SUBSET Clients
  BY HttpTypes DEF ClientsInv
<1>3. ~InPipe(f) /\ \A x \in clients : obj[x].request # f
  BY <1>1, UnusedOutside
<1>4. PICK posts \in BOOLEAN :
        /\ obj' = [obj EXCEPT ![c] = [Http!Blank EXCEPT !.posts = posts, !.request = f,
                                        !.state = IF posts THEN "setup" ELSE "inProgress"]]
        /\ IF posts THEN UNCHANGED <<Http!pipe, calls>> ELSE Http!CommitAsync(f)
  BY DEF Http!NewForAddress
<1>5. /\ \A x \in clients : obj'[x] = obj[x]
      /\ obj'[c].request = f /\ obj'[c].posts = posts
  <2>1. PICK p : p = [Http!Blank EXCEPT !.posts = posts, !.request = f,
                        !.state = IF posts THEN "setup" ELSE "inProgress"]
    OBVIOUS
  <2>2. p.request = f /\ p.posts = posts
    BY <2>1 DEF Http!Blank
  <2>3. obj' = [obj EXCEPT ![c] = p]
    BY <1>4, <2>1
  <2>4. QED
    BY <1>1, <1>2, <2>2, <2>3
<1>6. /\ frame'[f].use = "http" /\ frame'[f].ctx = c /\ \A g \in Items \ {f} : frame'[g] = frame[g]
  BY <1>1, <1>2 DEF Http!Free
<1>7. \A g \in Items : InPipe(g) => frame'[g].use = frame[g].use
  BY <1>3, <1>6
<1>8. ASSUME NEW x \in clients' \ copied', Unposted(x)', x # c \/ ~posts
      PROVE  /\ frame'[obj'[x].request].ctx = x /\ frame'[obj'[x].request].use = "http"
             /\ ~InPipe(obj'[x].request) /\ obj'[x].request # f
  <2>1. x \in clients \ copied /\ obj'[x] = obj[x] /\ Unposted(x)
    BY <1>1, <1>5, <1>8 DEF Unposted
  <2>2. obj[x].request \in Items \ {f}
    BY <1>2, <1>3, <2>1 DEF Unposted, Objects
  <2>3. QED
    BY <1>6, <2>1, <2>2 DEF PipeInv, UnpostedOutside
<1>9. CASE posts
  <2>1. UNCHANGED Http!pipe
    BY <1>4, <1>9
  <2>2. ASSUME NEW x \in clients' \ copied', Unposted(x)'
        PROVE  /\ frame'[obj'[x].request].ctx = x /\ frame'[obj'[x].request].use = "http"
               /\ ~InPipe(obj'[x].request)
    <3>1. CASE x = c
      BY <1>3, <1>5, <1>6, <3>1
    <3>2. CASE x # c
      BY <1>8, <2>2, <3>2
    <3>3. QED
      BY <3>1, <3>2
  <2>3. QED
    BY <1>7, <2>1, <2>2, PipeStays
<1>10. CASE ~posts
  <2>1. waiting' = Append(waiting, f) /\ pending' = pending
    BY <1>4, <1>10 DEF Http!CommitAsync
  <2>2. ASSUME NEW x \in clients' \ copied', Unposted(x)'
        PROVE  /\ frame'[obj'[x].request].ctx = x /\ frame'[obj'[x].request].use = "http"
               /\ ~InPipe(obj'[x].request) /\ obj'[x].request # f
    BY <1>8, <1>10, <2>2
  <2>3. frame'[f].use # "free"
    BY <1>6
  <2>4. QED
    BY <1>3, <1>7, <2>1, <2>2, <2>3, PipeGrows
<1>11. QED
  BY <1>9, <1>10

\* A new client without frames.
LEMMA NewWithoutFramePipe ==
  ASSUME HttpConstants, ClientsInv, PipeInv, NEW c \in Clients, NEW t \in Timers,
         Http!NewOffline(c, t) \/ Http!NewForBadUrl(c, t)
  PROVE  PipeInv' /\ UNCHANGED Http!Pipe!vars
<1>1. /\ c \notin clients /\ clients' = clients \cup {c} /\ copied' = copied
      /\ UNCHANGED <<frame, Http!pipe>>
  BY DEF Http!NewOffline, Http!NewForBadUrl, Http!history
<1>2. obj \in [Clients -> Objects] /\ clients \in SUBSET Clients
  BY HttpTypes DEF ClientsInv
<1>3. PICK p : obj' = [obj EXCEPT ![c] = p] /\ p.request = NULL
  <2>1. CASE Http!NewOffline(c, t)
    <3>1. PICK posts \in BOOLEAN :
            obj' = [obj EXCEPT ![c] = [Http!Blank EXCEPT !.posts = posts, !.cbTimers = {t},
                                         !.state = IF posts THEN "setup" ELSE "inProgress"]]
      BY <2>1 DEF Http!NewOffline
    <3>2. PICK p : p = [Http!Blank EXCEPT !.posts = posts, !.cbTimers = {t},
                          !.state = IF posts THEN "setup" ELSE "inProgress"]
      OBVIOUS
    <3>3. p.request = NULL
      BY <3>2 DEF Http!Blank
    <3>4. obj' = [obj EXCEPT ![c] = p]
      BY <3>1, <3>2
    <3>5. QED
      BY <3>3, <3>4
  <2>2. CASE Http!NewForBadUrl(c, t)
    <3>1. PICK p : p = [Http!Blank EXCEPT !.cbTimers = {t}]
      OBVIOUS
    <3>2. p.request = NULL
      BY <3>1 DEF Http!Blank
    <3>3. obj' = [obj EXCEPT ![c] = p]
      BY <2>2, <3>1 DEF Http!NewForBadUrl
    <3>4. QED
      BY <3>2, <3>3
  <2>3. QED
    BY <2>1, <2>2
<1>4. obj'[c].request = NULL /\ \A x \in clients : obj'[x] = obj[x]
  BY <1>1, <1>2, <1>3
<1>5. ASSUME NEW x \in clients' \ copied', Unposted(x)'
      PROVE  /\ frame'[obj'[x].request].ctx = x /\ frame'[obj'[x].request].use = "http"
             /\ ~InPipe(obj'[x].request)
  <2>1. x \in clients \ copied /\ obj'[x] = obj[x] /\ Unposted(x)
    BY <1>1, <1>4, <1>5 DEF Unposted
  <2>2. QED
    BY <1>1, <2>1 DEF PipeInv, UnpostedOutside
<1>6. QED
  BY <1>1, <1>5, PipeStays

\* The copy takes over a request that is not posted yet.
LEMMA CopyPipe ==
  ASSUME HttpConstants, ClientsInv, PipeInv, NEW c \in Clients, NEW d \in Clients, c # d,
         Http!MayBeCopied(d), Http!Copy(c, d), clients' = clients \cup {c}, UNCHANGED Http!pipe
  PROVE  PipeInv' /\ UNCHANGED Http!Pipe!vars
<1>1. obj \in [Clients -> Objects] /\ frame \in [Items -> HttpFrames] /\ clients \in SUBSET Clients
  BY HttpTypes DEF ClientsInv
<1>2. /\ obj' = [obj EXCEPT ![c] = obj[d]] /\ copied' = (copied \ {c}) \cup {d}
      /\ frame' = [f \in Items |-> IF f \in {obj[d].dnsFrame, obj[d].request}
                                     THEN [frame[f] EXCEPT !.ctx = c] ELSE frame[f]]
  BY DEF Http!Copy
<1>3. /\ d \in clients \ copied
      /\ \A f \in {obj[d].dnsFrame, obj[d].request} \ {NULL} : frame[f].ctx = d
  BY DEF Http!MayBeCopied
<1>4. obj'[c] = obj[d] /\ \A x \in Clients \ {c} : obj'[x] = obj[x]
  BY <1>1, <1>2
<1>5. ASSUME NEW f \in Items
      PROVE  /\ frame'[f].use = frame[f].use
             /\ f = obj[d].request => frame'[f].ctx = c
             /\ frame[f].ctx # d => frame'[f] = frame[f]
  <2>1. PICK h \in HttpFrames : h = frame[f]
    BY <1>1
  <2>2. f # NULL
    BY DEF HttpConstants
  <2>3. CASE f \in {obj[d].dnsFrame, obj[d].request}
    <3>1. frame'[f] = [h EXCEPT !.ctx = c]
      BY <1>2, <2>1, <2>3
    <3>2. frame[f].ctx = d
      BY <1>3, <2>2, <2>3
    <3>3. frame'[f].ctx = c /\ frame'[f].use = h.use
      BY <3>1 DEF HttpFrames
    <3>4. QED
      BY <2>1, <3>2, <3>3
  <2>4. CASE f \notin {obj[d].dnsFrame, obj[d].request}
    BY <1>2, <2>4
  <2>5. QED
    BY <2>3, <2>4
<1>6. ASSUME NEW x \in clients' \ copied', Unposted(x)'
      PROVE  /\ frame'[obj'[x].request].ctx = x /\ frame'[obj'[x].request].use = "http"
             /\ ~InPipe(obj'[x].request)
  <2>1. CASE x = c
    <3>1. Unposted(d)
      BY <1>4, <1>6, <2>1 DEF Unposted
    <3>2. PICK f \in Items : f = obj[d].request
      BY <1>1, <3>1 DEF Unposted, Objects
    <3>3. frame[f].use = "http" /\ ~InPipe(f)
      BY <1>3, <3>1, <3>2 DEF PipeInv, UnpostedOutside
    <3>4. obj'[x].request = f
      BY <1>4, <2>1, <3>2
    <3>5. QED
      BY <1>5, <2>1, <3>2, <3>3, <3>4
  <2>2. CASE x # c
    <3>1. x \in clients \ copied /\ x # d /\ obj'[x] = obj[x]
      BY <1>1, <1>2, <1>4, <1>6, <2>2
    <3>2. Unposted(x)
      BY <1>6, <3>1 DEF Unposted
    <3>3. PICK f \in Items : f = obj[x].request
      BY <1>1, <3>1, <3>2 DEF Unposted, Objects
    <3>4. frame[f].ctx = x /\ frame[f].use = "http" /\ ~InPipe(f)
      BY <3>1, <3>2, <3>3 DEF PipeInv, UnpostedOutside
    <3>5. QED
      BY <1>5, <3>1, <3>3, <3>4
  <2>3. QED
    BY <2>1, <2>2
<1>7. QED
  BY <1>5, <1>6, PipeStays

LEMMA PostPipe ==
  ASSUME HttpConstants, ClientsInv, PipeInv, NEW c \in Clients, Http!Post(c)
  PROVE  PipeInv' /\ (Http!Pipe!Next \/ UNCHANGED Http!Pipe!vars)
<1>1. /\ obj \in [Clients -> Objects] /\ clients \in SUBSET Clients
  BY HttpTypes DEF ClientsInv
<1>2. /\ c \in clients \ copied /\ obj[c].posts /\ ~obj[c].shouldPost
      /\ clients' = clients /\ copied' = copied /\ frame' = frame
  BY DEF Http!Post, Http!history
<1>3. PICK o \in Objects : o = obj[c]
  BY <1>1
<1>4. obj'[c].shouldPost /\ \A x \in Clients \ {c} : obj'[x] = obj[x]
  <2>1. PICK p : obj' = [obj EXCEPT ![c] = p] /\ p.shouldPost
    <3>1. CASE o.request # NULL
      <4>1. obj' = [obj EXCEPT ![c] = [o EXCEPT !.shouldPost = TRUE, !.state = "inProgress"]]
        BY <1>1, <1>3, <3>1 DEF Http!Post
      <4>2. [o EXCEPT !.shouldPost = TRUE, !.state = "inProgress"].shouldPost
        BY DEF Objects
      <4>3. QED
        BY <4>1, <4>2
    <3>2. CASE o.request = NULL
      <4>1. obj' = [obj EXCEPT ![c] = [o EXCEPT !.shouldPost = TRUE]]
        BY <1>1, <1>3, <3>2 DEF Http!Post
      <4>2. [o EXCEPT !.shouldPost = TRUE].shouldPost
        BY DEF Objects
      <4>3. QED
        BY <4>1, <4>2
    <3>3. QED
      BY <3>1, <3>2
  <2>2. QED
    BY <1>1, <2>1
<1>5. ASSUME NEW x \in clients' \ copied', Unposted(x)'
      PROVE  /\ x # c /\ frame'[obj'[x].request].ctx = x
             /\ frame'[obj'[x].request].use = "http" /\ ~InPipe(obj'[x].request)
  <2>1. x # c
    BY <1>4, <1>5 DEF Unposted
  <2>2. x \in clients \ copied /\ obj'[x] = obj[x]
    BY <1>1, <1>2, <1>4, <1>5, <2>1
  <2>3. Unposted(x)
    BY <1>5, <2>2 DEF Unposted
  <2>4. QED
    BY <1>2, <2>1, <2>2, <2>3 DEF PipeInv, UnpostedOutside
<1>6. CASE obj[c].request # NULL
  <2>1. PICK f \in Items : f = obj[c].request
    BY <1>1, <1>6 DEF Objects
  <2>2. frame[f].ctx = c /\ frame[f].use = "http" /\ ~InPipe(f)
    BY <1>2, <1>6, <2>1 DEF PipeInv, UnpostedOutside, Unposted
  <2>3. waiting' = Append(waiting, f) /\ pending' = pending
    BY <1>6, <2>1 DEF Http!Post, Http!CommitAsync
  <2>4. ASSUME NEW x \in clients' \ copied', Unposted(x)'
        PROVE  /\ frame'[obj'[x].request].ctx = x /\ frame'[obj'[x].request].use = "http"
               /\ ~InPipe(obj'[x].request) /\ obj'[x].request # f
    BY <1>2, <1>5, <2>2, <2>4
  <2>5. frame'[f].use # "free" /\ \A g \in Items : InPipe(g) => frame'[g].use = frame[g].use
    BY <1>2, <2>2
  <2>6. QED
    BY <2>2, <2>3, <2>4, <2>5, PipeGrows
<1>7. CASE obj[c].request = NULL
  <2>1. UNCHANGED Http!pipe
    BY <1>7 DEF Http!Post
  <2>2. \A g \in Items : InPipe(g) => frame'[g].use = frame[g].use
    BY <1>2
  <2>3. QED
    BY <1>5, <2>1, <2>2, PipeStays
<1>8. QED
  BY <1>6, <1>7

LEMMA DestroyPipe ==
  ASSUME HttpConstants, ClientsInv, PipeInv, NEW c \in Clients, Http!Destroy(c)
  PROVE  PipeInv' /\ (Http!Pipe!Next \/ UNCHANGED Http!Pipe!vars)
<1>1. /\ obj \in [Clients -> Objects] /\ clients \in SUBSET Clients
      /\ frame \in [Items -> HttpFrames] /\ RestTypeOK
  BY HttpTypes DEF ClientsInv
<1>2. PICK o \in Objects : o = obj[c]
  BY <1>1
<1>3. /\ IF o.dnsFrame # NULL /\ frame[o.dnsFrame].ctx = c
           THEN Http!ResolverDestroyed(o.dnsFrame) ELSE UNCHANGED <<frame, Http!pipe>>
      /\ clients' = clients \ {c} /\ copied' = copied \ {c}
      /\ obj' = [obj EXCEPT ![c] = Http!Blank]
  BY <1>2 DEF Http!Destroy
\* The requests of the other clients stay.
<1>4. ASSUME NEW x \in clients' \ copied', Unposted(x)'
      PROVE  /\ obj'[x].request = obj[x].request /\ obj[x].request \in Items
             /\ frame[obj[x].request].ctx = x /\ x # c
             /\ frame[obj[x].request].use = "http" /\ ~InPipe(obj[x].request)
  <2>1. x \in clients \ copied /\ x # c /\ obj'[x] = obj[x]
    BY <1>1, <1>3
  <2>2. Unposted(x)
    BY <1>4, <2>1 DEF Unposted
  <2>3. obj[x].request \in Items
    BY <1>1, <2>1, <2>2 DEF Unposted, Objects
  <2>4. QED
    BY <2>1, <2>2, <2>3 DEF PipeInv, UnpostedOutside
<1>5. CASE ~(o.dnsFrame # NULL /\ frame[o.dnsFrame].ctx = c)
  <2>1. frame' = frame /\ UNCHANGED Http!pipe
    BY <1>3, <1>5
  <2>2. QED
    BY <1>4, <2>1, PipeStays
<1>6. CASE o.dnsFrame # NULL /\ frame[o.dnsFrame].ctx = c
  <2>1. PICK f \in Items : f = o.dnsFrame
    BY <1>2, <1>6 DEF Objects
  <2>2. Http!ResolverDestroyed(f) /\ frame[f].ctx = c
    BY <1>3, <1>6, <2>1
  <2>3. PICK h \in HttpFrames : h = frame[f]
    BY <1>1
  <2>4. CASE Http!Pipe!IsWaiting(f)
    <3>1. Http!Pipe!Withdraw(f) /\ frame' = [frame EXCEPT ![f] = Http!Free]
      BY <2>2, <2>4 DEF Http!ResolverDestroyed
    <3>2. FramesApart' /\ \A g \in Items : InPipe(g)' <=> InPipe(g) /\ g # f
      BY <1>1, <3>1, FrameIsWithdrawn DEF RestTypeOK, PipeInv
    <3>3. \A g \in Items \ {f} : frame'[g] = frame[g]
      BY <1>1, <3>1
    <3>4. InPipeUsed'
      BY <3>2, <3>3 DEF PipeInv, InPipeUsed
    <3>5. UnpostedOutside'
      <4> SUFFICES ASSUME NEW x \in clients' \ copied', Unposted(x)'
                   PROVE  /\ frame'[obj'[x].request].ctx = x
                          /\ frame'[obj'[x].request].use = "http"
                          /\ ~InPipe(obj[x].request)'
        BY DEF UnpostedOutside
      <4>1. PICK g \in Items : g = obj[x].request /\ g = obj'[x].request
        BY <1>4
      <4>2. frame[g].ctx = x /\ x # c /\ frame[g].use = "http" /\ ~InPipe(g)
        BY <1>4, <4>1
      <4>3. frame'[g] = frame[g] /\ ~InPipe(g)'
        BY <2>2, <3>2, <3>3, <4>2
      <4>4. QED
        BY <4>1, <4>2, <4>3 DEF InPipe
    <3>6. QED
      BY <3>1, <3>2, <3>4, <3>5 DEF PipeInv, Http!Pipe!Next
  <2>5. CASE ~Http!Pipe!IsWaiting(f)
    <3>1. PICK g : g = [h EXCEPT !.ctx = NULL]
      OBVIOUS
    <3>2. g.use = h.use
      BY <3>1 DEF HttpFrames
    <3>3. UNCHANGED Http!pipe /\ frame' = [frame EXCEPT ![f] = g]
      BY <1>1, <2>2, <2>3, <2>5, <3>1 DEF Http!ResolverDestroyed
    <3>4. \A x \in Items : frame'[x].use = frame[x].use /\ (x # f => frame'[x] = frame[x])
      BY <1>1, <2>3, <3>2, <3>3
    <3>5. ASSUME NEW x \in clients' \ copied', Unposted(x)'
          PROVE  /\ frame'[obj'[x].request].ctx = x
                 /\ frame'[obj'[x].request].use = "http"
                 /\ ~InPipe(obj'[x].request)
      <4>1. PICK k \in Items : k = obj[x].request /\ k = obj'[x].request
        BY <1>4, <3>5
      <4>2. frame[k].ctx = x /\ x # c /\ frame[k].use = "http" /\ ~InPipe(k)
        BY <1>4, <3>5, <4>1
      <4>3. frame'[k] = frame[k]
        BY <2>2, <3>4, <4>2
      <4>4. QED
        BY <4>1, <4>2, <4>3
    <3>6. QED
      BY <3>3, <3>4, <3>5, PipeStays
  <2>6. QED
    BY <2>4, <2>5
<1>7. QED
  BY <1>5, <1>6

\* Steps that leave the clients' requests alone.
LEMMA RequestsKept ==
  ASSUME HttpConstants, ClientsInv, PipeInv, clients' = clients, copied' = copied,
         \A x \in Clients : SamePost(obj[x], obj'[x]), NEW x \in clients' \ copied', Unposted(x)'
  PROVE  /\ obj'[x].request = obj[x].request /\ obj[x].request \in Items
         /\ frame[obj[x].request].ctx = x
         /\ frame[obj[x].request].use = "http" /\ ~InPipe(obj[x].request)
<1>1. obj \in [Clients -> Objects] /\ clients \in SUBSET Clients
  BY HttpTypes DEF ClientsInv
<1>2. x \in clients \ copied /\ SamePost(obj[x], obj'[x])
  BY <1>1
<1>3. Unposted(x)
  BY <1>2 DEF Unposted, SamePost
<1>4. obj[x].request \in Items
  BY <1>1, <1>2, <1>3 DEF Unposted, Objects
<1>5. QED
  BY <1>2, <1>3, <1>4 DEF PipeInv, UnpostedOutside, SamePost

\* A frame that leaves the pipe is freed.
LEMMA FrameIsFreed ==
  ASSUME HttpConstants, ClientsInv, PipeInv, clients' = clients, copied' = copied,
         \A x \in Clients : SamePost(obj[x], obj'[x]),
         NEW f \in Items, InPipe(f), frame' = [frame EXCEPT ![f] = Http!Free],
         FramesApart', \A g \in Items : InPipe(g)' <=> InPipe(g) /\ g # f
  PROVE  PipeInv'
<1>1. \A g \in Items \ {f} : frame'[g] = frame[g]
  BY HttpTypes DEF ClientsInv
<1>2. InPipeUsed'
  BY <1>1 DEF PipeInv, InPipeUsed
<1>3. UnpostedOutside'
  <2> SUFFICES ASSUME NEW x \in clients' \ copied', Unposted(x)'
               PROVE  /\ frame'[obj'[x].request].ctx = x
                      /\ frame'[obj'[x].request].use = "http"
                      /\ ~InPipe(obj[x].request)'
    BY DEF UnpostedOutside
  <2>1. PICK g \in Items : g = obj[x].request /\ g = obj'[x].request
    BY RequestsKept
  <2>2. frame[g].ctx = x /\ frame[g].use = "http" /\ ~InPipe(g)
    BY <2>1, RequestsKept
  <2>3. frame'[g] = frame[g] /\ ~InPipe(g)'
    BY <1>1, <2>2
  <2>4. QED
    BY <2>1, <2>2, <2>3 DEF InPipe
<1>4. QED
  BY <1>2, <1>3 DEF PipeInv

\* Its failure leaves the client's request alone.
LEMMA FailedKeepsRequests ==
  ASSUME HttpConstants, ClientsInv, NEW c, c \in Clients \cup {NULL}, Http!Failed(c)
  PROVE  \A x \in Clients : SamePost(obj[x], obj'[x])
<1>1. obj \in [Clients -> Objects]
  BY HttpTypes DEF ClientsInv
<1>2. CASE c = NULL
  BY <1>2 DEF Http!Failed, SamePost
<1>3. CASE c # NULL
  <2>1. c \in Clients /\ obj' = [obj EXCEPT ![c].state = "error", ![c].dnsFrame = NULL]
    BY <1>3 DEF Http!Failed
  <2>2. PICK o \in Objects : o = obj[c]
    BY <1>1, <2>1
  <2>3. PICK p : p = [o EXCEPT !.state = "error", !.dnsFrame = NULL]
    OBVIOUS
  <2>4. SamePost(o, p)
    BY <2>3 DEF Objects, SamePost
  <2>5. obj' = [obj EXCEPT ![c] = p]
    BY <1>1, <2>1, <2>2, <2>3
  <2>6. QED
    BY <1>1, <2>2, <2>4, <2>5 DEF SamePost
<1>4. QED
  BY <1>2, <1>3

\* Nothing happens to the frames and the clients' requests.
LEMMA NothingInPipe ==
  ASSUME HttpConstants, ClientsInv, PipeInv, clients' = clients, copied' = copied,
         \A x \in Clients : SamePost(obj[x], obj'[x]),
         frame' = frame, UNCHANGED Http!pipe
  PROVE  PipeInv' /\ UNCHANGED Http!Pipe!vars
<1>1. ASSUME NEW x \in clients' \ copied', Unposted(x)'
      PROVE  /\ frame'[obj'[x].request].ctx = x /\ frame'[obj'[x].request].use = "http"
             /\ ~InPipe(obj'[x].request)
  BY <1>1, RequestsKept
<1>2. QED
  BY <1>1, PipeStays

LEMMA SendPipe ==
  ASSUME HttpConstants, ClientsInv, PipeInv, Http!Send
  PROVE  PipeInv' /\ Http!Pipe!Next
<1>1. Http!Pipe!Send /\ UNCHANGED <<clients, obj, frame, copied>>
  BY DEF Http!Send, Http!history
<1>2. waiting \in Seq(Items) /\ FramesApart
  BY HttpTypes DEF ClientsInv, RestTypeOK, PipeInv
<1>3. FramesApart' /\ \A g \in Items : InPipe(g)' <=> InPipe(g)
  BY <1>1, <1>2, FrameIsSent
<1>4. InPipeUsed'
  BY <1>1, <1>3 DEF PipeInv, InPipeUsed
<1>5. UnpostedOutside'
  <2> SUFFICES ASSUME NEW x \in clients' \ copied', Unposted(x)'
               PROVE  /\ frame'[obj'[x].request].ctx = x
                      /\ frame'[obj'[x].request].use = "http"
                      /\ ~InPipe(obj[x].request)'
    BY <1>1 DEF UnpostedOutside
  <2>1. \A y \in Clients : SamePost(obj[y], obj'[y])
    BY <1>1 DEF SamePost
  <2>2. PICK g \in Items : g = obj[x].request
    BY <1>1, <2>1, RequestsKept
  <2>3. frame[g].ctx = x /\ frame[g].use = "http" /\ ~InPipe(g)
    BY <1>1, <2>1, <2>2, RequestsKept
  <2>4. ~InPipe(g)'
    BY <1>3, <2>3
  <2>5. QED
    BY <1>1, <2>2, <2>3, <2>4 DEF InPipe
<1>6. QED
  BY <1>1, <1>3, <1>4, <1>5 DEF PipeInv, Http!Pipe!Next

LEMMA RefusePipe ==
  ASSUME HttpConstants, ClientsInv, PipeInv, Http!Refuse
  PROVE  PipeInv' /\ Http!Pipe!Next
<1>1. /\ Http!Pipe!Refuse /\ Http!FrameFails(Head(waiting)) /\ clients' = clients /\ copied' = copied
  BY DEF Http!Refuse
<1>2. waiting \in Seq(Items) /\ FramesApart /\ frame \in [Items -> HttpFrames]
  BY HttpTypes DEF ClientsInv, RestTypeOK, PipeInv
<1>3. PICK f : f = Head(waiting)
  OBVIOUS
<1>4. f \in Items /\ InPipe(f) /\ FramesApart' /\ \A g \in Items : InPipe(g)' <=> InPipe(g) /\ g # f
  BY <1>1, <1>2, <1>3, FrameIsRefused
<1>5. Http!Failed(frame[f].ctx) /\ frame' = [frame EXCEPT ![f] = Http!Free]
  BY <1>1, <1>3 DEF Http!FrameFails
<1>6. frame[f].ctx \in Clients \cup {NULL}
  BY <1>2, <1>4 DEF HttpFrames
<1>7. \A x \in Clients : SamePost(obj[x], obj'[x])
  BY <1>5, <1>6, FailedKeepsRequests
<1>8. PipeInv'
  BY <1>1, <1>4, <1>5, <1>7, FrameIsFreed
<1>9. QED
  BY <1>1, <1>8 DEF Http!Pipe!Next

\* The request that is pending leaves the pipe.
LEMMA PendingLeaves ==
  ASSUME HttpConstants, ClientsInv, PipeInv, Http!Pipe!Complete,
         frame' = [frame EXCEPT ![pending] = Http!Free],
         clients' = clients, copied' = copied, \A x \in Clients : SamePost(obj[x], obj'[x])
  PROVE  PipeInv' /\ Http!Pipe!Next
<1>1. /\ waiting \in Seq(Items) /\ FramesApart /\ pending \in Items \cup {NULL}
  BY HttpTypes DEF ClientsInv, RestTypeOK, PipeInv
<1>2. pending \in Items /\ pending' = NULL /\ waiting' = waiting
  BY <1>1 DEF Http!Pipe!Complete
<1>3. InPipe(pending) /\ FramesApart' /\ \A g \in Items : InPipe(g)' <=> InPipe(g) /\ g # pending
  BY <1>1, <1>2, FrameIsAnswered DEF InPipe
<1>4. PipeInv'
  BY <1>2, <1>3, FrameIsFreed
<1>5. QED
  BY <1>4 DEF Http!Pipe!Next

LEMMA AnswerFailsPipe ==
  ASSUME HttpConstants, ClientsInv, PipeInv, Http!AnswerFails \/ Http!ResolvedForNobody
  PROVE  PipeInv' /\ Http!Pipe!Next
<1>1. /\ Http!Pipe!Complete /\ frame' = [frame EXCEPT ![pending] = Http!Free]
      /\ clients' = clients /\ copied' = copied
      /\ (Http!Failed(frame[pending].ctx) \/ obj' = obj)
  BY DEF Http!AnswerFails, Http!ResolvedForNobody, Http!FrameFails, Http!history
<1>2. pending \in Items /\ frame \in [Items -> HttpFrames]
  BY <1>1, HttpTypes DEF ClientsInv, RestTypeOK, Http!Pipe!Complete
<1>3. frame[pending].ctx \in Clients \cup {NULL}
  BY <1>2 DEF HttpFrames
<1>4. \A x \in Clients : SamePost(obj[x], obj'[x])
  <2>1. CASE Http!Failed(frame[pending].ctx)
    BY <1>3, <2>1, FailedKeepsRequests
  <2>2. CASE obj' = obj
    BY <2>2 DEF SamePost
  <2>3. QED
    BY <1>1, <2>1, <2>2
<1>5. QED
  BY <1>1, <1>4, PendingLeaves

\* With the address, the client's request takes the place of its resolver's,
\* or waits for post().
LEMMA ResolvedPipe ==
  ASSUME HttpConstants, ClientsInv, PipeInv, NEW h \in Items, Http!Resolved(h)
  PROVE  PipeInv' /\ Http!Pipe!Next
<1>1. /\ pending # NULL /\ frame[pending].use = "dns" /\ frame[pending].ctx # NULL
      /\ Http!Unused(h) /\ pending' = NULL /\ clients' = clients /\ copied' = copied
  BY DEF Http!Resolved, Http!history
<1>2. /\ obj \in [Clients -> Objects] /\ clients \in SUBSET Clients
      /\ frame \in [Items -> HttpFrames] /\ waiting \in Seq(Items)
      /\ pending \in Items \cup {NULL} /\ FramesApart
  BY HttpTypes DEF ClientsInv, RestTypeOK, PipeInv
<1>3. PICK f \in Items : f = pending
  BY <1>1, <1>2
<1>4. PICK c \in Clients : c = frame[f].ctx /\ c \in clients
  BY <1>1, <1>3, OneFrame, SMTT(30)
<1>5. PICK address \in BOOLEAN :
        /\ frame' = [frame EXCEPT ![f] = Http!Free,
                       ![h] = [Http!Free EXCEPT !.use = "http", !.ctx = c, !.address = address]]
        /\ obj' = [obj EXCEPT ![c].dnsFrame = NULL, ![c].request = h,
                              ![c].state = IF Http!CommitNow(c) THEN "inProgress" ELSE @]
        /\ IF Http!CommitNow(c) THEN waiting' = Append(waiting, h) /\ Http!Event(<<Http!Kick>>)
                                ELSE UNCHANGED waiting /\ Http!Event(<<>>)
  BY <1>3, <1>4 DEF Http!Resolved
<1>6. /\ ~InPipe(h) /\ \A x \in clients : obj[x].request # h
  BY <1>1, UnusedOutside
<1>7. h # f
  BY <1>3, <1>6 DEF InPipe
<1>8. /\ frame'[h].use = "http" /\ frame'[h].ctx = c
      /\ \A g \in Items \ {f, h} : frame'[g] = frame[g]
  <2>1. PICK g : g = [Http!Free EXCEPT !.use = "http", !.ctx = c, !.address = address]
    OBVIOUS
  <2>2. g.use = "http" /\ g.ctx = c
    BY <2>1 DEF Http!Free
  <2>3. frame' = [frame EXCEPT ![f] = Http!Free, ![h] = g]
    BY <1>5, <2>1
  <2>4. QED
    BY <1>2, <2>2, <2>3
<1>9. /\ obj'[c].request = h /\ obj'[c].posts = obj[c].posts /\ obj'[c].shouldPost = obj[c].shouldPost
      /\ \A x \in Clients \ {c} : obj'[x] = obj[x]
  <2>1. PICK o \in Objects : o = obj[c]
    BY <1>2
  <2>2. PICK s : s = IF Http!CommitNow(c) THEN "inProgress" ELSE o.state
    OBVIOUS
  <2>3. PICK p : p = [o EXCEPT !.dnsFrame = NULL, !.request = h, !.state = s]
    OBVIOUS
  <2>4. p.request = h /\ p.posts = o.posts /\ p.shouldPost = o.shouldPost
    BY <2>3 DEF Objects
  <2>5. obj' = [obj EXCEPT ![c] = p]
    BY <1>2, <1>5, <2>1, <2>2, <2>3
  <2>6. QED
    BY <1>2, <2>1, <2>4, <2>5
<1>10. Http!CommitNow(c) <=> ~(obj[c].posts /\ ~obj[c].shouldPost)
  <2>1. obj[c].posts \in BOOLEAN /\ obj[c].shouldPost \in BOOLEAN
    BY <1>2 DEF Objects
  <2>2. QED
    BY <2>1 DEF Http!CommitNow
\* The requests of the other clients stay.
<1>11. ASSUME NEW x \in clients' \ copied', Unposted(x)', x # c
       PROVE  /\ obj'[x].request = obj[x].request /\ obj[x].request \in Items \ {f, h}
              /\ frame'[obj'[x].request].ctx = x /\ frame'[obj'[x].request].use = "http"
              /\ ~InPipe(obj'[x].request)
  <2>1. x \in clients \ copied /\ obj'[x] = obj[x]
    BY <1>1, <1>2, <1>9, <1>11
  <2>2. Unposted(x)
    BY <1>11, <2>1 DEF Unposted
  <2>3. PICK r \in Items : r = obj[x].request
    BY <1>2, <2>1, <2>2 DEF Unposted, Objects
  <2>4. frame[r].ctx = x /\ frame[r].use = "http" /\ ~InPipe(r)
    BY <2>1, <2>2, <2>3 DEF PipeInv, UnpostedOutside
  <2>5. r # f /\ r # h
    BY <1>3, <1>6, <2>1, <2>3, <2>4 DEF InPipe
  <2>6. QED
    BY <1>8, <2>1, <2>3, <2>4, <2>5
<1>12. CASE Http!CommitNow(c)
  <2>1. waiting' = Append(waiting, h)
    BY <1>5, <1>12
  <2>2. Once(waiting') /\ Entries(waiting') = Entries(waiting) \cup {h}
    BY <1>2, <1>6, <2>1, AppendEntries DEF FramesApart, InPipe
  <2>3. NULL \notin Items /\ Entries(waiting) \subseteq Items
    BY <1>2 DEF HttpConstants, Entries
  <2>4. FramesApart'
    BY <1>1, <2>2, <2>3 DEF FramesApart
  <2>5. \A g \in Items : InPipe(g)' <=> (InPipe(g) /\ g # f) \/ g = h
    BY <1>1, <1>2, <1>3, <2>2, <2>3 DEF InPipe, FramesApart
  <2>6. InPipeUsed'
    BY <1>8, <2>5 DEF PipeInv, InPipeUsed
  <2>7. UnpostedOutside'
    <3> SUFFICES ASSUME NEW x \in clients' \ copied', Unposted(x)'
                 PROVE  /\ frame'[obj'[x].request].ctx = x
                        /\ frame'[obj'[x].request].use = "http"
                        /\ obj'[x].request \notin Entries(waiting') /\ obj'[x].request # pending'
      BY DEF UnpostedOutside, InPipe
    <3>1. x # c
      BY <1>9, <1>10, <1>12 DEF Unposted
    <3>2. QED
      BY <1>1, <1>11, <2>2, <2>3, <3>1 DEF InPipe
  <2>8. Http!Pipe!CompleteAndCommit(h)
    BY <1>1, <1>6, <2>1, IsWaitingEntries DEF Http!Pipe!CompleteAndCommit, InPipe
  <2>9. QED
    BY <2>4, <2>6, <2>7, <2>8 DEF PipeInv, Http!Pipe!Next
<1>13. CASE ~Http!CommitNow(c)
  <2>1. waiting' = waiting
    BY <1>5, <1>13
  <2>2. Http!Pipe!Complete /\ FramesApart' /\ \A g \in Items : InPipe(g)' <=> InPipe(g) /\ g # f
    BY <1>1, <1>2, <1>3, <2>1, FrameIsAnswered
  <2>3. InPipeUsed'
    BY <1>6, <1>8, <2>2 DEF PipeInv, InPipeUsed
  <2>4. UnpostedOutside'
    <3> SUFFICES ASSUME NEW x \in clients' \ copied', Unposted(x)'
                 PROVE  /\ frame'[obj'[x].request].ctx = x
                        /\ frame'[obj'[x].request].use = "http"
                        /\ obj'[x].request \notin Entries(waiting') /\ obj'[x].request # pending'
      BY DEF UnpostedOutside, InPipe
    <3>1. NULL \notin Items
      BY DEF HttpConstants
    <3>2. CASE x = c
      BY <1>1, <1>6, <1>8, <1>9, <2>1, <3>1, <3>2 DEF InPipe
    <3>3. CASE x # c
      BY <1>1, <1>11, <2>1, <3>1, <3>3 DEF InPipe
    <3>4. QED
      BY <3>2, <3>3
  <2>5. QED
    BY <2>2, <2>3, <2>4 DEF PipeInv, Http!Pipe!Next
<1>14. QED
  BY <1>12, <1>13

LEMMA ResponseDataPipe ==
  ASSUME HttpConstants, ClientsInv, PipeInv, Http!ResponseData
  PROVE  PipeInv' /\ (Http!Pipe!Next \/ UNCHANGED Http!Pipe!vars)
<1>1. pending # NULL /\ frame[pending].use = "http" /\ clients' = clients /\ copied' = copied
  BY DEF Http!ResponseData, Http!history
<1>2. PICK last \in BOOLEAN :
        /\ Http!HttpData(frame[pending].ctx, [n |-> frame[pending].n + 1, last |-> last])
        /\ IF last
             THEN Http!Pipe!Complete /\ frame' = [frame EXCEPT ![pending] = Http!Free]
             ELSE UNCHANGED Http!pipe /\ frame' = [frame EXCEPT ![pending].n = @ + 1]
  BY DEF Http!ResponseData
<1>3. obj \in [Clients -> Objects] /\ frame \in [Items -> HttpFrames] /\ pending \in Items
  BY <1>1, HttpTypes DEF ClientsInv, RestTypeOK
<1>4. PICK c \in Clients : c = frame[pending].ctx
  BY <1>1, <1>3, OneFrame DEF ClientsInv, FramesServed
<1>5. \A x \in Clients : SamePost(obj[x], obj'[x])
  <2>1. PICK chunk : obj' = [obj EXCEPT ![c].respData = chunk]
    BY <1>2, <1>4 DEF Http!HttpData
  <2>2. PICK o \in Objects : o = obj[c]
    BY <1>3
  <2>3. PICK p : p = [o EXCEPT !.respData = chunk]
    OBVIOUS
  <2>4. SamePost(o, p)
    BY <2>3 DEF Objects, SamePost
  <2>5. obj' = [obj EXCEPT ![c] = p]
    BY <1>3, <2>1, <2>2, <2>3
  <2>6. QED
    BY <1>3, <2>2, <2>4, <2>5 DEF SamePost
<1>6. CASE last
  BY <1>1, <1>2, <1>5, <1>6, PendingLeaves
<1>7. CASE ~last
  <2>1. PICK h \in HttpFrames : h = frame[pending]
    BY <1>3
  <2>2. PICK g : g = [h EXCEPT !.n = h.n + 1]
    OBVIOUS
  <2>3. g.use = h.use /\ g.ctx = h.ctx
    BY <2>2 DEF HttpFrames
  <2>4. UNCHANGED Http!pipe /\ frame' = [frame EXCEPT ![pending] = g]
    BY <1>2, <1>3, <1>7, <2>1, <2>2
  <2>5. \A f \in Items : frame'[f].use = frame[f].use /\ frame'[f].ctx = frame[f].ctx
    BY <1>3, <2>1, <2>3, <2>4
  <2>6. ASSUME NEW x \in clients' \ copied', Unposted(x)'
        PROVE  /\ frame'[obj'[x].request].ctx = x /\ frame'[obj'[x].request].use = "http"
               /\ ~InPipe(obj'[x].request)
    <3>1. PICK f \in Items : f = obj[x].request /\ f = obj'[x].request
      BY <1>1, <1>5, <2>6, RequestsKept
    <3>2. frame[f].ctx = x /\ frame[f].use = "http" /\ ~InPipe(f)
      BY <1>1, <1>5, <2>6, <3>1, RequestsKept
    <3>3. QED
      BY <2>5, <3>1, <3>2
  <2>7. QED
    BY <2>4, <2>5, <2>6, PipeStays
<1>8. QED
  BY <1>6, <1>7

LEMMA RunCallPipe ==
  ASSUME HttpConstants, ClientsInv, PipeInv, Http!RunCall
  PROVE  PipeInv' /\ UNCHANGED Http!Pipe!vars
<1>1. /\ calls # <<>> /\ Head(calls) # Http!Kick /\ UNCHANGED <<clients, frame, Http!pipe, copied>>
      /\ IF Head(calls).what = "data"
           THEN Http!TriggerDataReady(Head(calls).to)
           ELSE Http!Failed(Head(calls).to) /\ UNCHANGED delivered
  BY DEF Http!RunCall
<1>2. obj \in [Clients -> Objects] /\ clients \in SUBSET Clients
  BY HttpTypes DEF ClientsInv
<1>3. Head(calls).to \in Clients
  <2>1. Sound(Head(calls))
    BY <1>1, CallIsMade DEF ClientsInv, CallsSound
  <2>2. QED
    BY <1>1, <1>2, <2>1 DEF Sound
<1>4. PICK c \in Clients : c = Head(calls).to
  BY <1>3
<1>5. \A x \in Clients : SamePost(obj[x], obj'[x])
  <2>1. CASE Head(calls).what = "data"
    <3>1. PICK o \in Objects : o = obj[c]
      BY <1>2
    <3>2. PICK p : p = [o EXCEPT !.state = "completed"]
      OBVIOUS
    <3>3. SamePost(o, p) /\ SamePost(o, o)
      BY <3>2 DEF Objects, SamePost
    <3>4. obj' = [obj EXCEPT ![c] = p] \/ obj' = obj
      BY <1>1, <1>2, <1>4, <2>1, <3>1, <3>2 DEF Http!TriggerDataReady
    <3>5. QED
      BY <1>2, <3>1, <3>3, <3>4 DEF SamePost
  <2>2. CASE Head(calls).what # "data"
    BY <1>1, <1>3, <2>2, FailedKeepsRequests
  <2>3. QED
    BY <2>1, <2>2
<1>6. QED
  BY <1>1, <1>5, NothingInPipe

LEMMA IdlePipe ==
  ASSUME HttpConstants, ClientsInv, PipeInv,
         Http!NoInput \/ Http!NothingToSend \/ UNCHANGED Http!vars
  PROVE  PipeInv' /\ UNCHANGED Http!Pipe!vars
<1>1. UNCHANGED <<clients, obj, frame, Http!pipe, copied>>
  BY DEF Http!NoInput, Http!NothingToSend, Http!vars, Http!history
<1>2. \A x \in Clients : SamePost(obj[x], obj'[x])
  BY <1>1 DEF SamePost
<1>3. QED
  BY <1>1, <1>2, NothingInPipe

LEMMA PipeNext ==
  ASSUME HttpConstants, ClientsInv, PipeInv, [Http!Next]_Http!vars
  PROVE  PipeInv' /\ [Http!Pipe!Next]_Http!Pipe!vars
<1>1. CASE Http!ClientCode
  <2>1. CASE \E c \in Clients, f \in Items : Http!NewForDomain(c, f) \/ Http!NewForAddress(c, f)
    BY <2>1, NewForDomainPipe, NewForAddressPipe
  <2>2. CASE \E c \in Clients, t \in Timers : Http!NewOffline(c, t) \/ Http!NewForBadUrl(c, t)
    BY <2>2, NewWithoutFramePipe
  <2>3. ASSUME NEW c \in Clients, NEW d \in Clients, Http!CopyConstruct(c, d) \/ Http!Assign(c, d)
        PROVE  PipeInv' /\ UNCHANGED Http!Pipe!vars
    <3>1. /\ c # d /\ Http!MayBeCopied(d) /\ Http!Copy(c, d) /\ clients' = clients \cup {c}
          /\ UNCHANGED Http!pipe
      BY <2>3 DEF Http!CopyConstruct, Http!Assign, Http!MayBeCopied
    <3>2. QED
      BY <3>1, CopyPipe
  <2>4. CASE \E c \in Clients : Http!Post(c) \/ Http!Destroy(c)
    BY <2>4, PostPipe, DestroyPipe
  <2>5. QED
    BY <1>1, <2>1, <2>2, <2>3, <2>4 DEF Http!ClientCode
<1>2. CASE Http!NoInput \/ Http!NothingToSend \/ UNCHANGED Http!vars
  BY <1>2, IdlePipe
<1>3. CASE Http!Send
  BY <1>3, SendPipe
<1>4. CASE Http!Callbacks
  BY <1>4, RefusePipe, AnswerFailsPipe, ResolvedPipe, ResponseDataPipe, RunCallPipe DEF Http!Callbacks
<1>5. QED
  BY <1>1, <1>2, <1>3, <1>4 DEF Http!Next

\* Seen from the clients, the module's queues are the pipe of requests: no
\* frame is committed that is in a queue, or committed twice, and each leaves
\* it once, whatever the clients do (HttpClient, HttpPostClient and
\* DnsResolver: commitAsync; RedpineModule implements the same pipe).
THEOREM ClientsUsePipe ==
  ASSUME HttpConstants
  PROVE  Http!Spec => Http!PipeSpec
<1>1. Http!Init => PipeInv /\ Http!Pipe!Init
  <2> SUFFICES ASSUME Http!Init PROVE PipeInv /\ Http!Pipe!Init
    OBVIOUS
  <2>1. waiting = <<>> /\ pending = NULL /\ clients = {} /\ Http!Pipe!Init
    BY DEF Http!Init, Http!Pipe!Init
  <2>2. DOMAIN waiting = {}
    BY <2>1
  <2>3. NULL \notin Items
    BY DEF HttpConstants
  <2>4. Entries(waiting) = {}
    BY <2>2 DEF Entries
  <2>5. QED
    BY <2>1, <2>2, <2>3, <2>4 DEF PipeInv, FramesApart, Once, InPipeUsed, InPipe, UnpostedOutside
<1>2. ClientsInv /\ PipeInv /\ [Http!Next]_Http!vars => PipeInv' /\ [Http!Pipe!Next]_Http!Pipe!vars
  BY PipeNext
<1>3. QED
  BY <1>1, <1>2, ClientsInvHolds, PTL DEF Http!Spec, Http!PipeSpec, Http!Pipe!Spec
=============================================================================
