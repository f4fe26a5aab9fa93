---------------------------- MODULE GenericQueue ----------------------------
(***************************************************************************)
(* mono::Queue and GenericQueue: a singly linked, intrusive FIFO.  Each    *)
(* item carries its link (IQueueItem::_queueNextPointer), the queue owns   *)
(* the pointers to its first and last item.  Scheduled tasks, dirty views, *)
(* touch responders and the wireless module's frames are kept in such      *)
(* queues.                                                                 *)
(*                                                                         *)
(* A queue is a value [top, end, next]; its operations are functions on    *)
(* such values.                                                            *)
(***************************************************************************)
EXTENDS Naturals, FiniteSets, Sequences

CONSTANTS
  Items,   \* the memory blocks in which items live
  NULL     \* the null pointer

ASSUME ItemsAssumption == IsFiniteSet(Items) /\ NULL \notin Items

ItemPointer == Items \cup {NULL}

\* topOfQueue, endOfQueue and the link field of every item.
Queues == [top : ItemPointer, end : ItemPointer, next : [Items -> ItemPointer]]

\* The sets that contain the first item and the successor of each member.
ClosedItemSets(Q) ==
  {S \in SUBSET Items :
     /\ Q.top # NULL => Q.top \in S
     /\ \A i \in S : Q.next[i] # NULL => Q.next[i] \in S}

\* The items for which exists(item) is true.
Members(Q) == LET closed == ClosedItemSets(Q)
              IN  {i \in Items : \A S \in closed : i \in S}

\* Queue::enqueue.
Enqueue(Q, i) ==
  IF i \in Members(Q) THEN Q
  ELSE [top |-> IF Q.top = NULL THEN i ELSE Q.top,
        end |-> i,
        next |-> IF Q.top = NULL THEN [Q.next EXCEPT ![i] = NULL]
                 ELSE [Q.next EXCEPT ![i] = NULL, ![Q.end] = i]]

\* Queue::dequeue.  The link of the item that leaves stays as it is.
Dequeue(Q) ==
  IF Q.top = NULL THEN Q
  ELSE [Q EXCEPT !.top = Q.next[Q.top],
                 !.end = IF Q.next[Q.top] = NULL THEN NULL ELSE @]

\* Queue::remove up to sanitizeEndOfQueue.
Unlink(Q, i) ==
  IF Q.top = i THEN [Q EXCEPT !.top = Q.next[i], !.next[i] = NULL]
  ELSE LET prev == CHOOSE p \in Members(Q) : Q.next[p] = i
       IN  [Q EXCEPT !.next[prev] = Q.next[i], !.next[i] = NULL]

\* Queue::sanitizeEndOfQueue: a walk to the item without a successor.
SanitizeEndOfQueue(Q) ==
  [Q EXCEPT !.end = IF Q.top = NULL THEN NULL
                    ELSE CHOOSE i \in Members(Q) : Q.next[i] = NULL]

\* Bug: endOfQueue stays on an item that leaves.
RemoveItem_EndKept(Q, i) == IF i \in Members(Q) THEN Unlink(Q, i) ELSE Q

\* Queue::remove.  It returns i \in Members(Q).
RemoveItem(Q, i) ==
  IF i \in Members(Q) THEN SanitizeEndOfQueue(Unlink(Q, i)) ELSE Q

-----------------------------------------------------------------------------
\* Sequences of items without repetition (an image, which TLC computes once).
ItemOrders == {s : s \in {t \in UNION {[1..n -> Items] : n \in 0..Cardinality(Items)} :
                            \A i, j \in DOMAIN t : t[i] = t[j] => i = j}}

\* s lists the items of Q from first to last.
IsItemOrder(Q, s) ==
  /\ Q.top = (IF 1 \in DOMAIN s THEN s[1] ELSE NULL)
  /\ Q.end = (IF s = <<>> THEN NULL ELSE s[Cardinality(DOMAIN s)])
  /\ \A i \in DOMAIN s :
       Q.next[s[i]] = (IF i + 1 \in DOMAIN s THEN s[i + 1] ELSE NULL)

\* Q is the image of some sequence of distinct items.
IsQueue(Q) == \E s \in ItemOrders : IsItemOrder(Q, s)

\* The items of an intact queue, in order.
ItemOrderOf(Q) == CHOOSE s \in ItemOrders : IsItemOrder(Q, s)
=============================================================================
