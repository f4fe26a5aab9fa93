------------------------- MODULE GenericQueue_proofs -------------------------
(***************************************************************************)
(* Lemmas about the operations of GenericQueue: on an intact queue they do *)
(* to its members what their names say, and leave an intact queue behind   *)
(* whose end is its last item.                                             *)
(***************************************************************************)
EXTENDS GenericQueue, FiniteSetTheorems, SequenceTheorems, WellFoundedInduction, TLAPS

\* The n items of s, from first to last, are those of Q.
Chain(Q, n, s) ==
  /\ Q.top = IF n = 0 THEN NULL ELSE s[1]
  /\ Q.end = IF n = 0 THEN NULL ELSE s[n]
  /\ \A i \in 1..n : Q.next[s[i]] = IF i = n THEN NULL ELSE s[i + 1]

Injective(n, s) == \A i, j \in 1..n : s[i] = s[j] => i = j

ItemsOf(n, s) == {s[i] : i \in 1..n}

\* s with t behind its last item.
Appended(n, s, t) == [i \in 1..(n + 1) |-> IF i = n + 1 THEN t ELSE s[i]]

\* s without its k-th item.
Without(n, s, k) == [i \in 1..(n - 1) |-> IF i < k THEN s[i] ELSE s[i + 1]]

\* A non-empty set of natural numbers has a least element.
LEMMA LeastNumber ==
  ASSUME NEW T, T \subseteq Nat, T # {}
  PROVE  \E x \in T : \A y \in T : x <= y
<1>1. \E x \in T : \A y \in T : ~(<<y, x>> \in OpToRel(<, Nat))
  BY WFMin, NatLessThanWellFounded
<1>2. PICK x \in T : \A y \in T : ~(<<y, x>> \in OpToRel(<, Nat))
  BY <1>1
<1>3. \A y \in T : ~(y < x)
  BY <1>2 DEF OpToRel
<1>4. QED
  BY <1>3

\* IsItemOrder says the same as Chain.
LEMMA OrderIsChain ==
  ASSUME NEW Q, NEW n \in Nat, NEW s \in [1..n -> Items]
  PROVE  IsItemOrder(Q, s) <=> Chain(Q, n, s)
<1>1. DOMAIN s = 1..n /\ (1 \in DOMAIN s <=> n # 0) /\ (s = <<>> <=> n = 0)
  OBVIOUS
<1>2. Cardinality(DOMAIN s) = n
  BY <1>1, FS_Interval
<1>3. \A i \in 1..n : i + 1 \in 1..n <=> i # n
  OBVIOUS
<1>4. QED
  BY <1>1, <1>2, <1>3 DEF IsItemOrder, Chain

\* A queue is intact when its items form a chain without repetition.
LEMMA ChainOfQueue ==
  ASSUME NEW Q, IsQueue(Q)
  PROVE  \E n \in Nat : \E s \in [1..n -> Items] : Injective(n, s) /\ Chain(Q, n, s)
<1>1. PICK s \in ItemOrders : IsItemOrder(Q, s)
  BY DEF IsQueue
<1>2. PICK n \in 0..Cardinality(Items) :
        s \in [1..n -> Items] /\ \A i, j \in DOMAIN s : s[i] = s[j] => i = j
  BY DEF ItemOrders
<1>3. n \in Nat
  BY FS_CardinalityType, ItemsAssumption
<1>4. QED
  BY <1>1, <1>2, <1>3, OrderIsChain DEF Injective

LEMMA QueueOfChain ==
  ASSUME NEW Q, NEW n \in Nat, NEW s \in [1..n -> Items], Injective(n, s), Chain(Q, n, s)
  PROVE  IsQueue(Q)
<1>1. s \in Injection(1..n, Items)
  BY DEF Injection, IsInjective, Injective
<1>2. Cardinality(1..n) <= Cardinality(Items) /\ Cardinality(Items) \in Nat
  BY <1>1, FS_Injection, FS_CardinalityType, ItemsAssumption
<1>3. Cardinality(1..n) = n
  BY FS_Interval
<1>4. s \in ItemOrders
  BY <1>2, <1>3 DEF ItemOrders, Injective
<1>5. QED
  BY <1>4, OrderIsChain DEF IsQueue

\* exists is true of the items of the chain and of no others.
LEMMA ChainMembers ==
  ASSUME NEW Q, NEW n \in Nat, NEW s \in [1..n -> Items], Chain(Q, n, s)
  PROVE  Members(Q) = ItemsOf(n, s)
<1>1. ItemsOf(n, s) \in ClosedItemSets(Q)
  <2>1. ItemsOf(n, s) \subseteq Items
    BY DEF ItemsOf
  <2>2. Q.top # NULL => Q.top \in ItemsOf(n, s)
    BY DEF Chain, ItemsOf
  <2>3. ASSUME NEW t \in ItemsOf(n, s), Q.next[t] # NULL
        PROVE  Q.next[t] \in ItemsOf(n, s)
    <3>1. PICK i \in 1..n : t = s[i]
      BY DEF ItemsOf
    <3>2. i # n /\ Q.next[t] = s[i + 1]
      BY <2>3, <3>1 DEF Chain
    <3>3. i + 1 \in 1..n
      BY <3>2
    <3>4. QED
      BY <3>2, <3>3 DEF ItemsOf
  <2>4. QED
    BY <2>1, <2>2, <2>3 DEF ClosedItemSets
<1>2. ASSUME NEW S \in ClosedItemSets(Q)
      PROVE  \A j \in 1..n : s[j] \in S
  <2> DEFINE Missed == {i \in 1..n : s[i] \notin S}
  <2>1. SUFFICES ASSUME Missed # {} PROVE FALSE
    OBVIOUS
  <2>2. PICK k \in Missed : \A i \in Missed : k <= i
    <3>1. Missed \subseteq Nat
      OBVIOUS
    <3> HIDE DEF Missed
    <3>2. QED
      BY <2>1, <3>1, LeastNumber
  <2>3. CASE k = 1
    <3>1. Q.top = s[1] /\ s[1] # NULL
      BY <2>2, <2>3, ItemsAssumption DEF Chain
    <3>2. QED
      BY <2>2, <2>3, <3>1 DEF ClosedItemSets
  <2>4. CASE k # 1
    <3>1. k - 1 \in 1..n /\ k \in 1..n /\ (k - 1) + 1 = k /\ k - 1 # n
      BY <2>2, <2>4
    <3>2. s[k - 1] \in S
      BY <2>2, <3>1
    <3>3. Q.next[s[k - 1]] = s[k] /\ s[k] # NULL
      BY <3>1, ItemsAssumption DEF Chain
    <3>4. QED
      BY <2>2, <3>2, <3>3 DEF ClosedItemSets
  <2>5. QED
    BY <2>3, <2>4
<1>3. QED
  BY <1>1, <1>2 DEF Members, ItemsOf
-----------------------------------------------------------------------------
(* What the operations do to the chain.                                    *)

LEMMA EnqueueChain ==
  ASSUME NEW Q \in Queues, NEW n \in Nat, NEW s \in [1..n -> Items],
         Injective(n, s), Chain(Q, n, s), NEW t \in Items, t \notin ItemsOf(n, s)
  PROVE  /\ Enqueue(Q, t) \in Queues
         /\ Appended(n, s, t) \in [1..(n + 1) -> Items]
         /\ Injective(n + 1, Appended(n, s, t))
         /\ Chain(Enqueue(Q, t), n + 1, Appended(n, s, t))
         /\ ItemsOf(n + 1, Appended(n, s, t)) = ItemsOf(n, s) \cup {t}
<1> DEFINE r == Appended(n, s, t)
           P == Enqueue(Q, t)
<1>1. t \notin Members(Q)
  BY ChainMembers
<1>2. P = [top |-> IF Q.top = NULL THEN t ELSE Q.top,
           end |-> t,
           next |-> IF Q.top = NULL THEN [Q.next EXCEPT ![t] = NULL]
                    ELSE [Q.next EXCEPT ![t] = NULL, ![Q.end] = t]]
  BY <1>1 DEF Enqueue
<1>3. Q.top = NULL <=> n = 0
  BY ItemsAssumption DEF Chain
<1>4. n # 0 => Q.end = s[n] /\ s[n] \in Items /\ s[n] # t
  BY DEF Chain, ItemsOf
<1>5. \A u \in Items : P.next[u] = IF n # 0 /\ u = s[n] THEN t
                                   ELSE IF u = t THEN NULL ELSE Q.next[u]
  BY <1>2, <1>3, <1>4 DEF Queues
<1>6. P \in Queues
  BY <1>2, <1>3, <1>4 DEF Queues, ItemPointer
<1>7. r \in [1..(n + 1) -> Items] /\ Injective(n + 1, r)
  BY DEF Appended, ItemsOf, Injective
<1>8. \A i \in 1..n : r[i] = s[i]
  BY DEF Appended
<1>9. r[n + 1] = t
  BY DEF Appended
<1>10. Chain(P, n + 1, r)
  <2>1. P.top = r[1] /\ P.end = r[n + 1] /\ n + 1 # 0
    BY <1>2, <1>3, <1>8, <1>9 DEF Chain
  <2>2. ASSUME NEW i \in 1..(n + 1)
        PROVE  P.next[r[i]] = IF i = n + 1 THEN NULL ELSE r[i + 1]
    <3>1. CASE i = n + 1
      BY <1>4, <1>5, <1>9, <3>1
    <3>2. CASE i # n + 1
      <4>1. i \in 1..n /\ r[i] = s[i] /\ s[i] \in Items /\ s[i] # t /\ n # 0
        BY <1>8, <3>2 DEF ItemsOf
      <4>2. CASE i = n
        BY <1>5, <1>9, <4>1, <4>2
      <4>3. CASE i # n
        <5>1. s[i] # s[n] /\ i + 1 \in 1..n
          BY <4>1, <4>3 DEF Injective
        <5>2. QED
          BY <1>5, <1>8, <3>2, <4>1, <4>3, <5>1 DEF Chain
      <4>4. QED
        BY <4>2, <4>3
    <3>3. QED
      BY <3>1, <3>2
  <2>3. QED
    BY <2>1, <2>2 DEF Chain
<1>11. ItemsOf(n + 1, r) = ItemsOf(n, s) \cup {t}
  <2>1. \A i \in 1..(n + 1) : i = n + 1 \/ i \in 1..n
    OBVIOUS
  <2>2. \A i \in 1..n : i \in 1..(n + 1)
    OBVIOUS
  <2>3. n + 1 \in 1..(n + 1)
    OBVIOUS
  <2>4. QED
    BY <1>8, <1>9, <2>1, <2>2, <2>3 DEF ItemsOf
<1>12. QED
  BY <1>6, <1>7, <1>10, <1>11

\* What remains when the k-th item is taken out of a chain, whatever becomes
\* of the link of the item itself.
LEMMA ChainWithout ==
  ASSUME NEW Q \in Queues, NEW n \in Nat, NEW s \in [1..n -> Items],
         Injective(n, s), Chain(Q, n, s), NEW k \in 1..n, NEW P \in Queues,
         P.top = IF k = 1 THEN Q.next[s[k]] ELSE Q.top,
         P.end = IF k # n THEN Q.end ELSE IF k = 1 THEN NULL ELSE s[k - 1],
         \A u \in Items \ {s[k]} :
           P.next[u] = IF k # 1 /\ u = s[k - 1] THEN Q.next[s[k]] ELSE Q.next[u]
  PROVE  /\ Without(n, s, k) \in [1..(n - 1) -> Items]
         /\ Injective(n - 1, Without(n, s, k))
         /\ Chain(P, n - 1, Without(n, s, k))
         /\ ItemsOf(n - 1, Without(n, s, k)) = ItemsOf(n, s) \ {s[k]}
<1> DEFINE r == Without(n, s, k)
<1>1. r \in [1..(n - 1) -> Items] /\ Injective(n - 1, r)
  BY DEF Without, Injective
<1>2. Q.next[s[k]] = IF k = n THEN NULL ELSE s[k + 1]
  BY DEF Chain
<1>3. \A i \in 1..(n - 1) : r[i] = IF i < k THEN s[i] ELSE s[i + 1]
  BY DEF Without
<1>4. Chain(P, n - 1, r)
  <2>1. P.top = IF n - 1 = 0 THEN NULL ELSE r[1]
    BY <1>2, <1>3 DEF Chain
  <2>2. P.end = IF n - 1 = 0 THEN NULL ELSE r[n - 1]
    <3>1. CASE n - 1 = 0
      BY <3>1
    <3>2. CASE n - 1 # 0
      <4>1. n - 1 \in 1..(n - 1) /\ (n - 1) + 1 = n
        BY <3>2
      <4>2. r[n - 1] = IF k = n THEN s[n - 1] ELSE s[n]
        BY <1>3, <4>1
      <4>3. QED
        BY <3>2, <4>2 DEF Chain
    <3>3. QED
      BY <3>1, <3>2
  <2>3. ASSUME NEW i \in 1..(n - 1)
        PROVE  P.next[r[i]] = IF i = n - 1 THEN NULL ELSE r[i + 1]
    <3>1. CASE i < k - 1
      <4>1. i \in 1..n /\ i + 1 \in 1..(n - 1) /\ i # n /\ i # n - 1 /\ k # 1
        BY <3>1
      <4>2. r[i] = s[i] /\ r[i + 1] = s[i + 1] /\ s[i] # s[k] /\ s[i] # s[k - 1]
        BY <1>3, <3>1, <4>1 DEF Injective
      <4>3. P.next[s[i]] = Q.next[s[i]]
        BY <4>1, <4>2
      <4>4. QED
        BY <4>1, <4>2, <4>3 DEF Chain
    <3>2. CASE i = k - 1
      <4>1. r[i] = s[k - 1] /\ k # 1 /\ k - 1 \in 1..n /\ s[k - 1] # s[k]
        BY <1>3, <3>2 DEF Injective
      <4>2. P.next[r[i]] = Q.next[s[k]]
        BY <4>1
      <4>3. i # n - 1 => i + 1 \in 1..(n - 1) /\ r[i + 1] = s[k + 1]
        BY <1>3, <3>2
      <4>4. QED
        BY <1>2, <3>2, <4>2, <4>3
    <3>3. CASE i > k - 1
      <4>1. i + 1 \in 1..n /\ r[i] = s[i + 1]
        BY <1>3, <3>3
      <4>2. s[i + 1] # s[k] /\ (k # 1 => s[i + 1] # s[k - 1])
        BY <3>3, <4>1 DEF Injective
      <4>3. P.next[r[i]] = Q.next[s[i + 1]]
        BY <4>1, <4>2
      <4>4. Q.next[s[i + 1]] = IF i + 1 = n THEN NULL ELSE s[(i + 1) + 1]
        BY <4>1 DEF Chain
      <4>5. i # n - 1 => i + 1 \in 1..(n - 1) /\ r[i + 1] = s[(i + 1) + 1]
        BY <1>3, <3>3
      <4>6. i = n - 1 <=> i + 1 = n
        OBVIOUS
      <4>7. QED
        BY <4>3, <4>4, <4>5, <4>6
    <3>4. QED
      BY <3>1, <3>2, <3>3
  <2>4. QED
    BY <2>1, <2>2, <2>3 DEF Chain
<1>5. ItemsOf(n - 1, r) = ItemsOf(n, s) \ {s[k]}
  <2>1. ASSUME NEW i \in 1..(n - 1) PROVE \E j \in 1..n : j # k /\ r[i] = s[j]
    BY <1>3
  <2>2. ASSUME NEW j \in 1..n, j # k PROVE \E i \in 1..(n - 1) : r[i] = s[j]
    <3>1. CASE j < k
      <4>1. j \in 1..(n - 1) /\ r[j] = s[j]
        BY <1>3, <3>1
      <4>2. QED
        BY <4>1
    <3>2. CASE j > k
      <4>1. j - 1 \in 1..(n - 1) /\ ~(j - 1 < k) /\ (j - 1) + 1 = j
        BY <3>2
      <4>2. r[j - 1] = s[j]
        BY <1>3, <4>1
      <4>3. QED
        BY <4>1, <4>2
    <3>3. QED
      BY <2>2, <3>1, <3>2
  <2>3. \A j \in 1..n : s[j] = s[k] => j = k
    BY DEF Injective
  <2>4. ASSUME NEW u \in ItemsOf(n - 1, r) PROVE u \in ItemsOf(n, s) \ {s[k]}
    BY <2>1, <2>3 DEF ItemsOf
  <2>5. ASSUME NEW u \in ItemsOf(n, s) \ {s[k]} PROVE u \in ItemsOf(n - 1, r)
    BY <2>2 DEF ItemsOf
  <2>6. QED
    BY <2>4, <2>5
<1>6. QED
  BY <1>1, <1>4, <1>5
\* dequeue: the other items stay in their order.
LEMMA DequeueChain ==
  ASSUME NEW Q \in Queues, NEW n \in Nat, NEW s \in [1..n -> Items],
         Injective(n, s), Chain(Q, n, s), Q.top # NULL
  PROVE  /\ Dequeue(Q) \in Queues /\ Dequeue(Q).next = Q.next
         /\ Without(n, s, 1) \in [1..(n - 1) -> Items]
         /\ Injective(n - 1, Without(n, s, 1))
         /\ Chain(Dequeue(Q), n - 1, Without(n, s, 1))
         /\ ItemsOf(n - 1, Without(n, s, 1)) = ItemsOf(n, s) \ {s[1]}
<1>1. n # 0 /\ Q.top = s[1] /\ 1 \in 1..n /\ Q.end = s[n]
  BY DEF Chain
<1>2. Q.next[s[1]] = NULL <=> n = 1
  BY <1>1, ItemsAssumption DEF Chain
<1>3. Dequeue(Q) = [top |-> Q.next[s[1]], end |-> IF n = 1 THEN NULL ELSE Q.end,
                    next |-> Q.next]
  BY <1>1, <1>2 DEF Dequeue, Queues
<1>4. Dequeue(Q) \in Queues /\ Dequeue(Q).next = Q.next
  BY <1>1, <1>3 DEF Queues, ItemPointer
<1>5. QED
  BY <1>1, <1>3, <1>4, ChainWithout

\* remove of the k-th item: the others stay in their order.
LEMMA RemoveChain ==
  ASSUME NEW Q \in Queues, NEW n \in Nat, NEW s \in [1..n -> Items],
         Injective(n, s), Chain(Q, n, s), NEW k \in 1..n, NEW t \in Items, t = s[k]
  PROVE  /\ RemoveItem(Q, t) \in Queues
         /\ Without(n, s, k) \in [1..(n - 1) -> Items]
         /\ Injective(n - 1, Without(n, s, k))
         /\ Chain(RemoveItem(Q, t), n - 1, Without(n, s, k))
         /\ ItemsOf(n - 1, Without(n, s, k)) = ItemsOf(n, s) \ {t}
         /\ RemoveItem(Q, t).next[t] = NULL
         /\ \A u \in Items \ {t} :
              RemoveItem(Q, t).next[u] = IF k # 1 /\ u = s[k - 1] THEN Q.next[t] ELSE Q.next[u]
<1>1. Members(Q) = ItemsOf(n, s)
  BY ChainMembers
<1>2. t \in Members(Q)
  BY <1>1 DEF ItemsOf
<1> DEFINE U == Unlink(Q, t)
           last == IF k # n THEN Q.end ELSE IF k = 1 THEN NULL ELSE s[k - 1]
           P == [top |-> U.top, end |-> last, next |-> U.next]
           r == Without(n, s, k)
<1>3. Q.top = t <=> k = 1
  BY DEF Chain, Injective
<1>4. k # 1 => s[k - 1] \in Members(Q) /\ s[k - 1] # t
  BY <1>1 DEF ItemsOf, Injective
<1>5. Q.next[t] \in ItemPointer /\ Q.top \in ItemPointer /\ Q.end \in ItemPointer
  BY DEF Queues
<1>6. /\ U.top = IF k = 1 THEN Q.next[t] ELSE Q.top
      /\ U.next[t] = NULL
      /\ \A u \in Items \ {t} : U.next[u] = IF k # 1 /\ u = s[k - 1] THEN Q.next[t] ELSE Q.next[u]
      /\ U.next \in [Items -> ItemPointer]
  <2>1. CASE k = 1
    <3>1. U = [top |-> Q.next[t], end |-> Q.end, next |-> [Q.next EXCEPT ![t] = NULL]]
      BY <1>3, <2>1 DEF Unlink, Queues
    <3>2. QED
      BY <1>5, <2>1, <3>1 DEF Queues, ItemPointer
  <2>2. CASE k # 1
    <3>1. Q.next[s[k - 1]] = t
      <4>1. k - 1 \in 1..n /\ (k - 1) + 1 = k /\ k - 1 # n
        BY <2>2
      <4>2. QED
        BY <4>1 DEF Chain
    <3>2. ASSUME NEW p \in Members(Q), Q.next[p] = t PROVE p = s[k - 1]
      <4>1. PICK i \in 1..n : p = s[i]
        BY <1>1 DEF ItemsOf
      <4>2. i # n /\ s[i + 1] = s[k] /\ i + 1 \in 1..n
        BY <3>2, <4>1, ItemsAssumption DEF Chain
      <4>3. i + 1 = k
        BY <4>2 DEF Injective
      <4>4. QED
        BY <4>1, <4>3
    <3>3. (CHOOSE p \in Members(Q) : Q.next[p] = t) = s[k - 1]
      BY <1>4, <2>2, <3>1, <3>2
    <3>4. U = [top |-> Q.top, end |-> Q.end,
               next |-> [Q.next EXCEPT ![s[k - 1]] = Q.next[t], ![t] = NULL]]
      BY <1>3, <2>2, <3>3 DEF Unlink, Queues
    <3>5. s[k - 1] \in Items
      BY <2>2
    <3>6. QED
      BY <1>4, <1>5, <2>2, <3>4, <3>5 DEF Queues, ItemPointer
  <2>3. QED
    BY <2>1, <2>2
<1>7. P \in Queues
  BY <1>5, <1>6 DEF Queues, ItemPointer
<1>8. /\ r \in [1..(n - 1) -> Items]
       /\ Injective(n - 1, r)
       /\ Chain(P, n - 1, r)
       /\ ItemsOf(n - 1, r) = ItemsOf(n, s) \ {t}
  <2>1. /\ P.top = IF k = 1 THEN Q.next[s[k]] ELSE Q.top
        /\ P.end = IF k # n THEN Q.end ELSE IF k = 1 THEN NULL ELSE s[k - 1]
        /\ \A u \in Items \ {s[k]} :
             P.next[u] = IF k # 1 /\ u = s[k - 1] THEN Q.next[s[k]] ELSE Q.next[u]
    BY <1>6
  <2> HIDE DEF P, U, last, r
  <2>2. /\ Without(n, s, k) \in [1..(n - 1) -> Items]
        /\ Injective(n - 1, Without(n, s, k))
        /\ Chain(P, n - 1, Without(n, s, k))
        /\ ItemsOf(n - 1, Without(n, s, k)) = ItemsOf(n, s) \ {s[k]}
    BY <1>7, <2>1, ChainWithout, SMTT(30)
  <2>3. QED
    BY <2>2 DEF r
<1>9. n - 1 \in Nat
  OBVIOUS
<1>10. IsQueue(P) /\ Members(P) = Members(Q) \ {t}
  <2> HIDE DEF P, U, last, r
  <2>1. IsQueue(P)
    BY <1>8, <1>9, QueueOfChain
  <2>2. Members(P) = ItemsOf(n - 1, r)
    BY <1>8, <1>9, ChainMembers
  <2>3. QED
    BY <1>1, <1>8, <2>1, <2>2
<1>11. Members(U) = Members(P)
  BY DEF Members, ClosedItemSets
<1>12. U.top # NULL => (CHOOSE i \in Members(U) : U.next[i] = NULL) = last
  <2>1. SUFFICES ASSUME U.top # NULL
                 PROVE  (CHOOSE i \in Members(U) : U.next[i] = NULL) = last
    OBVIOUS
  <2>2. n - 1 # 0 /\ last = r[n - 1] /\ n - 1 \in 1..(n - 1)
    BY <1>8, <1>9, <2>1 DEF Chain
  <2>3. Members(U) = ItemsOf(n - 1, r)
    BY <1>8, <1>9, <1>11, ChainMembers
  <2>4. last \in Members(U) /\ U.next[last] = NULL
    BY <1>8, <2>2, <2>3 DEF Chain, ItemsOf
  <2>5. ASSUME NEW i \in Members(U), U.next[i] = NULL PROVE i = last
    <3>1. PICK j \in 1..(n - 1) : i = r[j]
      BY <2>3 DEF ItemsOf
    <3>2. j # n - 1 => U.next[i] = r[j + 1] /\ j + 1 \in 1..(n - 1)
      BY <1>8, <3>1 DEF Chain
    <3>3. j = n - 1
      BY <1>8, <2>5, <3>2, ItemsAssumption
    <3>4. QED
      BY <2>2, <3>1, <3>3
  <2> HIDE DEF U, last
  <2>6. QED
    BY <2>4, <2>5
<1>13. U.top = NULL => last = NULL
  BY <1>8, <1>9, ItemsAssumption DEF Chain
<1>14. RemoveItem(Q, t) = P
  <2>1. U = [top |-> U.top, end |-> U.end, next |-> U.next]
    BY DEF Unlink, Queues
  <2>2. RemoveItem(Q, t) = [U EXCEPT !.end = IF U.top = NULL THEN NULL
                              ELSE CHOOSE i \in Members(U) : U.next[i] = NULL]
    BY <1>2 DEF RemoveItem, SanitizeEndOfQueue
  <2>3. RemoveItem(Q, t) = [U EXCEPT !.end = last]
    BY <1>12, <1>13, <2>2
  <2> HIDE DEF U, last
  <2>4. QED
    BY <2>1, <2>3
<1>15. QED
  BY <1>6, <1>7, <1>8, <1>14
-----------------------------------------------------------------------------
(* The same, for readers who need not know the order.                      *)

\* A queue without a first and a last item.
LEMMA QueueWithoutItems ==
  ASSUME NEW Q, Q.top = NULL, Q.end = NULL
  PROVE  IsQueue(Q) /\ Members(Q) = {}
<1>1. <<>> \in [1..0 -> Items] /\ Injective(0, <<>>)
  BY DEF Injective
<1>2. Chain(Q, 0, <<>>)
  BY DEF Chain
<1>3. IsQueue(Q) /\ Members(Q) = ItemsOf(0, <<>>)
  BY <1>1, <1>2, QueueOfChain, ChainMembers
<1>4. ItemsOf(0, <<>>) = {}
  BY DEF ItemsOf
<1>5. QED
  BY <1>3, <1>4

\* The first item and every successor are members; a member is not its own
\* successor, the first item is nobody's, and the last one has none.
LEMMA LinksOfMembers ==
  ASSUME NEW Q, IsQueue(Q)
  PROVE  /\ Members(Q) \subseteq Items
         /\ Q.top # NULL => Q.top \in Members(Q)
         /\ Q.top = NULL => Members(Q) = {} /\ Q.end = NULL
         /\ Q.top # NULL => Q.end \in Members(Q) /\ Q.next[Q.end] = NULL
         /\ \A t \in Members(Q) : Q.next[t] = Q.top => Q.top = NULL
         /\ \A t \in Members(Q) : Q.next[t] # NULL => Q.next[t] \in Members(Q) \ {t}
<1>1. PICK n \in Nat : \E s \in [1..n -> Items] : Injective(n, s) /\ Chain(Q, n, s)
  BY ChainOfQueue
<1>2. PICK s \in [1..n -> Items] : Injective(n, s) /\ Chain(Q, n, s)
  BY <1>1
<1>3. Members(Q) = ItemsOf(n, s)
  BY <1>2, ChainMembers
<1>4. /\ Q.top # NULL => Q.top \in ItemsOf(n, s)
      /\ Q.top = NULL => ItemsOf(n, s) = {}
  BY <1>2, ItemsAssumption DEF Chain, ItemsOf
<1>6. /\ Q.top = NULL => Q.end = NULL
      /\ Q.top # NULL => Q.end \in ItemsOf(n, s) /\ Q.next[Q.end] = NULL
  BY <1>2, ItemsAssumption DEF Chain, ItemsOf
<1>7. ASSUME NEW t \in Members(Q), Q.next[t] = Q.top PROVE Q.top = NULL
  <2>1. PICK i \in 1..n : t = s[i]
    BY <1>3 DEF ItemsOf
  <2>2. CASE i = n
    BY <1>2, <1>7, <2>1, <2>2 DEF Chain
  <2>3. CASE i # n
    <3>1. i + 1 \in 1..n /\ 1 \in 1..n /\ i + 1 # 1 /\ n # 0
      BY <2>3
    <3>2. s[i + 1] = s[1]
      BY <1>2, <1>7, <2>1, <2>3, <3>1 DEF Chain
    <3>3. QED
      BY <1>2, <3>1, <3>2 DEF Injective
  <2>4. QED
    BY <2>2, <2>3
<1>5. ASSUME NEW t \in Members(Q), Q.next[t] # NULL
      PROVE  Q.next[t] \in Members(Q) \ {t}
  <2>1. PICK i \in 1..n : t = s[i]
    BY <1>3 DEF ItemsOf
  <2>2. i # n /\ Q.next[t] = s[i + 1] /\ i + 1 \in 1..n /\ i + 1 # i
    BY <1>2, <1>5, <2>1 DEF Chain
  <2>3. QED
    BY <1>2, <1>3, <2>1, <2>2 DEF Injective, ItemsOf
<1>8. QED
  BY <1>3, <1>4, <1>5, <1>6, <1>7 DEF Members

\* What lies in the link fields of other blocks does not matter.
LEMMA LinksElsewhere ==
  ASSUME NEW Q, IsQueue(Q), NEW P, P.top = Q.top, P.end = Q.end,
         \A t \in Members(Q) : P.next[t] = Q.next[t]
  PROVE  IsQueue(P) /\ Members(P) = Members(Q)
<1>1. PICK n \in Nat : \E s \in [1..n -> Items] : Injective(n, s) /\ Chain(Q, n, s)
  BY ChainOfQueue
<1>2. PICK s \in [1..n -> Items] : Injective(n, s) /\ Chain(Q, n, s)
  BY <1>1
<1>3. Members(Q) = ItemsOf(n, s)
  BY <1>2, ChainMembers
<1>4. \A i \in 1..n : s[i] \in Members(Q)
  BY <1>3 DEF ItemsOf
<1>5. Chain(P, n, s)
  BY <1>2, <1>4 DEF Chain
<1>6. QED
  BY <1>2, <1>3, <1>5, QueueOfChain, ChainMembers

\* enqueue of any item: it becomes a member if it was none.
LEMMA EnqueueJoins ==
  ASSUME NEW Q \in Queues, IsQueue(Q), NEW t \in Items
  PROVE  /\ Enqueue(Q, t) \in Queues
         /\ IsQueue(Enqueue(Q, t))
         /\ Members(Enqueue(Q, t)) = Members(Q) \cup {t}
         /\ \A u \in Items \ (Members(Q) \cup {t}) : Enqueue(Q, t).next[u] = Q.next[u]
<1>1. CASE t \in Members(Q)
  <2>1. Enqueue(Q, t) = Q
    BY <1>1 DEF Enqueue
  <2>2. QED
    BY <1>1, <2>1
<1>2. CASE t \notin Members(Q)
  <2>1. PICK n \in Nat : \E s \in [1..n -> Items] : Injective(n, s) /\ Chain(Q, n, s)
    BY ChainOfQueue
  <2>2. PICK s \in [1..n -> Items] : Injective(n, s) /\ Chain(Q, n, s)
    BY <2>1
  <2>3. Members(Q) = ItemsOf(n, s)
    BY <2>2, ChainMembers
  <2>4. /\ Enqueue(Q, t) \in Queues
        /\ Appended(n, s, t) \in [1..(n + 1) -> Items]
        /\ Injective(n + 1, Appended(n, s, t))
        /\ Chain(Enqueue(Q, t), n + 1, Appended(n, s, t))
        /\ ItemsOf(n + 1, Appended(n, s, t)) = ItemsOf(n, s) \cup {t}
    BY <1>2, <2>2, <2>3, EnqueueChain
  <2>5. n + 1 \in Nat
    OBVIOUS
  <2>6. IsQueue(Enqueue(Q, t)) /\ Members(Enqueue(Q, t)) = Members(Q) \cup {t}
    BY <2>3, <2>4, <2>5, QueueOfChain, ChainMembers
  <2>7. ASSUME NEW u \in Items \ (Members(Q) \cup {t})
        PROVE  Enqueue(Q, t).next[u] = Q.next[u]
    <3>1. Q.top # NULL => Q.end \in Members(Q)
      BY <2>2, <2>3, ItemsAssumption DEF Chain, ItemsOf
    <3>2. QED
      BY <1>2, <3>1 DEF Enqueue, Queues
  <2>8. QED
    BY <2>4, <2>6, <2>7
<1>3. QED
  BY <1>1, <1>2

\* enqueue of an item that is not in the queue links the last item to it, and
\* keeps the other links.
LEMMA EnqueueLinks ==
  ASSUME NEW Q \in Queues, IsQueue(Q), NEW t \in Items \ Members(Q)
  PROVE  /\ Enqueue(Q, t).end = t
         /\ Enqueue(Q, t).next[t] = NULL
         /\ Q.end # NULL => Enqueue(Q, t).next[Q.end] = t
         /\ \A u \in Members(Q) : Q.next[u] # NULL => Enqueue(Q, t).next[u] = Q.next[u]
<1>1. /\ Members(Q) \subseteq Items
      /\ Q.top = NULL => Members(Q) = {} /\ Q.end = NULL
      /\ Q.top # NULL => Q.end \in Members(Q) /\ Q.next[Q.end] = NULL
  BY LinksOfMembers
<1>2. Enqueue(Q, t) =
        [top |-> IF Q.top = NULL THEN t ELSE Q.top,
         end |-> t,
         next |-> IF Q.top = NULL THEN [Q.next EXCEPT ![t] = NULL]
                  ELSE [Q.next EXCEPT ![t] = NULL, ![Q.end] = t]]
  BY DEF Enqueue
<1>3. QED
  BY <1>1, <1>2 DEF Queues

\* dequeue: the first item leaves.
LEMMA DequeueLeaves ==
  ASSUME NEW Q \in Queues, IsQueue(Q)
  PROVE  /\ Dequeue(Q) \in Queues
         /\ IsQueue(Dequeue(Q))
         /\ Members(Dequeue(Q)) = Members(Q) \ {Q.top}
         /\ Dequeue(Q).next = Q.next
<1>1. CASE Q.top = NULL
  BY <1>1, LinksOfMembers DEF Dequeue
<1>2. CASE Q.top # NULL
  <2>1. PICK n \in Nat : \E s \in [1..n -> Items] : Injective(n, s) /\ Chain(Q, n, s)
    BY ChainOfQueue
  <2>2. PICK s \in [1..n -> Items] : Injective(n, s) /\ Chain(Q, n, s)
    BY <2>1
  <2>3. Q.top = s[1] /\ n - 1 \in Nat
    BY <1>2, <2>2 DEF Chain
  <2>4. /\ Dequeue(Q) \in Queues /\ Dequeue(Q).next = Q.next
        /\ Without(n, s, 1) \in [1..(n - 1) -> Items]
        /\ Injective(n - 1, Without(n, s, 1))
        /\ Chain(Dequeue(Q), n - 1, Without(n, s, 1))
        /\ ItemsOf(n - 1, Without(n, s, 1)) = ItemsOf(n, s) \ {s[1]}
    BY <1>2, <2>2, DequeueChain
  <2>5. QED
    BY <2>2, <2>3, <2>4, QueueOfChain, ChainMembers
<1>3. QED
  BY <1>1, <1>2

\* remove of any item: it is no member afterwards, and its link is null if
\* it was one.  No other link changes but its predecessor's.
LEMMA RemoveItemLeaves ==
  ASSUME NEW Q \in Queues, IsQueue(Q), NEW t \in Items
  PROVE  /\ RemoveItem(Q, t) \in Queues
         /\ IsQueue(RemoveItem(Q, t))
         /\ Members(RemoveItem(Q, t)) = Members(Q) \ {t}
         /\ t \in Members(Q) => RemoveItem(Q, t).next[t] = NULL
         /\ \A u \in Items \ Members(Q) : RemoveItem(Q, t).next[u] = Q.next[u]
         /\ \A u \in Items \ {t} : Q.next[u] # t => RemoveItem(Q, t).next[u] = Q.next[u]
<1>1. CASE t \notin Members(Q)
  BY <1>1 DEF RemoveItem
<1>2. CASE t \in Members(Q)
  <2>1. PICK n \in Nat : \E s \in [1..n -> Items] : Injective(n, s) /\ Chain(Q, n, s)
    BY ChainOfQueue
  <2>2. PICK s \in [1..n -> Items] : Injective(n, s) /\ Chain(Q, n, s)
    BY <2>1
  <2>3. Members(Q) = ItemsOf(n, s)
    BY <2>2, ChainMembers
  <2>4. PICK k \in 1..n : t = s[k]
    BY <1>2, <2>3 DEF ItemsOf
  <2>5. PICK P : P = RemoveItem(Q, t)
    OBVIOUS
  <2>6. /\ P \in Queues
        /\ Without(n, s, k) \in [1..(n - 1) -> Items]
        /\ Injective(n - 1, Without(n, s, k))
        /\ Chain(P, n - 1, Without(n, s, k))
        /\ ItemsOf(n - 1, Without(n, s, k)) = ItemsOf(n, s) \ {t}
        /\ P.next[t] = NULL
        /\ \A u \in Items \ {t} :
             P.next[u] = IF k # 1 /\ u = s[k - 1] THEN Q.next[t] ELSE Q.next[u]
    BY <2>2, <2>4, <2>5, RemoveChain, SMTT(30)
  <2>7. n - 1 \in Nat
    BY <2>4
  <2>8. IsQueue(P) /\ Members(P) = Members(Q) \ {t}
    BY <2>3, <2>6, <2>7, QueueOfChain, ChainMembers
  <2>9. k # 1 => s[k - 1] \in Members(Q) /\ Q.next[s[k - 1]] = t
    <3>1. k # 1 => k - 1 \in 1..n /\ (k - 1) + 1 = k /\ k - 1 # n
      OBVIOUS
    <3>2. QED
      BY <2>2, <2>3, <2>4, <3>1 DEF Chain, ItemsOf
  <2>10. \A u \in Items \ Members(Q) : P.next[u] = Q.next[u]
    BY <1>2, <2>6, <2>9
  <2>11. \A u \in Items \ {t} : Q.next[u] # t => P.next[u] = Q.next[u]
    BY <2>6, <2>9
  <2>12. QED
    BY <2>5, <2>6, <2>8, <2>10, <2>11
<1>3. QED
  BY <1>1, <1>2
-----------------------------------------------------------------------------
(* The order of a queue as a sequence.                                     *)

\* Two chains of one queue agree.
LEMMA ChainPrefix ==
  ASSUME NEW Q, NEW n \in Nat, NEW s \in [1..n -> Items], Chain(Q, n, s),
         NEW m \in Nat, NEW r \in [1..m -> Items], Chain(Q, m, r)
  PROVE  \A i \in 1..n : i \in 1..m /\ r[i] = s[i]
<1> DEFINE Odd == {i \in 1..n : ~(i \in 1..m /\ r[i] = s[i])}
<1>1. SUFFICES ASSUME Odd # {} PROVE FALSE
  OBVIOUS
<1>2. PICK k \in Odd : \A i \in Odd : k <= i
  <2>1. Odd \subseteq Nat
    OBVIOUS
  <2> HIDE DEF Odd
  <2>2. QED
    BY <1>1, <2>1, LeastNumber
<1>3. CASE k = 1
  <2>1. Q.top = s[1] /\ s[1] # NULL
    BY <1>2, <1>3, ItemsAssumption DEF Chain
  <2>2. m # 0 /\ Q.top = r[1]
    BY <2>1 DEF Chain
  <2>3. 1 \in 1..m /\ r[1] = s[1]
    BY <2>1, <2>2
  <2>4. ~(k \in 1..m /\ r[k] = s[k])
    BY <1>2
  <2>5. QED
    BY <1>3, <2>3, <2>4
<1>4. CASE k # 1
  <2>1. k - 1 \in 1..n /\ k \in 1..n /\ (k - 1) + 1 = k /\ k - 1 # n
    BY <1>2, <1>4
  <2>2. k - 1 \in 1..m /\ r[k - 1] = s[k - 1]
    BY <1>2, <2>1
  <2>3. Q.next[s[k - 1]] = s[k] /\ s[k] # NULL
    BY <2>1, ItemsAssumption DEF Chain
  <2>4. k - 1 # m /\ Q.next[r[k - 1]] = r[k]
    BY <2>1, <2>2, <2>3 DEF Chain
  <2>5. k \in 1..m
    BY <2>1, <2>2, <2>4
  <2>6. QED
    BY <1>2, <2>2, <2>3, <2>4, <2>5
<1>5. QED
  BY <1>3, <1>4

\* So the order of a queue is its only chain.
LEMMA OrderOfChain ==
  ASSUME NEW Q, NEW n \in Nat, NEW s \in [1..n -> Items], Injective(n, s), Chain(Q, n, s)
  PROVE  ItemOrderOf(Q) = s
<1>1. \E r \in ItemOrders : IsItemOrder(Q, r)
  BY QueueOfChain DEF IsQueue
<1>2. PICK r : r = ItemOrderOf(Q)
  OBVIOUS
<1>3. r \in ItemOrders /\ IsItemOrder(Q, r)
  BY <1>1, <1>2 DEF ItemOrderOf
<1>4. PICK m \in 0..Cardinality(Items) : r \in [1..m -> Items]
  BY <1>3 DEF ItemOrders
<1>5. m \in Nat
  BY FS_CardinalityType, ItemsAssumption
<1>6. Chain(Q, m, r)
  BY <1>3, <1>4, <1>5, OrderIsChain
<1>7. /\ \A i \in 1..n : i \in 1..m /\ r[i] = s[i]
      /\ \A i \in 1..m : i \in 1..n /\ s[i] = r[i]
  BY <1>4, <1>5, <1>6, ChainPrefix
<1>8. n = m
  <2>1. n # 0 => n \in 1..m
    BY <1>7
  <2>2. m # 0 => m \in 1..n
    BY <1>5, <1>7
  <2>3. QED
    BY <1>5, <2>1, <2>2
<1>9. r = s
  BY <1>4, <1>7, <1>8
<1>10. QED
  BY <1>2, <1>9

\* The order of an intact queue lists its members, the first item first.
LEMMA OrderOfQueue ==
  ASSUME NEW Q, IsQueue(Q)
  PROVE  /\ ItemOrderOf(Q) \in Seq(Items)
         /\ Members(Q) = {ItemOrderOf(Q)[i] : i \in DOMAIN ItemOrderOf(Q)}
         /\ Q.top = NULL => ItemOrderOf(Q) = <<>>
         /\ Q.top # NULL => ItemOrderOf(Q) # <<>> /\ Head(ItemOrderOf(Q)) = Q.top
<1>1. PICK n \in Nat : \E s \in [1..n -> Items] : Injective(n, s) /\ Chain(Q, n, s)
  BY ChainOfQueue
<1>2. PICK s \in [1..n -> Items] : Injective(n, s) /\ Chain(Q, n, s)
  BY <1>1
<1>3. ItemOrderOf(Q) = s
  BY <1>2, OrderOfChain
<1>4. s \in Seq(Items) /\ DOMAIN s = 1..n /\ (s = <<>> <=> n = 0)
  BY SeqDef
<1>5. Members(Q) = {s[i] : i \in DOMAIN s}
  BY <1>2, <1>4, ChainMembers DEF ItemsOf
<1>6. Q.top = NULL <=> n = 0
  BY <1>2, ItemsAssumption DEF Chain
<1>7. n # 0 => Head(s) = Q.top
  BY <1>2, <1>4, HeadTailProperties DEF Chain
<1>8. QED
  BY <1>3, <1>4, <1>5, <1>6, <1>7

\* What lies in the link fields of other blocks does not matter.
LEMMA OrderElsewhere ==
  ASSUME NEW Q, IsQueue(Q), NEW P, P.top = Q.top, P.end = Q.end,
         \A t \in Members(Q) : P.next[t] = Q.next[t]
  PROVE  ItemOrderOf(P) = ItemOrderOf(Q)
<1>1. PICK n \in Nat : \E s \in [1..n -> Items] : Injective(n, s) /\ Chain(Q, n, s)
  BY ChainOfQueue
<1>2. PICK s \in [1..n -> Items] : Injective(n, s) /\ Chain(Q, n, s)
  BY <1>1
<1>3. \A i \in 1..n : s[i] \in Members(Q)
  BY <1>2, ChainMembers DEF ItemsOf
<1>4. Chain(P, n, s)
  BY <1>2, <1>3 DEF Chain
<1>5. QED
  BY <1>2, <1>4, OrderOfChain

\* enqueue appends an item that is not in the queue.
LEMMA EnqueueAppends ==
  ASSUME NEW Q \in Queues, IsQueue(Q), NEW t \in Items \ Members(Q)
  PROVE  ItemOrderOf(Enqueue(Q, t)) = Append(ItemOrderOf(Q), t)
<1>1. PICK n \in Nat : \E s \in [1..n -> Items] : Injective(n, s) /\ Chain(Q, n, s)
  BY ChainOfQueue
<1>2. PICK s \in [1..n -> Items] : Injective(n, s) /\ Chain(Q, n, s)
  BY <1>1
<1>3. t \notin ItemsOf(n, s)
  BY <1>2, ChainMembers
<1>4. PICK r : r = Appended(n, s, t)
  OBVIOUS
<1>5. r \in [1..(n + 1) -> Items] /\ Injective(n + 1, r) /\ Chain(Enqueue(Q, t), n + 1, r)
  BY <1>2, <1>3, <1>4, EnqueueChain
<1>6. ItemOrderOf(Q) = s /\ ItemOrderOf(Enqueue(Q, t)) = r
  <2>1. n + 1 \in Nat
    OBVIOUS
  <2>2. QED
    BY <1>2, <1>5, <2>1, OrderOfChain
<1>7. s \in Seq(Items) /\ Len(s) = n /\ r \in Seq(Items) /\ Len(r) = n + 1
  BY <1>5, SeqDef
<1>8. \A i \in 1..(n + 1) : r[i] = IF i = n + 1 THEN t ELSE s[i]
  BY <1>4 DEF Appended
<1>9. Append(s, t) \in Seq(Items) /\ Len(Append(s, t)) = n + 1
      /\ \A i \in 1..(n + 1) : Append(s, t)[i] = IF i = n + 1 THEN t ELSE s[i]
  BY <1>7, AppendProperties
<1>10. Append(s, t) = r
  BY <1>7, <1>8, <1>9, SeqEqual
<1>11. QED
  BY <1>6, <1>10

\* s without its k-th item as a sequence.
LEMMA WithoutIs ==
  ASSUME NEW n \in Nat, NEW s \in [1..n -> Items], NEW k \in 1..n
  PROVE  Without(n, s, k) = SubSeq(s, 1, k - 1) \o SubSeq(s, k + 1, Len(s))
<1> DEFINE a == SubSeq(s, 1, k - 1)
           b == SubSeq(s, k + 1, n)
<1>1. s \in Seq(Items) /\ Len(s) = n
  BY SeqDef
<1>2. a \in Seq(Items) /\ Len(a) = k - 1 /\ \A i \in 1..(k - 1) : a[i] = s[i]
  BY <1>1, SubSeqProperties
<1>3. b \in Seq(Items) /\ Len(b) = n - k /\ \A i \in 1..(n - k) : b[i] = s[k + i]
  BY <1>1, SubSeqProperties
<1> HIDE DEF a, b
<1>4. /\ a \o b \in Seq(Items) /\ Len(a \o b) = n - 1
      /\ \A i \in 1..(n - 1) : (a \o b)[i] = IF i <= k - 1 THEN a[i] ELSE b[i - (k - 1)]
  <2>1. /\ a \o b \in Seq(Items) /\ Len(a \o b) = Len(a) + Len(b)
        /\ \A i \in 1..(Len(a) + Len(b)) :
             (a \o b)[i] = IF i <= Len(a) THEN a[i] ELSE b[i - Len(a)]
    BY <1>2, <1>3, ConcatProperties
  <2>2. Len(a) = k - 1 /\ Len(a) + Len(b) = n - 1
    BY <1>2, <1>3
  <2>3. QED
    BY <2>1, <2>2
<1>5. Without(n, s, k) \in Seq(Items) /\ Len(Without(n, s, k)) = n - 1
  <2>1. Without(n, s, k) \in [1..(n - 1) -> Items] /\ n - 1 \in Nat
    BY DEF Without
  <2>2. QED
    BY <2>1, SeqDef
<1>6. ASSUME NEW i \in 1..(n - 1) PROVE (a \o b)[i] = Without(n, s, k)[i]
  <2>1. CASE i < k
    BY <1>2, <1>4, <2>1 DEF Without
  <2>2. CASE ~(i < k)
    <3>1. i - (k - 1) \in 1..(n - k) /\ k + (i - (k - 1)) = i + 1 /\ ~(i <= k - 1)
      BY <2>2
    <3>2. (a \o b)[i] = s[i + 1]
      BY <1>3, <1>4, <3>1
    <3>3. QED
      BY <2>2, <3>2 DEF Without
  <2>3. QED
    BY <2>1, <2>2
<1>7. a \o b = Without(n, s, k)
  BY <1>4, <1>5, <1>6, SeqEqual
<1>8. QED
  BY <1>1, <1>7 DEF a, b

\* remove takes out the item and keeps the order of the others.
LEMMA RemoveItemTakesOut ==
  ASSUME NEW Q \in Queues, IsQueue(Q), NEW t \in Members(Q)
  PROVE  \E k \in DOMAIN ItemOrderOf(Q) :
           /\ ItemOrderOf(Q)[k] = t
           /\ ItemOrderOf(RemoveItem(Q, t)) =
                SubSeq(ItemOrderOf(Q), 1, k - 1)
                  \o SubSeq(ItemOrderOf(Q), k + 1, Len(ItemOrderOf(Q)))
<1>1. PICK n \in Nat : \E s \in [1..n -> Items] : Injective(n, s) /\ Chain(Q, n, s)
  BY ChainOfQueue
<1>2. PICK s \in [1..n -> Items] : Injective(n, s) /\ Chain(Q, n, s)
  BY <1>1
<1>3. PICK k \in 1..n : t = s[k]
  BY <1>2, ChainMembers DEF ItemsOf
<1>4. t \in Items
  BY <1>3
<1>5. PICK r : r = Without(n, s, k)
  OBVIOUS
<1>6. r \in [1..(n - 1) -> Items] /\ Injective(n - 1, r) /\ Chain(RemoveItem(Q, t), n - 1, r)
  BY <1>2, <1>3, <1>4, <1>5, RemoveChain
<1>7. ItemOrderOf(RemoveItem(Q, t)) = r
  <2>1. n - 1 \in Nat
    BY <1>3
  <2>2. QED
    BY <1>6, <2>1, OrderOfChain
<1>8. ItemOrderOf(Q) = s
  BY <1>2, OrderOfChain
<1>9. r = SubSeq(s, 1, k - 1) \o SubSeq(s, k + 1, Len(s))
  BY <1>5, WithoutIs
<1>10. QED
  BY <1>3, <1>7, <1>8, <1>9

\* dequeue takes out the first item.
LEMMA DequeueTakesFirst ==
  ASSUME NEW Q \in Queues, IsQueue(Q), Q.top # NULL
  PROVE  ItemOrderOf(Dequeue(Q)) = Tail(ItemOrderOf(Q))
<1>1. PICK n \in Nat : \E s \in [1..n -> Items] : Injective(n, s) /\ Chain(Q, n, s)
  BY ChainOfQueue
<1>2. PICK s \in [1..n -> Items] : Injective(n, s) /\ Chain(Q, n, s)
  BY <1>1
<1>3. n # 0 /\ 1 \in 1..n /\ n - 1 \in Nat
  BY <1>2 DEF Chain
<1>4. PICK r : r = Without(n, s, 1)
  OBVIOUS
<1>5. r \in [1..(n - 1) -> Items] /\ Injective(n - 1, r) /\ Chain(Dequeue(Q), n - 1, r)
  BY <1>2, <1>4, DequeueChain
<1>6. ItemOrderOf(Q) = s /\ ItemOrderOf(Dequeue(Q)) = r
  BY <1>2, <1>3, <1>5, OrderOfChain
<1>7. s \in Seq(Items) /\ Len(s) = n /\ s # <<>> /\ r \in Seq(Items) /\ Len(r) = n - 1
  BY <1>3, <1>5, SeqDef
<1>8. \A i \in 1..(n - 1) : r[i] = s[i + 1]
  BY <1>4 DEF Without
<1>9. Tail(s) \in Seq(Items) /\ Len(Tail(s)) = n - 1
      /\ \A i \in 1..(n - 1) : Tail(s)[i] = s[i + 1]
  BY <1>7, HeadTailProperties
<1>10. Tail(s) = r
  BY <1>7, <1>8, <1>9, SeqEqual
<1>11. QED
  BY <1>6, <1>10
=============================================================================
