-------------------------- MODULE AppRunLoop_proofs -------------------------
(***************************************************************************)
(* The task list stays intact and the pass never reaches a destroyed task, *)
(* for any set of tasks, as long as client code takes no liberties.  First *)
(* lemmas about the operations of TaskList: on a well linked list they do  *)
(* to the order of the tasks what their names say, and leave the links of  *)
(* every task outside the list alone.                                      *)
(***************************************************************************)
EXTENDS AppRunLoop, FiniteSetTheorems, SequenceTheorems, WellFoundedInduction, TLAPS

Elements(s) == {s[i] : i \in DOMAIN s}

\* s with t behind its last task.
Appended(s, n, t) == [i \in 1..(n + 1) |-> IF i = n + 1 THEN t ELSE s[i]]

\* s without its k-th task.
Without(s, n, k) == [i \in 1..(n - 1) |-> IF i < k THEN s[i] ELSE s[i + 1]]

\* A non-empty set of natural numbers has a least element.
LEMMA LeastNumber ==
  ASSUME NEW T, T \subseteq Nat, T # {}
  PROVE  \E x \in T : \A y \in T : x <= y
<1>1. \E x \in T : \A y \in T : ~(<<y, x>> \in OpToRel(<, Nat))
  BY WFMin, NatLessThanWellFounded
<1>2. PICK x \in T : \A y \in T : ~(<<y, x>> \in OpToRel(<, Nat))
  BY <1>1
<1>3. \A y \in T : ~(y < x)
  BY <1>2 DEF OpToRel
<1> QED BY <1>3

\* An order is a function on 1..n for some n up to the number of tasks.
LEMMA OrderType ==
  ASSUME NEW s \in Orders
  PROVE  \E n \in 0..Cardinality(Tasks) :
            /\ s \in [1..n -> Tasks]
            /\ \A i, j \in 1..n : s[i] = s[j] => i = j
  BY DEF Orders

\* Every sequence without repetition is an order: it is no longer than the
\* set of tasks is large.
LEMMA OrderIntro ==
  ASSUME NEW n \in Nat, NEW s \in [1..n -> Tasks],
         \A i, j \in 1..n : s[i] = s[j] => i = j
  PROVE  s \in Orders
<1>1. s \in Injection(1..n, Tasks)
  BY DEF Injection, IsInjective
<1>2. Cardinality(1..n) <= Cardinality(Tasks) /\ Cardinality(Tasks) \in Nat
  BY <1>1, FS_Injection, FS_CardinalityType, TasksAssumption
<1>3. Cardinality(1..n) = n
  BY FS_Interval
<1> QED BY <1>2, <1>3 DEF Orders

\* The links of the i-th of n tasks.
LinksAt(L, n, s, i) ==
  /\ L.next[s[i]] = IF i = n THEN NULL ELSE s[i + 1]
  /\ L.prev[s[i]] = IF i = 1 THEN NULL ELSE s[i - 1]

LEMMA OrderLinks ==
  ASSUME NEW L, NEW n \in Nat, NEW s \in [1..n -> Tasks], IsOrder(L, s), NEW i \in 1..n
  PROVE  LinksAt(L, n, s, i)
<1>1. i \in DOMAIN s /\ DOMAIN s = 1..n
  OBVIOUS
<1>2. /\ L.next[s[i]] = IF i + 1 \in DOMAIN s THEN s[i + 1] ELSE NULL
      /\ L.prev[s[i]] = IF i - 1 \in DOMAIN s THEN s[i - 1] ELSE NULL
  BY <1>1 DEF IsOrder
<1>3. (i + 1 \in DOMAIN s <=> i # n) /\ (i - 1 \in DOMAIN s <=> i # 1)
  BY <1>1
<1> QED BY <1>2, <1>3 DEF LinksAt

\* A walk along the links comes across the tasks of the order and no others.
LEMMA OrderInstalled ==
  ASSUME NEW L \in Lists, NEW s \in Orders, IsOrder(L, s)
  PROVE  Installed(L) = Elements(s)
<1>1. PICK n \in 0..Cardinality(Tasks) : s \in [1..n -> Tasks]
  BY OrderType
<1>2. n \in Nat
  BY <1>1, FS_CardinalityType, TasksAssumption
<1>3. Elements(s) \subseteq Tasks
  BY <1>1 DEF Elements
<1>4. Elements(s) \in ClosedSets(L)
  <2>1. L.head # NULL => L.head \in Elements(s)
    BY <1>1 DEF IsOrder, Elements
  <2>2. ASSUME NEW t \in Elements(s), L.next[t] # NULL
        PROVE  L.next[t] \in Elements(s)
    <3>1. PICK i \in 1..n : t = s[i]
      BY <1>1 DEF Elements
    <3> QED BY <1>1, <2>2, <3>1 DEF IsOrder, Elements
  <2> QED BY <1>3, <2>1, <2>2 DEF ClosedSets
<1>5. ASSUME NEW S \in ClosedSets(L), NEW j \in 1..n
      PROVE  s[j] \in S
  <2> DEFINE Missed == {i \in 1..n : s[i] \notin S}
  <2>1. SUFFICES ASSUME Missed # {} PROVE FALSE
    BY <1>2
  <2>2. PICK k \in Missed : \A i \in Missed : k <= i
    <3>1. Missed \subseteq Nat
      BY <1>2
    <3> QED BY <2>1, <3>1, LeastNumber
  <2>3. CASE k = 1
    <3>1. L.head = s[1] /\ s[1] # NULL
      BY <1>1, <1>2, <2>2, <2>3, TasksAssumption DEF IsOrder
    <3> QED BY <2>2, <2>3, <3>1 DEF ClosedSets
  <2>4. CASE k # 1
    <3>1. k - 1 \in 1..n /\ k \in 1..n
      BY <1>2, <2>2, <2>4
    <3>2. s[k - 1] \in S
      BY <1>2, <2>2, <3>1
    <3>3. L.next[s[k - 1]] = s[k]
      <4>1. L.next[s[k - 1]] = IF (k - 1) + 1 \in 1..n THEN s[(k - 1) + 1] ELSE NULL
        BY <1>1, <3>1 DEF IsOrder
      <4>2. (k - 1) + 1 = k
        BY <1>2, <3>1
      <4> QED BY <3>1, <4>1, <4>2
    <3>4. s[k] # NULL
      BY <1>1, <3>1, TasksAssumption
    <3> QED BY <2>2, <3>2, <3>3, <3>4 DEF ClosedSets
  <2> QED BY <2>3, <2>4
<1> QED BY <1>1, <1>3, <1>4, <1>5 DEF Installed, Elements

\* addDynamicTask puts a task that is not installed behind all the others.
LEMMA AddAppends ==
  ASSUME NEW L \in Lists, NEW n \in Nat, NEW s \in [1..n -> Tasks], s \in Orders,
         \A i, j \in 1..n : s[i] = s[j] => i = j,
         IsOrder(L, s), NEW t \in Tasks, t \notin Installed(L)
  PROVE  /\ AddDynamicTask(L, t) \in Lists
         /\ Appended(s, n, t) \in Orders
         /\ IsOrder(AddDynamicTask(L, t), Appended(s, n, t))
         /\ Installed(AddDynamicTask(L, t)) = Installed(L) \cup {t}
         /\ \A u \in Tasks \ (Installed(L) \cup {t}) :
              AddDynamicTask(L, t).next[u] = L.next[u]
<1> DEFINE M == AddDynamicTask(L, t)
           r == Appended(s, n, t)
<1>1. Installed(L) = Elements(s)
  BY OrderInstalled
<1>2. r \in [1..(n + 1) -> Tasks] /\ \A i, j \in 1..(n + 1) : r[i] = r[j] => i = j
  BY <1>1 DEF Appended, Elements
<1>3. r \in Orders
  BY <1>2, OrderIntro
<1>4. CASE n = 0
  <2>1. L.head = NULL
    BY <1>4 DEF IsOrder
  <2>2. M = [head |-> t, next |-> [L.next EXCEPT ![t] = NULL],
             prev |-> [L.prev EXCEPT ![t] = NULL]]
    BY <2>1 DEF AddDynamicTask
  <2>3. M \in Lists
    BY <2>2 DEF Lists, Pointer
  <2>4. IsOrder(M, r)
    BY <1>2, <1>4, <2>2 DEF IsOrder, Appended, Lists
  <2>5. Installed(M) = Elements(r)
    BY <1>3, <2>3, <2>4, OrderInstalled
  <2>6. Elements(r) = Installed(L) \cup {t}
    BY <1>1, <1>4 DEF Appended, Elements
  <2>7. \A u \in Tasks \ {t} : M.next[u] = L.next[u]
    BY <2>2 DEF Lists
  <2> QED BY <1>3, <2>3, <2>4, <2>5, <2>6, <2>7
<1>5. CASE n > 0
  <2>1. L.head # NULL /\ ~FoundByAdd(L, t)
    BY <1>5, TasksAssumption DEF IsOrder, FoundByAdd
  <2>2. LastTask(L) = s[n]
    <3>1. s[n] \in Installed(L) /\ L.next[s[n]] = NULL
      BY <1>1, <1>5 DEF IsOrder, Elements
    <3>2. ASSUME NEW u \in Installed(L), L.next[u] = NULL PROVE u = s[n]
      <4>1. PICK i \in 1..n : u = s[i]
        BY <1>1 DEF Elements
      <4>2. i + 1 \notin 1..n
        BY <3>2, <4>1, TasksAssumption DEF IsOrder
      <4> QED BY <4>1, <4>2
    <3> QED BY <3>1, <3>2 DEF LastTask
  <2>3. M = [head |-> L.head, next |-> [L.next EXCEPT ![s[n]] = t, ![t] = NULL],
             prev |-> [L.prev EXCEPT ![t] = s[n]]]
    BY <2>1, <2>2 DEF AddDynamicTask
  <2>4. s[n] \in Tasks /\ s[n] # t /\ s[n] \in Installed(L)
    BY <1>1, <1>5 DEF Elements
  <2>5. M \in Lists
    BY <2>3, <2>4 DEF Lists, Pointer
  <2>6. IsOrder(M, r)
    <3>1. M.head = r[1] /\ DOMAIN r # {}
      BY <1>5, <2>3 DEF IsOrder, Appended
    <3>2. ASSUME NEW i \in 1..(n + 1)
          PROVE  M.next[r[i]] = (IF i + 1 \in 1..(n + 1) THEN r[i + 1] ELSE NULL)
      <4>1. CASE i = n + 1
        BY <2>3, <4>1 DEF Appended, Lists
      <4>2. CASE i = n
        BY <1>5, <2>3, <2>4, <4>2 DEF Appended, Lists
      <4>3. CASE i < n
        <5>1. r[i] = s[i] /\ r[i + 1] = s[i + 1] /\ i \in 1..n /\ i + 1 \in 1..n
          BY <4>3 DEF Appended
        <5>2. s[i] # s[n] /\ s[i] # t /\ s[i] \in Tasks
          BY <1>1, <4>3, <5>1 DEF Elements
        <5>3. M.next[s[i]] = L.next[s[i]]
          BY <2>3, <5>2 DEF Lists
        <5>4. L.next[s[i]] = s[i + 1]
          BY <5>1 DEF IsOrder
        <5>5. i + 1 \in 1..(n + 1)
          BY <5>1
        <5> QED BY <5>1, <5>3, <5>4, <5>5
      <4> QED BY <4>1, <4>2, <4>3
    <3>3. ASSUME NEW i \in 1..(n + 1)
          PROVE  M.prev[r[i]] = (IF i - 1 \in 1..(n + 1) THEN r[i - 1] ELSE NULL)
      <4>1. CASE i = n + 1
        BY <1>5, <2>3, <4>1 DEF Appended, Lists
      <4>2. CASE i <= n
        <5>1. r[i] = s[i] /\ i \in 1..n /\ (i - 1 \in 1..n => r[i - 1] = s[i - 1])
          BY <4>2 DEF Appended
        <5>2. s[i] # t /\ s[i] \in Tasks
          BY <1>1, <5>1 DEF Elements
        <5>3. M.prev[s[i]] = L.prev[s[i]]
          BY <2>3, <5>2 DEF Lists
        <5>4. i - 1 \in 1..n <=> i - 1 \in 1..(n + 1)
          BY <4>2
        <5> QED BY <5>1, <5>3, <5>4 DEF IsOrder
      <4> QED BY <4>1, <4>2
    <3>4. DOMAIN r = 1..(n + 1)
      BY DEF Appended
    <3> QED BY <3>1, <3>2, <3>3, <3>4 DEF IsOrder
  <2>7. Installed(M) = Elements(r)
    BY <1>3, <2>5, <2>6, OrderInstalled
  <2>8. Elements(r) = Installed(L) \cup {t}
    <3>1. \A i \in 1..(n + 1) : r[i] = t \/ (i \in 1..n /\ r[i] = s[i])
      BY DEF Appended
    <3>2. \A i \in 1..n : i \in 1..(n + 1) /\ r[i] = s[i]
      BY DEF Appended
    <3>3. n + 1 \in 1..(n + 1) /\ r[n + 1] = t
      BY DEF Appended
    <3>4. DOMAIN r = 1..(n + 1)
      BY DEF Appended
    <3> QED BY <1>1, <3>1, <3>2, <3>3, <3>4 DEF Elements
  <2>9. \A u \in Tasks \ (Installed(L) \cup {t}) : M.next[u] = L.next[u]
    BY <2>3, <2>4 DEF Lists
  <2> QED BY <1>3, <2>5, <2>6, <2>7, <2>8, <2>9
<1> QED BY <1>4, <1>5

\* removeTaskInQueue takes an installed task out of the order, and out of
\* nothing else; its own links are left as they were.
LEMMA RemoveExtracts ==
  ASSUME NEW L \in Lists, NEW n \in Nat, NEW s \in [1..n -> Tasks], s \in Orders,
         \A i, j \in 1..n : s[i] = s[j] => i = j,
         IsOrder(L, s), NEW k \in 1..n
  PROVE  LET M == RemoveTaskInQueue(L, s[k])
         IN  /\ M \in Lists
             /\ Without(s, n, k) \in Orders
             /\ IsOrder(M, Without(s, n, k))
             /\ Installed(M) = Installed(L) \ {s[k]}
             /\ \A u \in Tasks \ (Installed(L) \ {s[k]}) : M.next[u] = L.next[u]
<1> DEFINE t == s[k]
           M == RemoveTaskInQueue(L, t)
           r == Without(s, n, k)
<1>1. Installed(L) = Elements(s)
  BY OrderInstalled
<1>2. /\ r \in [1..(n - 1) -> Tasks]
      /\ \A i, j \in 1..(n - 1) : r[i] = r[j] => i = j
  BY DEF Without
<1>3. r \in Orders
  BY <1>2, OrderIntro
<1>4. t \in Tasks /\ t # NULL
  BY TasksAssumption
<1>0. LinksAt(L, n, s, k)
  BY OrderLinks
<1>5. L.next[t] = IF k = n THEN NULL ELSE s[k + 1]
  BY <1>0 DEF LinksAt
<1>6. L.prev[t] = IF k = 1 THEN NULL ELSE s[k - 1]
  BY <1>0 DEF LinksAt
<1>7. \A u \in Tasks : M.next[u] = IF k # 1 /\ u = s[k - 1] THEN L.next[t] ELSE L.next[u]
  <2>1. M.next = BypassedNext(L, t)
    BY DEF RemoveTaskInQueue
  <2>2. CASE k = 1
    BY <1>6, <2>1, <2>2 DEF BypassedNext
  <2>3. CASE k # 1
    <3>1. s[k - 1] \in Tasks /\ s[k - 1] # NULL
      BY <2>3, TasksAssumption
    <3> QED BY <1>6, <2>1, <2>3, <3>1 DEF BypassedNext, Lists
  <2> QED BY <2>2, <2>3
<1>8. M.next[t] = L.next[t]
  BY <1>4, <1>7
<1>9. \A u \in Tasks : M.prev[u] = IF k # n /\ u = s[k + 1] THEN L.prev[t] ELSE L.prev[u]
  <2>1. M.prev = IF M.next[t] = NULL THEN L.prev
                 ELSE [L.prev EXCEPT ![M.next[t]] = L.prev[t]]
    BY DEF RemoveTaskInQueue
  <2>2. CASE k = n
    BY <1>5, <1>8, <2>1, <2>2
  <2>3. CASE k # n
    <3>1. s[k + 1] \in Tasks /\ s[k + 1] # NULL
      BY <2>3, TasksAssumption
    <3> QED BY <1>5, <1>8, <2>1, <2>3, <3>1 DEF Lists
  <2> QED BY <2>2, <2>3
<1>10. M.head = IF k = 1 THEN L.next[t] ELSE L.head
  <2>1. L.head = s[1]
    BY DEF IsOrder
  <2>2. M.head = IF L.head = t THEN M.next[t] ELSE L.head
    BY DEF RemoveTaskInQueue
  <2> QED BY <1>8, <2>1, <2>2
<1>11. M \in Lists
  <2>1. BypassedNext(L, t) \in [Tasks -> Pointer]
    BY <1>4 DEF BypassedNext, Lists, Pointer
  <2>2. L.prev[t] \in Pointer /\ L.next[t] \in Pointer /\ L.head \in Pointer
    BY <1>4 DEF Lists
  <2>3. BypassedNext(L, t)[t] \in Pointer
    BY <1>4, <2>1
  <2> QED BY <2>1, <2>2, <2>3 DEF RemoveTaskInQueue, Lists
<1>12. IsOrder(M, r)
  <2>1. M.head = (IF 1..(n - 1) = {} THEN NULL ELSE r[1])
    <3>1. L.head = s[1]
      BY DEF IsOrder
    <3>2. CASE n = 1
      BY <1>5, <1>10, <3>2
    <3>3. CASE n # 1
      <4>1. 1 \in 1..(n - 1) /\ r[1] = IF k = 1 THEN s[2] ELSE s[1]
        BY <3>3 DEF Without
      <4> QED BY <1>5, <1>10, <3>1, <3>3, <4>1
    <3> QED BY <3>2, <3>3
  <2>2. ASSUME NEW i \in 1..(n - 1)
        PROVE  M.next[r[i]] = (IF i + 1 \in 1..(n - 1) THEN r[i + 1] ELSE NULL)
    <3>1. r[i] \in Tasks
      BY <1>2
    <3>2. CASE i = k - 1
      <4>1. r[i] = s[k - 1] /\ k # 1
        BY <3>2 DEF Without
      <4>2. M.next[r[i]] = L.next[t]
        BY <1>7, <3>1, <4>1
      <4>3. i + 1 \in 1..(n - 1) => r[i + 1] = s[k + 1]
        BY <3>2 DEF Without
      <4> QED BY <1>5, <3>2, <4>2, <4>3
    <3>3. CASE i < k - 1
      <4>1. r[i] = s[i] /\ r[i + 1] = s[i + 1] /\ i + 1 \in 1..(n - 1) /\ i + 1 \in 1..n /\ i \in 1..n
        BY <3>3 DEF Without
      <4>2. k # 1 /\ s[i] # s[k - 1]
        BY <3>3, <4>1
      <4>3. M.next[s[i]] = L.next[s[i]]
        BY <1>7, <3>1, <4>1, <4>2
      <4>4. L.next[s[i]] = s[i + 1]
        BY <4>1 DEF IsOrder
      <4> QED BY <4>1, <4>3, <4>4
    <3>4. CASE i > k - 1
      <4>1. r[i] = s[i + 1] /\ i + 1 \in 1..n /\ (i + 1 \in 1..(n - 1) => r[i + 1] = s[(i + 1) + 1])
        BY <3>4 DEF Without
      <4>2. k # 1 => s[i + 1] # s[k - 1]
        BY <3>4, <4>1
      <4>3. M.next[s[i + 1]] = L.next[s[i + 1]]
        BY <1>7, <3>1, <4>1, <4>2
      <4>4. L.next[s[i + 1]] = IF (i + 1) + 1 \in 1..n THEN s[(i + 1) + 1] ELSE NULL
        BY <4>1 DEF IsOrder
      <4>5. (i + 1) + 1 \in 1..n <=> i + 1 \in 1..(n - 1)
        BY <4>1
      <4> QED BY <4>1, <4>3, <4>4, <4>5
    <3> QED BY <3>2, <3>3, <3>4
  <2>3. ASSUME NEW i \in 1..(n - 1)
        PROVE  M.prev[r[i]] = (IF i - 1 \in 1..(n - 1) THEN r[i - 1] ELSE NULL)
    <3>1. r[i] \in Tasks
      BY <1>2
    <3>2. CASE i = k
      <4>1. r[i] = s[k + 1] /\ k # n
        BY <3>2 DEF Without
      <4>2. M.prev[r[i]] = L.prev[t]
        BY <1>9, <3>1, <4>1
      <4>3. i - 1 \in 1..(n - 1) => r[i - 1] = s[k - 1]
        BY <3>2 DEF Without
      <4> QED BY <1>6, <3>2, <4>2, <4>3
    <3>3. CASE i < k
      <4>1. r[i] = s[i] /\ i \in 1..n /\ (i - 1 \in 1..(n - 1) => r[i - 1] = s[i - 1])
        BY <3>3 DEF Without
      <4>2. k # n => s[i] # s[k + 1]
        BY <3>3, <4>1
      <4>3. M.prev[s[i]] = L.prev[s[i]]
        BY <1>9, <3>1, <4>1, <4>2
      <4>4. L.prev[s[i]] = IF i - 1 \in 1..n THEN s[i - 1] ELSE NULL
        BY <4>1 DEF IsOrder
      <4>5. i - 1 \in 1..n <=> i - 1 \in 1..(n - 1)
        BY <4>1
      <4> QED BY <4>1, <4>3, <4>4, <4>5
    <3>4. CASE i > k
      <4>1. r[i] = s[i + 1] /\ i + 1 \in 1..n /\ r[i - 1] = s[i] /\ i - 1 \in 1..(n - 1)
        BY <3>4 DEF Without
      <4>2. k # n /\ s[i + 1] # s[k + 1]
        BY <3>4, <4>1
      <4>3. M.prev[s[i + 1]] = L.prev[s[i + 1]]
        BY <1>9, <3>1, <4>1, <4>2
      <4>4. L.prev[s[i + 1]] = IF i + 1 = 1 THEN NULL ELSE s[(i + 1) - 1]
        <5>1. LinksAt(L, n, s, i + 1)
          BY <4>1, OrderLinks
        <5> QED BY <5>1 DEF LinksAt
      <4>5. (i + 1) - 1 = i /\ i + 1 # 1
        BY <4>1
      <4> QED BY <4>1, <4>3, <4>4, <4>5
    <3> QED BY <3>2, <3>3, <3>4
  <2>4. DOMAIN r = 1..(n - 1)
    BY DEF Without
  <2> QED BY <2>1, <2>2, <2>3, <2>4 DEF IsOrder
<1>13. Installed(M) = Elements(r)
  BY <1>3, <1>11, <1>12, OrderInstalled
<1>14. Elements(r) = Installed(L) \ {t}
  <2>1. DOMAIN r = 1..(n - 1) /\ DOMAIN s = 1..n
    BY DEF Without
  <2>2. ASSUME NEW i \in 1..(n - 1) PROVE \E j \in 1..n : j # k /\ r[i] = s[j]
    BY DEF Without
  <2>3. ASSUME NEW j \in 1..n, j # k PROVE \E i \in 1..(n - 1) : r[i] = s[j]
    <3>1. CASE j < k
      <4>1. j \in 1..(n - 1) /\ r[j] = s[j]
        BY <3>1 DEF Without
      <4> QED BY <4>1
    <3>2. CASE j > k
      <4>1. j - 1 \in 1..(n - 1) /\ ~(j - 1 < k) /\ (j - 1) + 1 = j
        BY <3>2
      <4>2. r[j - 1] = s[j]
        BY <4>1 DEF Without
      <4> QED BY <4>1, <4>2
    <3> QED BY <2>3, <3>1, <3>2
  <2> QED BY <1>1, <2>1, <2>2, <2>3 DEF Elements
<1>15. \A u \in Tasks \ (Installed(L) \ {t}) : M.next[u] = L.next[u]
  <2>1. k # 1 => s[k - 1] \in Installed(L) \ {t}
    BY <1>1 DEF Elements
  <2> QED BY <1>7, <2>1
<1> QED BY <1>3, <1>11, <1>12, <1>13, <1>14, <1>15
-----------------------------------------------------------------------------
(* The same, for readers who need not know the order.                      *)

LEMMA AddKeepsWellLinked ==
  ASSUME NEW L \in Lists, WellLinked(L), NEW t \in Tasks, t \notin Installed(L)
  PROVE  /\ AddDynamicTask(L, t) \in Lists
         /\ WellLinked(AddDynamicTask(L, t))
         /\ Installed(AddDynamicTask(L, t)) = Installed(L) \cup {t}
         /\ \A u \in Tasks \ (Installed(L) \cup {t}) :
              AddDynamicTask(L, t).next[u] = L.next[u]
<1>1. PICK s \in Orders : IsOrder(L, s)
  BY DEF WellLinked
<1>2. PICK n \in 0..Cardinality(Tasks) :
        s \in [1..n -> Tasks] /\ \A i, j \in 1..n : s[i] = s[j] => i = j
  BY OrderType
<1>3. n \in Nat
  BY FS_CardinalityType, TasksAssumption
<1> QED BY <1>1, <1>2, <1>3, AddAppends DEF WellLinked

LEMMA RemoveKeepsWellLinked ==
  ASSUME NEW L \in Lists, WellLinked(L), NEW t \in Installed(L)
  PROVE  /\ RemoveTaskInQueue(L, t) \in Lists
         /\ WellLinked(RemoveTaskInQueue(L, t))
         /\ Installed(RemoveTaskInQueue(L, t)) = Installed(L) \ {t}
         /\ \A u \in Tasks \ (Installed(L) \ {t}) :
              RemoveTaskInQueue(L, t).next[u] = L.next[u]
<1>1. PICK s \in Orders : IsOrder(L, s)
  BY DEF WellLinked
<1>2. PICK n \in 0..Cardinality(Tasks) :
        s \in [1..n -> Tasks] /\ \A i, j \in 1..n : s[i] = s[j] => i = j
  BY OrderType
<1>3. n \in Nat
  BY FS_CardinalityType, TasksAssumption
<1>4. PICK k \in 1..n : t = s[k]
  BY <1>1, <1>2, OrderInstalled DEF Elements
<1> QED BY <1>1, <1>2, <1>3, <1>4, RemoveExtracts DEF WellLinked

\* From an installed task the links lead to another installed one or end.
LEMMA NextIsInstalled ==
  ASSUME NEW L \in Lists, WellLinked(L)
  PROVE  /\ Installed(L) \subseteq Tasks
         /\ L.head # NULL => L.head \in Installed(L)
         /\ \A t \in Installed(L) : L.next[t] # NULL => L.next[t] \in Installed(L) \ {t}
<1>1. PICK s \in Orders : IsOrder(L, s)
  BY DEF WellLinked
<1>2. PICK n \in 0..Cardinality(Tasks) :
        s \in [1..n -> Tasks] /\ \A i, j \in 1..n : s[i] = s[j] => i = j
  BY OrderType
<1>3. n \in Nat
  BY FS_CardinalityType, TasksAssumption
<1>4. Installed(L) = Elements(s)
  BY <1>1, OrderInstalled
<1>5. L.head # NULL => L.head \in Elements(s)
  BY <1>1, <1>2 DEF IsOrder, Elements
<1>6. ASSUME NEW t \in Installed(L), L.next[t] # NULL
      PROVE  L.next[t] \in Installed(L) \ {t}
  <2>1. PICK i \in 1..n : t = s[i]
    BY <1>2, <1>4 DEF Elements
  <2>2. LinksAt(L, n, s, i)
    BY <1>1, <1>2, <1>3, OrderLinks
  <2>3. i # n /\ L.next[t] = s[i + 1]
    BY <1>6, <2>1, <2>2 DEF LinksAt
  <2>4. i + 1 \in 1..n /\ i + 1 # i
    BY <1>3, <2>1, <2>3
  <2> QED BY <1>2, <1>4, <2>1, <2>3, <2>4 DEF Elements
<1> QED BY <1>4, <1>5, <1>6 DEF Installed

\* The links lead back the same way.
LEMMA PreviousOfNext ==
  ASSUME NEW L \in Lists, WellLinked(L), NEW t \in Installed(L), L.next[t] # NULL
  PROVE  L.prev[L.next[t]] = t
<1>1. PICK s \in Orders : IsOrder(L, s)
  BY DEF WellLinked
<1>2. PICK n \in 0..Cardinality(Tasks) : s \in [1..n -> Tasks]
  BY OrderType
<1>3. n \in Nat
  BY FS_CardinalityType, TasksAssumption
<1>4. PICK i \in 1..n : t = s[i]
  BY <1>1, <1>2, OrderInstalled DEF Elements
<1>5. LinksAt(L, n, s, i)
  BY <1>1, <1>2, <1>3, OrderLinks
<1>6. i # n /\ L.next[t] = s[i + 1]
  BY <1>4, <1>5 DEF LinksAt
<1>7. i + 1 \in 1..n /\ (i + 1) - 1 = i /\ i + 1 # 1
  BY <1>3, <1>6
<1>8. LinksAt(L, n, s, i + 1)
  BY <1>1, <1>2, <1>3, <1>7, OrderLinks
<1>9. QED
  BY <1>4, <1>6, <1>7, <1>8 DEF LinksAt

\* There is one last task.
LEMMA OneLast ==
  ASSUME NEW L \in Lists, WellLinked(L), NEW t \in Installed(L), NEW u \in Installed(L),
         L.next[t] = NULL, L.next[u] = NULL
  PROVE  t = u
<1>1. PICK s \in Orders : IsOrder(L, s)
  BY DEF WellLinked
<1>2. PICK n \in 0..Cardinality(Tasks) : s \in [1..n -> Tasks]
  BY OrderType
<1>3. n \in Nat
  BY FS_CardinalityType, TasksAssumption
<1>4. ASSUME NEW v \in Installed(L), L.next[v] = NULL PROVE n # 0 /\ v = s[n]
  <2>1. PICK i \in 1..n : v = s[i]
    BY <1>1, <1>2, OrderInstalled DEF Elements
  <2>2. LinksAt(L, n, s, i)
    BY <1>1, <1>2, <1>3, OrderLinks
  <2>3. CASE i # n
    <3>1. s[i + 1] \in Tasks
      BY <1>2, <1>3, <2>3
    <3>2. QED
      BY <1>4, <2>1, <2>2, <2>3, <3>1, TasksAssumption DEF LinksAt
  <2>4. QED
    BY <1>3, <2>1, <2>3
<1>5. QED
  BY <1>4

\* What lies in the link fields of other blocks does not matter.
LEMMA LinksElsewhere ==
  ASSUME NEW L \in Lists, WellLinked(L), NEW M \in Lists, M.head = L.head,
         \A t \in Installed(L) : M.next[t] = L.next[t] /\ M.prev[t] = L.prev[t]
  PROVE  WellLinked(M) /\ Installed(M) = Installed(L)
<1>1. PICK s \in Orders : IsOrder(L, s)
  BY DEF WellLinked
<1>2. Installed(L) = Elements(s)
  BY <1>1, OrderInstalled
<1>3. \A i \in DOMAIN s : s[i] \in Installed(L)
  BY <1>2 DEF Elements
<1>4. IsOrder(M, s)
  BY <1>1, <1>3 DEF IsOrder
<1> QED BY <1>2, <1>4, OrderInstalled DEF WellLinked

\* addDynamicTask of a task that its walk finds, or that is not installed.
LEMMA AddInstalls ==
  ASSUME NEW L \in Lists, WellLinked(L), NEW t \in Tasks,
         t \notin Installed(L) \/ FoundByAdd(L, t)
  PROVE  /\ AddDynamicTask(L, t) \in Lists
         /\ WellLinked(AddDynamicTask(L, t))
         /\ Installed(AddDynamicTask(L, t)) = Installed(L) \cup {t}
<1>1. CASE t \notin Installed(L)
  BY <1>1, AddKeepsWellLinked
<1>2. CASE FoundByAdd(L, t)
  <2>1. L.head # NULL
    <3> SUFFICES ASSUME L.head = NULL PROVE FALSE
      OBVIOUS
    <3>1. {} \in ClosedSets(L)
      BY DEF ClosedSets
    <3>2. QED
      BY <1>2, <3>1 DEF FoundByAdd, Installed
  <2>2. AddDynamicTask(L, t) = L
    BY <1>2, <2>1 DEF AddDynamicTask
  <2>3. QED
    BY <1>2, <2>2 DEF FoundByAdd
<1>3. QED
  BY <1>1, <1>2

\* removeDynamicTask of any task.
LEMMA RemoveUninstalls ==
  ASSUME NEW L \in Lists, WellLinked(L), NEW t \in Tasks
  PROVE  /\ RemoveDynamicTask(L, t) \in Lists
         /\ WellLinked(RemoveDynamicTask(L, t))
         /\ Installed(RemoveDynamicTask(L, t)) = Installed(L) \ {t}
BY RemoveKeepsWellLinked DEF RemoveDynamicTask

\* A list without a first task, as the run loop starts with.
LEMMA EmptyList ==
  ASSUME NEW L \in Lists, L.head = NULL
  PROVE  WellLinked(L) /\ Installed(L) = {}
<1>1. <<>> \in Orders
  BY OrderIntro, FS_CardinalityType, TasksAssumption DEF Orders
<1>2. IsOrder(L, <<>>)
  BY DEF IsOrder
<1>3. Installed(L) = {}
  BY <1>1, <1>2, OrderInstalled DEF Elements
<1>4. QED
  BY <1>1, <1>2, <1>3 DEF WellLinked

-----------------------------------------------------------------------------
(* The order of a list is unique, so that it is the one OrderOf chooses.   *)

LEMMA OrderPrefix ==
  ASSUME NEW L, NEW n \in Nat, NEW s \in [1..n -> Tasks], IsOrder(L, s),
         NEW m \in Nat, NEW r \in [1..m -> Tasks], IsOrder(L, r)
  PROVE  \A i \in 1..n : i \in 1..m /\ r[i] = s[i]
<1> DEFINE Odd == {i \in 1..n : ~(i \in 1..m /\ r[i] = s[i])}
<1> SUFFICES ASSUME Odd # {} PROVE FALSE
  OBVIOUS
<1>1. PICK x \in Odd : \A y \in Odd : x <= y
  <2>1. Odd \subseteq Nat
    OBVIOUS
  <2> HIDE DEF Odd
  <2>2. QED
    BY <2>1, LeastNumber
<1>2. x \in 1..n /\ ~(x \in 1..m /\ r[x] = s[x])
  OBVIOUS
<1>3. CASE x = 1
  <2>1. L.head = s[1] /\ s[1] \in Tasks
    BY <1>2, <1>3 DEF IsOrder
  <2>2. DOMAIN r # {} /\ L.head = r[1]
    BY <2>1, TasksAssumption DEF IsOrder
  <2>3. QED
    BY <1>2, <1>3, <2>1, <2>2
<1>4. CASE x # 1
  <2>1. x - 1 \in 1..n /\ x - 1 \notin Odd
    BY <1>1, <1>2, <1>4
  <2>2. x - 1 \in 1..m /\ r[x - 1] = s[x - 1]
    BY <2>1
  <2>3. L.next[s[x - 1]] = s[x] /\ s[x] \in Tasks
    <3>1. LinksAt(L, n, s, x - 1) /\ (x - 1) + 1 = x /\ x - 1 # n
      BY <1>2, <2>1, OrderLinks
    <3>2. QED
      BY <1>2, <3>1 DEF LinksAt
  <2>4. LinksAt(L, m, r, x - 1)
    BY <2>2, OrderLinks
  <2>5. x - 1 # m /\ L.next[r[x - 1]] = r[x] /\ x \in 1..m
    <3>1. x - 1 # m
      BY <2>2, <2>3, <2>4, TasksAssumption DEF LinksAt
    <3>2. (x - 1) + 1 = x /\ x \in 1..m
      BY <1>2, <2>2, <3>1
    <3>3. QED
      BY <2>4, <3>1, <3>2 DEF LinksAt
  <2>6. QED
    BY <1>2, <2>2, <2>3, <2>5
<1>5. QED
  BY <1>3, <1>4

LEMMA OrderOfIs ==
  ASSUME NEW L, NEW s \in Orders, IsOrder(L, s)
  PROVE  OrderOf(L) = s
<1>1. OrderOf(L) \in Orders /\ IsOrder(L, OrderOf(L))
  BY DEF OrderOf
<1>2. PICK n \in 0..Cardinality(Tasks) : s \in [1..n -> Tasks]
  BY OrderType
<1>3. PICK m \in 0..Cardinality(Tasks) : OrderOf(L) \in [1..m -> Tasks]
  BY <1>1, OrderType
<1>4. n \in Nat /\ m \in Nat
  BY FS_CardinalityType, TasksAssumption
<1>5. \A i \in 1..n : i \in 1..m /\ OrderOf(L)[i] = s[i]
  BY <1>1, <1>2, <1>3, <1>4, OrderPrefix
<1>6. \A i \in 1..m : i \in 1..n
  BY <1>1, <1>2, <1>3, <1>4, OrderPrefix
<1>7. n = m
  <2>1. n <= m
    BY <1>4, <1>5
  <2>2. m <= n
    BY <1>4, <1>6
  <2>3. QED
    BY <1>4, <2>1, <2>2
<1>8. QED
  BY <1>2, <1>3, <1>5, <1>7

-----------------------------------------------------------------------------
(* The run loop.                                                           *)

\* IsTrail with its length, and with the state spelt out.
Trail(L, c, live, n, s) ==
  /\ n \in Nat \ {0}
  /\ s \in [1..n -> Tasks]
  /\ \A i, j \in 1..n : s[i] = s[j] => i = j
  /\ s[1] = c
  /\ \A i \in 1..n :
       /\ s[i] \notin Installed(L) /\ s[i] \notin SingleShot
       /\ i # 1 => s[i] \in live
       /\ i # n => L.next[s[i]] = s[i + 1]
       /\ i = n => L.next[s[i]] \in Installed(L) \cup {NULL}

HasTrail(L, c, live) == \E n \in Nat : \E s \in [1..n -> Tasks] : Trail(L, c, live, n, s)

\* Both descriptions of a trail say the same.
LEMMA TrailIsHasTrail ==
  (\E s \in Orders : IsTrail(s)) <=> HasTrail(list, cursor, alive)
<1>1. ASSUME NEW s \in Orders, IsTrail(s) PROVE HasTrail(list, cursor, alive)
  <2>1. PICK n \in 0..Cardinality(Tasks) :
          s \in [1..n -> Tasks] /\ \A i, j \in 1..n : s[i] = s[j] => i = j
    BY OrderType
  <2>2. n \in Nat \ {0}
    BY <1>1, <2>1, FS_CardinalityType, TasksAssumption DEF IsTrail
  <2>3. ASSUME NEW i \in 1..n
        PROVE  /\ s[i] \notin Installed(list) /\ s[i] \notin SingleShot
               /\ i # 1 => s[i] \in alive
               /\ i # n => list.next[s[i]] = s[i + 1]
               /\ i = n => list.next[s[i]] \in Installed(list) \cup {NULL}
    <3>1. i + 1 \in DOMAIN s <=> i # n
      BY <2>1, <2>2
    <3> QED BY <1>1, <2>1, <3>1 DEF IsTrail
  <2>4. s[1] = cursor
    BY <1>1 DEF IsTrail
  <2>5. Trail(list, cursor, alive, n, s)
    BY <2>1, <2>2, <2>3, <2>4 DEF Trail
  <2> QED BY <2>1, <2>2, <2>5 DEF HasTrail
<1>2. ASSUME NEW n \in Nat, NEW s \in [1..n -> Tasks], Trail(list, cursor, alive, n, s)
      PROVE  s \in Orders /\ IsTrail(s)
  <2>1. s \in Orders
    BY <1>2, OrderIntro DEF Trail
  <2>2. ASSUME NEW i \in 1..n
        PROVE  IF i + 1 \in 1..n THEN list.next[s[i]] = s[i + 1]
               ELSE list.next[s[i]] \in Installed(list) \cup {NULL}
    <3>1. i + 1 \in 1..n <=> i # n
      OBVIOUS
    <3> QED BY <1>2, <3>1 DEF Trail
  <2>3. 1 \in 1..n
    BY <1>2 DEF Trail
  <2> QED BY <1>2, <2>1, <2>2, <2>3 DEF IsTrail, Trail
<1> QED BY <1>1, <1>2 DEF HasTrail

\* The invariant, one conjunct per fact the steps use.
Inv ==
  /\ TypeOK
  /\ WellLinked(list)
  /\ Installed(list) \subseteq alive
  /\ CursorLeft => HasTrail(list, cursor, alive)

LEMMA InvIsIInv == Inv <=> IInv
  BY TrailIsHasTrail DEF Inv, IInv, ListIntact

-----------------------------------------------------------------------------
\* Before the first task is added the list is empty.
LEMMA InitInv == Init => Inv
<1> SUFFICES ASSUME Init PROVE Inv
  OBVIOUS
<1>1. TypeOK
  BY ClientAssumption DEF Init, TypeOK, Lists, Pointer
<1>2. <<>> \in Orders
  BY OrderIntro, FS_CardinalityType, TasksAssumption DEF Orders
<1>3. IsOrder(list, <<>>)
  BY DEF Init, IsOrder
<1>4. Installed(list) = {}
  BY <1>1, <1>2, <1>3, OrderInstalled DEF Elements, TypeOK
<1> QED BY <1>1, <1>2, <1>3, <1>4 DEF Inv, WellLinked, Init, CursorLeft

LEMMA BeginPassInv == Inv /\ BeginPass => Inv'
<1> SUFFICES ASSUME Inv, BeginPass PROVE Inv'
  OBVIOUS
<1>1. list' = list /\ alive' = alive /\ cursor' = list.head /\ list.head # NULL
  BY DEF BeginPass
<1>2. cursor' \in Installed(list)
  BY <1>1, NextIsInstalled DEF Inv, TypeOK
<1> QED BY <1>1, <1>2 DEF Inv, TypeOK, CursorLeft, Installed, Pointer

\* The tasks ahead of a pass whose task has left the list: one step of the
\* pass drops the first of them.
LEMMA HandlerReturnsInv == Inv /\ HandlerReturns => Inv'
<1> SUFFICES ASSUME Inv, HandlerReturns PROVE Inv'
  OBVIOUS
<1>1. cursor \in Tasks /\ list \in Lists /\ WellLinked(list) /\ alive' = alive
  BY DEF Inv, TypeOK, HandlerReturns, Pointer
<1>2. CASE cursor \in Installed(list)
  <2>1. list.next[cursor] # NULL => list.next[cursor] \in Installed(list) \ {cursor}
    BY <1>1, <1>2, NextIsInstalled
  <2>2. CASE cursor \in SingleShot
    <3>1. list' = RemoveTaskInQueue(list, cursor) /\ cursor' = list'.next[cursor]
      BY <2>2 DEF HandlerReturns
    <3>2. /\ list' \in Lists /\ WellLinked(list')
          /\ Installed(list') = Installed(list) \ {cursor}
          /\ list'.next[cursor] = list.next[cursor]
      BY <1>1, <1>2, <3>1, RemoveKeepsWellLinked
    <3>3. cursor' # NULL => cursor' \in Installed(list')
      BY <2>1, <3>1, <3>2
    <3> QED BY <1>1, <2>1, <3>1, <3>2, <3>3 DEF Inv, TypeOK, CursorLeft, Pointer, Installed
  <2>3. CASE cursor \notin SingleShot
    <3>1. list' = list /\ cursor' = list.next[cursor]
      BY <2>3 DEF HandlerReturns
    <3> QED BY <1>1, <2>1, <3>1 DEF Inv, TypeOK, CursorLeft, Pointer, Installed
  <2> QED BY <2>2, <2>3
<1>3. CASE cursor \notin Installed(list)
  <2>0. PICK n \in Nat : \E s \in [1..n -> Tasks] : Trail(list, cursor, alive, n, s)
    BY <1>1, <1>3, TasksAssumption DEF Inv, CursorLeft, HasTrail
  <2>1. PICK s \in [1..n -> Tasks] : Trail(list, cursor, alive, n, s)
    BY <2>0
  <2>2. cursor \notin SingleShot
    BY <2>1 DEF Trail
  <2>3. list' = list /\ cursor' = list.next[cursor]
    BY <2>2 DEF HandlerReturns
  <2>4. TypeOK'
    BY <1>1, <2>3 DEF Inv, TypeOK, Lists
  <2>5. CASE n = 1
    <3>1. cursor' \in Installed(list) \cup {NULL}
      BY <2>1, <2>3, <2>5 DEF Trail
    <3> QED BY <1>1, <2>3, <2>4, <3>1 DEF Inv, CursorLeft
  <2>6. CASE n # 1
    <3> DEFINE r == [i \in 1..(n - 1) |-> s[i + 1]]
    <3>1. n - 1 \in Nat \ {0} /\ r \in [1..(n - 1) -> Tasks]
      BY <2>1, <2>6 DEF Trail
    <3>2. \A i, j \in 1..(n - 1) : r[i] = r[j] => i = j
      <4>1. ASSUME NEW i \in 1..(n - 1), NEW j \in 1..(n - 1), r[i] = r[j]
            PROVE  i = j
        <5>1. i + 1 \in 1..n /\ j + 1 \in 1..n /\ s[i + 1] = s[j + 1]
          BY <4>1
        <5>2. i + 1 = j + 1
          BY <2>1, <5>1 DEF Trail
        <5> QED BY <5>2
      <4> QED BY <4>1
    <3>3. r[1] = cursor'
      <4>1. 1 # n /\ 1 \in 1..n
        BY <2>6, <3>1
      <4>2. list.next[s[1]] = s[1 + 1]
        BY <2>1, <4>1 DEF Trail
      <4> QED BY <2>1, <2>3, <3>1, <4>2 DEF Trail
    <3>4. ASSUME NEW i \in 1..(n - 1)
          PROVE  /\ r[i] \notin Installed(list) /\ r[i] \notin SingleShot
                 /\ r[i] \in alive
                 /\ i # n - 1 => list.next[r[i]] = r[i + 1]
                 /\ i = n - 1 => list.next[r[i]] \in Installed(list) \cup {NULL}
      <4>1. r[i] = s[i + 1] /\ i + 1 \in 1..n /\ i + 1 # 1
        OBVIOUS
      <4>2. i # n - 1 => i + 1 # n /\ i + 1 \in 1..(n - 1) /\ r[i + 1] = s[(i + 1) + 1]
        OBVIOUS
      <4> HIDE DEF r
      <4> QED BY <2>1, <4>1, <4>2 DEF Trail
    <3>5. Trail(list, cursor', alive, n - 1, r)
      BY <3>1, <3>2, <3>3, <3>4 DEF Trail
    <3> QED BY <1>1, <2>3, <2>4, <3>1, <3>5 DEF Inv, HasTrail
  <2> QED BY <2>5, <2>6
<1> QED BY <1>2, <1>3

\* A new object is neither in the list nor on the trail.
LEMMA ConstructInv == ASSUME NEW t \in Tasks PROVE Inv /\ Construct(t) => Inv'
<1> SUFFICES ASSUME Inv, Construct(t) PROVE Inv'
  OBVIOUS
<1>1. PICK x, y \in Garbage : list' = [list EXCEPT !.next[t] = x, !.prev[t] = y]
  BY DEF Construct
<1>2. cursor' = cursor /\ alive' = alive \cup {t} /\ t # cursor /\ t \notin alive
  BY DEF Construct
<1>3. list \in Lists /\ WellLinked(list) /\ x \in Pointer /\ y \in Pointer
  BY ClientAssumption DEF Inv, TypeOK
<1>4. /\ list' \in Lists /\ list'.head = list.head
      /\ \A u \in Tasks \ {t} : list'.next[u] = list.next[u] /\ list'.prev[u] = list.prev[u]
  BY <1>1, <1>3 DEF Lists
<1>5. t \notin Installed(list) /\ Installed(list) \subseteq Tasks
  BY <1>2 DEF Inv, Installed
<1>6. WellLinked(list') /\ Installed(list') = Installed(list)
  BY <1>3, <1>4, <1>5, LinksElsewhere
<1>7. ASSUME NEW n \in Nat, NEW s \in [1..n -> Tasks], Trail(list, cursor, alive, n, s)
      PROVE  Trail(list', cursor, alive', n, s)
  <2>1. \A i \in 1..n : s[i] # t
    BY <1>2, <1>7 DEF Trail
  <2> QED BY <1>2, <1>4, <1>6, <1>7, <2>1 DEF Trail
<1> QED BY <1>2, <1>4, <1>6, <1>7 DEF Inv, TypeOK, CursorLeft, HasTrail

\* A task that is added leaves the trail, which then ends in front of it.
LEMMA AddInv ==
  ASSUME Liberties = {}, NEW t \in Tasks
  PROVE  Inv /\ Add(t) => Inv'
<1> SUFFICES ASSUME Inv, Add(t) PROVE Inv'
  OBVIOUS
<1>1. /\ t \in alive /\ cursor' = cursor /\ alive' = alive
      /\ list' = AddDynamicTask(list, t)
      /\ t \notin Installed(list) \/ FoundByAdd(list, t)
  BY DEF Add
<1>2. list \in Lists /\ WellLinked(list) /\ Installed(list) \subseteq alive
  BY DEF Inv, TypeOK
<1>3. CASE FoundByAdd(list, t)
  <2>1. list' = list
    <3>1. list.head # NULL
      <4>1. SUFFICES ASSUME list.head = NULL PROVE FALSE
        OBVIOUS
      <4>2. {} \in ClosedSets(list)
        BY <4>1 DEF ClosedSets
      <4> QED BY <1>3, <4>2 DEF FoundByAdd, Installed
    <3> QED BY <1>1, <1>3, <3>1 DEF AddDynamicTask
  <2> QED BY <1>1, <2>1 DEF Inv, TypeOK, CursorLeft
<1>4. CASE t \notin Installed(list)
  <2>1. /\ list' \in Lists /\ WellLinked(list')
        /\ Installed(list') = Installed(list) \cup {t}
        /\ \A u \in Tasks \ (Installed(list) \cup {t}) : list'.next[u] = list.next[u]
    BY <1>1, <1>2, <1>4, AddKeepsWellLinked
  <2>2. ASSUME CursorLeft', NEW n \in Nat, NEW s \in [1..n -> Tasks],
               Trail(list, cursor, alive, n, s)
        PROVE  HasTrail(list', cursor', alive')
    <3>1. cursor # t
      BY <1>1, <2>1, <2>2 DEF CursorLeft
    <3>2. CASE \A i \in 1..n : s[i] # t
      <4>1. \A i \in 1..n : list'.next[s[i]] = list.next[s[i]]
        BY <2>1, <2>2, <3>2 DEF Trail
      <4>2. Trail(list', cursor, alive, n, s)
        BY <2>1, <2>2, <3>2, <4>1 DEF Trail
      <4> QED BY <1>1, <4>2 DEF HasTrail
    <3>3. CASE \E i \in 1..n : s[i] = t
      <4>1. PICK k \in 1..n : s[k] = t
        BY <3>3
      <4> DEFINE r == [i \in 1..(k - 1) |-> s[i]]
      <4>2. k # 1 /\ k - 1 \in Nat \ {0} /\ k - 1 \in Nat
        BY <2>2, <3>1, <4>1 DEF Trail
      <4>3. r \in [1..(k - 1) -> Tasks] /\ \A i \in 1..(k - 1) : r[i] = s[i] /\ i \in 1..n /\ i # n
        BY <4>1
      <4> HIDE DEF r
      <4>4. r[1] = cursor
        BY <2>2, <4>2, <4>3 DEF Trail
      <4>5. \A i, j \in 1..(k - 1) : r[i] = r[j] => i = j
        BY <2>2, <4>3 DEF Trail
      <4>6. ASSUME NEW i \in 1..(k - 1)
            PROVE  /\ r[i] \notin Installed(list') /\ r[i] \notin SingleShot
                   /\ i # 1 => r[i] \in alive
                   /\ list'.next[r[i]] = s[i + 1]
        <5>1. r[i] = s[i] /\ i \in 1..n /\ i # n /\ i # k
          BY <4>3
        <5>2. s[i] # t /\ s[i] \notin Installed(list)
          BY <2>2, <4>1, <5>1 DEF Trail
        <5>3. list'.next[s[i]] = list.next[s[i]]
          BY <2>1, <5>1, <5>2
        <5> QED BY <2>1, <2>2, <5>1, <5>2, <5>3 DEF Trail
      <4>7. \A i \in 1..(k - 1) : i # k - 1 => r[i + 1] = s[i + 1]
        <5>1. \A i \in 1..(k - 1) : i # k - 1 => i + 1 \in 1..(k - 1)
          OBVIOUS
        <5> QED BY <4>3, <5>1
      <4>8. \A i \in 1..(k - 1) : i = k - 1 => s[i + 1] = t
        BY <4>1
      <4>9. Trail(list', cursor, alive, k - 1, r)
        BY <2>1, <4>2, <4>3, <4>4, <4>5, <4>6, <4>7, <4>8 DEF Trail
      <4> QED BY <1>1, <4>2, <4>3, <4>9 DEF HasTrail
    <3> QED BY <3>2, <3>3
  <2>3. CursorLeft' => CursorLeft
    BY <1>1, <2>1 DEF CursorLeft
  <2> QED BY <1>1, <1>2, <2>1, <2>2, <2>3 DEF Inv, TypeOK, HasTrail
<1> QED BY <1>1, <1>3, <1>4

\* Unlinking an installed task: only the trail changes that ended in front
\* of it, and a trail that begins with it is new.
LEMMA UnlinkKeepsTrail ==
  ASSUME NEW L \in Lists, WellLinked(L), NEW t \in Installed(L), t \notin SingleShot,
         NEW c \in Pointer, NEW live, t \in live,
         c # NULL /\ c \notin Installed(L) => HasTrail(L, c, live)
  PROVE  LET M == RemoveTaskInQueue(L, t)
         IN  c # NULL /\ c \notin Installed(M) => HasTrail(M, c, live)
<1> DEFINE M == RemoveTaskInQueue(L, t)
<1>1. /\ M \in Lists /\ WellLinked(M) /\ Installed(M) = Installed(L) \ {t}
      /\ \A u \in Tasks \ (Installed(L) \ {t}) : M.next[u] = L.next[u]
  BY RemoveKeepsWellLinked
<1>2. t \in Tasks /\ M.next[t] \in Installed(M) \cup {NULL} /\ t \notin Installed(M)
  <2>1. Installed(L) \subseteq Tasks /\ L.next[t] \in (Installed(L) \ {t}) \cup {NULL}
    BY NextIsInstalled
  <2> QED BY <1>1, <2>1
<1> HIDE DEF M
<1>3. CASE c = t
  <2> DEFINE s == [i \in 1..1 |-> t]
  <2>1. s \in [1..1 -> Tasks] /\ s[1] = t /\ \A i \in 1..1 : i = 1
    BY <1>2
  <2> HIDE DEF s
  <2>2. Trail(M, c, live, 1, s)
    BY <1>2, <1>3, <2>1 DEF Trail
  <2> QED BY <2>1, <2>2 DEF HasTrail, M
<1>4. CASE c # NULL /\ c \notin Installed(L)
  <2>1. PICK n \in Nat : \E s \in [1..n -> Tasks] : Trail(L, c, live, n, s)
    BY <1>4 DEF HasTrail
  <2>2. PICK s \in [1..n -> Tasks] : Trail(L, c, live, n, s)
    BY <2>1
  <2>3. n \in 1..n /\ \A i \in 1..n : s[i] # t /\ s[i] \in Tasks /\ M.next[s[i]] = L.next[s[i]]
    BY <1>1, <2>2 DEF Trail
  <2>4. CASE L.next[s[n]] # t
    <3>1. Trail(M, c, live, n, s)
      BY <1>1, <2>2, <2>3, <2>4 DEF Trail
    <3> QED BY <3>1 DEF HasTrail, M
  <2>5. CASE L.next[s[n]] = t
    <3> DEFINE r == [i \in 1..(n + 1) |-> IF i = n + 1 THEN t ELSE s[i]]
    <3>1. /\ n + 1 \in Nat \ {0}
          /\ r \in [1..(n + 1) -> Tasks]
          /\ r[n + 1] = t
          /\ \A i \in 1..n : r[i] = s[i] /\ i \in 1..(n + 1) /\ i # n + 1
          /\ \A i \in 1..(n + 1) : i # n + 1 => i \in 1..n
      BY <1>2
    <3> HIDE DEF r
    <3>2. \A i, j \in 1..(n + 1) : r[i] = r[j] => i = j
      BY <2>2, <2>3, <3>1 DEF Trail
    <3>3. r[1] = c
      BY <2>2, <3>1 DEF Trail
    <3>4. ASSUME NEW i \in 1..n
          PROVE  /\ r[i] \notin Installed(M) /\ r[i] \notin SingleShot
                 /\ i # 1 => r[i] \in live
                 /\ M.next[r[i]] = r[i + 1]
      <4>1. r[i] = s[i] /\ s[i] \notin Installed(L) /\ M.next[s[i]] = L.next[s[i]]
        BY <2>2, <2>3, <3>1 DEF Trail
      <4>2. CASE i = n
        BY <1>1, <2>2, <2>5, <3>1, <4>1, <4>2 DEF Trail
      <4>3. CASE i # n
        <5>1. i + 1 \in 1..n
          BY <4>3
        <5>2. L.next[s[i]] = s[i + 1]
          BY <2>2, <4>3 DEF Trail
        <5> QED BY <1>1, <2>2, <3>1, <4>1, <5>1, <5>2 DEF Trail
      <4> QED BY <4>2, <4>3
    <3>5. Trail(M, c, live, n + 1, r)
      <4>1. ASSUME NEW i \in 1..(n + 1)
            PROVE  /\ r[i] \notin Installed(M) /\ r[i] \notin SingleShot
                   /\ i # 1 => r[i] \in live
                   /\ i # n + 1 => M.next[r[i]] = r[i + 1]
                   /\ i = n + 1 => M.next[r[i]] \in Installed(M) \cup {NULL}
        BY <1>2, <3>1, <3>4
      <4> QED BY <3>1, <3>2, <3>3, <4>1 DEF Trail
    <3> QED BY <3>1, <3>5 DEF HasTrail, M
  <2> QED BY <2>4, <2>5
<1> QED BY <1>1, <1>3, <1>4 DEF M

LEMMA RemoveInv ==
  ASSUME Liberties = {}, NEW t \in Tasks
  PROVE  Inv /\ Remove(t) => Inv'
<1> SUFFICES ASSUME Inv, Remove(t) PROVE Inv'
  OBVIOUS
<1>1. /\ t \in alive /\ MayLeave(t) /\ cursor' = cursor /\ alive' = alive
      /\ list' = RemoveDynamicTask(list, t)
  BY DEF Remove
<1>2. CASE t \notin Installed(list)
  <2>1. list' = list
    BY <1>1, <1>2 DEF RemoveDynamicTask
  <2> QED BY <1>1, <2>1 DEF Inv, TypeOK, CursorLeft
<1>3. CASE t \in Installed(list)
  <2>1. list' = RemoveTaskInQueue(list, t) /\ list \in Lists /\ WellLinked(list)
    BY <1>1, <1>3 DEF RemoveDynamicTask, Inv, TypeOK
  <2>2. list' \in Lists /\ WellLinked(list') /\ Installed(list') = Installed(list) \ {t}
    BY <1>3, <2>1, RemoveKeepsWellLinked
  <2>3. CASE t \notin SingleShot
    <3>1. CursorLeft' => HasTrail(list', cursor, alive)
      BY <1>1, <1>3, <2>1, <2>3, UnlinkKeepsTrail DEF Inv, TypeOK, CursorLeft
    <3> QED BY <1>1, <2>2, <3>1 DEF Inv, TypeOK
  <2>4. CASE t \in SingleShot
    <3>1. ~CursorLeft'
      BY <1>1, <2>2, <2>4 DEF MayLeave, CursorLeft
    <3> QED BY <1>1, <2>2, <3>1 DEF Inv, TypeOK
  <2> QED BY <2>3, <2>4
<1> QED BY <1>2, <1>3

\* A trail does not need its first task, the one being handled, alive.
LEMMA DestroyInv ==
  ASSUME Liberties = {}, NEW t \in Tasks
  PROVE  Inv /\ Destroy(t) => Inv'
<1> SUFFICES ASSUME Inv, Destroy(t) PROVE Inv'
  OBVIOUS
<1>1. /\ t \in alive /\ MayLeave(t) /\ cursor' = cursor /\ alive' = alive \ {t}
      /\ list' = RemoveDynamicTask(list, t)
      /\ t = cursor \/ ~CursorLeft
  BY DEF Destroy
<1>2. list \in Lists /\ WellLinked(list) /\ cursor \in Pointer
  BY DEF Inv, TypeOK
<1>3. /\ list' \in Lists /\ WellLinked(list') /\ Installed(list') = Installed(list) \ {t}
  BY <1>1, <1>2, RemoveKeepsWellLinked DEF RemoveDynamicTask
<1>4. CASE t = cursor
  <2>1. CursorLeft' => HasTrail(list', cursor, alive)
    <3>1. CASE t \in Installed(list)
      <4>1. list' = RemoveTaskInQueue(list, t)
        BY <1>1, <3>1 DEF RemoveDynamicTask
      <4>2. CASE t \notin SingleShot
        BY <1>1, <1>2, <1>4, <3>1, <4>1, <4>2, UnlinkKeepsTrail DEF CursorLeft
      <4>3. CASE t \in SingleShot
        BY <1>1, <1>3, <1>4, <4>3 DEF MayLeave, CursorLeft
      <4> QED BY <4>2, <4>3
    <3>2. CASE t \notin Installed(list)
      <4>1. list' = list
        BY <1>1, <3>2 DEF RemoveDynamicTask
      <4> QED BY <1>1, <4>1 DEF Inv, CursorLeft
    <3> QED BY <3>1, <3>2
  <2>2. ASSUME NEW n \in Nat, NEW s \in [1..n -> Tasks], Trail(list', cursor, alive, n, s)
        PROVE  Trail(list', cursor, alive', n, s)
    <3>1. \A i \in 1..n : i # 1 => s[i] # t
      BY <1>4, <2>2 DEF Trail
    <3> QED BY <1>1, <2>2, <3>1 DEF Trail
  <2> QED BY <1>1, <1>3, <2>1, <2>2 DEF Inv, TypeOK, HasTrail
<1>5. CASE t # cursor /\ ~CursorLeft
  <2>1. ~CursorLeft'
    BY <1>1, <1>3, <1>5 DEF CursorLeft
  <2> QED BY <1>1, <1>3, <2>1 DEF Inv, TypeOK
<1> QED BY <1>1, <1>4, <1>5

-----------------------------------------------------------------------------
\* The invariant holds in every reachable state of disciplined clients.
THEOREM InvHolds == ASSUME Liberties = {} PROVE Spec => []Inv
<1>1. Init => Inv
  BY InitInv
<1>2. Inv /\ [Next]_vars => Inv'
  <2> SUFFICES ASSUME Inv, [Next]_vars PROVE Inv'
    OBVIOUS
  <2>1. CASE BeginPass
    BY <2>1, BeginPassInv
  <2>2. CASE HandlerReturns
    BY <2>2, HandlerReturnsInv
  <2>3. ASSUME NEW t \in Tasks, Construct(t) PROVE Inv'
    BY <2>3, ConstructInv
  <2>4. ASSUME NEW t \in Tasks, Add(t) PROVE Inv'
    BY <2>4, AddInv
  <2>5. ASSUME NEW t \in Tasks, Remove(t) PROVE Inv'
    BY <2>5, RemoveInv
  <2>6. ASSUME NEW t \in Tasks, Destroy(t) PROVE Inv'
    BY <2>6, DestroyInv
  <2>7. CASE UNCHANGED vars
    BY <2>7 DEF vars, Inv, TypeOK, CursorLeft
  <2> QED BY <2>1, <2>2, <2>3, <2>4, <2>5, <2>6, <2>7 DEF Next, Client
<1> QED BY <1>1, <1>2, PTL DEF Spec

\* What the run loop's invariant IInv says is true in every reachable state.
THEOREM IInvHolds == ASSUME Liberties = {} PROVE Spec => []IInv
  BY InvHolds, InvIsIInv, PTL

\* The run loop's variables keep their types.
THEOREM TypeCorrect == ASSUME Liberties = {} PROVE Spec => []TypeOK
<1>1. Inv => TypeOK
  BY DEF Inv
<1> QED BY <1>1, InvHolds, PTL

\* Whatever the tasks add, remove, create and destroy, in and between passes
\* (processDynamicTaskQueue), the links stay one list of live tasks.
THEOREM ListStaysIntact == ASSUME Liberties = {} PROVE Spec => []ListIntact
<1>1. Inv => ListIntact
  BY DEF Inv, ListIntact
<1> QED BY <1>1, InvHolds, PTL

\* The pass follows the nextTask field of a task that has left the list, as
\* the comment in processDynamicTaskQueue says it can, to a live task.
THEOREM PassNeverReachesDestroyedTask ==
  ASSUME Liberties = {} PROVE Spec => []PassStaysOnLiveTasks
<1>1. Inv => PassStaysOnLiveTasks
  <2> SUFFICES ASSUME Inv, cursor # NULL, list.next[cursor] # NULL
               PROVE  list.next[cursor] \in alive
    BY DEF PassStaysOnLiveTasks
  <2>1. list \in Lists /\ WellLinked(list) /\ Installed(list) \subseteq alive
    BY DEF Inv, TypeOK
  <2>2. CASE cursor \in Installed(list)
    BY <2>1, <2>2, NextIsInstalled
  <2>3. CASE cursor \notin Installed(list)
    <3>1. PICK n \in Nat : \E s \in [1..n -> Tasks] : Trail(list, cursor, alive, n, s)
      BY <2>3 DEF Inv, CursorLeft, HasTrail
    <3>2. PICK s \in [1..n -> Tasks] : Trail(list, cursor, alive, n, s)
      BY <3>1
    <3>3. s[1] = cursor /\ 1 \in 1..n
      BY <3>2 DEF Trail
    <3>4. CASE n = 1
      BY <2>1, <3>2, <3>3, <3>4 DEF Trail
    <3>5. CASE n # 1
      <4>1. 2 \in 1..n /\ list.next[s[1]] = s[1 + 1]
        BY <3>2, <3>3, <3>5 DEF Trail
      <4>2. s[2] \in alive
        BY <3>2, <4>1 DEF Trail
      <4> QED BY <3>3, <4>1, <4>2
    <3> QED BY <3>4, <3>5
  <2> QED BY <2>2, <2>3
<1> QED BY <1>1, InvHolds, PTL

\* removeDynamicTask takes out whichever task it is given, and only that one.
THEOREM RemoveTakesOut == ASSUME Liberties = {} PROVE Spec => []RemoveRemoves
<1>1. Inv => RemoveRemoves
  <2> SUFFICES ASSUME Inv, NEW t \in Tasks
               PROVE  Installed(RemoveDynamicTask(list, t)) = Installed(list) \ {t}
    BY DEF RemoveRemoves
  <2>1. list \in Lists /\ WellLinked(list)
    BY DEF Inv, TypeOK
  <2> QED BY <2>1, RemoveKeepsWellLinked DEF RemoveDynamicTask
<1> QED BY <1>1, InvHolds, PTL

-----------------------------------------------------------------------------
(* The links implement the queue of TaskQueue.                             *)

\* What the order of a list is to the abstract queue.
LEMMA OrderAsQueue ==
  ASSUME NEW n \in Nat, NEW s \in [1..n -> Tasks]
  PROVE  /\ s \in Seq(Tasks) /\ Len(s) = n /\ DOMAIN s = 1..n
         /\ \A t \in Tasks : Append(s, t) = Appended(s, n, t)
         /\ \A k \in 1..n : Queue!RemoveAt(s, k) = Without(s, n, k)
<1>1. s \in Seq(Tasks) /\ Len(s) = n /\ DOMAIN s = 1..n
  OBVIOUS
<1>2. ASSUME NEW t \in Tasks PROVE Append(s, t) = Appended(s, n, t)
  <2>1. Appended(s, n, t) \in Seq(Tasks) /\ Len(Appended(s, n, t)) = n + 1
    <3>1. Appended(s, n, t) \in [1..(n + 1) -> Tasks]
      BY DEF Appended
    <3>2. QED
      BY <3>1
  <2>2. Append(s, t) \in Seq(Tasks) /\ Len(Append(s, t)) = n + 1
    BY <1>1
  <2>3. \A i \in 1..(n + 1) : Append(s, t)[i] = Appended(s, n, t)[i]
    BY <1>1 DEF Appended
  <2>4. QED
    BY <2>1, <2>2, <2>3, SeqEqual
<1>3. ASSUME NEW k \in 1..n PROVE Queue!RemoveAt(s, k) = Without(s, n, k)
  <2> DEFINE a == SubSeq(s, 1, k - 1)
             b == SubSeq(s, k + 1, n)
  <2>1. a \in Seq(Tasks) /\ Len(a) = k - 1 /\ \A i \in 1..(k - 1) : a[i] = s[i]
    BY SubSeqProperties
  <2>2. b \in Seq(Tasks) /\ Len(b) = n - k /\ \A i \in 1..(n - k) : b[i] = s[k + i]
    BY SubSeqProperties
  <2>3. Queue!RemoveAt(s, k) = a \o b
    BY <1>1 DEF Queue!RemoveAt
  <2> HIDE DEF a, b
  <2>4. /\ a \o b \in Seq(Tasks) /\ Len(a \o b) = n - 1
        /\ \A i \in 1..(n - 1) : (a \o b)[i] = IF i <= k - 1 THEN a[i] ELSE b[i - (k - 1)]
    <3>1. /\ a \o b \in Seq(Tasks) /\ Len(a \o b) = Len(a) + Len(b)
          /\ \A i \in 1..(Len(a) + Len(b)) :
               (a \o b)[i] = IF i <= Len(a) THEN a[i] ELSE b[i - Len(a)]
      BY <2>1, <2>2, ConcatProperties
    <3>2. Len(a) = k - 1 /\ Len(a) + Len(b) = n - 1
      BY <2>1, <2>2
    <3>3. QED
      BY <3>1, <3>2
  <2>5. Without(s, n, k) \in Seq(Tasks) /\ Len(Without(s, n, k)) = n - 1
    <3>1. Without(s, n, k) \in [1..(n - 1) -> Tasks] /\ n - 1 \in Nat
      BY DEF Without
    <3>2. QED
      BY <3>1
  <2>6. ASSUME NEW i \in 1..(n - 1) PROVE (a \o b)[i] = Without(s, n, k)[i]
    <3>1. CASE i < k
      BY <2>1, <2>4, <3>1 DEF Without
    <3>2. CASE ~(i < k)
      <4>1. i - (k - 1) \in 1..(n - k) /\ k + (i - (k - 1)) = i + 1
        BY <3>2
      <4>2. ~(i <= k - 1) /\ (a \o b)[i] = b[i - (k - 1)]
        BY <2>4, <3>2
      <4>3. b[i - (k - 1)] = s[i + 1]
        BY <2>2, <4>1
      <4>4. QED
        BY <3>2, <4>2, <4>3 DEF Without
    <3>3. QED
      BY <3>1, <3>2
  <2>7. QED
    BY <2>3, <2>4, <2>5, <2>6, SeqEqual
<1>4. QED
  BY <1>1, <1>2, <1>3

\* A well linked list has an order, and the queue's members are its tasks.
LEMMA QueueOfList ==
  ASSUME list \in Lists, WellLinked(list)
  PROVE  \E n \in Nat : \E s \in [1..n -> Tasks] :
           /\ s \in Orders /\ IsOrder(list, s) /\ OrderOf(list) = s
           /\ \A i, j \in 1..n : s[i] = s[j] => i = j
           /\ Len(s) = n /\ DOMAIN s = 1..n
           /\ Installed(list) = Elements(s)
           /\ Queue!Members = Elements(s)
           /\ \A i \in 1..n : LinksAt(list, n, s, i)
           /\ list.head = IF n = 0 THEN NULL ELSE s[1]
<1>1. PICK s \in Orders : IsOrder(list, s)
  BY DEF WellLinked
<1>2. PICK n \in 0..Cardinality(Tasks) :
        s \in [1..n -> Tasks] /\ \A i, j \in 1..n : s[i] = s[j] => i = j
  BY OrderType
<1>3. n \in Nat
  BY FS_CardinalityType, TasksAssumption
<1>4. OrderOf(list) = s /\ Installed(list) = Elements(s)
  BY <1>1, OrderOfIs, OrderInstalled
<1>5. Len(s) = n /\ DOMAIN s = 1..n
  BY <1>2, <1>3, OrderAsQueue
<1>6. Queue!Members = Elements(s)
  BY <1>4, <1>5 DEF Queue!Members, Elements
<1>7. \A i \in 1..n : LinksAt(list, n, s, i)
  BY <1>1, <1>2, <1>3, OrderLinks
<1>8. list.head = IF n = 0 THEN NULL ELSE s[1]
  <2>1. DOMAIN s = {} <=> n = 0
    BY <1>3, <1>5
  <2>2. QED
    BY <1>1, <2>1 DEF IsOrder
<1>9. QED
  BY <1>1, <1>2, <1>3, <1>4, <1>5, <1>6, <1>7, <1>8

\* A step that rewrites links outside the list only does not change the queue.
LEMMA SameQueue ==
  ASSUME list \in Lists, WellLinked(list), list'.head = list.head,
         \A t \in Installed(list) : list'.next[t] = list.next[t] /\ list'.prev[t] = list.prev[t]
  PROVE  OrderOf(list') = OrderOf(list)
<1>1. PICK n \in Nat : \E s \in [1..n -> Tasks] :
        s \in Orders /\ IsOrder(list, s) /\ OrderOf(list) = s /\ Installed(list) = Elements(s)
  BY QueueOfList
<1>2. PICK s \in [1..n -> Tasks] :
        s \in Orders /\ IsOrder(list, s) /\ OrderOf(list) = s /\ Installed(list) = Elements(s)
  BY <1>1
<1>3. IsOrder(list', s)
  BY <1>2, ZenonT(60) DEF IsOrder, Elements
<1>4. QED
  BY <1>2, <1>3, OrderOfIs

LEMMA BeginPassMaps == Inv /\ BeginPass => Queue!Begin
<1> SUFFICES ASSUME Inv, BeginPass PROVE Queue!Begin
  OBVIOUS
<1>1. list \in Lists /\ WellLinked(list) /\ list' = list /\ cursor' = list.head
      /\ list.head # NULL /\ cursor = NULL
  BY DEF Inv, TypeOK, BeginPass
<1>2. PICK n \in Nat : \E s \in [1..n -> Tasks] :
        OrderOf(list) = s /\ list.head = IF n = 0 THEN NULL ELSE s[1]
  BY <1>1, QueueOfList
<1>3. PICK s \in [1..n -> Tasks] :
        OrderOf(list) = s /\ list.head = IF n = 0 THEN NULL ELSE s[1]
  BY <1>2
<1>4. n # 0 /\ s[1] = list.head
  BY <1>1, <1>3
<1>5. s # <<>> /\ Head(s) = s[1]
  BY <1>4, OrderAsQueue
<1>6. QED
  BY <1>1, <1>3, <1>4, <1>5 DEF Queue!Begin

\* Unlinking an installed task takes its place out of the queue.
LEMMA UnlinkedQueue ==
  ASSUME list \in Lists, WellLinked(list), NEW t \in Installed(list)
  PROVE  \E i \in DOMAIN OrderOf(list) :
           /\ OrderOf(list)[i] = t
           /\ OrderOf(RemoveTaskInQueue(list, t)) = Queue!RemoveAt(OrderOf(list), i)
           /\ list.next[t] = IF i = Len(OrderOf(list)) THEN NULL ELSE OrderOf(list)[i + 1]
<1>1. PICK n \in Nat : \E s \in [1..n -> Tasks] :
           /\ s \in Orders /\ IsOrder(list, s) /\ OrderOf(list) = s
           /\ \A i, j \in 1..n : s[i] = s[j] => i = j
           /\ Len(s) = n /\ DOMAIN s = 1..n
           /\ Installed(list) = Elements(s)
           /\ \A i \in 1..n : LinksAt(list, n, s, i)
  BY QueueOfList
<1>2. PICK s \in [1..n -> Tasks] :
           /\ s \in Orders /\ IsOrder(list, s) /\ OrderOf(list) = s
           /\ \A i, j \in 1..n : s[i] = s[j] => i = j
           /\ Len(s) = n /\ DOMAIN s = 1..n
           /\ Installed(list) = Elements(s)
           /\ \A i \in 1..n : LinksAt(list, n, s, i)
  BY <1>1
<1>3. PICK k \in 1..n : s[k] = t
  BY <1>2 DEF Elements
<1>4. Without(s, n, k) \in Orders /\ IsOrder(RemoveTaskInQueue(list, t), Without(s, n, k))
  BY <1>2, <1>3, RemoveExtracts
<1>5. OrderOf(RemoveTaskInQueue(list, t)) = Without(s, n, k)
  BY <1>4, OrderOfIs
<1>6. Without(s, n, k) = Queue!RemoveAt(s, k)
  BY OrderAsQueue
<1>7. list.next[t] = IF k = n THEN NULL ELSE s[k + 1]
  BY <1>2, <1>3 DEF LinksAt
<1>8. QED
  BY <1>2, <1>3, <1>5, <1>6, <1>7

\* The pass goes to the task behind, and a single-shot task leaves.
LEMMA HandlerReturnsMaps == Inv /\ HandlerReturns => Queue!Advance \/ Queue!AdvanceFromRemoved
<1> SUFFICES ASSUME Inv, HandlerReturns PROVE Queue!Advance \/ Queue!AdvanceFromRemoved
  OBVIOUS
<1>1. list \in Lists /\ WellLinked(list) /\ cursor \in Tasks
  BY DEF Inv, TypeOK, HandlerReturns, Pointer
<1>2. CASE cursor \in Installed(list)
  <2>1. PICK i \in DOMAIN OrderOf(list) :
           /\ OrderOf(list)[i] = cursor
           /\ OrderOf(RemoveTaskInQueue(list, cursor)) = Queue!RemoveAt(OrderOf(list), i)
           /\ list.next[cursor] = IF i = Len(OrderOf(list)) THEN NULL ELSE OrderOf(list)[i + 1]
    BY <1>1, <1>2, UnlinkedQueue
  <2>2. RemoveTaskInQueue(list, cursor).next[cursor] = list.next[cursor]
    BY <1>1, <1>2, RemoveKeepsWellLinked
  <2>3. cursor' = list.next[cursor]
    BY <2>2 DEF HandlerReturns
  <2>4. OrderOf(list') = IF cursor \in SingleShot THEN Queue!RemoveAt(OrderOf(list), i)
                         ELSE OrderOf(list)
    BY <2>1 DEF HandlerReturns
  <2>5. QED
    BY <2>1, <2>3, <2>4 DEF Queue!Advance
<1>3. CASE cursor \notin Installed(list)
  <2>1. cursor \notin SingleShot
    BY <1>1, <1>3, TasksAssumption DEF Inv, CursorLeft, HasTrail, Trail
  <2>2. list' = list /\ cursor' = list.next[cursor]
    BY <2>1 DEF HandlerReturns
  <2>3. cursor' \in Tasks \cup {NULL}
    BY <1>1, <2>2 DEF Lists, Pointer
  <2>4. Queue!Members = Installed(list)
    BY <1>1, QueueOfList
  <2>5. QED
    BY <1>1, <1>3, <2>2, <2>3, <2>4, TasksAssumption DEF Queue!AdvanceFromRemoved
<1>4. QED
  BY <1>2, <1>3

\* Client code adds, takes out, or leaves the queue alone.
LEMMA ClientMaps ==
  ASSUME Liberties = {}, Inv, Client
  PROVE  [\E t \in Tasks : Queue!Add(t) \/ Queue!Leave(t)]_(Queue!vars)
<1>1. list \in Lists /\ WellLinked(list) /\ Installed(list) \subseteq alive /\ cursor' = cursor
  BY DEF Inv, TypeOK, Client, Construct, Add, Remove, Destroy
<1>2. ASSUME NEW t \in Tasks, Construct(t) PROVE OrderOf(list') = OrderOf(list)
  <2>1. t \notin Installed(list) /\ Installed(list) \subseteq Tasks
    BY <1>1, <1>2 DEF Construct, Installed
  <2>2. PICK x \in Garbage, y \in Garbage : list' = [list EXCEPT !.next[t] = x, !.prev[t] = y]
    BY <1>2 DEF Construct
  <2>3. /\ list'.head = list.head
        /\ \A u \in Tasks \ {t} : list'.next[u] = list.next[u] /\ list'.prev[u] = list.prev[u]
    BY <1>1, <2>2 DEF Lists
  <2>4. QED
    BY <1>1, <2>1, <2>3, SameQueue
<1>3. ASSUME NEW t \in Tasks, Add(t) PROVE Queue!Add(t) \/ OrderOf(list') = OrderOf(list)
  <2>1. CASE FoundByAdd(list, t)
    <3>1. list.head # NULL
      BY <1>1, <2>1, EmptyList DEF FoundByAdd
    <3>2. list' = list
      BY <1>3, <2>1, <3>1 DEF Add, AddDynamicTask
    <3>3. QED
      BY <3>2
  <2>2. CASE ~FoundByAdd(list, t)
    <3>1. t \notin Installed(list) /\ list' = AddDynamicTask(list, t)
      BY <1>3, <2>2 DEF Add
    <3>2. PICK n \in Nat : \E s \in [1..n -> Tasks] :
             /\ s \in Orders /\ IsOrder(list, s) /\ OrderOf(list) = s
             /\ \A i, j \in 1..n : s[i] = s[j] => i = j
             /\ Installed(list) = Elements(s) /\ Queue!Members = Elements(s)
      BY <1>1, QueueOfList
    <3>3. PICK s \in [1..n -> Tasks] :
             /\ s \in Orders /\ IsOrder(list, s) /\ OrderOf(list) = s
             /\ \A i, j \in 1..n : s[i] = s[j] => i = j
             /\ Installed(list) = Elements(s) /\ Queue!Members = Elements(s)
      BY <3>2
    <3>4. Appended(s, n, t) \in Orders /\ IsOrder(list', Appended(s, n, t))
      BY <1>1, <3>1, <3>3, AddAppends
    <3>5. OrderOf(list') = Append(s, t)
      BY <3>4, OrderOfIs, OrderAsQueue
    <3>6. QED
      BY <1>1, <3>1, <3>3, <3>5 DEF Queue!Add
  <2>3. QED
    BY <2>1, <2>2
<1>4. ASSUME NEW t \in Tasks, Remove(t) \/ Destroy(t)
      PROVE  Queue!Leave(t) \/ OrderOf(list') = OrderOf(list)
  <2>1. list' = RemoveDynamicTask(list, t)
    BY <1>4 DEF Remove, Destroy
  <2>2. CASE t \in Installed(list)
    BY <1>1, <2>1, <2>2, UnlinkedQueue DEF RemoveDynamicTask, Queue!Leave
  <2>3. CASE t \notin Installed(list)
    BY <2>1, <2>3 DEF RemoveDynamicTask
  <2>4. QED
    BY <2>2, <2>3
<1>5. QED
  BY <1>1, <1>2, <1>3, <1>4 DEF Client, Queue!vars

\* The doubly linked list with its cursor implements a queue of tasks: adding
\* appends, leaving takes out one task, and a pass goes from a task in the
\* queue to the one behind it.
THEOREM LinksImplementQueue == ASSUME Liberties = {} PROVE Spec => QueueSpec
<1>1. Init => Queue!Init
  <2> SUFFICES ASSUME Init PROVE Queue!Init
    OBVIOUS
  <2>1. list \in Lists /\ WellLinked(list) /\ list.head = NULL
    BY InitInv DEF Inv, TypeOK, Init
  <2>2. <<>> \in Orders
    BY OrderIntro, FS_CardinalityType, TasksAssumption DEF Orders
  <2>3. IsOrder(list, <<>>)
    BY <2>1 DEF IsOrder
  <2>4. QED
    BY <2>2, <2>3, OrderOfIs DEF Queue!Init, Init
<1>2. Inv /\ [Next]_vars => [Queue!Next]_(Queue!vars)
  <2> SUFFICES ASSUME Inv, [Next]_vars PROVE [Queue!Next]_(Queue!vars)
    OBVIOUS
  <2>1. CASE BeginPass
    BY <2>1, BeginPassMaps DEF Queue!Next
  <2>2. CASE HandlerReturns
    BY <2>2, HandlerReturnsMaps DEF Queue!Next
  <2>3. CASE Client
    BY <2>3, ClientMaps DEF Queue!Next
  <2>4. CASE UNCHANGED vars
    BY <2>4 DEF vars, Queue!vars
  <2>5. QED
    BY <2>1, <2>2, <2>3, <2>4 DEF Next
<1>3. QED
  BY <1>1, <1>2, InvHolds, PTL DEF Spec, QueueSpec, Queue!Spec

=============================================================================
