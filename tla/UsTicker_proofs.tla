--------------------------- MODULE UsTicker_proofs ----------------------------
(***************************************************************************)
(* Proofs about the microsecond ticker: its queue is sorted and no event   *)
(* is early or late, whatever the widths of time stamps and registers, the *)
(* number of tickers and the delays in use, as long as these are shorter   *)
(* than half the span of time stamps, and as SysTick does not reach zero   *)
(* at the moments that Liberties names.                                    *)
(***************************************************************************)
EXTENDS UsTicker, SequenceTheorems, WellFoundedInduction, TLAPS

-----------------------------------------------------------------------------
(* The inductive invariant.                                                *)

\* The microseconds the port has counted, and those to the end of the alarm.
Clock == hw.offset + Elapsed(hw) + (IF interrupt THEN hw.reload ELSE 0)
Alarm == hw.remain + (IF interrupt THEN 0 ELSE hw.value)

Sorted(q, l) == \A i, j \in DOMAIN q : i < j => l[q[i]] <= l[q[j]]

\* An event's time stamp is the time l[x] after c at which it is due, which is
\* less than half a span away; it is not overdue.
Stamped(x, stamps, l, c) ==
  stamps[x] = (c + l[x]) % Span /\ l[x] >= -Past /\ 2 * (l[x] + Past) < Span

\* The events that are due some time.
Counted(e) == Contains(queue, e) \/ (main \in {"read", "masked"} /\ e = inserting)

Stamps == \A e \in Events : Counted(e) => Stamped(e, timestamp, left, Clock)

\* The event that is being set up is not in the queue and not due yet.
Setting == main # "idle" => ~Contains(queue, inserting) /\ left[inserting] >= 0

\* Between the reads of setup no handler runs; they add up to the clock, less
\* what it has counted since.
Summed ==
  (IF "offset" \in toRead THEN 0 ELSE hw.offset)
    + (IF "reload" \in toRead THEN 0 ELSE hw.reload)
    - (IF "value" \in toRead THEN 0 ELSE hw.value + (delay[inserting] - left[inserting]))

Sampling ==
  /\ main = "reading" <=> toRead # {}
  /\ main = "reading" =>
       /\ sum = Summed
       /\ left[inserting] <= delay[inserting]
       /\ "value" \in toRead => left[inserting] = delay[inserting]
       /\ toRead # Registers => ~interrupt /\ ~isr

\* The handler of the queue runs for some event, and not while the main context
\* inserts one; when SysTick has reached zero it begins anew.
Serving ==
  /\ isr => queue # <<>> /\ ~interrupt
  /\ interrupt => hw.value = hw.reload
  /\ main = "masked" => ~isr /\ ~interrupt

\* The alarm is early enough for every event.
AlarmIsSet ==
  /\ hw.enabled <=> queue # <<>>
  /\ ~isr => \A e \in Events : Contains(queue, e) => Alarm <= left[e] + Past

TickerInv ==
  /\ TypeOK /\ Sorted(queue, left)
  /\ Stamps
  /\ Setting /\ Sampling /\ Serving
  /\ AlarmIsSet

-----------------------------------------------------------------------------
(* Numbers modulo the span of time stamps.                                 *)

\* What % computes.
LEMMA Division ==
  ASSUME NEW n \in Nat \ {0}, NEW a \in Int
  PROVE  \E q \in Int : \E r \in 0..(n - 1) : r = a % n /\ a = q * n + r
<1>1. a \div n \in Int /\ a % n \in 0..(n - 1) /\ a = (a \div n) * n + (a % n)
  OBVIOUS
<1>2. QED
  BY <1>1, Zenon

\* A division has one remainder.
LEMMA RemainderIsUnique ==
  ASSUME NEW n \in Nat \ {0}, NEW k \in Int, NEW r \in 0..(n - 1), NEW s \in 0..(n - 1),
         r = k * n + s
  PROVE  r = s
OBVIOUS

\* Numbers that differ by a multiple of n have the same remainder.
LEMMA SameRemainder ==
  ASSUME NEW n \in Nat \ {0}, NEW a \in Int, NEW b \in Int, NEW k \in Int, b = a + k * n
  PROVE  a % n = b % n
<1>1. PICK q \in Int, r \in 0..(n - 1) : r = a % n /\ a = q * n + r
  BY Division
<1>2. PICK p \in Int, s \in 0..(n - 1) : s = b % n /\ b = p * n + s
  BY Division
<1>3. PICK j \in Int : j = p - q - k
  OBVIOUS
<1>4. r = j * n + s
  BY <1>1, <1>2, <1>3
<1>5. r = s
  BY <1>4, RemainderIsUnique
<1>6. QED
  BY <1>1, <1>2, <1>5

\* A number less than n is its remainder.
LEMMA RemainderOfSmall ==
  ASSUME NEW n \in Nat \ {0}, NEW r \in 0..(n - 1)
  PROVE  r % n = r
OBVIOUS

\* It does not matter whether a summand is reduced before.
LEMMA AddReduced ==
  ASSUME NEW n \in Nat \ {0}, NEW a \in Int, NEW b \in Int
  PROVE  ((a % n) + b) % n = (a + b) % n
<1>1. PICK q \in Int, r \in 0..(n - 1) : r = a % n /\ a = q * n + r
  BY Division
<1>2. PICK c \in Int : c = r + b
  OBVIOUS
<1>3. PICK d \in Int : d = a + b
  OBVIOUS
<1>4. d = c + q * n
  BY <1>1, <1>2, <1>3
<1>5. c % n = d % n
  BY <1>4, SameRemainder
<1>6. QED
  BY <1>1, <1>2, <1>3, <1>5

\* The same of differences.
LEMMA DifferenceReduced ==
  ASSUME NEW n \in Nat \ {0}, NEW a \in Int, NEW b \in Int
  PROVE  ((a % n) - (b % n)) % n = (a - b) % n
<1>1. PICK q \in Int, r \in 0..(n - 1) : r = a % n /\ a = q * n + r
  BY Division
<1>2. PICK p \in Int, t \in 0..(n - 1) : t = b % n /\ b = p * n + t
  BY Division
<1>3. PICK c \in Int : c = r - t
  OBVIOUS
<1>4. PICK d \in Int : d = a - b
  OBVIOUS
<1>5. PICK j \in Int : j = q - p
  OBVIOUS
<1>6. d = c + j * n
  <2>1. j * n = q * n - p * n
    BY <1>5
  <2>2. a = q * n + r /\ b = p * n + t
    BY <1>1, <1>2
  <2>3. QED
    BY <1>3, <1>4, <2>1, <2>2
<1>7. c % n = d % n
  BY <1>6, SameRemainder
<1>8. (a % n) - (b % n) = c
  BY <1>1, <1>2, <1>3
<1>9. QED
  BY <1>4, <1>7, <1>8, Zenon

\* Remainders of small numbers.
LEMMA SmallReduced ==
  ASSUME NEW n \in Nat \ {0}, NEW x \in Int, -n <= x, x < n
  PROVE  x % n = IF 0 <= x THEN x ELSE x + n
<1>1. CASE 0 <= x
  BY <1>1, RemainderOfSmall
<1>2. CASE ~(0 <= x)
  <2>1. PICK y \in 0..(n - 1) : y = x + n
    BY <1>2
  <2>2. x % n = y % n
    <3>1. PICK k \in Int : k = 1
      OBVIOUS
    <3>2. y = x + k * n /\ y \in Int
      BY <2>1, <3>1
    <3>3. QED
      BY <3>2, SameRemainder
  <2>3. QED
    <3>1. y % n = y
      BY <2>1, RemainderOfSmall
    <3>2. y = x + n
      BY <2>1
    <3>3. QED
      BY <1>2, <2>2, <3>1, <3>2
<1>3. QED
  BY <1>1, <1>2

\* A remainder is no larger than the number.
LEMMA ReducedIsLess ==
  ASSUME NEW n \in Nat \ {0}, NEW x \in Nat
  PROVE  x % n \in 0..(n - 1) /\ x % n <= x
<1>1. PICK q \in Int, r \in 0..(n - 1) : r = x % n /\ x = q * n + r
  BY Division
<1>2. q * n >= 0
  <2>1. CASE q >= 0
    BY <2>1
  <2>2. CASE q < 0
    <3>1. q * n <= -n
      BY <2>2
    <3>2. QED
      BY <1>1, <3>1
  <2>3. QED
    BY <2>1, <2>2
<1>3. QED
  BY <1>1, <1>2

\* Of times that are less than half a span apart, ComesBefore and IsPast tell
\* which is first, from their time stamps alone.
LEMMA SignedIsDifference ==
  ASSUME NEW c \in Int, NEW x \in Int, NEW y \in Int, 2 * (x - y) < Span, 2 * (y - x) < Span
  PROVE  Signed((c + x) % Span, (c + y) % Span) = x - y
<1>1. Span \in Nat \ {0} /\ Span = 2 * (Span \div 2)
  BY TickerAssumption
<1>2. PICK a \in Int : a = c + x
  OBVIOUS
<1>3. PICK b \in Int : b = c + y
  OBVIOUS
<1>4. PICK d \in Int : d = x - y
  OBVIOUS
<1>5. a - b = d
  BY <1>2, <1>3, <1>4
<1>6. ((a % Span) - (b % Span)) % Span = d % Span
  BY <1>1, <1>5, DifferenceReduced
<1>7. d % Span = IF 0 <= d THEN d ELSE d + Span
  <2>1. -Span <= d /\ d < Span
    BY <1>1, <1>4
  <2>2. QED
    BY <1>1, <2>1, SmallReduced
<1>8. Signed(a % Span, b % Span) = d
  BY <1>1, <1>4, <1>6, <1>7 DEF Signed
<1>9. QED
  BY <1>2, <1>3, <1>4, <1>8, Zenon

-----------------------------------------------------------------------------
(* The queue, as a sequence.                                               *)

\* What InsertAt makes of a sequence without repetition.
LEMMA Inserted ==
  ASSUME NEW q \in Seq(Events), IsInjective(q), NEW e \in Events, ~Contains(q, e),
         NEW i \in 1..(Len(q) + 1)
  PROVE  /\ InsertAt(q, i, e) \in Seq(Events) /\ IsInjective(InsertAt(q, i, e))
         /\ Len(InsertAt(q, i, e)) = Len(q) + 1
         /\ \A j \in 1..(Len(q) + 1) :
              InsertAt(q, i, e)[j] = IF j < i THEN q[j] ELSE IF j = i THEN e ELSE q[j - 1]
         /\ \A x : Contains(InsertAt(q, i, e), x) <=> x = e \/ Contains(q, x)
<1> DEFINE a == SubSeq(q, 1, i - 1)
           b == SubSeq(q, i, Len(q))
<1>1. PICK n \in Nat : n = Len(q) /\ q \in [1..n -> Events]
  BY LenProperties
<1>2. a \in Seq(Events) /\ Len(a) = i - 1 /\ \A j \in 1..(i - 1) : a[j] = q[j]
  BY <1>1
<1>3. b \in Seq(Events) /\ Len(b) = n - i + 1 /\ \A j \in 1..(n - i + 1) : b[j] = q[j + i - 1]
  BY <1>1
<1>4. PICK r : r = a \o <<e>> \o b
  OBVIOUS
<1> HIDE DEF a, b
<1>5. /\ r \in Seq(Events) /\ Len(r) = n + 1
      /\ \A j \in 1..(n + 1) : r[j] = IF j < i THEN a[j] ELSE IF j = i THEN e ELSE b[j - i]
  <2>1. PICK m : m = <<e>>
    OBVIOUS
  <2>2. m \in Seq(Events) /\ Len(m) = 1 /\ m[1] = e
    BY <2>1
  <2>3. PICK c : c = a \o m
    OBVIOUS
  <2>4. /\ c \in Seq(Events) /\ Len(c) = i
        /\ \A j \in 1..i : c[j] = IF j <= i - 1 THEN a[j] ELSE m[j - (i - 1)]
    <3>1. /\ c \in Seq(Events) /\ Len(c) = Len(a) + Len(m)
          /\ \A j \in 1..(Len(a) + Len(m)) : c[j] = IF j <= Len(a) THEN a[j] ELSE m[j - Len(a)]
      BY <1>2, <2>2, <2>3, ConcatProperties
    <3>2. Len(a) + Len(m) = i /\ Len(a) = i - 1
      BY <1>2, <2>2
    <3>3. QED
      BY <3>1, <3>2, Zenon
  <2>5. r = c \o b
    BY <1>4, <2>1, <2>3, Zenon
  <2>6. /\ r \in Seq(Events) /\ Len(r) = n + 1
        /\ \A j \in 1..(n + 1) : r[j] = IF j <= i THEN c[j] ELSE b[j - i]
    <3>1. /\ r \in Seq(Events) /\ Len(r) = Len(c) + Len(b)
          /\ \A j \in 1..(Len(c) + Len(b)) : r[j] = IF j <= Len(c) THEN c[j] ELSE b[j - Len(c)]
      BY <1>3, <2>4, <2>5, ConcatProperties, ZenonT(60)
    <3>2. Len(c) + Len(b) = n + 1
      BY <1>1, <1>3, <2>4
    <3>3. QED
      BY <2>4, <3>1, <3>2
  <2>7. \A j \in 1..i : c[j] = IF j < i THEN a[j] ELSE e
    BY <2>2, <2>4
  <2>8. QED
    BY <2>6, <2>7
<1>6. \A j \in 1..(n + 1) : r[j] = IF j < i THEN q[j] ELSE IF j = i THEN e ELSE q[j - 1]
  <2> SUFFICES ASSUME NEW j \in 1..(n + 1)
               PROVE  r[j] = IF j < i THEN q[j] ELSE IF j = i THEN e ELSE q[j - 1]
    OBVIOUS
  <2>1. CASE j > i
    <3>1. j - i \in 1..(n - i + 1) /\ (j - i) + i - 1 = j - 1
      BY <1>1, <2>1
    <3>2. b[j - i] = q[j - 1]
      BY <1>3, <3>1
    <3>3. QED
      BY <1>5, <2>1, <3>2
  <2>2. CASE j < i
    BY <1>2, <1>5, <2>2
  <2>3. CASE j = i
    BY <1>5, <2>3
  <2>4. QED
    BY <2>1, <2>2, <2>3
<1>7. \A j \in 1..n : q[j] # e
  BY <1>1 DEF Contains
<1>8. IsInjective(r)
  <2> SUFFICES ASSUME NEW j \in 1..(n + 1), NEW k \in 1..(n + 1), r[j] = r[k], j < k PROVE FALSE
    BY <1>5 DEF IsInjective
  <2>1. \A m, l \in 1..n : q[m] = q[l] => m = l
    BY <1>1 DEF IsInjective
  <2>2. CASE k < i
    BY <1>1, <1>6, <2>1, <2>2
  <2>3. CASE k = i
    BY <1>1, <1>6, <1>7, <2>3
  <2>4. CASE k > i /\ j < i
    <3>1. r[k] = q[k - 1] /\ r[j] = q[j] /\ k - 1 \in 1..n /\ j \in 1..n /\ k - 1 # j
      BY <1>1, <1>6, <2>4
    <3>2. QED
      BY <2>1, <3>1
  <2>5. CASE k > i /\ j = i
    <3>1. r[k] = q[k - 1] /\ k - 1 \in 1..n
      BY <1>1, <1>6, <2>5
    <3>2. QED
      BY <1>6, <1>7, <2>5, <3>1
  <2>6. CASE k > i /\ j > i
    <3>1. r[k] = q[k - 1] /\ r[j] = q[j - 1] /\ k - 1 \in 1..n /\ j - 1 \in 1..n /\ k - 1 # j - 1
      BY <1>1, <1>6, <2>6
    <3>2. QED
      BY <2>1, <3>1
  <2>7. QED
    BY <2>2, <2>3, <2>4, <2>5, <2>6
<1>9. ASSUME NEW x PROVE Contains(r, x) <=> x = e \/ Contains(q, x)
  <2>1. ASSUME Contains(r, x) PROVE x = e \/ Contains(q, x)
    <3>1. PICK j \in 1..(n + 1) : r[j] = x
      BY <1>5, <2>1 DEF Contains
    <3>2. CASE j < i
      <4>1. x = q[j] /\ j \in 1..n
        BY <1>1, <1>6, <3>1, <3>2
      <4>2. QED
        BY <1>1, <4>1 DEF Contains
    <3>3. CASE j > i
      <4>1. x = q[j - 1] /\ j - 1 \in 1..n
        BY <1>1, <1>6, <3>1, <3>3
      <4>2. QED
        BY <1>1, <4>1 DEF Contains
    <3>4. QED
      BY <1>6, <3>1, <3>2, <3>3
  <2>2. ASSUME x = e PROVE Contains(r, x)
    <3>1. i \in 1..(n + 1) /\ r[i] = e
      BY <1>1, <1>6
    <3>2. QED
      BY <1>5, <2>2, <3>1 DEF Contains
  <2>3. ASSUME Contains(q, x) PROVE Contains(r, x)
    <3>1. PICK j \in 1..n : q[j] = x
      BY <1>1, <2>3 DEF Contains
    <3>2. CASE j < i
      <4>1. j \in 1..(n + 1) /\ r[j] = x
        BY <1>6, <3>1, <3>2
      <4>2. QED
        BY <1>5, <4>1 DEF Contains
    <3>3. CASE j >= i
      <4>1. j + 1 \in 1..(n + 1) /\ (j + 1) - 1 = j /\ ~(j + 1 < i) /\ j + 1 # i
        BY <3>3
      <4>2. r[j + 1] = x
        BY <1>6, <3>1, <4>1
      <4>3. QED
        BY <1>5, <4>1, <4>2 DEF Contains
    <3>4. QED
      BY <3>2, <3>3
  <2>4. QED
    BY <2>1, <2>2, <2>3
<1>10. InsertAt(q, i, e) = r
  BY <1>4, ZenonT(60) DEF InsertAt, a, b
<1>11. QED
  BY <1>1, <1>5, <1>6, <1>8, <1>9, <1>10

\* What RemoveAt makes of one.
LEMMA Removed ==
  ASSUME NEW q \in Seq(Events), IsInjective(q), NEW i \in 1..Len(q)
  PROVE  /\ RemoveAt(q, i) \in Seq(Events) /\ IsInjective(RemoveAt(q, i))
         /\ Len(RemoveAt(q, i)) = Len(q) - 1
         /\ \A j \in 1..(Len(q) - 1) : RemoveAt(q, i)[j] = IF j < i THEN q[j] ELSE q[j + 1]
         /\ \A x : Contains(RemoveAt(q, i), x) <=> Contains(q, x) /\ x # q[i]
<1> DEFINE a == SubSeq(q, 1, i - 1)
           b == SubSeq(q, i + 1, Len(q))
<1>1. PICK n \in Nat : n = Len(q) /\ q \in [1..n -> Events]
  BY LenProperties
<1>2. a \in Seq(Events) /\ Len(a) = i - 1 /\ \A j \in 1..(i - 1) : a[j] = q[j]
  BY <1>1
<1>3. b \in Seq(Events) /\ Len(b) = n - i /\ \A j \in 1..(n - i) : b[j] = q[j + i]
  <2>1. PICK k \in 2..(n + 1) : k = i + 1
    BY <1>1
  <2>2. b = SubSeq(q, k, n)
    BY <1>1, <2>1
  <2>3. \A j \in k..n : q[j] \in Events
    BY <1>1, <2>1
  <2>4. b \in Seq(Events) /\ Len(b) = n - k + 1 /\ \A j \in 1..(n - k + 1) : b[j] = q[k + j - 1]
    <3>1. /\ b \in Seq(Events) /\ Len(b) = (IF k <= n THEN n - k + 1 ELSE 0)
          /\ \A j \in 1..(n - k + 1) : b[j] = q[k + j - 1]
      <4> HIDE DEF a, b
      <4>1. k \in Int /\ n \in Int
        OBVIOUS
      <4>2. /\ SubSeq(q, k, n) \in Seq(Events)
            /\ Len(SubSeq(q, k, n)) = (IF k <= n THEN n - k + 1 ELSE 0)
            /\ \A j \in 1..(n - k + 1) : SubSeq(q, k, n)[j] = q[k + j - 1]
        BY ONLY <2>3, <4>1, SubSeqProperties
      <4>3. QED
        BY <2>2, <4>2, Zenon
    <3>2. (IF k <= n THEN n - k + 1 ELSE 0) = n - k + 1
      OBVIOUS
    <3>3. QED
      BY <3>1, <3>2, Zenon
  <2>5. n - k + 1 = n - i
    BY <2>1
  <2>6. \A j \in 1..(n - i) : b[j] = q[j + i]
    <3> SUFFICES ASSUME NEW j \in 1..(n - i) PROVE b[j] = q[j + i]
      OBVIOUS
    <3>1. k + j - 1 = j + i
      BY <2>1
    <3>2. b[j] = q[k + j - 1]
      BY <2>4, <2>5
    <3>3. QED
      BY <3>1, <3>2, Zenon
  <2>7. QED
    BY <2>4, <2>5, <2>6
<1>4. PICK r : r = a \o b
  OBVIOUS
<1> HIDE DEF a, b
<1>5. /\ r \in Seq(Events) /\ Len(r) = n - 1
      /\ \A j \in 1..(n - 1) : r[j] = IF j < i THEN a[j] ELSE b[j - i + 1]
  <2>1. /\ r \in Seq(Events) /\ Len(r) = Len(a) + Len(b)
        /\ \A j \in 1..(Len(a) + Len(b)) : r[j] = IF j <= Len(a) THEN a[j] ELSE b[j - Len(a)]
    BY <1>2, <1>3, <1>4, ConcatProperties
  <2>2. Len(a) + Len(b) = n - 1
    BY <1>1, <1>2, <1>3
  <2>3. \A j \in 1..(n - 1) : r[j] = IF j < i THEN a[j] ELSE b[j - i + 1]
    <3> SUFFICES ASSUME NEW j \in 1..(n - 1) PROVE r[j] = IF j < i THEN a[j] ELSE b[j - i + 1]
      OBVIOUS
    <3>1. j - Len(a) = j - i + 1 /\ (j <= Len(a) <=> j < i)
      BY <1>2
    <3>2. r[j] = IF j <= Len(a) THEN a[j] ELSE b[j - Len(a)]
      BY <2>1, <2>2
    <3>3. QED
      BY <3>1, <3>2, Zenon
  <2>4. QED
    BY <2>1, <2>2, <2>3
<1>6. \A j \in 1..(n - 1) : r[j] = IF j < i THEN q[j] ELSE q[j + 1]
  <2> SUFFICES ASSUME NEW j \in 1..(n - 1)
               PROVE  r[j] = IF j < i THEN q[j] ELSE q[j + 1]
    OBVIOUS
  <2>1. CASE j >= i
    <3>1. j - i + 1 \in 1..(n - i) /\ (j - i + 1) + i = j + 1
      BY <1>1, <2>1
    <3>2. b[j - i + 1] = q[j + 1]
      BY <1>3, <3>1, SMTT(30)
    <3>3. QED
      BY <1>5, <2>1, <3>2
  <2>2. CASE j < i
    BY <1>2, <1>5, <2>2
  <2>3. QED
    BY <2>1, <2>2
<1>7. \A m, l \in 1..n : q[m] = q[l] => m = l
  BY <1>1 DEF IsInjective
<1>8. IsInjective(r)
  <2> SUFFICES ASSUME NEW j \in 1..(n - 1), NEW k \in 1..(n - 1), r[j] = r[k], j < k PROVE FALSE
    BY <1>5 DEF IsInjective
  <2>1. PICK m \in 1..n : m = IF j < i THEN j ELSE j + 1
    OBVIOUS
  <2>2. PICK l \in 1..n : l = IF k < i THEN k ELSE k + 1
    OBVIOUS
  <2>3. r[j] = q[m] /\ r[k] = q[l] /\ m # l
    BY <1>6, <2>1, <2>2
  <2>4. QED
    BY <1>7, <2>3
<1>9. ASSUME NEW x PROVE Contains(r, x) <=> Contains(q, x) /\ x # q[i]
  <2>1. ASSUME Contains(r, x) PROVE Contains(q, x) /\ x # q[i]
    <3>1. PICK j \in 1..(n - 1) : r[j] = x
      BY <1>5, <2>1 DEF Contains
    <3>2. PICK m \in 1..n : m = IF j < i THEN j ELSE j + 1
      OBVIOUS
    <3>3. x = q[m] /\ m # i
      BY <1>6, <3>1, <3>2
    <3>4. QED
      BY <1>1, <1>7, <3>3 DEF Contains
  <2>2. ASSUME Contains(q, x), x # q[i] PROVE Contains(r, x)
    <3>1. PICK m \in 1..n : q[m] = x
      BY <1>1, <2>2 DEF Contains
    <3>2. m # i
      BY <2>2, <3>1
    <3>3. CASE m < i
      <4>1. m \in 1..(n - 1) /\ r[m] = x
        BY <1>1, <1>6, <3>1, <3>3
      <4>2. QED
        BY <1>5, <4>1 DEF Contains
    <3>4. CASE m > i
      <4>1. m - 1 \in 1..(n - 1) /\ (m - 1) + 1 = m /\ ~(m - 1 < i)
        BY <1>1, <3>4
      <4>2. r[m - 1] = x
        BY <1>6, <3>1, <4>1
      <4>3. QED
        BY <1>5, <4>1, <4>2 DEF Contains
    <3>5. QED
      BY <1>1, <3>2, <3>3, <3>4
  <2>3. QED
    BY <2>1, <2>2
<1>10. RemoveAt(q, i) = r
  BY <1>4, Zenon DEF RemoveAt, a, b
<1>11. QED
  BY <1>1, <1>5, <1>6, <1>8, <1>9, <1>10

\* What Tail makes of one.
LEMMA WithoutHead ==
  ASSUME NEW q \in Seq(Events), IsInjective(q), q # <<>>
  PROVE  /\ Head(q) = q[1] /\ Contains(q, Head(q))
         /\ Tail(q) \in Seq(Events) /\ IsInjective(Tail(q)) /\ Len(Tail(q)) = Len(q) - 1
         /\ \A j \in 1..(Len(q) - 1) : Tail(q)[j] = q[j + 1]
         /\ \A x : Contains(Tail(q), x) <=> Contains(q, x) /\ x # q[1]
<1>1. PICK n \in Nat \ {0} : n = Len(q) /\ DOMAIN q = 1..n /\ \A j \in 1..n : q[j] \in Events
  BY LenProperties, EmptySeq
<1>2. PICK r : r = Tail(q)
  OBVIOUS
<1>3. r \in Seq(Events) /\ Len(r) = n - 1 /\ \A j \in 1..(n - 1) : r[j] = q[j + 1]
  BY <1>1, <1>2, HeadTailProperties
<1>4. DOMAIN r = 1..(n - 1)
  BY <1>3
<1>5. \A m, l \in 1..n : q[m] = q[l] => m = l
  BY <1>1 DEF IsInjective
<1>6. IsInjective(r)
  <2> SUFFICES ASSUME NEW j \in 1..(n - 1), NEW k \in 1..(n - 1), r[j] = r[k] PROVE j = k
    BY <1>4 DEF IsInjective
  <2>1. j + 1 \in 1..n /\ k + 1 \in 1..n /\ q[j + 1] = q[k + 1]
    BY <1>3
  <2>2. j + 1 = k + 1
    BY <1>5, <2>1
  <2>3. QED
    BY <2>2
<1>7. ASSUME NEW x PROVE Contains(r, x) <=> Contains(q, x) /\ x # q[1]
  <2>1. ASSUME Contains(r, x) PROVE Contains(q, x) /\ x # q[1]
    <3>1. PICK j \in 1..(n - 1) : r[j] = x
      BY <1>3, <2>1 DEF Contains
    <3>2. j + 1 \in 1..n /\ x = q[j + 1] /\ j + 1 # 1 /\ 1 \in 1..n
      BY <1>3, <3>1
    <3>3. x # q[1]
      BY <1>5, <3>2
    <3>4. QED
      BY <1>1, <3>2, <3>3 DEF Contains
  <2>2. ASSUME Contains(q, x), x # q[1] PROVE Contains(r, x)
    <3>1. PICK m \in 1..n : q[m] = x
      BY <1>1, <2>2 DEF Contains
    <3>2. m - 1 \in 1..(n - 1) /\ (m - 1) + 1 = m
      BY <2>2, <3>1
    <3>3. r[m - 1] = x
      BY <1>3, <3>1, <3>2
    <3>4. QED
      BY <1>3, <3>2, <3>3 DEF Contains
  <2>3. QED
    BY <2>1, <2>2
<1>8. Head(q) = q[1] /\ Contains(q, Head(q))
  BY <1>1 DEF Contains
<1>9. QED
  BY <1>1, <1>2, <1>3, <1>6, <1>7, <1>8

\* RemovedFrom takes the event out of the queue, and leaves the order of the
\* others: whatever is in the result after an element is after it in q.
LEMMA RemovedFromIs ==
  ASSUME NEW q \in Seq(Events), IsInjective(q), NEW e \in Events
  PROVE  /\ RemovedFrom(q, e) \in Seq(Events) /\ IsInjective(RemovedFrom(q, e))
         /\ \A x : Contains(RemovedFrom(q, e), x) <=> Contains(q, x) /\ x # e
         /\ \A i, j \in DOMAIN RemovedFrom(q, e) : i < j =>
              \E k, l \in DOMAIN q : /\ RemovedFrom(q, e)[i] = q[k]
                                     /\ RemovedFrom(q, e)[j] = q[l] /\ k < l
<1>1. CASE ~Contains(q, e)
  BY <1>1 DEF RemovedFrom
<1>2. CASE Contains(q, e)
  <2>1. PICK n \in Nat : n = Len(q) /\ DOMAIN q = 1..n
    BY LenProperties
  <2>2. PICK m \in 1..n : m = (CHOOSE i \in DOMAIN q : q[i] = e) /\ q[m] = e
    BY <1>2, <2>1 DEF Contains
  <2>3. RemovedFrom(q, e) = RemoveAt(q, m)
    BY <1>2, <2>2 DEF RemovedFrom
  <2>4. PICK r : r = RemoveAt(q, m)
    OBVIOUS
  <2>5. /\ r \in Seq(Events) /\ IsInjective(r) /\ Len(r) = n - 1
        /\ \A j \in 1..(n - 1) : r[j] = IF j < m THEN q[j] ELSE q[j + 1]
        /\ \A x : Contains(r, x) <=> Contains(q, x) /\ x # e
    BY <2>1, <2>2, <2>4, Removed, SMTT(30)
  <2>6. ASSUME NEW i \in DOMAIN r, NEW j \in DOMAIN r, i < j
        PROVE  \E k, l \in DOMAIN q : r[i] = q[k] /\ r[j] = q[l] /\ k < l
    <3>1. i \in 1..(n - 1) /\ j \in 1..(n - 1)
      BY <2>5
    <3>2. PICK k \in 1..n : k = IF i < m THEN i ELSE i + 1
      BY <3>1
    <3>3. PICK l \in 1..n : l = IF j < m THEN j ELSE j + 1
      BY <3>1
    <3>4. r[i] = q[k]
      BY <2>5, <3>1, <3>2
    <3>5. r[j] = q[l]
      BY <2>5, <3>1, <3>3
    <3>6. k < l
      BY <2>6, <3>1, <3>2, <3>3
    <3>7. QED
      BY <2>1, <3>4, <3>5, <3>6, Zenon
  <2>7. QED
    BY <2>3, <2>4, <2>5, <2>6
<1>3. QED
  BY <1>1, <1>2

-----------------------------------------------------------------------------
(* The port.                                                               *)

\* A set of numbers that is not empty has a least one.
LEMMA LeastOf ==
  ASSUME NEW T, T \subseteq Nat, T # {}
  PROVE  Min(T) \in T /\ \A y \in T : Min(T) <= y
<1>1. PICK x \in T : \A y \in T : ~(<<y, x>> \in OpToRel(<, Nat))
  BY WFMin, NatLessThanWellFounded
<1>2. \A y \in T : ~(y < x)
  BY <1>1 DEF OpToRel
<1>3. \A y \in T : x <= y
  BY <1>2
<1>4. QED
  BY <1>3 DEF Min

LEMMA LesserOf ==
  ASSUME NEW a \in Nat, NEW b \in Nat
  PROVE  Min({a, b}) = IF a <= b THEN a ELSE b
<1>1. Min({a, b}) \in {a, b} /\ Min({a, b}) <= a /\ Min({a, b}) <= b
  BY LeastOf
<1>2. QED
  BY <1>1

LEMMA Widths ==
  /\ Span \in Nat \ {0} /\ MaxReload \in Nat \ {0} /\ RemainSpan \in Nat \ {0}
  /\ Past \in 1..MaxReload
  /\ \A d \in Delays : d \in Nat \ {0}
BY TickerAssumption

\* A piece of the alarm begins now, and what is left of it is no longer than it
\* should be.
LEMMA ReloadIs ==
  ASSUME NEW h \in Hw, NEW cycles \in Nat \ {0}, NEW offset \in Int
  PROVE  \E r \in Hw : /\ r = Reload(h, cycles, offset)
                       /\ r.offset = offset % Span /\ r.value = r.reload
                       /\ r.remain + r.value <= cycles /\ r.enabled = h.enabled
<1>1. PICK m \in 1..MaxReload : m = Min({cycles, MaxReload}) /\ m <= cycles
  BY Widths, LesserOf
<1>2. PICK k \in Nat : k = cycles - m
  BY <1>1
<1>3. PICK z \in 0..(RemainSpan - 1) : z = k % RemainSpan /\ z <= k
  BY Widths, ReducedIsLess, Zenon
<1>4. PICK o \in 0..(Span - 1) : o = offset % Span
  BY Widths
<1>5. Reload(h, cycles, offset)
        = [h EXCEPT !.offset = o, !.reload = m, !.value = m, !.remain = z]
  BY <1>1, <1>2, <1>3, <1>4, Zenon DEF Reload
<1>6. PICK r \in Hw : r = Reload(h, cycles, offset)
  BY <1>5 DEF Hw
<1>7. /\ r.offset = o /\ r.value = m /\ r.reload = m /\ r.remain = z
      /\ r.enabled = h.enabled
  BY <1>5, <1>6 DEF Hw
<1>8. r.remain + r.value <= cycles
  BY <1>1, <1>2, <1>3, <1>7
<1>9. QED
  BY <1>4, <1>6, <1>7, <1>8

\* Setting the alarm keeps the time; for a time that is not in the past it is in
\* time, or as early as it can be.
LEMMA SetInterruptIs ==
  ASSUME NEW h \in Hw, h.value <= h.reload, NEW x \in Int, NEW c \in Int,
         \E k \in Int : c = h.offset + Elapsed(h) + k * Span
  PROVE  \E r \in Hw : /\ r = SetInterrupt(h, (c + x) % Span)
                       /\ r.offset = c % Span /\ r.value = r.reload /\ r.enabled
                       /\ x >= 0 => r.remain + r.value <= Past \/ r.remain + r.value <= x
<1>1. PICK a \in Nat : a = h.offset + Elapsed(h)
  BY DEF Hw, Elapsed
<1>2. PICK k \in Int : c = a + k * Span
  BY <1>1
<1>3. a % Span = c % Span
  <2>1. a \in Int /\ Span \in Nat \ {0}
    BY Widths
  <2>2. QED
    BY <1>2, <2>1, SameRemainder
<1>4. PICK n \in 0..(Span - 1) : n = c % Span
  BY Widths
<1>5. Read(h) = n
  BY <1>1, <1>3, <1>4, Zenon DEF Read
<1>6. PICK b \in Int : b = c + x
  OBVIOUS
<1>7. PICK t \in 0..(Span - 1) : t = b % Span
  BY Widths
<1>8. PICK y \in Nat \ {0} : y = IF n >= t THEN Past ELSE t - n
  <2>1. Past \in Nat \ {0}
    BY Widths
  <2>2. n >= t \/ t - n \in Nat \ {0}
    BY Widths
  <2>3. QED
    BY <2>1, <2>2
<1>9. PICK s \in Hw : /\ s = Reload(h, y, a)
                      /\ s.offset = a % Span /\ s.value = s.reload
                      /\ s.remain + s.value <= y /\ s.enabled = h.enabled
  <2>1. a \in Int
    OBVIOUS
  <2>2. QED
    BY <2>1, ReloadIs
<1>10. PICK r : r = [s EXCEPT !.enabled = TRUE]
  OBVIOUS
<1>11. /\ r \in Hw /\ r.offset = s.offset /\ r.value = s.value /\ r.reload = s.reload
       /\ r.remain = s.remain /\ r.enabled
  BY <1>10 DEF Hw
<1>12. r = SetInterrupt(h, (c + x) % Span)
  <2>1. SetInterrupt(h, t) = [Reload(h, IF n >= t THEN Past ELSE t - n, a) EXCEPT !.enabled = TRUE]
    BY <1>1, <1>5, Zenon DEF SetInterrupt
  <2>2. QED
    BY <1>6, <1>7, <1>8, <1>9, <1>10, <2>1, Zenon
<1>13. ASSUME x >= 0 PROVE y <= Past \/ y <= x
  <2>1. CASE n >= t
    BY <1>8, <2>1, Widths
  <2>2. CASE ~(n >= t)
    <3>1. y \in 0..(Span - 1) /\ y = t - n
      BY <1>8, <2>2, Widths
    <3>2. b - c = x
      BY <1>6
    <3>3. y % Span = x % Span
      <4>1. ((b % Span) - (c % Span)) % Span = (b - c) % Span
        BY Widths, DifferenceReduced
      <4>2. QED
        BY <1>4, <1>7, <3>1, <3>2, <4>1, Zenon
    <3>4. y % Span = y
      BY <3>1, Widths, RemainderOfSmall
    <3>5. x \in Nat
      BY <1>13
    <3>6. x % Span <= x
      BY <3>5, Widths, ReducedIsLess
    <3>7. QED
      BY <3>3, <3>4, <3>6, Zenon
  <2>3. QED
    BY <2>1, <2>2
<1>14. ASSUME x >= 0 PROVE r.remain + r.value <= Past \/ r.remain + r.value <= x
  <2>1. r.remain \in Int /\ r.value \in Int /\ Past \in Int
    BY <1>11, Widths DEF Hw
  <2>2. QED
    BY <1>9, <1>11, <1>13, <1>14, <2>1
<1>15. QED
  BY <1>3, <1>9, <1>11, <1>12, <1>14

-----------------------------------------------------------------------------
(* The order of the queue.                                                 *)

\* The place of an event is between those that are not due later and those that
\* are.
LEMMA PlaceIs ==
  ASSUME NEW q \in Seq(Events), NEW e \in Events, NEW stamps,
         NEW l \in [Events -> Int], NEW c \in Int, Sorted(q, l),
         \A x \in Events : x = e \/ Contains(q, x) => Stamped(x, stamps, l, c)
  PROVE  /\ PlaceOf(e, q, stamps) \in 1..(Len(q) + 1)
         /\ \A i \in 1..Len(q) :
              IF i < PlaceOf(e, q, stamps) THEN l[q[i]] <= l[e] ELSE l[e] <= l[q[i]]
<1>1. PICK n \in Nat : n = Len(q) /\ DOMAIN q = 1..n /\ \A i \in 1..n : q[i] \in Events
  BY LenProperties
<1>2. PICK T : T = {i \in DOMAIN q : ComesBefore(stamps[e], stamps[q[i]])}
  OBVIOUS
<1>3. ASSUME NEW i \in 1..n PROVE i \in T <=> l[e] < l[q[i]]
  <2>1. Contains(q, q[i]) /\ q[i] \in Events
    BY <1>1 DEF Contains
  <2>2. Stamped(e, stamps, l, c) /\ Stamped(q[i], stamps, l, c)
    BY <2>1
  <2>3. PICK x \in Int : x = l[e]
    OBVIOUS
  <2>4. PICK y \in Int : y = l[q[i]]
    BY <2>1
  <2>5. /\ stamps[e] = (c + x) % Span /\ x >= -Past /\ 2 * (x + Past) < Span
        /\ stamps[q[i]] = (c + y) % Span /\ y >= -Past /\ 2 * (y + Past) < Span
    BY <2>2, <2>3, <2>4, Zenon DEF Stamped
  <2>6. 2 * (x - y) < Span /\ 2 * (y - x) < Span
    <3>1. x >= -Past /\ 2 * (x + Past) < Span /\ y >= -Past /\ 2 * (y + Past) < Span
      BY <2>5, Zenon
    <3>2. QED
      BY ONLY <3>1, Widths, x \in Int, y \in Int
  <2>7. Signed(stamps[e], stamps[q[i]]) = x - y
    <3>1. Signed((c + x) % Span, (c + y) % Span) = x - y
      BY <2>6, SignedIsDifference
    <3>2. QED
      BY <2>5, <3>1, Zenon
  <2>8. i \in T <=> x - y < 0
    BY <1>1, <1>2, <2>7 DEF ComesBefore
  <2>9. QED
    BY <2>3, <2>4, <2>8
<1>4. \A i \in 1..n : l[q[i]] \in Int /\ l[e] \in Int
  BY <1>1
<1>5. CASE T = {}
  <2>1. PlaceOf(e, q, stamps) = n + 1
    BY <1>1, <1>2, <1>5 DEF PlaceOf
  <2>2. \A i \in 1..n : l[q[i]] <= l[e]
    BY <1>3, <1>4, <1>5
  <2>3. QED
    BY <1>1, <2>1, <2>2
<1>6. CASE T # {}
  <2>1. T \subseteq 1..n /\ T \subseteq Nat
    BY <1>1, <1>2
  <2>2. PICK k \in 1..n : k = Min(T) /\ k \in T /\ \A i \in T : k <= i
    BY <1>6, <2>1, LeastOf
  <2>3. PlaceOf(e, q, stamps) = k
    BY <1>2, <1>6, <2>2 DEF PlaceOf
  <2>4. \A i \in 1..n : i < k => l[q[i]] <= l[e]
    BY <1>3, <1>4, <2>2
  <2>5. \A i \in 1..n : ~(i < k) => l[e] <= l[q[i]]
    <3> SUFFICES ASSUME NEW i \in 1..n, ~(i < k) PROVE l[e] <= l[q[i]]
      OBVIOUS
    <3>1. l[e] < l[q[k]]
      BY <1>3, <2>2
    <3>2. i = k \/ l[q[k]] <= l[q[i]]
      <4>1. i = k \/ k < i
        OBVIOUS
      <4>2. QED
        BY <1>1, <4>1 DEF Sorted
    <3>3. QED
      BY <1>4, <3>1, <3>2
  <2>6. QED
    BY <1>1, <2>3, <2>4, <2>5
<1>7. QED
  BY <1>5, <1>6

\* Inserting an event keeps the order.
LEMMA InsertionSorts ==
  ASSUME NEW q \in Seq(Events), IsInjective(q), NEW e \in Events, ~Contains(q, e), NEW stamps,
         NEW l \in [Events -> Int], NEW c \in Int, Sorted(q, l),
         \A x \in Events : x = e \/ Contains(q, x) => Stamped(x, stamps, l, c)
  PROVE  \E p \in 1..(Len(q) + 1), r \in Seq(Events) :
           /\ p = PlaceOf(e, q, stamps) /\ r = InsertAt(q, p, e)
           /\ IsInjective(r) /\ r # <<>> /\ Sorted(r, l)
           /\ \A x : Contains(r, x) <=> x = e \/ Contains(q, x)
           /\ p = 1 => \A x \in Events : Contains(q, x) => l[e] <= l[x]
           /\ p # 1 => Contains(q, q[1]) /\ l[q[1]] <= l[e]
<1>1. PICK n \in Nat : n = Len(q) /\ DOMAIN q = 1..n /\ \A i \in 1..n : q[i] \in Events
  BY LenProperties
<1>2. PICK p \in 1..(n + 1) :
        /\ p = PlaceOf(e, q, stamps)
        /\ \A i \in 1..n : IF i < p THEN l[q[i]] <= l[e] ELSE l[e] <= l[q[i]]
  BY <1>1, PlaceIs
<1>3. PICK r : r = InsertAt(q, p, e)
  OBVIOUS
<1>4. /\ r \in Seq(Events) /\ IsInjective(r) /\ Len(r) = n + 1
      /\ \A j \in 1..(n + 1) : r[j] = IF j < p THEN q[j] ELSE IF j = p THEN e ELSE q[j - 1]
      /\ \A x : Contains(r, x) <=> x = e \/ Contains(q, x)
  <2>1. p \in 1..(Len(q) + 1)
    BY <1>1
  <2>2. /\ r \in Seq(Events) /\ IsInjective(r) /\ Len(r) = Len(q) + 1
        /\ \A j \in 1..(Len(q) + 1) :
             r[j] = IF j < p THEN q[j] ELSE IF j = p THEN e ELSE q[j - 1]
        /\ \A x : Contains(r, x) <=> x = e \/ Contains(q, x)
    <3>1. /\ InsertAt(q, p, e) \in Seq(Events) /\ IsInjective(InsertAt(q, p, e))
          /\ Len(InsertAt(q, p, e)) = Len(q) + 1
          /\ \A j \in 1..(Len(q) + 1) :
               InsertAt(q, p, e)[j] = IF j < p THEN q[j] ELSE IF j = p THEN e ELSE q[j - 1]
          /\ \A x : Contains(InsertAt(q, p, e), x) <=> x = e \/ Contains(q, x)
      BY <2>1, Inserted
    <3>2. QED
      BY <1>3, <3>1
  <2>3. Len(q) = n
    BY <1>1
  <2>4. QED
    BY <2>2, <2>3
<1>5. DOMAIN r = 1..(n + 1) /\ r # <<>>
  BY <1>4
<1>6. \A i, j \in 1..n : i < j => l[q[i]] <= l[q[j]]
  BY <1>1 DEF Sorted
<1>7. ASSUME NEW i \in 1..(n + 1), NEW j \in 1..(n + 1), i < j PROVE l[r[i]] <= l[r[j]]
  <2>1. CASE j < p
    <3>1. r[i] = q[i] /\ r[j] = q[j] /\ i \in 1..n /\ j \in 1..n
      BY <1>4, <1>7, <2>1
    <3>2. QED
      BY <1>6, <1>7, <3>1
  <2>2. CASE j = p
    <3>1. r[i] = q[i] /\ r[j] = e /\ i \in 1..n /\ i < p
      BY <1>4, <1>7, <2>2
    <3>2. QED
      BY <1>2, <3>1
  <2>3. CASE j > p
    <3>1. PICK k \in 1..n : k = j - 1 /\ ~(k < p)
      BY <2>3
    <3>2. r[j] = q[k]
      BY <1>4, <2>3, <3>1
    <3>3. CASE i < p
      <4>1. r[i] = q[i] /\ i \in 1..n /\ i < k
        BY <1>4, <3>1, <3>3
      <4>2. QED
        BY <1>6, <3>2, <4>1
    <3>4. CASE i = p
      <4>1. r[i] = e
        BY <1>4, <3>4
      <4>2. QED
        BY <1>2, <3>1, <3>2, <4>1
    <3>5. CASE i > p
      <4>1. PICK m \in 1..n : m = i - 1 /\ m < k
        BY <1>7, <3>1, <3>5
      <4>2. r[i] = q[m]
        BY <1>4, <3>5, <4>1
      <4>3. QED
        BY <1>6, <3>2, <4>1, <4>2
    <3>6. QED
      BY <3>3, <3>4, <3>5
  <2>4. QED
    BY <2>1, <2>2, <2>3
<1>8. Sorted(r, l)
  BY <1>5, <1>7 DEF Sorted
<1>9. ASSUME p = 1, NEW x \in Events, Contains(q, x) PROVE l[e] <= l[x]
  <2>1. PICK i \in 1..n : q[i] = x
    BY <1>1, <1>9 DEF Contains
  <2>2. QED
    BY <1>2, <1>9, <2>1
<1>10. ASSUME p # 1 PROVE Contains(q, q[1]) /\ l[q[1]] <= l[e]
  <2>1. 1 \in 1..n /\ 1 < p
    BY <1>10
  <2>2. QED
    BY <1>1, <1>2, <2>1 DEF Contains
<1>11. p \in 1..(Len(q) + 1) /\ p = PlaceOf(e, q, stamps) /\ r = InsertAt(q, p, e)
  BY <1>1, <1>2, <1>3, Zenon
<1>12. QED
  BY <1>4, <1>5, <1>8, <1>9, <1>10, <1>11

-----------------------------------------------------------------------------
(* What the operations on the alarm do to the clock.                       *)

\* The clock while no interrupt is pending.
LEMMA ClockIs ==
  ASSUME TypeOK
  PROVE  /\ Clock \in Nat /\ Alarm \in Nat
         /\ ~interrupt => Clock = hw.offset + Elapsed(hw) /\ Read(hw) = Clock % Span
                          /\ Alarm = hw.remain + hw.value
<1>1. /\ hw.offset \in Nat /\ hw.reload \in Nat /\ hw.value \in Nat /\ hw.value <= hw.reload
      /\ hw.remain \in Nat /\ interrupt \in BOOLEAN
  BY Widths DEF TypeOK, Hw
<1>2. Clock \in Nat
  BY <1>1 DEF Clock, Elapsed
<1>3. Alarm \in Nat
  BY <1>1 DEF Alarm
<1>4. ASSUME ~interrupt
      PROVE  /\ Clock = hw.offset + Elapsed(hw) /\ Read(hw) = Clock % Span
             /\ Alarm = hw.remain + hw.value
  <2>1. Clock = hw.offset + Elapsed(hw)
    BY <1>1, <1>4 DEF Clock, Elapsed
  <2>2. Read(hw) = Clock % Span
    BY <2>1, Zenon DEF Read
  <2>3. QED
    BY <1>4, <2>1, <2>2 DEF Alarm
<1>5. QED
  BY <1>2, <1>3, <1>4

\* A new alarm leaves the clock as it is, but for whole spans.
LEMMA ClockIsKept ==
  ASSUME TypeOK, NEW h \in Hw, h.offset = Clock % Span, h.value = h.reload
  PROVE  \A x \in Int : (h.offset + Elapsed(h) + x) % Span = (Clock + x) % Span
<1> SUFFICES ASSUME NEW x \in Int
             PROVE  (h.offset + Elapsed(h) + x) % Span = (Clock + x) % Span
  OBVIOUS
<1>1. PICK c \in Int : c = Clock
  BY ClockIs
<1>2. ((c % Span) + x) % Span = (c + x) % Span
  BY Widths, AddReduced
<1>3. h.offset + Elapsed(h) = h.offset
  BY DEF Hw, Elapsed
<1>4. QED
  BY <1>1, <1>2, <1>3, Zenon

\* Setting the alarm for an event of the queue, or the one that is set up.
LEMMA AlarmFor ==
  ASSUME TypeOK, ~interrupt, NEW x \in Int
  PROVE  \E r \in Hw : /\ r = SetInterrupt(hw, (Clock + x) % Span)
                       /\ r.offset = Clock % Span /\ r.value = r.reload /\ r.enabled
                       /\ x >= 0 => r.remain + r.value <= Past \/ r.remain + r.value <= x
<1>1. PICK c \in Int : c = Clock /\ c = hw.offset + Elapsed(hw)
  BY ClockIs
<1>2. PICK k \in Int : k = 0
  OBVIOUS
<1>3. c = hw.offset + Elapsed(hw) + k * Span
  <2>1. k * Span = 0
    BY <1>2, Widths
  <2>2. QED
    BY <1>1, <2>1
<1>4. hw \in Hw /\ hw.value <= hw.reload
  BY DEF TypeOK
<1>5. \E r \in Hw : /\ r = SetInterrupt(hw, (c + x) % Span)
                    /\ r.offset = c % Span /\ r.value = r.reload /\ r.enabled
                    /\ x >= 0 => r.remain + r.value <= Past \/ r.remain + r.value <= x
  BY <1>3, <1>4, SetInterruptIs
<1>6. QED
  BY <1>1, <1>5, Zenon

\* Where an element of the queue is.
LEMMA InQueue ==
  ASSUME NEW q \in Seq(Events)
  PROVE  /\ \A x : Contains(q, x) <=> \E i \in DOMAIN q : q[i] = x
         /\ \A x : Contains(q, x) => x \in Events
         /\ q # <<>> => 1 \in DOMAIN q /\ Head(q) = q[1]
         /\ q = <<>> => \A x : ~Contains(q, x)
<1>1. PICK n \in Nat : n = Len(q) /\ DOMAIN q = 1..n /\ \A i \in 1..n : q[i] \in Events
  BY LenProperties
<1>2. q = <<>> <=> n = 0
  BY <1>1, EmptySeq
<1>3. q # <<>> => Head(q) = q[1]
  OBVIOUS
<1>4. QED
  BY <1>1, <1>2, <1>3 DEF Contains

-----------------------------------------------------------------------------
(* The invariant holds.                                                    *)

LEMMA InitIsOrdered == Init => TickerInv
<1> SUFFICES ASSUME Init PROVE TickerInv
  OBVIOUS
<1>1. TypeOK
  <2>1. hw \in Hw /\ hw.value <= hw.reload
    BY Widths DEF Init, Hw
  <2>2. queue \in Seq(Events) /\ IsInjective(queue)
    BY DEF Init, IsInjective
  <2>3. inserting \in Events /\ (CHOOSE d \in Delays : TRUE) \in Delays
    BY TickerAssumption DEF Init
  <2>4. /\ timestamp \in [Events -> 0..(Span - 1)] /\ delay \in [Events -> Delays]
        /\ left \in [Events -> Int]
    BY <2>3, Widths DEF Init
  <2>5. QED
    BY <2>1, <2>2, <2>3, <2>4 DEF Init, TypeOK
<1>2. \A e : ~Contains(queue, e)
  BY <1>1, InQueue DEF Init, TypeOK
<1>3. Sorted(queue, left)
  BY DEF Init, Sorted
<1>4. QED
  BY <1>1, <1>2, <1>3 DEF TickerInv, Init, Stamps, Counted, Setting, Sampling, Serving, AlarmIsSet

LEMMA MaskingIsOrdered ==
  ASSUME TickerInv, MaskInterrupts
  PROVE  TickerInv'
<1> USE DEF TickerInv, MaskInterrupts, MainRuns
<1>1. TypeOK' /\ Sorted(queue, left)'
  BY DEF TypeOK, Sorted, eventVars
<1>2. Clock' = Clock /\ Alarm' = Alarm
  BY DEF Clock, Alarm
<1>3. Stamps'
  BY <1>2 DEF Stamps, Counted, eventVars, Stamped
<1>4. Setting' /\ Sampling' /\ Serving'
  BY DEF Setting, Sampling, Serving
<1>5. AlarmIsSet'
  BY <1>2 DEF AlarmIsSet
<1>6. QED
  BY <1>1, <1>3, <1>4, <1>5

\* Between two steps that stamp no event anew, Stamps' follows from the clock.
LEMMA StampsFromClock ==
  ASSUME TypeOK, NEW e \in Events, NEW stamps, NEW l, NEW c \in Int, l[e] \in Int,
         Stamped(e, stamps, l, Clock), \A x \in Int : (c + x) % Span = (Clock + x) % Span
  PROVE  Stamped(e, stamps, l, c)
BY DEF Stamped

LEMMA InsertIsOrdered ==
  ASSUME TickerInv, Insert
  PROVE  TickerInv'
<1> USE DEF TickerInv
<1>1. /\ main = "masked" /\ ~isr /\ ~interrupt /\ ~Contains(queue, inserting)
      /\ left[inserting] >= 0 /\ inserting \in Events /\ left[inserting] \in Int
      /\ left \in [Events -> Int] /\ queue \in Seq(Events) /\ IsInjective(queue)
  BY DEF Insert, Serving, Setting, TypeOK
<1>2. /\ main' = "idle" /\ ~isr' /\ ~interrupt' /\ timestamp' = timestamp /\ delay' = delay
      /\ inserting' = inserting /\ left' = left /\ isr' = isr /\ interrupt' = interrupt
      /\ toRead' = toRead /\ sum' = sum
  BY <1>1 DEF Insert, eventVars
<1>3. \A x \in Events : x = inserting \/ Contains(queue, x) => Stamped(x, timestamp, left, Clock)
  BY <1>1 DEF Stamps, Counted
<1>4. PICK c \in Int : c = Clock
  BY ClockIs
<1>5. PICK p \in 1..(Len(queue) + 1), r \in Seq(Events) :
        /\ p = PlaceOf(inserting, queue, timestamp) /\ r = InsertAt(queue, p, inserting)
        /\ IsInjective(r) /\ r # <<>> /\ Sorted(r, left)
        /\ \A x : Contains(r, x) <=> x = inserting \/ Contains(queue, x)
        /\ p = 1 => \A x \in Events : Contains(queue, x) => left[inserting] <= left[x]
        /\ p # 1 => Contains(queue, queue[1]) /\ left[queue[1]] <= left[inserting]
  <2>1. \A x \in Events : x = inserting \/ Contains(queue, x) => Stamped(x, timestamp, left, c)
    BY <1>3, <1>4, Zenon
  <2>2. Sorted(queue, left)
    OBVIOUS
  <2>3. QED
    BY <1>1, <2>1, <2>2, InsertionSorts
<1>6. queue' = r /\ hw' = IF p = 1 THEN SetInterrupt(hw, timestamp[inserting]) ELSE hw
  BY <1>5, Zenon DEF Insert, InsertEvent
<1>7. \A x \in Events : Contains(queue, x) => left[x] \in Int /\ left[x] >= -Past
  BY <1>1, <1>3 DEF Stamped
<1>8. /\ hw' \in Hw /\ hw'.value <= hw'.reload /\ hw'.enabled
      /\ \A x \in Int : (Clock' + x) % Span = (Clock + x) % Span
      /\ \A x \in Events : Contains(r, x) => Alarm' <= left[x] + Past
  <2>1. CASE p = 1
    <3>1. PICK x \in Int : x = left[inserting]
      BY <1>1
    <3>2. PICK h \in Hw : /\ h = SetInterrupt(hw, (Clock + x) % Span)
                          /\ h.offset = Clock % Span /\ h.value = h.reload /\ h.enabled
                          /\ x >= 0 => h.remain + h.value <= Past \/ h.remain + h.value <= x
      BY <1>1, AlarmFor
    <3>3. timestamp[inserting] = (Clock + x) % Span
      BY <1>1, <1>3, <3>1, Zenon DEF Stamped
    <3>4. hw' = h
      BY <1>6, <2>1, <3>2, <3>3, Zenon
    <3>5. /\ h.offset \in Int /\ h.value \in Int /\ h.reload \in Int /\ h.remain \in Int
          /\ Past \in Int
      BY Widths DEF Hw
    <3>6. Clock' = h.offset + Elapsed(h) /\ Alarm' = h.remain + h.value
      BY <1>2, <3>4, <3>5 DEF Clock, Alarm, Elapsed
    <3>7. \A y \in Int : (h.offset + Elapsed(h) + y) % Span = (Clock + y) % Span
      BY <3>2, ClockIsKept
    <3>8. \A y \in Int : (Clock' + y) % Span = (Clock + y) % Span
      BY <3>6, <3>7, Zenon
    <3>9. ASSUME NEW y \in Events, Contains(r, y) PROVE Alarm' <= left[y] + Past
      <4>1. left[y] \in Int /\ x <= left[y]
        BY <1>1, <1>5, <1>7, <2>1, <3>1, <3>9
      <4>2. QED
        BY <1>1, <3>1, <3>2, <3>5, <3>6, <4>1, Widths, SMTT(30)
    <3>10. h.value <= h.reload
      BY <3>2, <3>5
    <3>11. QED
      BY <3>2, <3>4, <3>8, <3>9, <3>10
  <2>2. CASE p # 1
    <3>1. hw' = hw
      BY <1>6, <2>2, Zenon
    <3>2. Clock' = Clock /\ Alarm' = Alarm
      BY <1>1, <1>2, <3>1 DEF Clock, Alarm
    <3>3. Contains(queue, queue[1]) /\ left[queue[1]] <= left[inserting] /\ queue[1] \in Events
      BY <1>1, <1>5, <2>2, InQueue
    <3>4. hw.enabled
      BY <1>1, <3>3, InQueue DEF AlarmIsSet
    <3>5. \A x \in Events : Contains(queue, x) => Alarm <= left[x] + Past
      BY <1>1 DEF AlarmIsSet
    <3>6. Alarm <= left[inserting] + Past
      BY <1>1, <3>3, <3>5, ClockIs, Widths, SMTT(30)
    <3>7. \A x \in Events : Contains(r, x) => Alarm' <= left[x] + Past
      BY <1>5, <3>2, <3>5, <3>6
    <3>8. QED
      BY <3>1, <3>2, <3>4, <3>7 DEF TypeOK
  <2>3. QED
    BY <2>1, <2>2
<1>9. TypeOK' /\ Sorted(queue, left)'
  <2>1. hw' \in Hw /\ hw'.value <= hw'.reload
    BY <1>8
  <2>2. queue' \in Seq(Events) /\ IsInjective(queue')
    BY <1>5, <1>6, Zenon
  <2>3. TypeOK'
    BY <1>2, <2>1, <2>2 DEF TypeOK
  <2>4. Sorted(queue', left')
    BY <1>2, <1>5, <1>6, Zenon
  <2>5. QED
    BY <2>3, <2>4
<1>10. Clock' \in Int
  <2>1. hw'.offset \in Int /\ hw'.reload \in Int /\ hw'.value \in Int
    BY <1>8, Widths DEF Hw
  <2>2. QED
    BY <1>2, <2>1 DEF Clock, Elapsed
<1>11. ASSUME NEW x \in Events, Counted(x)' PROVE Stamped(x, timestamp, left, Clock')
  <2>1. x = inserting \/ Contains(queue, x)
    BY <1>2, <1>5, <1>6, <1>11 DEF Counted
  <2>2. Stamped(x, timestamp, left, Clock) /\ left[x] \in Int
    BY <1>1, <1>3, <2>1
  <2>3. QED
    BY <1>8, <1>10, <2>2, StampsFromClock
<1>12. Stamps'
  BY <1>2, <1>11, Zenon DEF Stamps
<1>13. Setting' /\ Sampling' /\ Serving'
  BY <1>1, <1>2 DEF Setting, Sampling, Serving
<1>14. AlarmIsSet'
  BY <1>2, <1>5, <1>6, <1>8 DEF AlarmIsSet
<1>15. QED
  BY <1>9, <1>12, <1>13, <1>14

\* The event of a handler that runs is due.
LEMMA FiresWhenDue ==
  ASSUME TickerInv, ShortDelays, isr, queue # <<>>
  PROVE  IsPast(timestamp[queue[1]], Read(hw)) <=> left[queue[1]] <= 0
<1> USE DEF TickerInv
<1>1. PICK e \in Events : e = queue[1] /\ Contains(queue, e)
  BY InQueue DEF TypeOK
<1>2. Stamped(e, timestamp, left, Clock)
  BY <1>1 DEF Stamps, Counted
<1>3. PICK x \in Int : x = left[e]
  BY DEF TypeOK
<1>4. PICK c \in Int : c = Clock
  BY ClockIs
<1>5. PICK y \in Int : y = 0
  OBVIOUS
<1>6. timestamp[e] = (c + x) % Span /\ x >= -Past /\ 2 * (x + Past) < Span
  BY <1>2, <1>3, <1>4, Zenon DEF Stamped
<1>7. Read(hw) = (c + y) % Span
  <2>1. c + y = c
    BY <1>5
  <2>2. Read(hw) = c % Span
    BY <1>4, ClockIs DEF Serving
  <2>3. QED
    BY <2>1, <2>2, Zenon
<1>8. 2 * (x - y) < Span /\ 2 * (y - x) < Span
  <2>1. PICK d \in Delays : 2 * (d + Past) < Span
    BY TickerAssumption DEF ShortDelays
  <2>2. d >= 1 /\ d \in Int
    BY TickerAssumption
  <2>3. QED
    BY <1>5, <1>6, <2>1, <2>2, Widths
<1>9. Signed((c + x) % Span, (c + y) % Span) = x - y
  BY <1>8, SignedIsDifference
<1>10. Signed(timestamp[e], Read(hw)) = x - y
  BY <1>6, <1>7, <1>9, Zenon
<1>11. QED
  BY <1>1, <1>3, <1>5, <1>10 DEF IsPast

LEMMA HandlerIsOrdered ==
  ASSUME TickerInv, ShortDelays, HandlerCalled
  PROVE  TickerInv' /\ left[Head(queue)] <= 0
<1> USE DEF TickerInv
<1>1. PICK e \in Events :
        /\ Fires(e)
        /\ timestamp' = [timestamp EXCEPT ![e] = (@ + delay[e]) % Span]
        /\ InsertEvent(e, Tail(queue), timestamp', hw)
        /\ left' = [left EXCEPT ![e] = @ + delay[e]]
        /\ UNCHANGED <<interrupt, delay, mainVars, isr>>
  BY DEF HandlerCalled
<1>2. /\ isr /\ queue # <<>> /\ ~interrupt /\ e = Head(queue)
      /\ left \in [Events -> Int] /\ delay \in [Events -> Delays]
      /\ queue \in Seq(Events) /\ IsInjective(queue)
      /\ timestamp \in [Events -> 0..(Span - 1)] /\ inserting \in Events
  BY <1>1 DEF Fires, Serving, TypeOK
<1>3. PICK q \in Seq(Events) :
        /\ q = Tail(queue) /\ IsInjective(q) /\ Len(q) = Len(queue) - 1
        /\ \A j \in 1..(Len(queue) - 1) : q[j] = queue[j + 1]
        /\ \A x : Contains(q, x) <=> Contains(queue, x) /\ x # queue[1]
  BY <1>2, WithoutHead
<1>4. e = queue[1] /\ Contains(queue, e) /\ ~Contains(q, e)
  BY <1>2, <1>3, WithoutHead
<1>5. left[e] <= 0
  BY <1>1, <1>2, <1>4, FiresWhenDue DEF Fires
<1>6. /\ interrupt' = interrupt /\ delay' = delay /\ main' = main /\ inserting' = inserting
      /\ isr' = isr /\ toRead' = toRead /\ sum' = sum
  BY <1>1 DEF mainVars
<1>7. /\ left' \in [Events -> Int] /\ left'[e] = left[e] + delay[e]
      /\ \A x \in Events : x # e => left'[x] = left[x]
  <2>1. delay[e] \in Int
    BY <1>2, Widths
  <2>2. QED
    BY <1>1, <1>2, <2>1
<1>8. /\ timestamp' \in [Events -> 0..(Span - 1)]
      /\ timestamp'[e] = (timestamp[e] + delay[e]) % Span
      /\ \A x \in Events : x # e => timestamp'[x] = timestamp[x]
  <2>1. PICK t \in 0..(Span - 1) : t = (timestamp[e] + delay[e]) % Span
    <3>1. PICK z \in Int : z = timestamp[e] + delay[e]
      <4>1. timestamp[e] \in Int /\ delay[e] \in Int
        BY <1>2, Widths
      <4>2. QED
        BY <4>1
    <3>2. z % Span \in 0..(Span - 1)
      BY Widths
    <3>3. QED
      BY <3>1, <3>2, Zenon
  <2>2. timestamp' = [timestamp EXCEPT ![e] = t]
    BY <1>1, <2>1, Zenon
  <2>3. QED
    BY <1>2, <2>1, <2>2
<1>9. PICK c \in Int : c = Clock
  BY ClockIs
<1>10. \A x \in Events : Counted(x) => Stamped(x, timestamp, left, c)
  BY <1>9, Zenon DEF Stamps
<1>11. Stamped(e, timestamp', left', c)
  <2>1. PICK x \in Int, d \in Int : x = left[e] /\ d = delay[e] /\ d \in Delays
    BY <1>2, Widths
  <2>2. timestamp[e] = (c + x) % Span /\ x >= -Past
    BY <1>4, <1>10, <2>1, Zenon DEF Stamped, Counted
  <2>3. timestamp'[e] = (timestamp[e] + d) % Span
    BY <1>8, <2>1, Zenon
  <2>4. PICK a \in Int : a = c + x
    OBVIOUS
  <2>5. PICK y \in Int : y = x + d
    OBVIOUS
  <2>6. ((a % Span) + d) % Span = (a + d) % Span
    BY Widths, AddReduced
  <2>7. a + d = c + y
    BY <2>4, <2>5
  <2>8. timestamp'[e] = (c + y) % Span
    BY <2>2, <2>3, <2>4, <2>6, <2>7, Zenon
  <2>9. left'[e] = y
    BY <1>7, <2>1, <2>5, Zenon
  <2>10. y >= -Past /\ 2 * (y + Past) < Span
    <3>1. d \in Nat \ {0} /\ 2 * (d + Past) < Span
      BY <2>1, Widths DEF ShortDelays
    <3>2. x <= 0 /\ x >= -Past
      BY <1>5, <2>1, <2>2
    <3>3. QED
      BY <2>5, <3>1, <3>2, Widths
  <2>11. QED
    BY <2>8, <2>9, <2>10, Zenon DEF Stamped
<1>12. ASSUME NEW x \in Events, x # e, Counted(x) PROVE Stamped(x, timestamp', left', c)
  BY <1>7, <1>8, <1>10, <1>12 DEF Stamped
<1>13. Sorted(q, left')
  <2>1. PICK n \in Nat \ {0} : n = Len(queue) /\ DOMAIN queue = 1..n
    BY <1>2, LenProperties, EmptySeq
  <2>2. DOMAIN q = 1..(n - 1)
    BY <1>3, <2>1
  <2>3. SUFFICES ASSUME NEW i \in 1..(n - 1), NEW j \in 1..(n - 1), i < j
                 PROVE  left'[q[i]] <= left'[q[j]]
    BY <2>2 DEF Sorted
  <2>4. q[i] = queue[i + 1] /\ q[j] = queue[j + 1] /\ i + 1 \in 1..n /\ j + 1 \in 1..n /\ i + 1 < j + 1
    BY <1>3, <2>1, <2>3
  <2>5. left[q[i]] <= left[q[j]]
    BY <2>1, <2>4 DEF Sorted
  <2>6. Contains(q, q[i]) /\ Contains(q, q[j])
    BY <2>2, InQueue
  <2>7. q[i] \in Events /\ q[j] \in Events /\ q[i] # e /\ q[j] # e
    BY <1>4, <2>6, InQueue
  <2>8. QED
    BY <1>7, <2>5, <2>7
<1>14. PICK p \in 1..(Len(q) + 1), r \in Seq(Events) :
         /\ p = PlaceOf(e, q, timestamp') /\ r = InsertAt(q, p, e)
         /\ IsInjective(r) /\ r # <<>> /\ Sorted(r, left')
         /\ \A x : Contains(r, x) <=> x = e \/ Contains(q, x)
  <2>1. \A x \in Events : x = e \/ Contains(q, x) => Stamped(x, timestamp', left', c)
    BY <1>3, <1>4, <1>11, <1>12 DEF Counted
  <2>2. PICK l, stamps : l = left' /\ stamps = timestamp' /\ l \in [Events -> Int]
    BY <1>7
  <2>3. \A x \in Events : x = e \/ Contains(q, x) => Stamped(x, stamps, l, c)
    BY <2>1, <2>2, Zenon
  <2>4. Sorted(q, l)
    BY <1>13, <2>2, Zenon
  <2>5. q \in Seq(Events) /\ IsInjective(q) /\ ~Contains(q, e) /\ l \in [Events -> Int]
    BY <1>3, <1>4, <2>2
  <2>6. PICK p \in 1..(Len(q) + 1), r \in Seq(Events) :
           /\ p = PlaceOf(e, q, stamps) /\ r = InsertAt(q, p, e)
           /\ IsInjective(r) /\ r # <<>> /\ Sorted(r, l)
           /\ \A x : Contains(r, x) <=> x = e \/ Contains(q, x)
           /\ p = 1 => \A x \in Events : Contains(q, x) => l[e] <= l[x]
           /\ p # 1 => Contains(q, q[1]) /\ l[q[1]] <= l[e]
    BY <2>3, <2>4, <2>5, InsertionSorts, ZenonT(120)
  <2>7. p = PlaceOf(e, q, timestamp') /\ Sorted(r, left')
    BY <2>2, <2>6, Zenon
  <2>8. QED
    BY <2>6, <2>7, Zenon
<1>15. queue' = r /\ hw' = IF p = 1 THEN SetInterrupt(hw, timestamp'[e]) ELSE hw
  <2>1. InsertEvent(e, q, timestamp', hw)
    BY <1>1, <1>3, Zenon
  <2>2. QED
    BY <1>14, <2>1, Zenon DEF InsertEvent
<1>16. \A x : Contains(r, x) <=> Contains(queue, x)
  BY <1>3, <1>4, <1>14
<1>17. /\ hw' \in Hw /\ hw'.value <= hw'.reload /\ hw'.enabled
       /\ \A x \in Int : (Clock' + x) % Span = (Clock + x) % Span
  <2>1. CASE p = 1
    <3>1. PICK x \in Int : x = left'[e]
      BY <1>7
    <3>2. PICK h \in Hw : /\ h = SetInterrupt(hw, (Clock + x) % Span)
                          /\ h.offset = Clock % Span /\ h.value = h.reload /\ h.enabled
      BY <1>2, AlarmFor
    <3>3. timestamp'[e] = (Clock + x) % Span
      BY <1>9, <1>11, <3>1, Zenon DEF Stamped
    <3>4. hw' = h
      BY <1>15, <2>1, <3>2, <3>3, Zenon
    <3>5. h.offset \in Int /\ h.value \in Int /\ h.reload \in Int
      BY Widths DEF Hw
    <3>6. Clock' = h.offset + Elapsed(h)
      BY <1>2, <1>6, <3>4, <3>5, SMTT(30) DEF Clock, Elapsed
    <3>7. \A y \in Int : (h.offset + Elapsed(h) + y) % Span = (Clock + y) % Span
      BY <3>2, ClockIsKept
    <3>8. \A y \in Int : (Clock' + y) % Span = (Clock + y) % Span
      BY <3>6, <3>7, Zenon
    <3>9. h.value <= h.reload
      BY <3>2, <3>5
    <3>10. QED
      BY <3>2, <3>4, <3>8, <3>9
  <2>2. CASE p # 1
    <3>1. hw' = hw
      BY <1>15, <2>2, Zenon
    <3>2. Clock' = Clock
      BY <1>6, <3>1 DEF Clock
    <3>3. QED
      BY <1>2, <3>1, <3>2 DEF TypeOK, AlarmIsSet
  <2>3. QED
    BY <2>1, <2>2
<1>18. TypeOK' /\ Sorted(queue, left)'
  <2>1. hw' \in Hw /\ hw'.value <= hw'.reload
    BY <1>17
  <2>2. queue' \in Seq(Events) /\ IsInjective(queue')
    BY <1>14, <1>15, Zenon
  <2>3. timestamp' \in [Events -> 0..(Span - 1)] /\ left' \in [Events -> Int]
    BY <1>7, <1>8
  <2>4. TypeOK'
    BY <1>6, <2>1, <2>2, <2>3 DEF TypeOK
  <2>5. Sorted(queue', left')
    BY <1>14, <1>15, Zenon
  <2>6. QED
    BY <2>4, <2>5
<1>19. Clock' \in Int
  <2>1. hw'.offset \in Int /\ hw'.reload \in Int /\ hw'.value \in Int
    BY <1>17, Widths DEF Hw
  <2>2. QED
    BY <1>2, <1>6, <2>1, SMTT(30) DEF Clock, Elapsed
<1>20. ASSUME NEW x \in Events, Counted(x)' PROVE Stamped(x, timestamp', left', Clock')
  <2>1. Counted(x)
    BY <1>6, <1>15, <1>16, <1>20 DEF Counted
  <2>2. Stamped(x, timestamp', left', c) /\ left'[x] \in Int
    BY <1>7, <1>11, <1>12, <2>1
  <2>3. QED
    BY <1>9, <1>17, <1>19, <2>2 DEF Stamped
<1>21. Stamps'
  BY <1>20 DEF Stamps
<1>22. Setting' /\ Sampling'
  <2>1. main # "idle" => left'[inserting] = left[inserting]
    BY <1>2, <1>4, <1>7 DEF Setting
  <2>2. Setting'
    BY <1>6, <1>15, <1>16, <2>1 DEF Setting
  <2>3. main = "reading" => toRead = Registers
    BY <1>2 DEF Sampling
  <2>4. main = "reading" => Summed = 0 /\ Summed' = 0
    BY <1>6, <2>3 DEF Summed, Registers
  <2>5. QED
    BY <1>6, <2>1, <2>2, <2>3, <2>4 DEF Sampling
<1>23. Serving'
  BY <1>2, <1>6, <1>14, <1>15 DEF Serving
<1>24. AlarmIsSet'
  BY <1>2, <1>6, <1>14, <1>15, <1>17 DEF AlarmIsSet
<1>25. QED
  BY <1>2, <1>5, <1>18, <1>21, <1>22, <1>23, <1>24

\* A new alarm for the first of the events, when it is not due yet: the clock is
\* kept, and the alarm is early enough for all.
LEMMA AlarmForFirst ==
  ASSUME TypeOK, ~interrupt, ~interrupt', NEW x \in Int, x >= 0,
         hw' = SetInterrupt(hw, (Clock + x) % Span)
  PROVE  /\ hw' \in Hw /\ hw'.value <= hw'.reload /\ hw'.enabled
         /\ Clock' \in Int /\ \A y \in Int : (Clock' + y) % Span = (Clock + y) % Span
         /\ \A y \in Int : x <= y => Alarm' <= y + Past
<1>1. PICK h \in Hw : /\ h = SetInterrupt(hw, (Clock + x) % Span)
                      /\ h.offset = Clock % Span /\ h.value = h.reload /\ h.enabled
                      /\ x >= 0 => h.remain + h.value <= Past \/ h.remain + h.value <= x
  BY AlarmFor
<1>2. hw' = h
  BY <1>1, Zenon
<1>3. h.offset \in Int /\ h.value \in Int /\ h.reload \in Int /\ h.remain \in Int /\ Past \in Nat
  BY Widths DEF Hw
<1>4. Clock' = h.offset + Elapsed(h) /\ Alarm' = h.remain + h.value /\ Clock' \in Int
  BY <1>2, <1>3 DEF Clock, Alarm, Elapsed
<1>5. \A y \in Int : (h.offset + Elapsed(h) + y) % Span = (Clock + y) % Span
  BY <1>1, ClockIsKept
<1>6. \A y \in Int : (Clock' + y) % Span = (Clock + y) % Span
  BY <1>4, <1>5, Zenon
<1>7. h.remain + h.value <= Past \/ h.remain + h.value <= x
  BY <1>1
<1>8. \A y \in Int : x <= y => Alarm' <= y + Past
  BY <1>3, <1>4, <1>7
<1>9. h.value <= h.reload
  BY <1>1, <1>3
<1>10. QED
  BY <1>1, <1>2, <1>4, <1>6, <1>8, <1>9

\* The first of the queue is the first that is due.
LEMMA HeadIsFirst ==
  ASSUME TypeOK, Sorted(queue, left), queue # <<>>
  PROVE  /\ queue[1] \in Events /\ Contains(queue, queue[1]) /\ Head(queue) = queue[1]
         /\ left[queue[1]] \in Int
         /\ \A x \in Events : Contains(queue, x) => left[queue[1]] <= left[x]
<1>1. /\ queue \in Seq(Events) /\ left \in [Events -> Int]
  BY DEF TypeOK
<1>2. /\ 1 \in DOMAIN queue /\ Head(queue) = queue[1]
      /\ queue[1] \in Events /\ Contains(queue, queue[1])
  BY <1>1, InQueue
<1>3. ASSUME NEW x \in Events, Contains(queue, x) PROVE left[queue[1]] <= left[x]
  <2>1. PICK i \in DOMAIN queue : queue[i] = x
    BY <1>1, <1>3, InQueue
  <2>2. i = 1 \/ 1 < i
    BY <1>1, <2>1
  <2>3. CASE i = 1
    BY <1>1, <1>2, <2>1, <2>3
  <2>4. CASE 1 < i
    BY <1>2, <2>1, <2>4 DEF Sorted
  <2>5. QED
    BY <2>2, <2>3, <2>4
<1>4. QED
  BY <1>1, <1>2, <1>3

LEMMA ReturnIsOrdered ==
  ASSUME TickerInv, ShortDelays, IrqReturns
  PROVE  TickerInv'
<1> USE DEF TickerInv
<1>1. isr /\ queue # <<>> /\ ~interrupt /\ main # "masked"
  BY DEF IrqReturns, Serving
<1>2. /\ hw' = SetInterrupt(hw, timestamp[Head(queue)]) /\ isr' = FALSE
      /\ interrupt' = interrupt /\ queue' = queue /\ timestamp' = timestamp /\ delay' = delay
      /\ main' = main /\ inserting' = inserting /\ left' = left
      /\ toRead' = toRead /\ sum' = sum
  BY <1>1 DEF IrqReturns, eventVars, mainVars
<1>3. /\ queue[1] \in Events /\ Contains(queue, queue[1]) /\ Head(queue) = queue[1]
      /\ \A x \in Events : Contains(queue, x) => left[queue[1]] <= left[x]
  BY <1>1, HeadIsFirst
<1>4. ~Fires(queue[1])
  BY <1>3 DEF IrqReturns
<1>5. PICK x \in Int : x = left[queue[1]] /\ x > 0
  <2>1. ~IsPast(timestamp[queue[1]], Read(hw))
    BY <1>1, <1>3, <1>4 DEF Fires
  <2>2. ~(left[queue[1]] <= 0) /\ left[queue[1]] \in Int
    BY <1>1, <1>3, <2>1, FiresWhenDue, HeadIsFirst
  <2>3. QED
    BY <2>2
<1>6. hw' = SetInterrupt(hw, (Clock + x) % Span)
  <2>1. Stamped(queue[1], timestamp, left, Clock)
    BY <1>3 DEF Stamps, Counted
  <2>2. QED
    BY <1>2, <1>3, <1>5, <2>1, Zenon DEF Stamped
<1>7. /\ hw' \in Hw /\ hw'.value <= hw'.reload /\ hw'.enabled
      /\ Clock' \in Int /\ \A y \in Int : (Clock' + y) % Span = (Clock + y) % Span
      /\ \A y \in Int : x <= y => Alarm' <= y + Past
  <2>1. x >= 0
    BY <1>5
  <2>2. QED
    BY <1>1, <1>2, <1>6, <2>1, AlarmForFirst
<1>8. TypeOK' /\ Sorted(queue, left)'
  BY <1>2, <1>7 DEF TypeOK, Sorted
<1>9. ASSUME NEW y \in Events, Counted(y)' PROVE Stamped(y, timestamp, left, Clock')
  <2>1. Stamped(y, timestamp, left, Clock) /\ left[y] \in Int
    BY <1>2, <1>9 DEF Counted, Stamps, TypeOK
  <2>2. QED
    BY <1>7, <2>1, StampsFromClock
<1>10. Stamps'
  BY <1>2, <1>9, Zenon DEF Stamps
<1>11. Setting' /\ Sampling' /\ Serving'
  <2>1. main = "reading" => toRead = Registers /\ Summed = 0 /\ Summed' = 0
    BY <1>1, <1>2 DEF Sampling, Summed, Registers
  <2>2. QED
    BY <1>1, <1>2, <2>1 DEF Setting, Sampling, Serving
<1>12. ASSUME NEW y \in Events, Contains(queue, y) PROVE Alarm' <= left[y] + Past
  <2>1. left[y] \in Int /\ x <= left[y]
    BY <1>3, <1>5, <1>12 DEF TypeOK
  <2>2. QED
    BY <1>7, <2>1
<1>13. AlarmIsSet'
  BY <1>1, <1>2, <1>7, <1>12 DEF AlarmIsSet
<1>14. QED
  BY <1>8, <1>10, <1>11, <1>13

LEMMA TickIsOrdered ==
  ASSUME TickerInv, Liberties = {}, Tick
  PROVE  TickerInv'
<1> USE DEF TickerInv
<1>1. /\ ~isr /\ ~interrupt /\ (main # "idle" => left[inserting] > 0)
      /\ (main = "masked" => hw.value # 1)
      /\ (main = "reading" /\ toRead # Registers => hw.value # 1)
  BY DEF Tick, TearsRead
<1>2. /\ queue' = queue /\ timestamp' = timestamp /\ delay' = delay /\ main' = main
      /\ inserting' = inserting /\ isr' = isr /\ interrupt' = (hw.value = 1)
      /\ hw' = [hw EXCEPT !.value = IF @ = 1 THEN hw.reload ELSE @ - 1]
      /\ toRead' = toRead /\ sum' = sum
      /\ left' = [e \in Events |-> IF IsCounted(e) THEN left[e] - 1
                                   ELSE IF main # "idle" /\ e = inserting THEN left[e] ELSE 0]
  BY DEF Tick, eventVars, mainVars
<1>3. /\ hw.offset \in Int /\ hw.remain \in Nat /\ hw.value \in Nat \ {0} /\ hw.reload \in Nat \ {0}
      /\ hw.value <= hw.reload /\ hw.reload <= MaxReload /\ hw \in Hw /\ Past \in Nat
  BY Widths DEF TypeOK, Hw
<1>4. /\ hw' \in Hw /\ hw'.value <= hw'.reload /\ hw'.offset = hw.offset
      /\ hw'.remain = hw.remain /\ hw'.reload = hw.reload /\ hw'.enabled = hw.enabled
      /\ hw'.value = IF hw.value = 1 THEN hw.reload ELSE hw.value - 1
  <2>1. PICK v \in 1..MaxReload : v = (IF hw.value = 1 THEN hw.reload ELSE hw.value - 1) /\ v <= hw.reload
    BY <1>3, Widths
  <2>2. hw' = [hw EXCEPT !.value = v]
    BY <1>2, <2>1
  <2>3. QED
    BY <1>3, <2>1, <2>2 DEF Hw
<1>5. Clock \in Int /\ Alarm \in Int /\ Clock' = Clock + 1 /\ Alarm' = Alarm - 1
  <2>1. Clock = hw.offset + (hw.reload - hw.value) /\ Alarm = hw.remain + hw.value
    BY <1>1, <1>3 DEF Clock, Alarm, Elapsed
  <2>2. /\ Clock' = hw.offset + (hw.reload - hw'.value) + (IF hw.value = 1 THEN hw.reload ELSE 0)
        /\ Alarm' = hw.remain + (IF hw.value = 1 THEN 0 ELSE hw'.value)
    BY <1>2, <1>4 DEF Clock, Alarm, Elapsed
  <2>3. QED
    BY <1>3, <1>4, <2>1, <2>2
<1>6. left' \in [Events -> Int] /\ \A e \in Events : Counted(e) => left'[e] = left[e] - 1
  <2>1. \A e \in Events : Counted(e) => IsCounted(e)
    BY DEF Counted, IsCounted, Sampling
  <2>2. QED
    BY <1>2, <2>1 DEF TypeOK
<1>7. \A e \in Events : left[e] \in Int
  BY DEF TypeOK
<1>8. ASSUME NEW e \in Events, Contains(queue, e)
      PROVE  Counted(e) /\ left'[e] = left[e] - 1 /\ Alarm <= left[e] + Past /\ left'[e] >= -Past
  <2>1. Counted(e) /\ left'[e] = left[e] - 1 /\ Alarm <= left[e] + Past
    BY <1>1, <1>6, <1>8 DEF Counted, AlarmIsSet
  <2>2. Alarm >= 1
    BY <1>1, <1>3 DEF Alarm
  <2>3. QED
    BY <1>3, <1>5, <1>7, <2>1, <2>2
<1>9. /\ main # "idle" => left'[inserting] >= 0
      /\ main = "reading" => /\ "value" \in toRead => left'[inserting] = left[inserting]
                             /\ ~("value" \in toRead) => left'[inserting] = left[inserting] - 1
  <2>1. inserting \in Events
    BY DEF TypeOK
  <2>2. ASSUME main # "idle"
        PROVE  left'[inserting] = left[inserting] \/ left'[inserting] = left[inserting] - 1
    BY <1>2, <2>1, <2>2 DEF IsCounted
  <2>3. ASSUME main = "reading"
        PROVE  /\ "value" \in toRead => left'[inserting] = left[inserting]
               /\ ~("value" \in toRead) => left'[inserting] = left[inserting] - 1
    BY <1>2, <2>1, <2>3 DEF IsCounted, Setting
  <2>4. QED
    BY <1>1, <1>7, <2>1, <2>2, <2>3
<1>10. TypeOK'
  BY <1>2, <1>4, <1>6 DEF TypeOK
<1>11. Sorted(queue, left')
  <2>1. SUFFICES ASSUME NEW i \in DOMAIN queue, NEW j \in DOMAIN queue, i < j
                 PROVE  left'[queue[i]] <= left'[queue[j]]
    BY DEF Sorted
  <2>2. Contains(queue, queue[i]) /\ queue[i] \in Events /\ Contains(queue, queue[j]) /\ queue[j] \in Events
    BY InQueue DEF TypeOK
  <2>3. left[queue[i]] <= left[queue[j]]
    BY <2>1 DEF Sorted
  <2>4. QED
    BY <1>7, <1>8, <2>2, <2>3
<1>12. ASSUME NEW e \in Events, Counted(e) PROVE Stamped(e, timestamp, left', Clock')
  <2>1. PICK x \in Int, c \in Int : x = left[e] /\ c = Clock
    BY <1>5, <1>7
  <2>2. timestamp[e] = (c + x) % Span /\ 2 * (x + Past) < Span
    BY <1>12, <2>1, Zenon DEF Stamps, Stamped
  <2>3. PICK y \in Int, d \in Int : y = left'[e] /\ d = Clock' /\ y = x - 1 /\ d = c + 1
    BY <1>5, <1>6, <1>12, <2>1
  <2>4. c + x = d + y
    BY <2>3
  <2>5. timestamp[e] = (d + y) % Span
    BY <2>2, <2>4, Zenon
  <2>6. y >= -Past
    <3>1. CASE Contains(queue, e)
      BY <1>8, <2>3, <3>1
    <3>2. CASE main \in {"read", "masked"} /\ e = inserting
      <4>1. left'[e] >= 0
        BY <1>9, <3>2
      <4>2. y >= 0
        BY <2>3, <4>1
      <4>3. QED
        BY <1>3, <4>2
    <3>3. QED
      BY <1>12, <3>1, <3>2 DEF Counted
  <2>7. 2 * (x + Past) < Span
    BY <2>2
  <2>8. 2 * (y + Past) < Span
    BY <1>3, <2>3, <2>7, Widths
  <2>9. QED
    BY <2>3, <2>5, <2>6, <2>8, Zenon DEF Stamped
<1>13. Stamps'
  <2>1. \A e \in Events : Counted(e)' <=> Counted(e)
    BY <1>2 DEF Counted
  <2>2. QED
    BY <1>2, <1>12, <2>1 DEF Stamps
<1>14. Setting' /\ Serving'
  BY <1>1, <1>2, <1>4, <1>9 DEF Setting, Serving
<1>15. AlarmIsSet'
  <2>1. hw'.enabled <=> queue' # <<>>
    BY <1>2, <1>4 DEF AlarmIsSet
  <2>2. \A e \in Events : Contains(queue, e) => Alarm' <= left'[e] + Past
    BY <1>3, <1>5, <1>7, <1>8
  <2>3. QED
    BY <1>2, <2>1, <2>2 DEF AlarmIsSet
<1>16. Sampling'
  <2>1. PICK d \in Int, x \in Int, y \in Int :
          d = delay[inserting] /\ x = left[inserting] /\ y = left'[inserting]
    <3>1. delay[inserting] \in Int /\ left[inserting] \in Int /\ left'[inserting] \in Int
      BY <1>6, Widths DEF TypeOK
    <3>2. QED
      BY <3>1
  <2>2. ASSUME main = "reading" PROVE Summed' = Summed
    <3>1. CASE "value" \in toRead
      BY <1>2, <1>4, <3>1 DEF Summed
    <3>2. CASE ~("value" \in toRead)
      <4>1. hw'.value = hw.value - 1
        BY <1>1, <1>4, <2>2, <3>2 DEF Registers
      <4>2. y = x - 1
        BY <1>9, <2>1, <2>2, <3>2
      <4>3. hw'.value + (d - y) = hw.value + (d - x)
        BY <1>3, <4>1, <4>2
      <4>4. QED
        BY <1>2, <1>4, <2>1, <4>3, Zenon DEF Summed
    <3>3. QED
      BY <3>1, <3>2
  <2>3. ASSUME main = "reading"
        PROVE  y <= d /\ ("value" \in toRead => y = d)
    BY <1>9, <2>1, <2>3 DEF Sampling
  <2>4. main = "reading" /\ toRead # Registers => ~interrupt' /\ ~isr'
    BY <1>1, <1>2
  <2>5. QED
    BY <1>2, <2>1, <2>2, <2>3, <2>4 DEF Sampling
<1>17. QED
  BY <1>2, <1>10, <1>11, <1>13, <1>14, <1>15, <1>16

LEMMA SystickIsOrdered ==
  ASSUME TickerInv, SystickIrq
  PROVE  TickerInv'
<1> USE DEF TickerInv
<1>1. interrupt /\ ~isr /\ main # "masked" /\ hw.value = hw.reload
  BY DEF SystickIrq, Serving
<1>2. /\ hw' = IF hw.remain > 0 THEN Reload(hw, hw.remain, hw.offset + hw.reload)
                                ELSE [hw EXCEPT !.offset = (hw.offset + hw.reload) % Span]
      /\ isr' = (hw.enabled /\ hw.remain = 0) /\ interrupt' = FALSE
      /\ queue' = queue /\ timestamp' = timestamp /\ delay' = delay
      /\ main' = main /\ inserting' = inserting /\ left' = left
      /\ toRead' = toRead /\ sum' = sum
  BY DEF SystickIrq, eventVars, mainVars
<1>3. /\ hw \in Hw /\ hw.offset \in Nat /\ hw.reload \in Nat /\ hw.remain \in Nat
      /\ hw.value <= hw.reload /\ hw.enabled \in BOOLEAN
  BY Widths DEF TypeOK, Hw
<1>4. PICK c \in Int : c = Clock /\ c = hw.offset + hw.reload
  BY <1>1, <1>3 DEF Clock, Elapsed
<1>5. Alarm = hw.remain
  BY <1>1, <1>3 DEF Alarm
<1>6. /\ hw' \in Hw /\ hw'.offset = c % Span /\ hw'.value = hw'.reload /\ hw'.enabled = hw.enabled
      /\ ~isr' /\ hw.enabled => hw'.remain + hw'.value <= hw.remain
  <2>1. CASE hw.remain > 0
    <3>1. PICK m \in Nat \ {0} : m = hw.remain
      BY <1>3, <2>1
    <3>2. PICK r \in Hw : /\ r = Reload(hw, m, c)
                          /\ r.offset = c % Span /\ r.value = r.reload
                          /\ r.remain + r.value <= m /\ r.enabled = hw.enabled
      <4>1. hw \in Hw
        BY <1>3
      <4>2. QED
        BY <4>1, ReloadIs
    <3>3. hw' = r
      BY <1>2, <1>4, <2>1, <3>1, <3>2, Zenon
    <3>4. QED
      BY <3>1, <3>2, <3>3
  <2>2. CASE ~(hw.remain > 0)
    <3>1. PICK o \in 0..(Span - 1) : o = c % Span
      BY Widths
    <3>2. hw' = [hw EXCEPT !.offset = o]
      BY <1>2, <1>4, <2>2, <3>1, Zenon
    <3>3. /\ hw' \in Hw /\ hw'.offset = o /\ hw'.value = hw.value /\ hw'.reload = hw.reload
          /\ hw'.enabled = hw.enabled
      BY <1>3, <3>2 DEF Hw
    <3>4. hw.enabled => isr'
      <4>1. hw.remain = 0
        BY <1>3, <2>2
      <4>2. isr' = (hw.enabled /\ hw.remain = 0)
        BY <1>2, Zenon
      <4>3. QED
        BY <4>1, <4>2, Zenon
    <3>5. QED
      BY <1>1, <3>1, <3>3, <3>4
  <2>3. QED
    BY <2>1, <2>2
<1>7. hw'.offset \in Int /\ hw'.value \in Int /\ hw'.reload \in Int /\ hw'.remain \in Int
  BY <1>6, Widths DEF Hw
<1>8. Clock' = hw'.offset /\ Clock' = hw'.offset + Elapsed(hw') /\ Alarm' = hw'.remain + hw'.value
  BY <1>2, <1>6, <1>7 DEF Clock, Alarm, Elapsed
<1>9. \A x \in Int : (Clock' + x) % Span = (Clock + x) % Span
  <2>1. PICK h : h = hw'
    OBVIOUS
  <2>2. h \in Hw /\ h.offset = Clock % Span /\ h.value = h.reload
    BY <1>4, <1>6, <2>1, Zenon
  <2>3. \A x \in Int : (h.offset + Elapsed(h) + x) % Span = (Clock + x) % Span
    BY <2>2, ClockIsKept
  <2>4. Clock' = h.offset + Elapsed(h)
    BY <1>8, <2>1, Zenon
  <2>5. QED
    BY <2>3, <2>4, Zenon
<1>10. TypeOK'
  <2>1. hw'.value <= hw'.reload
    BY <1>6, <1>7
  <2>2. isr' \in BOOLEAN /\ interrupt' \in BOOLEAN
    BY <1>2, <1>3
  <2>3. QED
    BY <1>2, <1>6, <2>1, <2>2 DEF TypeOK
<1>11. Sorted(queue, left)'
  BY <1>2 DEF Sorted
<1>12. ASSUME NEW e \in Events, Counted(e)' PROVE Stamped(e, timestamp, left, Clock')
  <2>1. Stamped(e, timestamp, left, Clock) /\ left[e] \in Int /\ Clock' \in Int
    BY <1>2, <1>7, <1>8, <1>12 DEF Counted, Stamps, TypeOK
  <2>2. QED
    BY <1>9, <2>1, StampsFromClock
<1>13. Stamps'
  BY <1>2, <1>12, Zenon DEF Stamps
<1>14. isr' => queue # <<>>
  BY <1>2 DEF AlarmIsSet
<1>15. Setting' /\ Sampling' /\ Serving'
  <2>1. main = "reading" => toRead = Registers /\ Summed = 0 /\ Summed' = 0
    BY <1>1, <1>2 DEF Sampling, Summed, Registers
  <2>2. QED
    BY <1>1, <1>2, <1>14, <2>1 DEF Setting, Sampling, Serving
<1>16. ASSUME ~isr', NEW e \in Events, Contains(queue, e) PROVE Alarm' <= left[e] + Past
  <2>1. hw.enabled /\ Alarm <= left[e] + Past /\ left[e] \in Int
    BY <1>1, <1>16, InQueue DEF AlarmIsSet, TypeOK
  <2>2. QED
    BY <1>3, <1>5, <1>6, <1>7, <1>8, <1>16, <2>1, Widths
<1>17. AlarmIsSet'
  BY <1>2, <1>6, <1>16 DEF AlarmIsSet
<1>18. QED
  BY <1>10, <1>11, <1>13, <1>15, <1>17

\* What is left of the queue without e is sorted.
LEMMA RemovalSorts ==
  ASSUME TypeOK, Sorted(queue, left), NEW e \in Events
  PROVE  \E q \in Seq(Events) :
           /\ q = RemovedFrom(queue, e) /\ IsInjective(q) /\ Sorted(q, left)
           /\ \A x : Contains(q, x) <=> Contains(queue, x) /\ x # e
           /\ q # <<>> <=> \E x \in Events : Contains(q, x)
<1>1. queue \in Seq(Events) /\ IsInjective(queue)
  BY DEF TypeOK
<1>2. PICK q \in Seq(Events) :
        /\ q = RemovedFrom(queue, e) /\ IsInjective(q)
        /\ \A x : Contains(q, x) <=> Contains(queue, x) /\ x # e
        /\ \A i, j \in DOMAIN q : i < j =>
             \E k, l \in DOMAIN queue : q[i] = queue[k] /\ q[j] = queue[l] /\ k < l
  BY <1>1, RemovedFromIs
<1>3. Sorted(q, left)
  <2>1. SUFFICES ASSUME NEW i \in DOMAIN q, NEW j \in DOMAIN q, i < j
                 PROVE  left[q[i]] <= left[q[j]]
    BY DEF Sorted
  <2>2. PICK k \in DOMAIN queue, l \in DOMAIN queue : q[i] = queue[k] /\ q[j] = queue[l] /\ k < l
    BY <1>2, <2>1
  <2>3. QED
    BY <2>2 DEF Sorted
<1>4. q # <<>> <=> \E x \in Events : Contains(q, x)
  BY InQueue
<1>5. QED
  BY <1>2, <1>3, <1>4

LEMMA RemovalIs ==
  ASSUME TickerInv, Liberties = {}, MainRuns, main = "idle", NEW e \in Events, MayRemove(e),
         hw' = AlarmWithout(hw, queue, e), interrupt' = interrupt
  PROVE  /\ hw' \in Hw /\ hw'.value <= hw'.reload /\ Clock' \in Int
         /\ hw'.enabled <=> RemovedFrom(queue, e) # <<>>
         /\ \A x \in Events : Contains(queue, x) /\ x # e =>
              Stamped(x, timestamp, left, Clock') /\ Alarm' <= left[x] + Past
<1> USE DEF TickerInv
<1>1. ~isr /\ ~interrupt /\ ~interrupt' /\ queue \in Seq(Events) /\ IsInjective(queue)
  BY DEF MainRuns, TypeOK
<1>2. \A x \in Events : Contains(queue, x) =>
        Stamped(x, timestamp, left, Clock) /\ Alarm <= left[x] + Past /\ left[x] \in Int
  BY <1>1 DEF Stamps, Counted, AlarmIsSet, TypeOK
<1>3. PICK q \in Seq(Events) :
        /\ q = RemovedFrom(queue, e)
        /\ \A x : Contains(q, x) <=> Contains(queue, x) /\ x # e
        /\ q # <<>> <=> \E x \in Events : Contains(q, x)
  BY RemovalSorts
<1>4. CASE queue = <<>> \/ Head(queue) # e
  <2>1. hw' = hw
    BY <1>4 DEF AlarmWithout
  <2>2. Clock' = Clock /\ Alarm' = Alarm /\ Clock \in Int
    BY <1>1, <2>1, ClockIs DEF Clock, Alarm
  <2>3. queue # <<>> <=> q # <<>>
    BY <1>1, <1>3, <1>4, InQueue, HeadIsFirst
  <2>4. hw'.enabled <=> q # <<>>
    BY <2>1, <2>3 DEF AlarmIsSet
  <2>5. hw' \in Hw /\ hw'.value <= hw'.reload
    BY <2>1 DEF TypeOK
  <2>6. QED
    BY <1>2, <1>3, <2>2, <2>4, <2>5
<1>5. CASE queue # <<>> /\ Head(queue) = e /\ Tail(queue) = <<>>
  <2>1. hw' = [hw EXCEPT !.enabled = FALSE, !.reload = MaxReload]
    BY <1>5 DEF AlarmWithout, DisableInterrupt
  <2>2. hw \in Hw
    BY DEF TypeOK
  <2>3. hw' \in Hw /\ hw'.value <= hw'.reload /\ ~hw'.enabled
    <3>1. /\ hw'.offset = hw.offset /\ hw'.value = hw.value /\ hw'.remain = hw.remain
          /\ hw'.reload = MaxReload /\ hw'.enabled = FALSE
      BY <2>1, <2>2 DEF Hw
    <3>2. hw.value \in 1..MaxReload /\ MaxReload \in 1..MaxReload
      BY <2>2, Widths DEF Hw
    <3>3. hw' \in Hw
      BY <2>1, <2>2, <3>2 DEF Hw
    <3>4. QED
      BY <3>1, <3>2, <3>3
  <2>4. Clock' \in Int
    <3>1. hw'.offset \in Int /\ hw'.reload \in Int /\ hw'.value \in Int
      BY <2>3, Widths DEF Hw
    <3>2. QED
      BY <1>1, <3>1 DEF Clock, Elapsed
  <2>5. \A x \in Events : ~(Contains(queue, x) /\ x # e)
    <3>1. /\ \A x : Contains(Tail(queue), x) <=> Contains(queue, x) /\ x # queue[1]
          /\ Head(queue) = queue[1] /\ Tail(queue) \in Seq(Events)
      BY <1>1, <1>5, WithoutHead
    <3>2. \A x : ~Contains(Tail(queue), x)
      BY <1>5, <3>1, InQueue
    <3>3. QED
      BY <1>5, <3>1, <3>2
  <2>6. QED
    BY <1>3, <2>3, <2>4, <2>5
<1>6. CASE queue # <<>> /\ Head(queue) = e /\ Tail(queue) # <<>>
  <2>1. PICK n \in Nat : n = Len(queue) /\ DOMAIN queue = 1..n /\ \A i \in 1..n : queue[i] \in Events
    BY <1>1, LenProperties
  <2>2. n > 1 /\ queue[1] = e
    <3>1. Tail(queue) \in Seq(Events) /\ Len(Tail(queue)) = n - 1 /\ Head(queue) = queue[1]
      BY <1>1, <1>6, <2>1, WithoutHead
    <3>2. n # 0 /\ Len(Tail(queue)) # 0
      BY <1>1, <1>6, <2>1, <3>1, EmptySeq
    <3>3. QED
      BY <1>6, <2>1, <3>1, <3>2
  <2>3. /\ 2 \in DOMAIN queue /\ queue[2] \in Events /\ Contains(queue, queue[2])
        /\ queue[2] # e
    <3>1. 1 \in DOMAIN queue /\ 2 \in DOMAIN queue
      BY <2>1, <2>2
    <3>2. queue[2] \in Events /\ Contains(queue, queue[2])
      BY <1>1, <3>1, InQueue
    <3>3. queue[2] # queue[1]
      BY <1>1, <3>1 DEF IsInjective
    <3>4. QED
      BY <2>2, <3>1, <3>2, <3>3
  <2>4. PICK x \in Int : x = left[queue[2]] /\ x > 0
    <3>1. Len(queue) > 1
      BY <2>1, <2>2
    <3>2. ~(left[queue[2]] <= 0)
      BY <1>6, <3>1 DEF MayRemove, PutsOff
    <3>3. left[queue[2]] \in Int
      BY <1>2, <2>3
    <3>4. QED
      BY <3>2, <3>3
  <2>5. hw' = SetInterrupt(hw, (Clock + x) % Span)
    <3>1. hw' = SetInterrupt(hw, timestamp[queue[2]])
      BY <1>6, Zenon DEF AlarmWithout
    <3>2. Stamped(queue[2], timestamp, left, Clock)
      BY <1>2, <2>3
    <3>3. QED
      BY <2>4, <3>1, <3>2, Zenon DEF Stamped
  <2>6. /\ hw' \in Hw /\ hw'.value <= hw'.reload /\ hw'.enabled
        /\ Clock' \in Int /\ \A y \in Int : (Clock' + y) % Span = (Clock + y) % Span
        /\ \A y \in Int : x <= y => Alarm' <= y + Past
    <3>1. x >= 0
      BY <2>4
    <3>2. QED
      BY <1>1, <2>5, <3>1, AlarmForFirst
  <2>7. ASSUME NEW y \in Events, Contains(queue, y), y # e
        PROVE  Stamped(y, timestamp, left, Clock') /\ Alarm' <= left[y] + Past
    <3>1. Stamped(y, timestamp, left, Clock) /\ left[y] \in Int
      BY <1>2, <2>7
    <3>2. Stamped(y, timestamp, left, Clock')
      BY <2>6, <3>1, StampsFromClock
    <3>3. PICK i \in 1..n : queue[i] = y
      BY <1>1, <2>1, <2>7, InQueue
    <3>4. i = 2 \/ 2 < i
      BY <2>2, <2>7, <3>3
    <3>5. x <= left[y]
      BY <2>1, <2>3, <2>4, <3>3, <3>4 DEF Sorted
    <3>6. QED
      BY <2>6, <3>1, <3>2, <3>5
  <2>8. q # <<>>
    BY <1>3, <2>3
  <2>9. QED
    BY <1>3, <2>6, <2>7, <2>8
<1>7. QED
  BY <1>4, <1>5, <1>6

LEMMA DetachIsOrdered ==
  ASSUME TickerInv, Liberties = {}, NEW e \in Events, Detach(e)
  PROVE  TickerInv'
<1> USE DEF TickerInv
<1>1. /\ MainRuns /\ main = "idle" /\ MayRemove(e) /\ hw' = AlarmWithout(hw, queue, e)
      /\ queue' = RemovedFrom(queue, e) /\ timestamp' = [timestamp EXCEPT ![e] = 0]
      /\ left' = [left EXCEPT ![e] = 0] /\ interrupt' = interrupt /\ delay' = delay
      /\ main' = main /\ inserting' = inserting /\ isr' = isr
      /\ toRead' = toRead /\ sum' = sum
  BY DEF Detach, mainVars
<1>2. /\ hw' \in Hw /\ hw'.value <= hw'.reload /\ Clock' \in Int
      /\ hw'.enabled <=> RemovedFrom(queue, e) # <<>>
      /\ \A x \in Events : Contains(queue, x) /\ x # e =>
           Stamped(x, timestamp, left, Clock') /\ Alarm' <= left[x] + Past
  BY <1>1, RemovalIs
<1>3. /\ queue' \in Seq(Events) /\ IsInjective(queue') /\ Sorted(queue', left)
      /\ \A x : Contains(queue', x) <=> Contains(queue, x) /\ x # e
  BY <1>1, RemovalSorts
<1>4. ~isr /\ ~interrupt
  BY <1>1 DEF MainRuns
<1>5. /\ timestamp' \in [Events -> 0..(Span - 1)] /\ left' \in [Events -> Int]
      /\ \A x \in Events : x # e => timestamp'[x] = timestamp[x] /\ left'[x] = left[x]
  BY <1>1, Widths DEF TypeOK
<1>6. TypeOK'
  BY <1>1, <1>2, <1>3, <1>5 DEF TypeOK
<1>7. Sorted(queue', left')
  <2>1. \A i \in DOMAIN queue' : queue'[i] \in Events /\ queue'[i] # e
    BY <1>3, InQueue
  <2>2. QED
    BY <1>3, <1>5, <2>1 DEF Sorted
<1>8. Stamps'
  BY <1>1, <1>2, <1>3, <1>5 DEF Stamps, Counted, Stamped
<1>9. Setting' /\ Sampling' /\ Serving'
  BY <1>1, <1>4 DEF Setting, Sampling, Serving
<1>10. AlarmIsSet'
  BY <1>1, <1>2, <1>3, <1>5 DEF AlarmIsSet
<1>11. QED
  BY <1>6, <1>7, <1>8, <1>9, <1>10

LEMMA SetupIsOrdered ==
  ASSUME TickerInv, Liberties = {}, NEW e \in Events, NEW d \in Delays, Setup(e, d)
  PROVE  TickerInv'
<1> USE DEF TickerInv
<1>1. /\ MainRuns /\ main = "idle" /\ MayRemove(e) /\ hw' = AlarmWithout(hw, queue, e)
      /\ timestamp' = timestamp /\ queue' = RemovedFrom(queue, e)
      /\ delay' = [delay EXCEPT ![e] = d] /\ left' = [left EXCEPT ![e] = d]
      /\ inserting' = e /\ main' = "reading" /\ toRead' = Registers /\ sum' = 0
      /\ interrupt' = interrupt /\ isr' = isr
  BY DEF Setup
<1>2. /\ hw' \in Hw /\ hw'.value <= hw'.reload /\ Clock' \in Int
      /\ hw'.enabled <=> RemovedFrom(queue, e) # <<>>
      /\ \A x \in Events : Contains(queue, x) /\ x # e =>
           Stamped(x, timestamp, left, Clock') /\ Alarm' <= left[x] + Past
  BY <1>1, RemovalIs
<1>3. /\ queue' \in Seq(Events) /\ IsInjective(queue') /\ Sorted(queue', left)
      /\ \A x : Contains(queue', x) <=> Contains(queue, x) /\ x # e
  BY <1>1, RemovalSorts
<1>4. ~isr /\ ~interrupt
  BY <1>1 DEF MainRuns
<1>5. /\ delay' \in [Events -> Delays] /\ delay'[e] = d
      /\ left' \in [Events -> Int] /\ left'[e] = d /\ d >= 0 /\ d \in Int
      /\ \A x \in Events : x # e => left'[x] = left[x]
  <2>1. d \in Int /\ d >= 0
    BY Widths
  <2>2. QED
    BY <1>1, <2>1 DEF TypeOK
<1>6. TypeOK'
  BY <1>1, <1>2, <1>3, <1>5 DEF TypeOK
<1>7. Sorted(queue', left')
  <2>1. \A i \in DOMAIN queue' : queue'[i] \in Events /\ queue'[i] # e
    BY <1>3, InQueue
  <2>2. QED
    BY <1>3, <1>5, <2>1 DEF Sorted
<1>8. ASSUME NEW x \in Events, x # e, Contains(queue', x)
      PROVE  Stamped(x, timestamp', left', Clock') /\ Alarm' <= left'[x] + Past
  BY <1>1, <1>2, <1>3, <1>5, <1>8 DEF Stamped
<1>9. ~Contains(queue', e)
  BY <1>3
<1>10. Stamps'
  BY <1>1, <1>8, <1>9 DEF Stamps, Counted
<1>11. Sampling'
  <2>1. Summed' = 0
    BY <1>1 DEF Summed, Registers
  <2>2. QED
    BY <1>1, <1>5, <2>1 DEF Sampling, Registers
<1>12. Setting' /\ Serving'
  BY <1>1, <1>4, <1>5, <1>9 DEF Setting, Serving
<1>13. AlarmIsSet'
  BY <1>1, <1>2, <1>8, <1>9 DEF AlarmIsSet
<1>14. QED
  BY <1>6, <1>7, <1>10, <1>11, <1>12, <1>13

\* What setup has read, with the register it reads now.
LEMMA PartIs ==
  ASSUME TickerInv, NEW r \in Registers, ReadPart(r)
  PROVE  \E total \in Int :
           /\ total = sum + (IF r = "value" THEN -hw.value ELSE hw[r])
           /\ toRead # {r} => sum' = total /\ Summed' = total
           /\ toRead = {r} => total = hw.offset + Elapsed(hw) + left[inserting] - delay[inserting]
<1> USE DEF TickerInv
<1>1. /\ main = "reading" /\ r \in toRead /\ toRead' = toRead \ {r}
      /\ hw' = hw /\ delay' = delay /\ left' = left /\ inserting' = inserting
      /\ toRead # {r} => sum' = sum + (IF r = "value" THEN -hw.value ELSE hw[r])
  BY DEF ReadPart
<1>2. /\ hw.offset \in Int /\ hw.reload \in Int /\ hw.value \in Int /\ sum \in Int
      /\ delay[inserting] \in Int /\ left[inserting] \in Int
  BY Widths DEF TypeOK, Hw
<1>3. /\ sum = Summed
      /\ "value" \in toRead => left[inserting] = delay[inserting]
  BY <1>1 DEF Sampling
<1>4. PICK total \in Int : total = sum + (IF r = "value" THEN -hw.value ELSE hw[r])
  BY <1>2 DEF Registers
<1>5. total = (IF "offset" \in toRead' THEN 0 ELSE hw.offset)
                + (IF "reload" \in toRead' THEN 0 ELSE hw.reload)
                - (IF "value" \in toRead' THEN 0
                   ELSE hw.value + (delay[inserting] - left[inserting]))
  <2>1. CASE r = "offset"
    BY <1>1, <1>2, <1>3, <1>4, <2>1 DEF Summed
  <2>2. CASE r = "reload"
    BY <1>1, <1>2, <1>3, <1>4, <2>2 DEF Summed
  <2>3. CASE r = "value"
    BY <1>1, <1>2, <1>3, <1>4, <2>3 DEF Summed
  <2>4. QED
    BY <2>1, <2>2, <2>3 DEF Registers
<1>6. Summed' = total
  BY <1>1, <1>5, Zenon DEF Summed
<1>7. toRead = {r} => total = hw.offset + Elapsed(hw) + left[inserting] - delay[inserting]
  BY <1>1, <1>2, <1>5 DEF Elapsed
<1>8. QED
  BY <1>1, <1>4, <1>6, <1>7

LEMMA ReadIsOrdered ==
  ASSUME TickerInv, ShortDelays, NEW r \in Registers, ReadPart(r)
  PROVE  TickerInv'
<1> USE DEF TickerInv
<1>1. /\ ~isr /\ ~interrupt /\ main = "reading" /\ r \in toRead /\ toRead' = toRead \ {r}
      /\ hw' = hw /\ interrupt' = interrupt /\ queue' = queue /\ delay' = delay
      /\ inserting' = inserting /\ isr' = isr /\ left' = left
  BY DEF ReadPart, MainRuns
<1>2. /\ inserting \in Events /\ ~Contains(queue, inserting)
      /\ left[inserting] \in Int /\ left[inserting] >= 0
      /\ delay[inserting] \in Delays /\ left[inserting] <= delay[inserting]
  BY <1>1 DEF TypeOK, Setting, Sampling
<1>3. Clock' = Clock /\ Alarm' = Alarm
  BY <1>1 DEF Clock, Alarm
<1>4. Sorted(queue, left)' /\ Serving' /\ AlarmIsSet'
  <2>1. AlarmIsSet'
    BY <1>1, <1>3 DEF AlarmIsSet
  <2>2. main' # "masked"
    BY <1>1 DEF ReadPart
  <2>3. QED
    BY <1>1, <2>1, <2>2 DEF Sorted, Serving
<1>5. PICK total \in Int :
        /\ total = sum + (IF r = "value" THEN -hw.value ELSE hw[r])
        /\ toRead # {r} => sum' = total /\ Summed' = total
        /\ toRead = {r} => total = hw.offset + Elapsed(hw) + left[inserting] - delay[inserting]
  BY PartIs
<1>6. CASE toRead # {r}
  <2>1. timestamp' = timestamp /\ main' = main
    BY <1>6 DEF ReadPart
  <2>2. TypeOK'
    BY <1>1, <1>5, <1>6, <2>1 DEF TypeOK
  <2>3. Stamps'
    BY <1>1, <1>3, <2>1 DEF Stamps, Counted
  <2>4. toRead' # {} /\ ("value" \in toRead' => "value" \in toRead)
    BY <1>1, <1>6
  <2>5. Setting' /\ Sampling'
    BY <1>1, <1>5, <1>6, <2>1, <2>4 DEF Setting, Sampling
  <2>6. QED
    BY <1>4, <2>2, <2>3, <2>5, <1>1
<1>7. CASE toRead = {r}
  <2>1. PICK d \in Int, x \in Int, c \in Int :
          d = delay[inserting] /\ x = left[inserting] /\ c = Clock /\ c = hw.offset + Elapsed(hw)
    BY <1>1, <1>2, Widths, ClockIs
  <2>2. d + total = c + x
    BY <1>5, <1>7, <2>1
  <2>3. PICK t \in 0..(Span - 1) : t = (c + x) % Span
    <3>1. PICK z \in Int : z = c + x
      OBVIOUS
    <3>2. z % Span \in 0..(Span - 1)
      BY Widths
    <3>3. QED
      BY <3>1, <3>2, Zenon
  <2>4. timestamp' = [timestamp EXCEPT ![inserting] = t]
    <3>1. timestamp' = [timestamp EXCEPT ![inserting] = (d + total) % Span]
      BY <1>5, <1>7, <2>1, Zenon DEF ReadPart
    <3>2. QED
      BY <2>2, <2>3, <3>1, Zenon
  <2>5. main' = "read" /\ sum' = 0 /\ toRead' = {}
    BY <1>1, <1>7 DEF ReadPart
  <2>6. /\ timestamp' \in [Events -> 0..(Span - 1)] /\ timestamp'[inserting] = t
        /\ \A e \in Events : e # inserting => timestamp'[e] = timestamp[e]
    BY <1>2, <2>4 DEF TypeOK
  <2>7. TypeOK'
    BY <1>1, <2>5, <2>6 DEF TypeOK
  <2>8. Stamped(inserting, timestamp', left, Clock)
    <3>1. timestamp'[inserting] = (Clock + left[inserting]) % Span
      BY <2>1, <2>3, <2>6, Zenon
    <3>2. 2 * (d + Past) < Span /\ x <= d /\ x >= 0
      BY <1>2, <2>1 DEF ShortDelays
    <3>3. x >= -Past /\ 2 * (x + Past) < Span
      BY <3>2, Widths
    <3>4. QED
      BY <2>1, <3>1, <3>3, Zenon DEF Stamped
  <2>9. ASSUME NEW e \in Events, Contains(queue, e) PROVE Stamped(e, timestamp', left, Clock)
    <3>1. Stamped(e, timestamp, left, Clock) /\ e # inserting
      BY <1>2, <2>9 DEF Stamps, Counted
    <3>2. QED
      BY <2>6, <3>1 DEF Stamped
  <2>10. Stamps'
    BY <1>1, <1>3, <2>8, <2>9 DEF Stamps, Counted
  <2>11. Setting' /\ Sampling'
    BY <1>1, <1>2, <2>5 DEF Setting, Sampling
  <2>12. QED
    BY <1>1, <1>4, <2>7, <2>10, <2>11
<1>8. QED
  BY <1>6, <1>7

LEMMA StutteringIsOrdered ==
  ASSUME TickerInv, UNCHANGED vars
  PROVE  TickerInv'
BY DEF TickerInv, vars, eventVars, mainVars, TypeOK, Sorted, Stamps, Stamped, Counted, Setting,
       Sampling, Summed, Serving, AlarmIsSet, Clock, Alarm

\* The invariant says what the runs check.
LEMMA OrderedIsPunctual == TickerInv => QueueSorted /\ Punctual
<1> SUFFICES ASSUME TickerInv PROVE QueueSorted /\ Punctual
  OBVIOUS
<1> USE DEF TickerInv
<1>1. QueueSorted
  BY DEF QueueSorted, Sorted
<1>2. Punctual
  <2>1. SUFFICES ASSUME NEW i \in DOMAIN queue PROVE left[queue[i]] >= -Past
    BY DEF Punctual
  <2>2. queue[i] \in Events /\ Counted(queue[i])
    BY InQueue DEF TypeOK, Counted
  <2>3. QED
    BY <2>2 DEF Stamps, Stamped
<1>3. QED
  BY <1>1, <1>2

\* The inductive invariant: the time stamp of every event in the queue is, modulo
\* the span of time stamps, the time at which it is due, which is less than half
\* a span away, the alarm is early enough for each of them, and what Ticker::setup
\* has read of the clock adds up, in any order and with time in between.  Without
\* liberties: SysTick does not reload between these reads or behind a mask.
THEOREM TickerInvHolds ==
  ASSUME Liberties = {}, ShortDelays
  PROVE  Spec => []TickerInv
<1>1. TickerInv /\ [Next]_vars => TickerInv'
  <2> SUFFICES ASSUME TickerInv, [Next]_vars PROVE TickerInv'
    OBVIOUS
  <2>1. ASSUME NEW e \in Events, NEW d \in Delays, Setup(e, d) PROVE TickerInv'
    BY <2>1, SetupIsOrdered
  <2>2. ASSUME NEW r \in Registers, ReadPart(r) PROVE TickerInv'
    BY <2>2, ReadIsOrdered
  <2>10. CASE MaskInterrupts
    BY <2>10, MaskingIsOrdered
  <2>3. CASE Insert
    BY <2>3, InsertIsOrdered
  <2>4. ASSUME NEW e \in Events, Detach(e) PROVE TickerInv'
    BY <2>4, DetachIsOrdered
  <2>5. CASE Tick
    BY <2>5, TickIsOrdered
  <2>6. CASE SystickIrq
    BY <2>6, SystickIsOrdered
  <2>7. CASE HandlerCalled
    BY <2>7, HandlerIsOrdered
  <2>8. CASE IrqReturns
    BY <2>8, ReturnIsOrdered
  <2>9. CASE UNCHANGED vars
    BY <2>9, StutteringIsOrdered
  <2>11. QED
    BY <2>1, <2>2, <2>3, <2>4, <2>5, <2>6, <2>7, <2>8, <2>9, <2>10 DEF Next
<1>2. QED
  BY <1>1, InitIsOrdered, PTL DEF Spec

\* The queue of ticker_api.c is always in the order in which its events are due,
\* although time stamps wrap and are made of a clock that is read in parts:
\* ticker_insert_event only compares time stamps.
THEOREM QueueStaysSorted ==
  ASSUME Liberties = {}, ShortDelays
  PROVE  Spec => []QueueSorted
<1>1. TickerInv => QueueSorted
  BY OrderedIsPunctual
<1>2. QED
  BY <1>1, TickerInvHolds, PTL

\* No event is overdue by more than an alarm for the past takes, however SysTick
\* splits its delay, however long us_ticker_read takes, and whatever is set up,
\* changed or removed in the meantime.
THEOREM EventsAreOnTime ==
  ASSUME Liberties = {}, ShortDelays
  PROVE  Spec => []Punctual
<1>1. TickerInv => Punctual
  BY OrderedIsPunctual
<1>2. QED
  BY <1>1, TickerInvHolds, PTL

\* ticker_irq_handler calls the handler of no event before it is due, although
\* the alarm may be early.
THEOREM HandlersAreNotEarly ==
  ASSUME Liberties = {}, ShortDelays
  PROVE  Spec => NotEarly
<1>1. TickerInv /\ [Next]_vars => [HandlerCalled => left[Head(queue)] <= 0]_vars
  BY HandlerIsOrdered
<1>2. QED
  BY <1>1, TickerInvHolds, PTL DEF Spec, NotEarly
=============================================================================
