------------------------------ MODULE UsTicker -------------------------------
(***************************************************************************)
(* The microsecond ticker under every timer: mbed's queue of time stamps,  *)
(* sorted, and OpenMono's port of its 32 bit clock to the SysTick counter, *)
(* which is narrower, counts down, and is the clock and the alarm at once. *)
(* There are Span time stamps, the counter counts up to MaxReload, and one *)
(* of its cycles is one microsecond.                                       *)
(***************************************************************************)
EXTENDS Integers, Sequences, SequencesExt, FiniteSetsExt

CONSTANTS
  Events,     \* the Tickers
  Delays,     \* the delays in use
  Span,       \* the number of time stamps (2^32)
  MaxReload,  \* the largest reload value of SysTick (0xFFFFFF)
  RemainSpan, \* the values of us_ticker_systick_timer_remain_period
  Past,       \* until an alarm that is set for the past (10 microseconds)
  Liberties   \* "maskedWrap": SysTick may reach zero with interrupts masked,
              \* "tornRead": it may reach zero while setup reads the clock,
              \* "removeDue": see PutsOff

ASSUME TickerAssumption ==
  /\ Span \in Nat \ {0} /\ Span % 2 = 0
  /\ MaxReload \in Nat /\ RemainSpan \in Nat \ {0}
  /\ Past \in 1..MaxReload
  /\ Events # {} /\ Delays # {} /\ Delays \subseteq 1..(Span - 1)

\* Time stamps that are this far apart can be compared across their wrapping.
ShortDelays == \A d \in Delays : 2 * (d + Past) < Span

VARIABLES
  hw,         \* SysTick and the port's global variables
  interrupt,  \* SysTick has reached zero and its handler has not run
  queue,      \* the events, in the order of the list
  timestamp, delay,  \* the fields of every event
  main,       \* where in Ticker::setup the main context is
  inserting,  \* the event that is being set up
  toRead,     \* what us_ticker_read has yet to read, when setup reads the clock
  sum,        \* and the sum of what it has read
  isr,        \* the loop of ticker_irq_handler is running
  left        \* history: the time until every event is due, really

eventVars == <<timestamp, delay>>
mainVars == <<main, inserting, toRead, sum>>
vars == <<hw, interrupt, queue, eventVars, mainVars, isr, left>>

\* offset, which has 64 bits, is only ever read modulo Span.
Hw == [offset : 0..(Span - 1), reload : 1..MaxReload, value : 1..MaxReload,
       remain : 0..(RemainSpan - 1), enabled : BOOLEAN]

\* What the clock is computed from.
Registers == {"offset", "reload", "value"}

TypeOK ==
  /\ hw \in Hw /\ hw.value <= hw.reload
  /\ interrupt \in BOOLEAN
  /\ queue \in Seq(Events) /\ IsInjective(queue)
  /\ timestamp \in [Events -> 0..(Span - 1)]
  /\ delay \in [Events -> Delays]
  /\ main \in {"idle", "reading", "read", "masked"}
  /\ inserting \in Events
  /\ toRead \subseteq Registers /\ sum \in Int
  /\ isr \in BOOLEAN
  /\ left \in [Events -> Int]

-----------------------------------------------------------------------------
(* The port (us_ticker.c).                                                 *)

\* us_ticker_read where no handler can run in between: with interrupts masked,
\* and in the handler itself.
Elapsed(h) == h.reload - h.value
Read(h) == (h.offset + Elapsed(h)) % Span

\* The alarm, in pieces SysTick can count; the time so far is saved.  (What
\* does not fit into 32 bits, more than 65 seconds, is cut off: the alarm is
\* early, and set again.)
Reload(h, cycles, offset) ==
  LET reload == Min({cycles, MaxReload})
  IN  [h EXCEPT !.offset = offset % Span, !.reload = reload, !.value = reload,
                !.remain = (cycles - reload) % RemainSpan]

\* Bug: what has elapsed is not saved.
SetInterrupt_TimeLost(h, t) ==
  LET cycles == IF Read(h) >= t THEN Past ELSE t - Read(h)
  IN  [Reload(h, cycles, h.offset) EXCEPT !.enabled = TRUE]

\* us_ticker_set_interrupt.  The comparison knows nothing of the wrapping of
\* time stamps: an alarm beyond it is set for soon, and then set again.
SetInterrupt(h, t) ==
  LET cycles == IF Read(h) >= t THEN Past ELSE t - Read(h)
  IN  [Reload(h, cycles, h.offset + Elapsed(h)) EXCEPT !.enabled = TRUE]

\* us_ticker_disable_interrupt.  What has elapsed is not saved: the clock
\* jumps ahead with the reload value.
DisableInterrupt(h) == [h EXCEPT !.enabled = FALSE, !.reload = MaxReload]

-----------------------------------------------------------------------------
(* The queue (ticker_api.c).                                               *)

\* a - b as a signed number.
Signed(a, b) == LET d == (a - b) % Span IN IF d < Span \div 2 THEN d ELSE d - Span

\* Bug: time stamps are compared as they are.
ComesBefore_Unsigned(a, b) == a < b

ComesBefore(a, b) == Signed(a, b) < 0

\* Bug: the timer is in time when its stamp is below the clock.
IsPast_Unsigned(t, now) == t <= now

IsPast(t, now) == Signed(t, now) <= 0

\* ticker_insert_event: in front of the first event that comes later; the
\* alarm is set if this is the first of all.
PlaceOf(e, q, stamps) ==
  LET later == {i \in DOMAIN q : ComesBefore(stamps[e], stamps[q[i]])}
  IN  IF later = {} THEN Len(q) + 1 ELSE Min(later)

InsertEvent(e, q, stamps, h) ==
  /\ queue' = InsertAt(q, PlaceOf(e, q, stamps), e)
  /\ hw' = IF PlaceOf(e, q, stamps) = 1 THEN SetInterrupt(h, stamps[e]) ELSE h

\* ticker_remove_event, on the list and on the alarm.
RemovedFrom(q, e) ==
  IF Contains(q, e) THEN RemoveAt(q, CHOOSE i \in DOMAIN q : q[i] = e) ELSE q

AlarmWithout(h, q, e) ==
  IF q = <<>> \/ Head(q) # e THEN h
  ELSE IF Tail(q) = <<>> THEN DisableInterrupt(h)
  ELSE SetInterrupt(h, timestamp[q[2]])

-----------------------------------------------------------------------------
(* Ticker::setup and detach, in the main context.                          *)

Init ==
  /\ hw = [offset |-> 0, reload |-> MaxReload, value |-> MaxReload, remain |-> 0,
           enabled |-> FALSE]
  /\ interrupt = FALSE
  /\ queue = <<>>
  /\ timestamp = [e \in Events |-> 0]
  /\ delay = [e \in Events |-> CHOOSE d \in Delays : TRUE]
  /\ main = "idle"
  /\ inserting \in Events
  /\ toRead = {} /\ sum = 0
  /\ isr = FALSE
  /\ left = [e \in Events |-> 0]

MainRuns == ~isr /\ ~interrupt

\* Removing e sets a new alarm for the next event, which is due already and
\* waits once more for an alarm for the past, or, when the clock has wrapped
\* since, for nearly a whole span.
PutsOff(e) == Len(queue) > 1 /\ Head(queue) = e /\ left[queue[2]] <= 0

MayRemove(e) == PutsOff(e) => "removeDue" \in Liberties

\* setup removes the event, ...
Setup(e, d) ==
  /\ MainRuns /\ main = "idle" /\ MayRemove(e)
  /\ hw' = AlarmWithout(hw, queue, e)
  /\ queue' = RemovedFrom(queue, e)
  /\ delay' = [delay EXCEPT ![e] = d]
  /\ left' = [left EXCEPT ![e] = d]
  /\ inserting' = e
  /\ main' = "reading" /\ toRead' = Registers /\ sum' = 0
  /\ UNCHANGED <<interrupt, timestamp, isr>>

\* ... reads the clock, with interrupts enabled: offset, the reload value and
\* the counter one by one, in an order C does not define (the two words of
\* offset together), ...
ReadPart(r) ==
  /\ MainRuns /\ main = "reading" /\ r \in toRead
  /\ toRead' = toRead \ {r}
  /\ LET read == sum + (IF r = "value" THEN -hw.value ELSE hw[r])
     IN  IF toRead = {r}
           THEN /\ timestamp' = [timestamp EXCEPT ![inserting] = (delay[inserting] + read) % Span]
                /\ main' = "read" /\ sum' = 0
           ELSE sum' = read /\ UNCHANGED <<timestamp, main>>
  /\ UNCHANGED <<hw, interrupt, queue, delay, inserting, isr, left>>

\* ... masks interrupts, ...
MaskInterrupts ==
  /\ MainRuns /\ main = "read"
  /\ main' = "masked"
  /\ UNCHANGED <<hw, interrupt, queue, eventVars, inserting, toRead, sum, isr, left>>

\* ... and inserts it.
Insert ==
  /\ main = "masked"
  /\ InsertEvent(inserting, queue, timestamp, hw)
  /\ main' = "idle"
  /\ UNCHANGED <<interrupt, eventVars, inserting, toRead, sum, isr, left>>

Detach(e) ==
  /\ MainRuns /\ main = "idle"
  /\ Contains(queue, e) /\ MayRemove(e)
  /\ hw' = AlarmWithout(hw, queue, e)
  /\ queue' = RemovedFrom(queue, e)
  /\ timestamp' = [timestamp EXCEPT ![e] = 0]
  /\ left' = [left EXCEPT ![e] = 0]
  /\ UNCHANGED <<interrupt, delay, mainVars, isr>>

-----------------------------------------------------------------------------
(* SysTick and its interrupt.                                              *)

\* An event is due its delay after it was, or after setup has read the counter.
IsCounted(e) ==
  Contains(queue, e) \/ (main # "idle" /\ e = inserting /\ ~("value" \in toRead))

\* An interrupt now would come between two of setup's reads: its handler shifts
\* the clock by a whole reload value from one to another of them.
TearsRead == main = "reading" /\ toRead # Registers /\ hw.value = 1

\* A cycle.  Bounds: interrupts take no time, and are taken at once when they
\* are not masked; masked, SysTick does not reach zero twice; setup takes no
\* longer than the delay it sets.
Tick ==
  /\ ~isr /\ ~interrupt
  /\ main # "idle" => left[inserting] > 0
  /\ hw.value = 1 /\ main = "masked" => "maskedWrap" \in Liberties
  /\ TearsRead => "tornRead" \in Liberties
  /\ hw' = [hw EXCEPT !.value = IF @ = 1 THEN hw.reload ELSE @ - 1]
  /\ interrupt' = (hw.value = 1)
  /\ left' = [e \in Events |-> IF IsCounted(e) THEN left[e] - 1
                               ELSE IF main # "idle" /\ e = inserting THEN left[e] ELSE 0]
  /\ UNCHANGED <<queue, eventVars, mainVars, isr>>

\* us_ticker_systick_irq_handler: the next piece of the alarm, or the end.
SystickIrq ==
  /\ interrupt /\ main # "masked"
  /\ interrupt' = FALSE
  /\ LET offset == hw.offset + hw.reload
     IN  hw' = IF hw.remain > 0 THEN Reload(hw, hw.remain, offset)
                                ELSE [hw EXCEPT !.offset = offset % Span]
  /\ isr' = (hw.enabled /\ hw.remain = 0)
  /\ UNCHANGED <<queue, eventVars, mainVars, left>>

Fires(e) == isr /\ queue # <<>> /\ Head(queue) = e /\ IsPast(timestamp[e], Read(hw))

\* ticker_irq_handler and Ticker::handler: the event is put back, counted from
\* when it was due, and its function is called.
HandlerCalled ==
  \E e \in Events :
    /\ Fires(e)
    /\ timestamp' = [timestamp EXCEPT ![e] = (@ + delay[e]) % Span]
    /\ InsertEvent(e, Tail(queue), timestamp', hw)
    /\ left' = [left EXCEPT ![e] = @ + delay[e]]
    /\ UNCHANGED <<interrupt, delay, mainVars, isr>>

IrqReturns ==
  /\ isr /\ ~\E e \in Events : Fires(e)
  /\ hw' = IF queue = <<>> THEN DisableInterrupt(hw) ELSE SetInterrupt(hw, timestamp[Head(queue)])
  /\ isr' = FALSE
  /\ UNCHANGED <<interrupt, queue, eventVars, mainVars, left>>

Next ==
  \/ \E e \in Events, d \in Delays : Setup(e, d)
  \/ \E r \in Registers : ReadPart(r)
  \/ MaskInterrupts
  \/ Insert
  \/ \E e \in Events : Detach(e)
  \/ Tick
  \/ SystickIrq
  \/ HandlerCalled
  \/ IrqReturns

Spec == Init /\ [][Next]_vars

-----------------------------------------------------------------------------
(* Properties.                                                             *)

\* The queue is in the order in which the events are due, across the wrapping
\* of time stamps.  (With the type invariant.)
QueueSorted ==
  TypeOK /\ \A i, j \in DOMAIN queue : i < j => left[queue[i]] <= left[queue[j]]

\* No handler is called before its event is due, and no more often.
NotEarly == [][HandlerCalled => left[Head(queue)] <= 0]_vars

\* An event in the queue is never overdue by more than an alarm for the past
\* takes, however long its delay is for SysTick, whatever is set up, changed or
\* removed in the meantime, and wherever the clock wraps.
Punctual == \A i \in DOMAIN queue : left[queue[i]] >= -Past

\* "to support us_ticker_read() getting larger and larger" (us_ticker.c):
\* whatever can read the clock, which an interrupt that is not masked forbids,
\* never sees it go backwards.
ReadGrows ==
  [][(interrupt' => main' = "masked") => Signed(Read(hw'), Read(hw)) >= 0]_vars
=============================================================================
