# Formal models of the mono framework

TLA+ models of the control core of the OpenMono application framework
(`src/`): what its cooperative run loop, its timers and the code that hangs on
them do under every order of calls, interrupts and object life times, checked
by TLC on small instances. Every safety property and every refinement that TLC
checks there is also proved, by TLAPS, for instances of any size; liveness is
checked only.

## The system

A mono application runs in one main context on a Cortex-M3 without an
operating system. `AppRunLoop::exec` repeats a *pass*: it polls the touch
panel, calls every task of an intrusive, doubly linked list of *dynamic
tasks*, and runs the scheduled tasks that are due. Everything asynchronous in
the framework ends as a dynamic task: timers, queued pin interrupts, the
display's repaint trigger, the power management. Interrupt handlers only raise
flags for the tasks. There are no locks: what can go wrong is the order of
calls (tasks that add, remove, restart or delete themselves and each other
from their handlers), the interleaving of interrupts with a task's tests of
its flags, and links and pointers that outlive what they point at.

### Inventory

| Component | State | Operations | Interacts with | What is hard | What makes it correct |
|---|---|---|---|---|---|
| Run loop task list (`application_run_loop.cpp`) | head pointer; next, previous and singleShot in each task | add, remove, pass | every client of the loop | clients change the list under a running pass; links of absent tasks are not maintained | links form one list of live tasks; passes end and reach every task; a removed task is out |
| Timer (`mn_timer.cpp`, `async.h`) | running, interruptDidFire, interval, kind; the ticker | start, stop, setInterval, taskHandler, interrupt, delete itself | run loop, mbed ticker | interrupt between test, stop, reset and callback; deletion inside the handler | running = installed; each callback has an elapsed interval behind it; none is lost or early |
| Queued interrupts (`queue_interrupt.cpp`) | rise/fall events, isHandled, debounce tickers | pin interrupts, debounce handlers, taskHandler | run loop, sleep flags | one flag for several edges; edges while the callback runs | an accepted edge is handled; none is handled twice |
| Sleep and wake-up (`mono_power_management.cpp`, `application_context.cpp`) | `__shouldWakeUp`, `__busySleep`, button callback | EnterSleep, wake-up by interrupt | button interrupt, RTC, scheduled tasks | wake-up before the flag is lowered or before the CPU halts | a wake-up is not lost; the button toggles sleep |
| Power saver (`power_saver.cpp`) | two timers, enabled, direction; the display's brightness | touch, dim, undim, start, deactivate | timers, run loop, sleep mode, touch | chains of async calls overlap and start timers that run | a touch restores full brightness; a system left alone sleeps |
| Power awareness queue (`power_management_interface.h`) | intrusive doubly linked list | append, remove, notify | peripherals, EnterSleep | head after removal; duplicates | each registered object is notified once |
| RTC and scheduled tasks (`mono_rtc.cpp`, `scheduled_task.cpp`) | once-a-second flag, queue of tasks | reschedule, process, run in sleep | run loop, sleep loop | tasks re-queue, remove and copy themselves while processed | a due task runs once, also one that was due in sleep |
| Generic queue (`queue.cpp`) | top, end, next in each item | enqueue, dequeue, remove, exists | responders, views, scheduled tasks, frames | items in two queues; stale next | implements a FIFO without repetition |
| Wireless module (`wireless/`) | request and response queue, power state, join state | commit, commitAsync, moduleEventHandler, frame destructor | timers, pin interrupt, network requests | asynchronous frames, failed writes, late responses, frames deleted while queued | at most one request outstanding; every request is completed once |
| Network requests (`network_request.cpp`, `dns_resolver.cpp`, `http_client.cpp`) | state, pending callback timer, frame | create, copy, complete, fail, destroy | wireless module, timers | copies share frames and callbacks | one completion or error per request |
| TCP sockets (`net/`) | socket state, net interface | connect, send, close, asynchronous close | wireless module | close racing a send | a closed socket is closed once |
| mbed ticker (`ticker_api.c`, `us_ticker.c`) | sorted queue of time stamps; SysTick, its offset and the rest of the alarm | attach, detach, read, interrupt | timers | time stamps wrap; SysTick is narrower than they are, and clock and alarm at once | no handler early or late; the clock does not go back |
| Touch input (`mono_touch_system.cpp`, `touch_responder.cpp`) | responder chain, touch in progress | activate, deactivate, begin/move/end | run loop, views | responders leave the chain in their handlers | each responder sees each event once |
| Views (`display/ui/`) | dirty flag and queue, visibility | scheduleRepaint, repaint, show, hide | run loop, display interrupt | repaint scheduled while repainting | a scheduled repaint is carried out |
| Managed pointer (`managed_pointer.h`) | content, shared count | copy, assign, surrender, destroy | network requests, settings | assigning to itself or NULL | freed exactly once, when the last owner goes |
| Power subsystem, value types, displays, sensors, serial, SD card, vendored mbed/FAT/SLRE, generated PSoC code | registers, values | I/O and pure functions | | | left aside, see "Not modelled" |

`PROJECT.json` lists the same components with their status, and the hazards of
the code line by line, covered or not.

## The modules

| Module | What it is |
|---|---|
| `TaskList` | the intrusive list as a value `[head, next, prev]`, and the run loop's operations on it as functions on such values |
| `AppRunLoop` | the run loop: passes, and clients that create, add, remove and destroy tasks in handlers and between passes |
| `TaskQueue` | abstract specification: what clients may take the task list to be, a queue with a cursor |
| `MnTimer` | timers on the run loop and on the ticker's interrupt; uses the functions of `TaskList` and instantiates `AppRunLoop` |
| `GenericQueue` | the singly linked queue of `queue.cpp` as a value `[top, end, next]`, and its operations as functions |
| `ScheduledTask` | the queue of scheduled tasks, the RTC's tick, and their processing by the run loop and in sleep mode; uses `GenericQueue` |
| `QueueInterrupt` | an input pin: edges, debounce timers, the task that handles them, the sleep flags they share |
| `RequestPipe` | abstract specification: what the wireless module's queues promise their clients |
| `RedpineModule` | the driver of the wireless module: its two request queues, frames, `moduleEventHandler`; uses `GenericQueue` |
| `HttpClient` | HTTP clients with their resolvers, what they copy, and the frames and timers that call them back; instantiates `RequestPipe` |
| `UsTicker` | the microsecond ticker: mbed's sorted queue of time stamps and its port to SysTick |
| `ResponderViews` | views that react to touch: the responder chain, the dirty queue and the walks along them; uses `GenericQueue` |
| `PowerSaver` | dimming and sleeping on the run loop's task list; uses `TaskList` |
| `SleepWake` | sleep mode around the user button: extends `QueueInterrupt` by `enterSleepMode`, the loop of `EnterSleep`, the RTC and the wake-up timer |
| `GenericQueue_proofs` | lemmas about the operations on the generic queue |
| `AppRunLoop_proofs`, `MnTimer_proofs`, `ScheduledTask_proofs`, `SleepWake_proofs`, `ResponderViews_proofs`, `RedpineModule_proofs`, `UsTicker_proofs` | inductive invariants and theorems, see "Proofs". `AppRunLoop_proofs` begins with lemmas about `TaskList`; `MnTimer_proofs` also proves what holds of `PowerSaver`, `SleepWake_proofs` of `QueueInterrupt`, `RedpineModule_proofs` of `HttpClient` |
| `MC_AppRunLoop`, `MC_MnTimer`, `MC_ScheduledTask`, `MC_PowerSaver`, `MC_UsTicker` | constants of the small instances |

### TaskList and AppRunLoop

`list` holds `taskQueueHead` and the two link fields of every memory block in
which a task object can live. `AddDynamicTask`, `RemoveDynamicTask` and
`RemoveTaskInQueue` compute the links the methods of these names leave behind,
assignment by assignment, including what they do to a task that is the last
one or is not in the list. `cursor` is the local variable `task` of
`processDynamicTaskQueue`; `alive` says which blocks hold an object.

A step of the main context ends where client code can run: `BeginPass` and
`HandlerReturns` lead up to the call of a handler, and `Construct`, `Add`,
`Remove` and `Destroy` may happen any number of times while a handler runs or
between passes. New objects come with arbitrary link fields (`Garbage`),
because no constructor writes them. A freed block keeps its link values until
it is reused, which is what `processDynamicTaskQueue` relies on when it reads
`nextTask` of a timer that has deleted itself. `Construct` has a bound to that
effect: the block under the `cursor` is not given to a new object while the
handler of the task that was there is still running. If a callback deletes its own
task and constructs another in the same place, the pass goes on along the links of
the new object, which nobody has written; neither the run nor the theorems say
anything of such callbacks.

Three things that the code neither forbids nor survives are *liberties* of
client code. Each can be switched on by the constant `Liberties`; the passing
runs and the theorems are about clients that take none:

- `readdLast`: adding a task again while it is the last one;
- `destroyAfterLeaving`: destroying another task in the handler of a task that
  has left the list;
- `removeSingleShot`: removing a single-shot task that is being handled or that
  the pass may still come across. (No class of the framework sets `singleShot`
  to true; applications may.)

`TaskQueue` is the promise: tasks are handled in the order in which they were
added, adding an installed task does nothing, a task that leaves takes nobody
with it. After the handler of a task that has left the list, the promise lets the
pass go anywhere or end: that it stays on live tasks is `PassStaysOnLiveTasks`.
`QueueSpec` states that `AppRunLoop` implements it, with the queue read off the
links.

### MnTimer

`running`, `fired` (`interruptDidFire`), `interval` and `kind` are the fields of
each timer, `attached` tells whether its ticker is in mbed's ticker queue.
`taskHandler` is cut into steps (`TaskHandlerFires`, `CallHandler`,
`CallbackReturns`) where an interrupt in between matters; the interrupt
`HwTimerInterrupt` may come between any two steps while the ticker is attached.
stop, the destructor and start of a timer that is off the ticker are single steps:
the flag they share with the interrupt is not touched by them twice. start of a
timer that *is* on the ticker takes it off and puts it back with the whole interval
ahead (`Restart`, `TickerInserts`): whatever had elapsed does not count. setInterval
of a running timer takes two steps as well, so that each step makes at most one
change to the task list, which `LoopSpec` needs. `restarting` is the timer in the
middle of either. `credit` is a history variable: it tells for each timer
whether an interval has elapsed since it was last started, and whether it was
started with its flag up. A timer without a callback is left out: `start`
returns at once. `callOnce` and `async` are timers of the kind `callOnce`.

`LoopSpec` composes the two models: the timers' steps, seen through the run
loop's variables, are steps of `AppRunLoop` with disciplined clients. What
holds of the run loop for all clients therefore holds for timers.

### GenericQueue and ScheduledTask

`queue` is the static queue of scheduled tasks; `Enqueue` and `RemoveItem`
compute the links that `Queue::enqueue` and `Queue::remove` leave behind,
`SanitizeEndOfQueue` included. Of a task's time the model keeps how it compares
with now (`invalid`, `future`, `due`); `RtcInterrupt` may let any of the future
times pass. `stack` holds the calls of `processScheduledTasks` and of
`EnterSleep` that are under way, each with its local variables, since a call is
left in the middle of a handler. `runTask` takes the task out of the queue
*before* it looks whether the task may run in sleep, and reads the successor
before both: the order is the code's. `credit` is a history variable: the task
has been queued by a client and its handler has not been called since.

Client code runs in handlers and between two rounds of the run loop: it
constructs, copies, assigns, reschedules and destroys tasks and says whether
they run in sleep. Two liberties of client code, none taken in the passing run:

- `sleepInTask`: a handler enters sleep mode. The loop of `EnterSleep` then
  processes the queue inside the first call, and the first call goes on from a
  pointer it has read before: a task runs twice, against `ExecutesOnce`.
- `touchNext`: a handler destroys, or assigns to, the task behind its own. The
  loop goes on to a destroyed task, against `ProcessingStaysOnLiveTasks`.
  (Cancelling and rescheduling that task is not a liberty: all clients do it.)

### QueueInterrupt

`latched` are the edges the port has seen and the interrupt has not served;
`Reported` says as which edge the driver reports them. `armed` are the two
debounce timers, `event` the flags `riseEvent` and `fallEvent`, `settings` the
three switches of the object. `taskHandler` is cut where an interrupt in between
matters: before the test of each event and while the callback runs. `owed` is a
history variable: an accepted edge whose callback has not begun.

`Reconfigure` allows clients to change settings, callbacks or the whole object
while an edge is debounced or handled. The framework does neither to its own
inputs, so the runs are without it. With it `QuietWhileHandling`,
`DebounceKeepsAwake`, `SleepAllowedAgain` and `StableEdgeIsHandled` fail:
`DeactivateUntilHandled` sets `isHandled`, and a timer that starts with one
value of `wakeFromSleep` and ends with the other, or dies with its object,
leaves `__busySleep` as it is. `AcceptedEdgeIsHandled` holds all the same.

### SleepWake

The user button is the input of `QueueInterrupt` with the settings of
`ApplicationContext`'s constructor. `phase` is the place in `enterSleepMode` and
`EnterSleep`: every test of the sleep loop is a step of its own, since an
interrupt may come between any two. `EnterSleepMode` is part of the step in
which the button's callback is called. Interrupts let a halted CPU go on
(`Resume`); the debounce timer stands still while it is halted, so
`ButtonTimeout` waits. Of the scheduled tasks it keeps only whether one is due
that may run in sleep; such a task may raise `__shouldWakeUp` (`TaskWakes`),
which is how the documentation tells applications to wake the system.

### RequestPipe and RedpineModule

The model begins when `initialize` has succeeded. `request` and `response` are
the ends of `requestFrameQueue` and `responseFrameQueue`; `next` is the link of
every frame, one field for both queues as in the code, and `dequeue` leaves it
as it is. `kicks` are the `callOnce` timers of `commitAsync` that have yet to
call `moduleEventHandler`, `edge` the interrupt that will. The handler is cut
where client code runs: `stage` is "calling" in the callback of a completed
request (or of an asynchronous frame), "failing" in that of a request that could
not be written, "sending" before the test whether a request may be sent.
Clients commit, abort and delete frames and set up the network in all callbacks
and between tasks.

The module is external: it accepts commands, answers them in order, an HTTP
request in several frames, well or with an error, and offers asynchronous frames
(`ModuleReports`) at any time; `owed` are the commands it has not answered. It
refuses a write while it offers a frame, and may refuse any. An answer carries
the block of the frame it belongs to, which the code cannot see, so that
`OwnAnswer` can say whose it is. `RequestPipe` is the promise: requests are sent
in the order of their commits, one at a time, and each leaves once. `PipeSpec`
states that the driver implements it, with `waiting` read off the links.

One liberty, not taken in the run: `deletePending`, deleting the last frame of a
queue. The destructor looks at the link to find out whether the frame is queued,
so the queue keeps a pointer to a deleted frame, against `QueuesIntact`. Three
more effects are exceptions named in the properties: an asynchronous frame that
arrives while an answer is awaited is taken for it, and later answers of the
same command meet the next request (`taken` in `OwnAnswer`); the queue stands
still behind a request that could not be written, until the next commit
(`Stalled` in `RequestIsCompleted`; `NeverStalls`, which the comment "if no
response is pending, send new request" suggests, is violated after 14 steps); and
`joinFailed` is never reset, so a join that succeeds after one that failed is
still reported as failed (`ReadyMeansJoined` states the safe direction only).

### HttpClient

A client contains a resolver, and each hands a frame to the wireless module, of
which only the pipe of requests is left: `waiting` and `pending` are
`RequestPipe`'s variables, and `PipeSpec` states that clients use the pipe as
its specification allows, in particular that nobody commits a frame that is in
it. `obj` are the fields of every client: `dnsFrame`, the request's frame
(`getFrame` or `postFrame`), the `cbTimer`s of client and resolver, and
`respData`. A frame keeps the client its callbacks go to (`ctx`), the parts of the
response it has delivered (`n`) and whether the request has an address. `calls`
are the `callOnce` timers in the run loop, in order: the kicks of `commitAsync`,
queued errors and queued data. `moduleEventHandler` is cut between its input and
its sending. One definition covers `HttpClient` and `HttpPostClient`, `posts`
tells them apart; `Copy` is the copy constructor and the assignment with all the
pointers they turn.

Client code runs between tasks and makes, copies, assigns, posts and destroys
clients. History variables: `delivered` (the data a client was given), `copied`
(clients whose request a copy has taken over), `lost` (clients made without a
network), `refused` and `freedTwice`. What the code leaves undefined is excluded
by bounds named at the actions (`MayBeCopied`, `Assign`, `Destroy`).

A second part of a response can be read before the first is delivered. `Event`
says when: input is read by the task of the module's interrupt, which is before
all timers in the list, or by the timer of a commit, so this takes both in one
pass. One liberty of client code, not taken in the runs: `destroyFailed`,
destroying a client whose error has been reported.

### UsTicker

`queue` is mbed's linked list as a sequence, `timestamp` and `delay` the fields
of each `Ticker`; there are `Span` time stamps, and `ComesBefore` and `IsPast`
compare them by signed differences as the code does. `hw` is SysTick with the
port's variables: the clock is `offset` plus what the counter has counted of its
reload value, the alarm is the reload value and the `remain`ing rest. `Tick` is
one cycle of the counter, external. `Ticker::setup` is cut where interrupts can
come: after `remove` (`Setup`), between the reads of the clock and after them
(`ReadPart`), and when interrupts are masked (`MaskInterrupts`, then `Insert`).
`us_ticker_read` adds up the offset, the reload value and the counter, in an order
that C leaves to the compiler, so `ReadPart` takes them in any; cycles pass in
between. The two words of the 64 bit offset are read as one. `ticker_irq_handler` is one step per event it handles. `left` is a history
variable, independent of the clock: the true time until an event is due.

One cycle is one microsecond (66 cycles in the code), `MaxReload` is 2^24 - 1,
`Past` the 10 microseconds of an alarm for the past. Interrupts take no time and
are served at once unless masked. An event is due its delay after the counter was
read. Three things the code does not survive are liberties, none taken in the run:

- `maskedWrap`: the counter reaches zero while interrupts are masked;
- `tornRead`: the counter reaches zero, and its interrupt comes, between two of the
  reads in `Ticker::setup` (`TearsRead`). The handler moves a whole reload value
  from the counter to the offset, so the time stamp is wrong by that much: late if
  the offset is read after it and the counter before, early the other way round;
- `removeDue`: the first event is removed while the next one is due as well
  (`PutsOff`). `ticker_remove_event` then sets the alarm anew, which postpones the
  event that waits: by another 10 microseconds, or, if the clock has wrapped since
  it was due, by nearly a whole span.

What the run and the theorems show of the ticker holds as long as SysTick does none
of the first two: they are events of hardware that nothing in the code prevents. The
handler reads the clock too (`Read`, in one step), as does the code with interrupts
masked: there no SysTick interrupt can come in between.

### ResponderViews

`chain` and `dirty` are the static queues of `TouchResponder` and `View`, each
with a link of its own per view. `phase`, `cur` and `inHandler` are the place of
the main context: a walk of the chain for begin, move or end, the walk of the
dirty queue, or between tasks. Which view a touch hits is any choice. Small moves
are not reported, so a walk for "move" need not happen. In a touch handler, in
`repaint()` and between tasks clients construct, show, hide and destroy views,
schedule repaints and switch the touch system on and off. `Destroy` has a bound: a
view is not destroyed in its own handler or `repaint()`, since the walk that called it
reads its link next, and nothing in the framework destroys views. `unpainted` is a
history variable: repaints asked for and not begun.

Three liberties, none taken in the run, each of which breaks a property:
`hideTouched` (hiding a view between its touchBegin and touchEnd leaves
`touchActive` set: `TouchesPaired`), `repaintSelf` (a view that schedules, shows
or hides itself in its own `repaint()`: `isDirty` is cleared afterwards, and the
view is in the queue without its mark, against `QueuesIntact`), and
`destroyShown` (no destructor leaves the responder chain: `QueuesIntact`).

### PowerSaver

Methods are functions on the state, composed as the code calls them. Timers are
reduced to what the run loop does to them: a running timer may fire whenever the
pass comes to it (which covers a flag left from before, see `MnTimer`), a stopped
one does not. The
links are kept exactly, through `TaskList`, because the saver starts running
timers again: it takes the liberty `readdLast` of `AppRunLoop`. An `async()` call
takes a free block; a block that is released is cleared. The user button's task
stands for the tasks that are in the run loop before the saver. `Calls` are the
methods the application calls. `brightness` goes down to 0 and up to
`fullBright`, the display controller's value after wake-up.

`startSleepTimer` is not among the calls of the passing run: when the display is
not being dimmed, `sleepStep` returns because `stepDir` is not `DIM_DOWN`, and
the system does not sleep, although `power_saver.h` says that the call will
"trigger sleep mode on timeout".

## The runs

| Run | Instance | Shows |
|---|---|---|
| `runloop` | 3 blocks, one single-shot; links of new tasks null or pointing at one block | `ListIntact`, `PassStaysOnLiveTasks`, the inductive invariant `IInv` (with the type invariant), `RemoveRemoves`, `PassEnds`, `InstalledTaskRuns`, and the refinement `QueueSpec` |
| `timer` | 2 timers of any kind, intervals 0 and 1 | `RunningIsInstalled`, `CallbackIsAccountedFor`, `RunningTimerFires`, and the refinement `LoopSpec` |
| `scheduled` | 3 tasks, one of which clients allow to run in sleep | `QueueIntact`, `ProcessingStaysOnLiveTasks`, `ExecutesOnce`, `DueTaskRuns`, `DueTaskRunsAwake` |
| `interrupt` | one input, any settings and callbacks | `QuietWhileHandling`, `DebounceKeepsAwake`, `SleepAllowedAgain`, `AcceptedEdgeIsHandled`, `StableEdgeIsHandled` |
| `sleep` | the user button, the RTC, the wake-up timer, tasks that may wake the system | `PowerMatchesPhase`, `ButtonReady`, `PressWakes` |
| `wireless` | 3 frames, 2 pending events | `QueuesIntact`, `ReadyMeansJoined`, `OwnAnswer`, `RequestIsCompleted`, and the refinement `PipeSpec` |
| `gui` | 3 views | `QueuesIntact`, `TouchesPaired`, `RepaintHappens` |
| `saver` | 3 async timers, brightness 0 to 3, dimmed at 1 | `TouchRestores`, `UntouchedSleeps` |
| `http` | 2 clients, 3 frames, 2 timers, responses in 1 or 2 parts, one waiting event per commit | `CallbacksReachLiving`, `RequestEnds`, and the use of the pipe `PipeSpec` |
| `ticker` | 3 tickers, delays of 1, 3 and 5 in a span of 16, SysTick counts to 3, an alarm for the past takes 2, the clock read in any order | `QueueSorted`, `NotEarly`, `Punctual` |
| `scheduled_dropped` | 2 tasks | violates `TasksWait` |
| `http_chunks` | as `http` | violates `FlagMarksLastData` |

Bounds. Three tasks are the least for a task with two neighbours, the case in
which unlinking writes all three kinds of links; a chain of absent tasks
through which the pass can run is two tasks long. Garbage links that are null
or all point at one block cover a new task that seems linked to itself, to an
installed task and to a free block; with every link value allowed the same
properties hold over 44716 states, too many to keep for each run. Two timers
suffice for a timer that acts on itself, on its predecessor and on its
successor. Only "zero or not" matters of an interval: how long it is shows only
in when the interrupt comes, which is any time. Three scheduled tasks are the one that
runs, the one read as its successor and one behind, the least for a call that
ends early with a task still to run; `Sleepers` bounds which of them may run
in sleep: one that may and two that may not cover every mixture of neighbours but
two sleepers in a row; with two sleepers the same properties hold over 110234
states, too many to keep for each run. `QueueInterrupt` and `SleepWake` need no
bounds. Three frames are
one whose answer is awaited and two that wait, the least for a removal with a
predecessor and a successor in one queue while the other is not empty, and for a
set-up behind a request; two pending events are those of a set-up. With three, so
that a set-up is committed while an event waits, the same properties hold over
259968 states, too many to keep for each run. Three views are the least for a view that leaves between two
others. Three async timers are two chains under way, one of which takes its next
step; four levels of brightness give each chain more than one step. Two clients are
a client and its copy, or two that compete for the pipe; three frames let both
resolve or ask while one of them gets its second frame; one commit that waits
(`MaxKicks`) is enough, since any event serves every request. Three tickers are
one that is set up between two; their delays are one cycle, all that SysTick can
count, and two pieces, all below half the span (`ShortDelays`), and the run goes round the clock until every state has
been seen. They are interchangeable (`SYMMETRY MCSymmetry`; the run checks no liveness). Every run
also checks the type invariant of its module, as a conjunct of its first
invariant (`interrupt`'s is part of `SleepTypeOK` in `sleep`). Deadlock is checked in all
passing runs but `http`: there clients may have made all the requests they can,
and nothing is left to do. None of the other systems ever stops.

Fairness. `exec` loops for ever and handlers return, so steps of the main
context that stay possible are taken (weak fairness). A handler returns even if
its code calls setInterval over and over first, and between passes the
framework's own code runs finitely long: strong fairness of `BeginPass` and
`CallbackReturns` in `MnTimer`. The ticker of a timer that stays attached interrupts
(weak fairness). A timer that is started again before its interval has elapsed, over
and over, is taken off the ticker each time and never fires; `RunningTimerFires`
excepts it. Nothing is assumed of clients. A pass ends only if handlers
stop adding tasks behind it: `PassEnds` has that as its premise, since the code
does not enforce it, and `InstalledTaskRuns` and `RunningTimerFires` assume
that passes end.

In `ScheduledTask` the RTC ticks for ever, every round of the run loop calls
`processScheduledTasks` whatever clients do before (strong fairness of
`ProcessInLoop`), and handlers return (strong fairness of `HandlerReturns`, which matters for
handlers that enter sleep mode). Nothing makes the
system leave sleep mode. A call of `processScheduledTasks` need not end: tasks
whose handlers take a second and schedule each other keep it busy, so both
liveness properties have `ProcessingEnds` as their premise. In `QueueInterrupt`
and `SleepWake` pending interrupts are served, running timers run out, the run
loop calls `taskHandler`, and the main context goes on unless the CPU is halted.
Nobody has to press the button: `PressWakes` relies on the RTC alone to let a
CPU go on that was halted at the wrong moment.

In `RedpineModule` the run loop calls a handler that waits and callbacks return
(weak fairness of `EventHandler`), and the module answers: the last frame of an
answer comes in the end, though asynchronous frames may keep the input busy
(strong fairness). In `ResponderViews` handlers and `repaint()` return, and the
display's interrupt lets its task repaint again and again (strong fairness,
since touch walks come in between). In `PowerSaver` passes begin and handlers
return, and a timer that keeps running fires, its interval being finite (strong
fairness of `Fires` for the two timers). Touches and calls are never fair:
`UntouchedSleeps` is about behaviours in which they cease.

In `HttpClient` the run loop runs its tasks and the handler it calls goes on
(weak fairness), and the module answers the request it has, with an error or with
a response that has a last part (strong fairness, since the handler's two halves
alternate). `RequestEnds` excepts refused requests, behind which the queue may
stand still (see `RedpineModule`). `UsTicker` states no fairness: `Punctual` is a bound on time,
not a liveness property.

### What the violations show

- **A task that does not run in sleep is dropped** (`scheduled_dropped`). When
  another task makes `EnterSleep` process the queue, `runTask` has taken the due
  task out before it finds that it may not run, against "Task that do not run in
  sleep are executed ASAP after wake-up" in `scheduled_task.h`.
- **Data of a response is lost and its end delivered twice** (`http_chunks`).
  A client has one `respData` and delivers it by the run loop. When two events of
  the module are handled in one pass, the second part overwrites the first, and
  both deliveries find the last part with its flag.

The following are stated as properties of the modules and violated by TLC, but are
not kept as runs. A passing run's instance with the property in place of its own
shows each of them:

- **Two touches leave a stopped timer in the run loop** (`StoppedIsOut`, calls reduced to touches). Each
  touch starts a chain of undimming, each chain ends by starting the dim timer,
  and `Timer::start` adds a running timer again. `addDynamicTask` compares the
  task with every task but the last: adding the last one again makes it its own
  predecessor, and `removeDynamicTask` then returns true and leaves it in the
  list. Destroying the saver would leave a deleted object there. When the timer
  is the first task of the loop, further calls (`startSleepTimer`,
  `startDimTimer`) close the links to a cycle that `addDynamicTask` does not get
  out of. `Animator::Start` adds itself without looking, too.
- **Both edges are reported as falls** (`ReportedEdgeHappened`, edge sets with both edges). The driver looks at
  the type of interrupt the pin is set to, not at the pin: with callbacks for
  both edges the rise callback is never called.
- **`sleepForMs` sleeps on** (`TimedSleepEnds`). The wake-up timer's interrupt lets
  the CPU go on, but raises no `__shouldWakeUp`, so the loop halts it again.
- **A client deletes a timer that is gone** (`DeletedTimerIsPending`, with `destroyFailed`). `cbTimer` still points
  at the timer that has reported the error and deleted itself.
- **A client made without a network is never told** (`FailureIsReported`). The error is
  queued for the temporary resolver, whose destructor deletes the timer.
- **A name without an address is asked all the same** (`RequestHasAddress`). The frame
  notices that the answer holds no address, but nobody asks it.
- **The clock goes backwards** (`ReadGrows`, with `maskedWrap`) when SysTick reloads while the
  ticker's queue is being changed; an alarm that is set then loses the period.
- **A time stamp is off by a reload value** (`QueueSorted`, `Punctual` and `NotEarly`,
  with `tornRead`) when SysTick reloads between the reads of `us_ticker_read` in
  `Ticker::setup`, which interrupts may break into; see `UsTicker` above.
- **An event that is due is postponed** (`Punctual` and `QueueSorted`, with
  `removeDue`) when the one in front of it is detached or set up anew before the
  interrupt has come; see `UsTicker` above.
- **Long timers fire at once** (`NotEarly`, with a delay of 9). Above half the span of the time
  stamps, 35 minutes, an event counts as past at the next alarm.

Other effects are in the models and have no property of their own:

- `stop` leaves the flag that a timer's interrupt has raised, so the next `start`
  calls back in the next pass (`credit` in `MnTimer` is then "leftover"), against
  "The timer will not fire before your defined interval" in `mn_timer.h`.
- While a one-shot timer's callback runs, the timer has left the list, and its
  `nextTask` is not updated when the callback deletes the timer behind it: with
  `destroyAfterLeaving` the pass reaches a deleted task.
- The tests of `__shouldWakeUp` and `__busySleep` and the halt are not atomic:
  `SleepWake` reaches states in which the CPU is halted with the wake-up asked
  for or the debounce timer running. `PressWakes` shows that the next tick of the
  RTC repairs it; without the RTC it would take another interrupt.

After a wake-up by a
scheduled task the button's callback is still `buttonWakeup` (`ButtonReady`
excepts it), so the next press only swaps the callback back.

## Proofs

The proofs are for every value of the constants that the modules' assumptions
admit: any finite set of tasks, timers, views or frames (`TasksAssumption`,
`ItemsAssumption`), any single-shot tasks, intervals and garbage in new objects
(`ClientAssumption`, `TimerAssumption`), any number of waiting events
(`FramesAssumption`), any span of time stamps and width of SysTick
(`TickerAssumption`). They are about clients that take none of the liberties
described above (`Liberties = {}`), and for a queued interrupt about clients that do
not reconfigure it while an edge is under way (`Reconfigure = FALSE`); what goes
wrong otherwise is said with each liberty. The theorems about sleep mode and about
HTTP clients need no such hypothesis, and those about the ticker need one more:
`ShortDelays`, that no delay, with the alarm for the past, reaches half the span. For
the ticker, no liberties includes that SysTick reaches zero neither while interrupts
are masked nor between the reads of `Ticker::setup`: the theorems do not say that the
code is right when it does, and it is not.
`MnTimer_proofs` and `RedpineModule_proofs` see `PowerSaver` and `HttpClient`
through INSTANCE, so what these modules assume of their constants is repeated as
a hypothesis there (`SaverConstants`, `HttpConstants`; TLC evaluates
`SaverAssumption` and `HttpAssumption` in the runs). Their theorems
state `Saver!TouchRestores`, `Http!CallbacksReachLiving` and `Http!PipeSpec`, that is, these
properties of `PowerSaver` and `HttpClient`, of `Saver!Spec` and `Http!Spec`. Each safety property has an
inductive invariant, which the theorem ending in `InvHolds` states (for the power
saver and the HTTP clients `SaverInv`, `ClientsInv` and `PipeInv`, in the proofs of
their theorems); TLC has checked each of them on the run of its module as well.

| Module | Theorems | of the runs' properties |
|---|---|---|
| `AppRunLoop_proofs` | `IInvHolds`, `TypeCorrect`, `ListStaysIntact`, `PassNeverReachesDestroyedTask`, `RemoveTakesOut`, `LinksImplementQueue` | `IInv`, `ListIntact`, `PassStaysOnLiveTasks`, `RemoveRemoves`, `QueueSpec` |
| `MnTimer_proofs` | `TimerInvHolds`, `RunningTimersAreInstalled`, `CallbacksAreAccountedFor`, `TimersUseTheLoop`, `PassStaysOnLiveTimers`; `TouchIsRestored` | `RunningIsInstalled`, `CallbackIsAccountedFor`, `LoopSpec`; `TouchRestores` (`PowerSaver`) |
| `ScheduledTask_proofs` | `TasksInvHolds`, `QueueStaysIntact`, `VisitsLiveTasks`, `RunsOnce` | `QueueIntact`, `ProcessingStaysOnLiveTasks`, `ExecutesOnce` |
| `SleepWake_proofs` | `InterruptInvHolds`, `Quiet`, `KeepsAwake`, `MaySleepAgain`; `SleepInvHolds`, `PowerIsRight`, `ButtonIsReady` | `QuietWhileHandling`, `DebounceKeepsAwake`, `SleepAllowedAgain`; `PowerMatchesPhase`, `ButtonReady` |
| `ResponderViews_proofs` | `ViewsInvHolds`, `ViewQueuesStayIntact`, `TouchesArePaired` | `QueuesIntact`, `TouchesPaired` |
| `RedpineModule_proofs` | `RequestsInvHolds`, `FrameQueuesStayIntact`, `ReadyIsJoined`, `AnswersAreOwn`, `QueuesImplementPipe`; `CallbacksFindTheirClients`, `ClientsUsePipe` | `QueuesIntact`, `ReadyMeansJoined`, `OwnAnswer`, `PipeSpec`; `CallbacksReachLiving`, `PipeSpec` (`HttpClient`) |
| `UsTicker_proofs` | `TickerInvHolds`, `QueueStaysSorted`, `EventsAreOnTime`, `HandlersAreNotEarly` | `QueueSorted`, `Punctual`, `NotEarly` |

The list lemmas `AddKeepsWellLinked` and `RemoveKeepsWellLinked` (`AppRunLoop_proofs`) and
`EnqueueJoins`, `DequeueLeaves` and `RemoveItemLeaves` (`GenericQueue_proofs`) are
listed as theorems too.

**The run loop.** `ListIntact` says that some sequence of distinct tasks is the
order of the list in both directions. Adding appends to this sequence
(`AddAppends`), removing takes one element out (`RemoveExtracts`); the set of
installed tasks, defined as the tasks in every set closed under the links, is
the range of the sequence (`OrderInstalled`). `PassStaysOnLiveTasks` is not
inductive: when the handled task has left the list, its link leads to a task
that may have left too, and so on. `IInv` therefore says that from such a
cursor a *trail* of distinct, live, absent tasks that are not single-shot leads
back into the list or to its end. Removing the task at the end of the trail
makes the trail longer, adding one of its tasks again cuts it, and a step of
the pass drops its first task. The theorem needs that nobody destroys a task of
the trail (`destroyAfterLeaving`) and that the loop does not unlink one a second
time (`removeSingleShot`). `LinksImplementQueue` maps the list to its order, which
`OrderPrefix` shows to be unique: it is the one that `OrderOf` chooses. Each step
of the loop is then a step of `TaskQueue` or a stutter.

**Timers.** That a stopped timer is neither installed nor attached is true before
and after each method, not in the middle of one. `TimerInv` adds where the main
context is (`Context`), that the timer it is in the middle of is alive (`Used`), that the flag is
up from its test to the callback, and that a flag is up for a reason (`Accounted`).
`start` of a running timer is one that `addDynamicTask` finds. `TimersUseTheLoop`
follows: whatever a timer does to the list is one step that the run loop's clients
may take. So the theorem about passes carries over (`PassStaysOnLiveTimers`), also
for timers that delete themselves in the middle of one.

**Generic queues.** `GenericQueue_proofs` shows that a queue is one chain of
distinct items that ends at `endOfQueue`, and that `EnqueueJoins`, `DequeueLeaves`
and `RemoveItemLeaves`: each operation keeps it so and adds, or takes out, what it
should. The search of `SanitizeEndOfQueue` for the last item is part of the last.
Each lemma also says which links of *other* items stay as they are, and
`LinksElsewhere` that a queue depends on its members' links alone. The wireless
module relies on both: its two queues share each frame's link.

**Scheduled tasks.** `QueueIntact` says nothing of the pointers that a call of
`processScheduledTasks` holds while a handler rewrites the queue. `Holds` does:
before the handler, the successor is still the link of the task; in it, the
successor is a live task that is queued or has no time. A task that leaves the
queue keeps no link (`Unlinked`), so a loop that comes to a removed task ends
there. `Credited` ties membership to `ExecutesOnce`.

**Pin interrupts and sleep mode.** With both edges attached, all edges under way are
of one kind (`OneKind`). `busySleep` is one flag for two timers and would be lowered
by the first to run out; `OneKind` excludes the second. `Deactivated` says that an
accepted edge keeps interrupts off until its callback has returned. The conjunct
`Debounced`, that timers run only with debouncing on, is a case where an invariant was
true but not inductive: without it an edge could be accepted without debouncing
while a timer runs. In sleep mode `Power` tells what is on at each place of
`EnterSleep`, and `WakeUpReason` that nothing but the button, whose event stays noted
until the loop is left, or a task has raised `__shouldWakeUp`: hence a callback
`buttonWakeup` that outlasts the loop has one of these two reasons.

**Views.** That no view believes to be touched after a touch depends on the walk of
`touchEnd` reaching the one that does. `TouchedIsAhead` says that it has not been
passed: it is in every set that holds the walk's view and is closed under the links.
Before that it stays in the chain (`TouchedIsShown`), whatever handlers show and
hide. A view is painted after it has left the dirty queue (`Painting`).

**The wireless driver.** The frame whose callback runs is in neither queue
(`CurIsLoose`), and no frame that waits is owed by the module (`OwedApart`). Until an
asynchronous frame is taken for an answer, the module owes the answer to the one
request that is awaited, and no other (`AnswersInOrder`): `OwnAnswer` follows although
the code compares commands only. `ReadyMeansJoined` depends on the order of a set-up:
the IP configuration is directly behind its join, in the queue or behind the awaited
one (`JoinComesFirst`), also when frames in front of both are aborted.
`QueuesImplementPipe` maps the request queue to its order, the only sequence that
fits its links (`OrderOfChain`). `EnqueueAppends`, `DequeueTakesFirst` and
`RemoveItemTakesOut` say what each operation does to this order, and
`OrderElsewhere` that it is the same after the response queue has changed.

**HTTP clients.** That a callback finds its client alive depends on pointers in both
directions. `FramesOwned` says that a frame's client points at the frame, so the
client knows what to turn or clear when it is copied or destroyed; `ClientsSound`
that it has one frame and one timer at a time, so that clearing one is enough;
`CallsSound` that the call of an error is for a client without frames, and that no
two calls have the same timer. `FramesServed` says that a request under way has
somebody to call. None of the four mentions the pipe: how often a frame is in it
makes no difference to `CallbacksReachLiving`. `ClientsUsePipe` needs `PipeInv`
besides: a frame is in the pipe once, one in the pipe is not free, and the frame of
a client that has not posted yet is outside (`UnpostedOutside`), which fails for a
client whose request a copy has taken over and posted; the code forbids nothing
there, and `Post` of such a client is excluded by a bound.

**The power saver.** Its timers are started while they run, so the list of the run
loop is not well linked. `NearlyLinked` says what is left: the forward links are
those of an intact list that begins with the button, and a backward link that is
wrong is that of a timer of the saver to itself. This is enough to show that a
timer of `async()` that is added or removed ends where it should, and that the
saver's own changes keep it so, whatever is stopped or left in the list. `Restoring` is then
inductive: while the direction is up and the brightness not full, an `undimStep` is
in a running timer. It needs that `async()` has a timer left (`TimerLeft`), which is
the bound of the model.

**The ticker.** `QueueSorted` and `Punctual` speak of the true time, `left`; the code
has time stamps and a counter only. `TickerInv` ties them together: the time stamp
of an event in the queue is the clock plus `left` modulo the span (`Stamps`), and `left` is
between `-Past` and half a span, so that the signed difference of two time stamps
is the difference of their times and `ticker_insert_event` finds the right place.
`AlarmIsSet` says that the alarm, the counter's value and the `remain`ing rest, is no
later than `Past` after any event is due, and switched on exactly if there is one.
It survives `us_ticker_set_interrupt`, which saves the time counted so far, whichever
way the clock has wrapped: an alarm set beyond the wrapping is early, never late.
`Sampling` says what the reads add up to while `Ticker::setup` is under way: with the
registers still to come, the clock, less what has passed since the counter was read.
It holds because without `tornRead` none of them but the counter changes meanwhile.
`Setting` and `Serving` say what else is known in the middle of `Ticker::setup` and of
`ticker_irq_handler`.

Only model-checked: liveness (`PassEnds`, `InstalledTaskRuns`, `RunningTimerFires`,
`DueTaskRuns`, `DueTaskRunsAwake`, `AcceptedEdgeIsHandled`, `StableEdgeIsHandled`,
`PressWakes`, `RequestIsCompleted`, `RepaintHappens`, `UntouchedSleeps`,
`RequestEnds`), since the prover handles neither fairness nor ENABLED. The abstract
specifications state safety only, so their refinements are proved in full.

## Not modelled

- Yet: the components marked `not_modelled` in `PROJECT.json` whose note says
  "planned", and of the run loop the resets on DTR and user button. Of components
  marked `partly` the note says what is left out.
- At all: register access and pin configuration, drawing and layout, text
  formatting, sensor and audio drivers, vendored code (mbed, FAT, SLRE, fonts)
  and generated PSoC code. Their effect enters the models where a component
  depends on it (the ticker's interrupt).
- Of HTTP clients: destroying one that has, or has had, a request of its own
  (`getFrame` is not reset when the frame deletes itself, and no destructor knows
  `postFrame`), copying one whose frame is gone or that a timer is to call,
  assigning to one whose request is under way (the old answer would then find the
  new request and report an invalid state), clients that act in callbacks. What
  these do depends on freed memory. A `HttpPostClient` with a bad URL leaves
  `postFrame` unset and is left out.
- Of the ticker: handlers that attach or detach tickers.
- Memory exhaustion. `new` succeeds.

The map covers a small share of `src/` by lines: most of it is vendored (mbed, the
FAT file system, a unit test framework), generated for the PSoC, fonts, or
drawing code, and the framework's own code, comments and drawing included, is
about a sixth.

## Plan

Left for later: the *power awareness queue*, the synchronous `commit()` and its
late answers, TCP sockets, and checks of pure functions (calendar, text buffer).

Each question gets one run. Runs that only show a violation give way to runs of
new components where both do not fit into a check of reasonable length; what
they show stays described here.
