---------------------------- MODULE RedpineModule ----------------------------
(***************************************************************************)
(* The driver of the wireless module: requests wait in one intrusive       *)
(* queue, the request whose answer is awaited is in another, and both use  *)
(* the same link field of a frame.  moduleEventHandler runs on the main    *)
(* loop for every commit (a callOnce timer) and for every interrupt of the *)
(* module.  The module itself is external: it takes commands, answers them *)
(* in order and offers one frame at a time.  The model begins when         *)
(* initialize() has returned true.                                         *)
(***************************************************************************)
EXTENDS GenericQueue

CONSTANTS
  MaxKicks,  \* bound: event handlers scheduled by commits at a time
  Liberties  \* "deletePending": clients delete the last frame of a queue

ASSUME FramesAssumption == MaxKicks \in Nat /\ Liberties \subseteq {"deletePending"}

VARIABLES
  request, response,  \* topOfQueue and endOfQueue of the two queues
  next,      \* the link field of every frame
  alive,     \* the frames that exist
  kind,      \* their command ids
  kicks,     \* callOnce timers that will call moduleEventHandler
  edge,      \* the module's interrupt waits for its handler
  stage,     \* where in moduleEventHandler the main context is
  cur,       \* the frame that is deleted when the client's callback returns
  success,   \* FrameCompletionData::Success of the last completion
  input,     \* the frame the module offers, or Nothing
  owed,      \* the commands the module has accepted and not answered
  networkInitialized, joinFailed,
  joined,       \* history: the last join to be completed was successful
  taken,        \* history: an unasked frame was taken for an answer
  writeFailed   \* history: the last request could not be written

queueVars == <<request, response, next, alive, kind>>
moduleVars == <<input, owed>>
networkVars == <<networkInitialized, joinFailed, joined>>
history == <<taken, writeFailed>>
vars == <<queueVars, kicks, edge, stage, cur, success, moduleVars, networkVars, history>>

\* Command ids: the join and the IP configuration of setupWifiOnly, whose
\* other requests have no callback, and requests of clients, whose answer may
\* come in several frames (HTTP).
Kinds == {"join", "ip", "get"}
Nothing == [cmd |-> "none"]
Inputs == [cmd : Kinds, frame : Items, ok : BOOLEAN, last : BOOLEAN]
          \cup {[cmd |-> "async"], Nothing}
Ends == [top : ItemPointer, end : ItemPointer]

RequestQueue == [top |-> request.top, end |-> request.end, next |-> next]
ResponseQueue == [top |-> response.top, end |-> response.end, next |-> next]
EndsOf(Q) == [top |-> Q.top, end |-> Q.end]
Committed == Members(RequestQueue) \cup Members(ResponseQueue)

TypeOK ==
  /\ request \in Ends /\ response \in Ends
  /\ next \in [Items -> ItemPointer]
  /\ alive \subseteq Items
  /\ kind \in [Items -> Kinds]
  /\ kicks \in 0..MaxKicks
  /\ edge \in BOOLEAN
  /\ stage \in {"between", "calling", "failing", "sending"}
  /\ cur \in ItemPointer /\ success \in BOOLEAN
  /\ input \in Inputs
  /\ owed \in Seq([cmd : Kinds, frame : Items]) /\ Len(owed) <= Cardinality(Items)
  /\ networkInitialized \in BOOLEAN /\ joinFailed \in BOOLEAN
  /\ joined \in BOOLEAN
  /\ taken \in BOOLEAN /\ writeFailed \in BOOLEAN

Init ==
  /\ request = [top |-> NULL, end |-> NULL]
  /\ response = [top |-> NULL, end |-> NULL]
  /\ next = [i \in Items |-> NULL]
  /\ alive = {}
  /\ kind = [i \in Items |-> "get"]
  /\ kicks = 0
  /\ edge = FALSE
  /\ stage = "between"
  /\ cur = NULL
  /\ success = TRUE
  /\ input = Nothing
  /\ owed = <<>>
  /\ networkInitialized = FALSE
  /\ joinFailed = FALSE
  /\ joined = FALSE
  /\ taken = FALSE
  /\ writeFailed = FALSE

-----------------------------------------------------------------------------
(* Client code, between two tasks or in a callback of the handler.         *)

ClientRuns == stage \in {"between", "calling", "failing"}

\* Bound: a block is not reused while the module owes its frame an answer.
Unused(f) == /\ f \notin alive
             /\ \A i \in DOMAIN owed : owed[i].frame # f
             /\ input.cmd \in Kinds => input.frame # f

\* new, and commitAsync.
CommitAsync(f) ==
  /\ ClientRuns
  /\ Unused(f)
  /\ kicks < MaxKicks
  /\ LET Q == Enqueue([RequestQueue EXCEPT !.next[f] = NULL], f)
     IN  request' = EndsOf(Q) /\ next' = Q.next
  /\ kind' = [kind EXCEPT ![f] = "get"]
  /\ alive' = alive \cup {f}
  /\ kicks' = kicks + 1
  /\ UNCHANGED <<response, edge, stage, cur, success, moduleVars, networkVars, history>>

\* Bound: setupWifiOnly commits the two requests whose outcome it looks at.
SetupWifiOnly(f, g) ==
  /\ ClientRuns
  /\ f # g /\ Unused(f) /\ Unused(g)
  /\ kicks + 1 < MaxKicks
  /\ LET Q == Enqueue(Enqueue([RequestQueue EXCEPT !.next[f] = NULL, !.next[g] = NULL], f), g)
     IN  request' = EndsOf(Q) /\ next' = Q.next
  /\ kind' = [kind EXCEPT ![f] = "join", ![g] = "ip"]
  /\ alive' = alive \cup {f, g}
  /\ kicks' = kicks + 2
  /\ UNCHANGED <<response, edge, stage, cur, success, moduleVars, networkVars, history>>

\* Nobody deletes a frame that is aborted while it waits: it counts as gone.
\* One that is sent is answered all the same, without its callback.
Abort(f) ==
  /\ ClientRuns
  /\ f \in alive \ {cur} /\ kind[f] = "get"
  /\ f \in Members(RequestQueue)
  /\ LET Q == RemoveItem(RequestQueue, f)
     IN  request' = EndsOf(Q) /\ next' = Q.next
  /\ alive' = alive \ {f}
  /\ UNCHANGED <<response, kind, kicks, edge, stage, cur, success, moduleVars, networkVars, history>>

\* Bug: the destructor does not look after the queues.
DeleteFrame_StaysQueued(f) ==
  /\ alive' = alive \ {f}
  /\ UNCHANGED <<request, response, next, kind>>

\* ~ModuleFrame: a frame without a successor stays in its queue.  (What is in
\* a block without a frame does not matter: it is cleared.)
DeleteFrame(f) ==
  /\ alive' = alive \ {f}
  /\ kind' = [kind EXCEPT ![f] = "get"]
  /\ IF next[f] # NULL
       THEN LET Q == RemoveItem(RequestQueue, f)
                R == RemoveItem([ResponseQueue EXCEPT !.next = Q.next], f)
            IN  /\ request' = EndsOf(Q) /\ response' = EndsOf(R)
                /\ next' = [R.next EXCEPT ![f] = NULL]
       ELSE UNCHANGED <<request, response, next>>

\* A client deletes its frame (~HttpClient).
Delete(f) ==
  /\ ClientRuns
  /\ f \in alive \ {cur} /\ kind[f] = "get"
  /\ "deletePending" \in Liberties \/ next[f] # NULL
  /\ DeleteFrame(f)
  /\ UNCHANGED <<kicks, edge, stage, cur, success, moduleVars, networkVars, history>>

Client == \/ \E f \in Items : CommitAsync(f) \/ Abort(f) \/ Delete(f)
          \/ \E f, g \in Items : SetupWifiOnly(f, g)

-----------------------------------------------------------------------------
(* moduleEventHandler.  Sleep mode of the module, which nothing enters, is *)
(* left out.                                                               *)

\* The handler is called by a timer or by the interrupt's task.
TakeEvent ==
  \/ kicks > 0 /\ kicks' = kicks - 1 /\ UNCHANGED edge
  \/ edge /\ edge' = FALSE /\ UNCHANGED kicks

\* Bug: a failed join is not remembered.
Completed_JoinForgotten(f, ok) ==
  /\ success' = ok
  /\ networkInitialized' = (networkInitialized \/ (kind[f] = "ip" /\ ok /\ ~joinFailed))
  /\ joined' = IF kind[f] = "join" THEN ok ELSE joined
  /\ UNCHANGED joinFailed

\* The completion handlers of the set-up: onJoinNetworkComplete,
\* onNetworkReady.
Completed(f, ok) ==
  /\ success' = ok
  /\ joinFailed' = (joinFailed \/ (kind[f] = "join" /\ ~ok))
  /\ networkInitialized' = (networkInitialized \/ (kind[f] = "ip" /\ ok /\ ~joinFailed))
  /\ joined' = IF kind[f] = "join" THEN ok ELSE joined

\* discardIfNeeded, up to the client's callback.
Discard(f, ok) ==
  /\ LET R == RemoveItem(ResponseQueue, f) IN response' = EndsOf(R) /\ next' = R.next
  /\ Completed(f, ok)
  /\ cur' = f
  /\ UNCHANGED request

\* pollInputQueue says no.
NoInput ==
  /\ stage = "between" /\ input = Nothing
  /\ TakeEvent
  /\ stage' = "sending"
  /\ UNCHANGED <<queueVars, cur, success, moduleVars, networkVars, history>>

\* No response is awaited: data and asynchronous frames go to the socket
\* layer, anything else is dropped.
UnaskedInput ==
  /\ stage = "between" /\ input # Nothing /\ response.top = NULL
  /\ TakeEvent
  /\ input' = Nothing
  /\ stage' = IF input.cmd = "async" THEN "calling" ELSE "sending"
  /\ UNCHANGED <<queueVars, cur, success, owed, networkVars, history>>

\* Bug: the command id is not compared.
IsResponse_AnyCommand(f) == input.cmd = "async" \/ input.ok

\* readManagementFrameResponse.  Input that is not ok stands for an answer
\* with an error status, one without its payload and one that is not read.
IsResponse(f) == input.cmd = kind[f] /\ input.ok

\* The frame is taken for the answer to the request that waits for one.
Response ==
  /\ stage = "between" /\ input # Nothing /\ response.top # NULL
  /\ TakeEvent
  /\ input' = Nothing
  /\ stage' = "calling"
  /\ taken' = (taken \/ input.cmd = "async")
  /\ LET f == response.top
     IN  IF IsResponse(f) /\ input.cmd # "async" /\ ~input.last
           THEN UNCHANGED <<request, response, next, cur, success, networkVars>>
           ELSE Discard(f, IsResponse(f))
  /\ UNCHANGED <<alive, kind, owed, writeFailed>>

\* Bug: the handler returns after a completion.
CallbackReturns_NothingSent ==
  /\ stage \in {"calling", "failing"}
  /\ IF cur = NULL THEN UNCHANGED queueVars ELSE DeleteFrame(cur)
  /\ cur' = NULL /\ success' = TRUE
  /\ stage' = "between"
  /\ UNCHANGED <<kicks, edge, moduleVars, networkVars, history>>

\* Frames delete themselves when they are completed (autoRelease).
CallbackReturns ==
  /\ stage \in {"calling", "failing"}
  /\ IF cur = NULL THEN UNCHANGED queueVars ELSE DeleteFrame(cur)
  /\ cur' = NULL /\ success' = TRUE
  /\ stage' = IF stage = "calling" THEN "sending" ELSE "between"
  /\ UNCHANGED <<kicks, edge, moduleVars, networkVars, history>>

MaySend == response.top = NULL /\ request.top # NULL

NothingToSend ==
  /\ stage = "sending"
  /\ ~MaySend
  /\ stage' = "between"
  /\ UNCHANGED <<queueVars, kicks, edge, cur, success, moduleVars, networkVars, history>>

\* Bug: the response queue is not looked at.
SendRequest_Eager ==
  /\ stage = "sending"
  /\ request.top # NULL
  /\ LET f == request.top
         Q == Dequeue(RequestQueue)
         R == Enqueue([ResponseQueue EXCEPT !.next = Q.next], f)
     IN  /\ request' = EndsOf(Q) /\ response' = EndsOf(R) /\ next' = R.next
         /\ owed' = Append(owed, [cmd |-> kind[f], frame |-> f])
  /\ stage' = "between"
  /\ writeFailed' = FALSE
  /\ UNCHANGED <<alive, kind, kicks, edge, cur, success, input, networkVars, taken>>

\* The first request is written, and its answer awaited.  The module takes
\* nothing while it offers a frame (writeRawFrame).
SendRequest ==
  /\ stage = "sending"
  /\ MaySend /\ input = Nothing
  /\ LET f == request.top
         Q == Dequeue(RequestQueue)
         R == Enqueue([ResponseQueue EXCEPT !.next = Q.next], f)
     IN  /\ request' = EndsOf(Q) /\ response' = EndsOf(R) /\ next' = R.next
         /\ owed' = Append(owed, [cmd |-> kind[f], frame |-> f])
  /\ stage' = "between"
  /\ writeFailed' = FALSE
  /\ UNCHANGED <<alive, kind, kicks, edge, cur, success, input, networkVars, taken>>

\* writeFrame returns false: completed with an error, and no other is tried.
SendFails ==
  /\ stage = "sending"
  /\ MaySend
  /\ request' = EndsOf(Dequeue(RequestQueue))
  /\ Completed(request.top, FALSE)
  /\ cur' = request.top
  /\ stage' = "failing"
  /\ writeFailed' = TRUE
  /\ UNCHANGED <<response, next, alive, kind, kicks, edge, moduleVars, taken>>

-----------------------------------------------------------------------------
(* The wireless module.                                                    *)

\* It answers the first of the commands it has accepted.
ModuleAnswers ==
  /\ input = Nothing /\ owed # <<>>
  /\ \E ok \in BOOLEAN, last \in BOOLEAN :
       /\ last \/ (ok /\ owed[1].cmd = "get")
       /\ input' = [cmd |-> owed[1].cmd, frame |-> owed[1].frame, ok |-> ok, last |-> last]
       /\ owed' = IF last THEN Tail(owed) ELSE owed
  /\ edge' = TRUE
  /\ UNCHANGED <<queueVars, kicks, stage, cur, success, networkVars, history>>

\* Received data, a socket that is closed or connected.
ModuleReports ==
  /\ input = Nothing
  /\ input' = [cmd |-> "async"]
  /\ edge' = TRUE
  /\ UNCHANGED <<queueVars, kicks, stage, cur, success, owed, networkVars, history>>

EventHandler ==
  \/ NoInput
  \/ UnaskedInput
  \/ Response
  \/ CallbackReturns
  \/ NothingToSend
  \/ SendRequest
  \/ SendFails

Next == Client \/ EventHandler \/ ModuleAnswers \/ ModuleReports

\* The run loop calls a handler that waits, and client code returns; the
\* module answers, and the last frame of an answer comes.
Fairness ==
  /\ WF_vars(EventHandler)
  /\ SF_vars(ModuleAnswers /\ Len(owed') < Len(owed))

Spec == Init /\ [][Next]_vars
FairSpec == Spec /\ Fairness

-----------------------------------------------------------------------------
(* Properties.                                                             *)

\* The two queues, which share their links, are two lists of existing frames
\* without a common member, and one answer at most is awaited.  (With the type
\* invariant.)
QueuesIntact ==
  /\ TypeOK
  /\ IsQueue(RequestQueue) /\ IsQueue(ResponseQueue)
  /\ Members(RequestQueue) \cap Members(ResponseQueue) = {}
  /\ Committed \subseteq alive
  /\ Cardinality(Members(ResponseQueue)) <= 1

\* IsNetworkReady is not true unless the last join to be completed was
\* successful, however requests, failures and late answers follow each other.
ReadyMeansJoined == networkInitialized /\ ~joinFailed => joined

\* The answer that completes a request successfully is its own, unless an
\* asynchronous frame has been taken for an answer before: from then on the
\* answers are late, and those of one command are not told apart.
OwnAnswer ==
  [][\A f \in Items :
       Response /\ cur' = f /\ success' => taken \/ (input.cmd # "async" /\ input.frame = f)]_vars

\* Requests wait, no answer is awaited, and nothing will call the handler.
Stalled ==
  /\ request.top # NULL /\ response.top = NULL
  /\ stage = "between" /\ kicks = 0 /\ ~edge
  /\ input = Nothing /\ owed = <<>>

\* Every request leaves the queues (completed, aborted or deleted), or the
\* queue stands still behind a request that could not be written.  Blocks are
\* interchangeable: one of them stands for all.
RequestIsCompleted ==
  LET f == CHOOSE i \in Items : TRUE
  IN  (f \in Committed) ~> (f \notin Committed \/ (Stalled /\ writeFailed))

\* "if no response is pending, send new request" (moduleEventHandler): the
\* queue never stands still.
NeverStalls == ~Stalled

Pipe == INSTANCE RequestPipe WITH
          Frames <- Items, None <- NULL,
          waiting <- ItemOrderOf(RequestQueue), pending <- response.top

\* The queues and the handler implement the pipe of requests.
PipeSpec == Pipe!Spec
=============================================================================
