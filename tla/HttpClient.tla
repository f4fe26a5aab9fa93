----------------------------- MODULE HttpClient ------------------------------
(***************************************************************************)
(* HTTP clients (HttpClient, HttpPostClient), the DNS resolver each one    *)
(* contains and the frames they hand to the wireless module, which appears *)
(* only as its pipe of requests (RequestPipe).  A frame and a callOnce     *)
(* timer point back at the client they will call; copying a client, which  *)
(* every "client = HttpClient(url)" does, has to turn these pointers.      *)
(* Client code runs between the tasks of the run loop, and has set its     *)
(* callbacks.                                                              *)
(***************************************************************************)
EXTENDS Naturals, Sequences, FiniteSets, SequencesExt

CONSTANTS
  Clients, Frames, Timers, NULL,
  MaxKicks,       \* bound: the events waiting when a client commits a frame
  MaxChunks,      \* bound: the frames in which a response can come
  NetworkStates,  \* the values of IsNetworkReady when a client is made
  Liberties       \* "destroyFailed": a failed client may be destroyed

ASSUME HttpAssumption ==
  /\ MaxChunks \in Nat \ {0} /\ MaxKicks \in Nat /\ NetworkStates \subseteq BOOLEAN
  /\ NULL \notin Clients \cup Frames \cup Timers

VARIABLES
  alive,    \* the clients that exist
  obj,      \* the fields of every client and of the resolver in it
  frame,    \* every frame: its use and the client its callbacks go to
  waiting, pending,  \* the pipe of requests
  calls,    \* callOnce timers in the run loop, in order
  sending,  \* moduleEventHandler is past the input: a request may be sent
  delivered,   \* history: the data every client's dataHandler was called with
  copied,      \* history: the clients whose request a copy has taken over
  lost,        \* history: the clients made without a network
  refused,     \* history: a request could not be written
  freedTwice   \* history: a timer was deleted that was gone

history == <<delivered, copied, lost, refused, freedTwice>>
pipe == <<waiting, pending>>
vars == <<alive, obj, frame, pipe, calls, sending, history>>

Pipe == INSTANCE RequestPipe WITH None <- NULL

States == {"setup", "inProgress", "completed", "error"}
Chunks == [n : 0..MaxChunks, last : BOOLEAN]
NoChunk == [n |-> 0, last |-> FALSE]

\* cbTimers holds the cbTimer of the client and that of its resolver;
\* request is getFrame or, of a client that posts, postFrame.
Blank == [posts |-> FALSE, shouldPost |-> FALSE, state |-> "setup", dnsFrame |-> NULL,
          request |-> NULL, cbTimers |-> {}, respData |-> NoChunk]

\* What commitAsync leaves in the run loop: a call of moduleEventHandler.
Kick == [what |-> "event", to |-> NULL, timer |-> NULL]

Free == [use |-> "free", ctx |-> NULL, n |-> 0, address |-> FALSE]

TypeOK ==
  /\ alive \subseteq Clients
  /\ obj \in [Clients -> [posts : BOOLEAN, shouldPost : BOOLEAN, state : States,
                          dnsFrame : Frames \cup {NULL}, request : Frames \cup {NULL},
                          cbTimers : SUBSET Timers, respData : Chunks]]
  /\ frame \in [Frames -> [use : {"free", "dns", "http"}, ctx : Clients \cup {NULL},
                           n : 0..MaxChunks, address : BOOLEAN]]
  /\ waiting \in Seq(Frames) /\ pending \in Frames \cup {NULL}
  /\ calls \in Seq([what : {"error", "data"}, to : Clients, timer : Timers \cup {NULL}] \cup {Kick})
  /\ sending \in BOOLEAN
  /\ delivered \in [Clients -> Seq(Chunks)]
  /\ copied \subseteq Clients /\ lost \subseteq Clients
  /\ refused \in BOOLEAN /\ freedTwice \in BOOLEAN

Init ==
  /\ alive = {}
  /\ obj = [c \in Clients |-> Blank]
  /\ frame = [f \in Frames |-> Free]
  /\ Pipe!Init
  /\ calls = <<>>
  /\ sending = FALSE
  /\ delivered = [c \in Clients |-> <<>>]
  /\ copied = {} /\ lost = {}
  /\ refused = FALSE /\ freedTwice = FALSE

\* Bounds: a block is not reused while a client still points at it.
Unused(f) == frame[f] = Free /\ \A c \in alive : f \notin {obj[c].dnsFrame, obj[c].request}
Running(t) == \E i \in DOMAIN calls : calls[i].timer = t
UnusedTimer(t) == ~Running(t) /\ \A c \in alive : t \notin obj[c].cbTimers

\* Timer::callOnce(0, ...): the last task of the list, the flag up.  Only the
\* timers of errors are remembered by someone.
Call(c, what, t) == [what |-> what, to |-> c, timer |-> t]

DataIsDue == \E i \in DOMAIN calls : calls[i].what = "data"

Underway(c) == \/ \E f \in Frames : frame[f].ctx = c
               \/ \E i \in DOMAIN calls : calls[i].to = c

CommitAsync(f) ==
  /\ Cardinality({i \in DOMAIN calls : calls[i] = Kick}) < MaxKicks
  /\ waiting' = Append(waiting, f)
  /\ calls' = Append(calls, Kick)
  /\ UNCHANGED pending

-----------------------------------------------------------------------------
(* Client code.                                                            *)

\* An URL with a domain: the resolver commits its frame.  (It is made as a
\* temporary and assigned, which turns its frame's callback.)
NewForDomain(c, f) ==
  /\ c \notin alive /\ Unused(f)
  /\ TRUE \in NetworkStates
  /\ alive' = alive \cup {c}
  /\ \E posts \in BOOLEAN :
       obj' = [obj EXCEPT ![c] = [Blank EXCEPT !.posts = posts, !.dnsFrame = f,
                                  !.state = IF posts THEN "setup" ELSE "inProgress"]]
  /\ frame' = [frame EXCEPT ![f] = [Free EXCEPT !.use = "dns", !.ctx = c]]
  /\ CommitAsync(f)
  /\ UNCHANGED history

\* The network is not ready: the error is queued for the temporary, whose
\* destructor deletes the timer that the resolver has copied.  (Nobody sets
\* dnsFrame: what it points at is taken not to be a frame of this resolver.)
NewOffline(c, t) ==
  /\ c \notin alive /\ UnusedTimer(t)
  /\ FALSE \in NetworkStates
  /\ alive' = alive \cup {c}
  /\ \E posts \in BOOLEAN :
       obj' = [obj EXCEPT ![c] = [Blank EXCEPT !.posts = posts, !.cbTimers = {t},
                                  !.state = IF posts THEN "setup" ELSE "inProgress"]]
  /\ lost' = lost \cup {c}
  /\ UNCHANGED <<frame, pipe, calls, delivered, copied, refused, freedTwice>>

\* An URL with an address: the request's frame is made at once.
NewForAddress(c, f) ==
  /\ c \notin alive /\ Unused(f)
  /\ alive' = alive \cup {c}
  /\ \E posts \in BOOLEAN :
       /\ obj' = [obj EXCEPT ![c] = [Blank EXCEPT !.posts = posts, !.request = f,
                                     !.state = IF posts THEN "setup" ELSE "inProgress"]]
       /\ IF posts THEN UNCHANGED <<pipe, calls>> ELSE CommitAsync(f)
  /\ frame' = [frame EXCEPT ![f] = [Free EXCEPT !.use = "http", !.ctx = c, !.address = TRUE]]
  /\ UNCHANGED history

\* Neither: the error is queued.  (HttpPostClient leaves postFrame unset in
\* this case and is left out.)
NewForBadUrl(c, t) ==
  /\ c \notin alive /\ UnusedTimer(t)
  /\ alive' = alive \cup {c}
  /\ obj' = [obj EXCEPT ![c] = [Blank EXCEPT !.cbTimers = {t}]]
  /\ calls' = Append(calls, Call(c, "error", t))
  /\ UNCHANGED <<frame, pipe, history>>

\* The copy shares the frames, and takes over their callbacks.  (A resolver
\* without a frame is copied too: the code looks for a callback at address
\* null, and is taken to find none.)
Copy(c, d) ==
  /\ obj' = [obj EXCEPT ![c] = obj[d]]
  /\ frame' = [f \in Frames |-> IF f \in {obj[d].dnsFrame, obj[d].request}
                                  THEN [frame[f] EXCEPT !.ctx = c] ELSE frame[f]]
  /\ delivered' = [delivered EXCEPT ![c] = delivered[d]]
  /\ copied' = (copied \ {c}) \cup {d}

\* Bound: nobody copies a client whose frame is gone, or that a timer calls.
MayBeCopied(d) ==
  /\ d \in alive \ copied
  /\ obj[d].cbTimers = {}
  /\ \A f \in {obj[d].dnsFrame, obj[d].request} \ {NULL} : frame[f].ctx = d
  /\ \A i \in DOMAIN calls : calls[i].to # d

CopyConstruct(c, d) ==
  /\ c \notin alive /\ MayBeCopied(d)
  /\ alive' = alive \cup {c}
  /\ Copy(c, d)
  /\ UNCHANGED <<pipe, calls, lost, refused, freedTwice>>

\* Bound: a client is not assigned to before its own request is over.
Assign(c, d) ==
  /\ c \in alive /\ c # d /\ MayBeCopied(d)
  /\ ~Underway(c) /\ obj[c].cbTimers = {}
  /\ Copy(c, d)
  /\ lost' = lost \ {c}
  /\ UNCHANGED <<alive, pipe, calls, refused, freedTwice>>

\* post().  Bound: once for each client.
Post(c) ==
  /\ c \in alive \ copied /\ obj[c].posts /\ ~obj[c].shouldPost
  /\ IF obj[c].request # NULL
       THEN /\ obj' = [obj EXCEPT ![c].shouldPost = TRUE, ![c].state = "inProgress"]
            /\ CommitAsync(obj[c].request)
       ELSE /\ obj' = [obj EXCEPT ![c].shouldPost = TRUE]
            /\ UNCHANGED <<pipe, calls>>
  /\ UNCHANGED <<alive, frame, history>>

\* Bug: the callback of a frame that was sent stays.
ResolverDestroyed_StillCalled(f) ==
  IF Pipe!IsWaiting(f)
    THEN Pipe!Withdraw(f) /\ frame' = [frame EXCEPT ![f] = Free]
    ELSE UNCHANGED <<pipe, frame>>

\* ~DnsResolver: the frame calls nobody any more; it is taken out of the
\* queue if it waits there (and leaks: it counts as gone).
ResolverDestroyed(f) ==
  IF Pipe!IsWaiting(f)
    THEN Pipe!Withdraw(f) /\ frame' = [frame EXCEPT ![f] = Free]
    ELSE UNCHANGED pipe /\ frame' = [frame EXCEPT ![f].ctx = NULL]

\* Deleting a timer takes its call out of the run loop.  (A client and its
\* resolver remember one timer at most.)
CallsWithout(timers) ==
  IF \E t \in timers : Running(t)
    THEN RemoveAt(calls, CHOOSE i \in DOMAIN calls : calls[i].timer \in timers)
    ELSE calls

\* ~HttpClient, ~DnsResolver, ~INetworkRequest.  Bounds: a client is not
\* destroyed that still has, or ever had, a request of its own: its frame
\* would be deleted (again).
Destroy(c) ==
  /\ c \in alive
  /\ obj[c].request # NULL => frame[obj[c].request].ctx \notin {c, NULL}
  /\ \A i \in DOMAIN calls : calls[i].to = c => calls[i].timer \in obj[c].cbTimers
  /\ (\A t \in obj[c].cbTimers : Running(t)) \/ "destroyFailed" \in Liberties
  /\ LET f == obj[c].dnsFrame
     IN  IF f # NULL /\ frame[f].ctx = c THEN ResolverDestroyed(f) ELSE UNCHANGED <<frame, pipe>>
  /\ freedTwice' = (freedTwice \/ \E t \in obj[c].cbTimers : ~Running(t))
  /\ calls' = CallsWithout(obj[c].cbTimers)
  /\ alive' = alive \ {c}
  /\ obj' = [obj EXCEPT ![c] = Blank]
  /\ delivered' = [delivered EXCEPT ![c] = <<>>]
  /\ copied' = copied \ {c} /\ lost' = lost \ {c}
  /\ UNCHANGED refused

-----------------------------------------------------------------------------
(* The wireless module's event handler and the callbacks it makes.  It is  *)
(* called by the task of the module's interrupt, which is before every     *)
(* timer in the list, and by the timers of commits: in a pass of the run   *)
(* loop, only these can find more input before data is delivered.          *)

\* The event, and the timers that its input starts.
Event(later) ==
  /\ ~sending /\ sending' = TRUE
  /\ \/ ~DataIsDue /\ calls' = calls \o later
     \/ /\ calls # <<>> /\ Head(calls) = Kick
        /\ calls' = Tail(calls) \o later

NoInput ==
  /\ ~sending /\ calls # <<>> /\ Head(calls) = Kick
  /\ calls' = Tail(calls)
  /\ sending' = TRUE
  /\ UNCHANGED <<alive, obj, frame, pipe, history>>

Send ==
  /\ sending /\ sending' = FALSE
  /\ Pipe!Send
  /\ UNCHANGED <<alive, obj, frame, calls, history>>

NothingToSend ==
  /\ sending /\ sending' = FALSE
  /\ pending # NULL \/ waiting = <<>>
  /\ UNCHANGED <<alive, obj, frame, pipe, calls, history>>

\* httpCompletion, dnsCompletion and dnsResolutionError without success:
\* triggerDirectErrorHandler.
Failed(c) == obj' = IF c = NULL THEN obj
                    ELSE [obj EXCEPT ![c].state = "error", ![c].dnsFrame = NULL]

\* Bug: the failure of a request is not reported.
FrameFails_Silent(f) ==
  /\ frame' = [frame EXCEPT ![f] = Free]
  /\ UNCHANGED obj

\* The completion callback, and the frame deletes itself.
FrameFails(f) ==
  /\ Failed(frame[f].ctx)
  /\ frame' = [frame EXCEPT ![f] = Free]

\* The request cannot be written.
Refuse ==
  /\ sending /\ sending' = FALSE
  /\ Pipe!Refuse
  /\ FrameFails(Head(waiting))
  /\ refused' = TRUE
  /\ UNCHANGED <<alive, calls, delivered, copied, lost, freedTwice>>

\* The answer is an error, or is none.
AnswerFails ==
  /\ Pipe!Complete
  /\ FrameFails(pending)
  /\ Event(<<>>)
  /\ UNCHANGED <<alive, history>>

\* The answer for a resolver that was destroyed.
ResolvedForNobody ==
  /\ Pipe!Complete
  /\ frame[pending].use = "dns" /\ frame[pending].ctx = NULL
  /\ frame' = [frame EXCEPT ![pending] = Free]
  /\ Event(<<>>)
  /\ UNCHANGED <<alive, obj, history>>

\* Bug: HttpPostClient::dnsComplete commits whether post() was called or not.
CommitNow_Always(c) == TRUE

\* HttpPostClient waits for post().
CommitNow(c) == obj[c].posts => obj[c].shouldPost

\* dnsCompletion with success, dnsComplete and createFrameRequest.  The
\* answer may hold no address at all, which nobody looks at.
Resolved(h) ==
  /\ pending # NULL
  /\ frame[pending].use = "dns" /\ frame[pending].ctx # NULL
  /\ Unused(h)
  /\ \E address \in BOOLEAN :
       LET c == frame[pending].ctx
       IN  /\ frame' = [frame EXCEPT ![pending] = Free,
                          ![h] = [Free EXCEPT !.use = "http", !.ctx = c, !.address = address]]
           /\ obj' = [obj EXCEPT ![c].dnsFrame = NULL, ![c].request = h,
                                 ![c].state = IF CommitNow(c) THEN "inProgress" ELSE @]
           /\ IF CommitNow(c) THEN waiting' = Append(waiting, h) /\ Event(<<Kick>>)
                              ELSE UNCHANGED waiting /\ Event(<<>>)
  /\ pending' = NULL
  /\ UNCHANGED <<alive, history>>

\* httpData: there is one respData, delivered by the run loop.
HttpData(c, chunk) ==
  /\ obj' = [obj EXCEPT ![c].respData = chunk]
  /\ Event(<<Call(c, "data", NULL)>>)

\* A part of the response; with the last one, the frame deletes itself.
ResponseData ==
  /\ pending # NULL
  /\ frame[pending].use = "http"
  /\ \E last \in BOOLEAN :
       /\ last \/ frame[pending].n + 1 < MaxChunks
       /\ HttpData(frame[pending].ctx, [n |-> frame[pending].n + 1, last |-> last])
       /\ IF last
            THEN Pipe!Complete /\ frame' = [frame EXCEPT ![pending] = Free]
            ELSE UNCHANGED pipe /\ frame' = [frame EXCEPT ![pending].n = @ + 1]
  /\ UNCHANGED <<alive, history>>

-----------------------------------------------------------------------------
(* The run loop.                                                           *)

\* triggerDataReady.
TriggerDataReady(c) ==
  /\ delivered' = [delivered EXCEPT ![c] = Append(@, obj[c].respData)]
  /\ obj' = IF obj[c].respData.last THEN [obj EXCEPT ![c].state = "completed"] ELSE obj

RunCall ==
  /\ ~sending
  /\ calls # <<>> /\ Head(calls) # Kick
  /\ calls' = Tail(calls)
  /\ IF Head(calls).what = "data" THEN TriggerDataReady(Head(calls).to)
                                   ELSE Failed(Head(calls).to) /\ UNCHANGED delivered
  /\ UNCHANGED <<alive, frame, pipe, sending, copied, lost, refused, freedTwice>>

ClientCode ==
  /\ ~sending /\ UNCHANGED sending
  /\ \/ \E c \in Clients, f \in Frames : NewForDomain(c, f) \/ NewForAddress(c, f)
     \/ \E c \in Clients, t \in Timers : NewOffline(c, t) \/ NewForBadUrl(c, t)
     \/ \E c, d \in Clients : CopyConstruct(c, d) \/ Assign(c, d)
     \/ \E c \in Clients : Post(c) \/ Destroy(c)

Callbacks ==
  \/ Refuse
  \/ AnswerFails
  \/ ResolvedForNobody
  \/ \E h \in Frames : Resolved(h)
  \/ ResponseData
  \/ RunCall

Next == ClientCode \/ NoInput \/ Send \/ NothingToSend \/ Callbacks

\* The run loop runs its tasks.  The module answers the request it has, and a
\* response has a last part.
Fairness ==
  /\ WF_vars(NoInput \/ RunCall)
  /\ WF_vars(Send \/ NothingToSend)
  /\ SF_vars(AnswerFails \/ ResolvedForNobody \/ (\E h \in Frames : Resolved(h))
             \/ (ResponseData /\ pending' = NULL))

Spec == Init /\ [][Next]_vars
FairSpec == Spec /\ Fairness

-----------------------------------------------------------------------------
(* Properties.                                                             *)

\* No frame the module knows and no timer in the run loop calls a client that
\* is gone, whatever was copied, assigned or destroyed in the meantime.  (With the
\* type invariant.)
CallbacksReachLiving ==
  /\ TypeOK
  /\ \A f \in Frames : Pipe!IsWaiting(f) \/ f = pending => frame[f].ctx \in alive \cup {NULL}
  /\ \A i \in DOMAIN calls : calls[i] # Kick => calls[i].to \in alive

\* A request that is in progress, or could not be made from its URL, is
\* reported to be completed or failed, unless a copy takes it over, its
\* client is destroyed, there was no network or a request could not be
\* written (see RedpineModule's NeverStalls).
RequestEnds ==
  \A c \in Clients :
    (c \in alive \ lost /\ (obj[c].state = "inProgress" \/ obj[c].cbTimers # {}))
      ~> (c \notin alive \ copied \/ obj[c].state \in {"completed", "error"} \/ refused)

\* Requests enter the pipe once.
PipeSpec == Pipe!Spec

\* "A flag in the returned data object indicates, when this was the last data
\* to be received." (http_client.h)
FlagMarksLastData ==
  \A c \in Clients : \A i \in DOMAIN delivered[c] :
    delivered[c][i].last => i = Len(delivered[c])

\* "To receive a notification callback if this request fails, set a callback
\* function here." (network_request.h): of a client made without a network,
\* which fails, something is still to call the error handler, or has.
FailureIsReported ==
  \A c \in lost : obj[c].state = "error" \/ Underway(c)

\* "deleting the pending callback trigger timer" (network_request.cpp): the
\* timer a request deletes is a pending one.
DeletedTimerIsPending == ~freedTwice

\* "This client class handles error that arise from: DNS lookup failed (no
\* such domain name)" (http_client.h): no request is made without an address.
RequestHasAddress == \A f \in Frames : frame[f].use = "http" => frame[f].address
=============================================================================
