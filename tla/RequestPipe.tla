----------------------------- MODULE RequestPipe -----------------------------
(***************************************************************************)
(* What the queues of the wireless module promise: requests are sent in    *)
(* the order in which they were committed, never two at a time, and each   *)
(* of them leaves exactly once: answered, refused by the module, or        *)
(* withdrawn before it was sent.                                           *)
(***************************************************************************)
EXTENDS SequencesExt

CONSTANTS Frames, None

VARIABLES
  waiting,  \* the committed requests, in order
  pending   \* the request whose answer is awaited, or None

vars == <<waiting, pending>>

IsWaiting(f) == \E i \in DOMAIN waiting : waiting[i] = f

Init == waiting = <<>> /\ pending = None

Commit(f) ==
  /\ ~IsWaiting(f) /\ f # pending
  /\ waiting' = Append(waiting, f)
  /\ UNCHANGED pending

\* The requests of a set-up are committed together.
CommitTwo(f, g) ==
  /\ ~IsWaiting(f) /\ ~IsWaiting(g) /\ f # g /\ pending \notin {f, g}
  /\ waiting' = waiting \o <<f, g>>
  /\ UNCHANGED pending

Send ==
  /\ pending = None /\ waiting # <<>>
  /\ pending' = Head(waiting)
  /\ waiting' = Tail(waiting)

\* Writing the request to the module fails.
Refuse ==
  /\ pending = None /\ waiting # <<>>
  /\ waiting' = Tail(waiting)
  /\ UNCHANGED pending

Complete ==
  /\ pending # None
  /\ pending' = None
  /\ UNCHANGED waiting

\* The callback of a request that is answered commits another one.
CompleteAndCommit(f) ==
  /\ pending # None
  /\ ~IsWaiting(f) /\ f # pending
  /\ pending' = None
  /\ waiting' = Append(waiting, f)

Withdraw(f) ==
  /\ \E i \in DOMAIN waiting : waiting[i] = f /\ waiting' = RemoveAt(waiting, i)
  /\ UNCHANGED pending

Next ==
  \/ \E f \in Frames : Commit(f) \/ Withdraw(f) \/ CompleteAndCommit(f)
  \/ \E f, g \in Frames : CommitTwo(f, g)
  \/ Send
  \/ Refuse
  \/ Complete

Spec == Init /\ [][Next]_vars
=============================================================================
