----------------------------- MODULE TaskQueue ------------------------------
(***************************************************************************)
(* What the dynamic task queue promises to its users, without links: the   *)
(* tasks form a queue without repetition; adding appends, removing removes *)
(* exactly the named task and disturbs nobody else; and the pass over the  *)
(* queue starts at its front and goes, from a task that is still queued,   *)
(* to the task right behind it.                                            *)
(***************************************************************************)
EXTENDS Naturals, SequencesExt

CONSTANTS Tasks, NULL, SingleShot

VARIABLES
  queue,    \* the installed tasks, in the order they are handled
  cursor    \* the task being handled, or NULL between two passes

vars == <<queue, cursor>>

Members == {queue[i] : i \in 1..Len(queue)}

Init == queue = <<>> /\ cursor = NULL

Add(t) ==
  /\ t \notin Members
  /\ queue' = Append(queue, t)
  /\ UNCHANGED cursor

Leave(t) ==
  /\ \E i \in DOMAIN queue : queue[i] = t /\ queue' = RemoveAt(queue, i)
  /\ UNCHANGED cursor

Begin ==
  /\ cursor = NULL
  /\ queue # <<>>
  /\ cursor' = Head(queue)
  /\ UNCHANGED queue

\* A single-shot task leaves the queue when its handler returns.
Advance ==
  \E i \in DOMAIN queue :
    /\ cursor = queue[i]
    /\ cursor' = IF i = Len(queue) THEN NULL ELSE queue[i + 1]
    /\ queue' = IF cursor \in SingleShot THEN RemoveAt(queue, i) ELSE queue

\* From a task that has left the queue the pass may go anywhere or end.
AdvanceFromRemoved ==
  /\ cursor # NULL
  /\ cursor \notin Members
  /\ cursor' \in Tasks \cup {NULL}
  /\ UNCHANGED queue

Next ==
  \/ \E t \in Tasks : Add(t) \/ Leave(t)
  \/ Begin
  \/ Advance
  \/ AdvanceFromRemoved

Spec == Init /\ [][Next]_vars
=============================================================================
