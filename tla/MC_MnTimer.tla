----------------------------- MODULE MC_MnTimer -----------------------------
(***************************************************************************)
(* Small instances of MnTimer.                                             *)
(***************************************************************************)
EXTENDS MnTimer

CONSTANTS t1, t2

MCTasks == {t1, t2}

\* Bound: the link fields of new timers are null.
MCGarbage == {NULL}
=============================================================================
