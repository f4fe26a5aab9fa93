--------------------------- MODULE MC_AppRunLoop ----------------------------
(***************************************************************************)
(* Small instances of AppRunLoop.                                          *)
(***************************************************************************)
EXTENDS AppRunLoop

CONSTANTS t1, t2, t3

MCTasks == {t1, t2, t3}

\* Two tasks of the usual kind and a single-shot one.
MCSingleShot == {t3}

\* Bound: the links of a new task are null or point at one and the same
\* block, which may be the task itself, an installed task or a free block.
MCGarbage == {NULL, t1}
=============================================================================
