--------------------------- MODULE MC_PowerSaver ---------------------------
(***************************************************************************)
(* Small instances of PowerSaver.                                          *)
(***************************************************************************)
EXTENDS PowerSaver

CONSTANTS a1, a2, a3

MCAsyncs == {a1, a2, a3}
MCTasks == {button, dimTimer, sleepTimer} \cup MCAsyncs
=============================================================================
