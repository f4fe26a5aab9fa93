---------------------------- MODULE MC_UsTicker -----------------------------
(***************************************************************************)
(* Small instances of UsTicker.                                            *)
(***************************************************************************)
EXTENDS UsTicker, TLC

\* The tickers are interchangeable.
MCSymmetry == Permutations(Events)
=============================================================================
