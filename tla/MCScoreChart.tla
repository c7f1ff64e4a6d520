---------------------------- MODULE MCScoreChart ----------------------------
(***************************************************************************)
(* One row of scores, three rounds, one failed transaction and one crash:  *)
(* the row may begin and end before, in or after any round's window.       *)
(***************************************************************************)
EXTENDS ScoreChart, TLC

CONSTANTS a

OneScore == {a}
=============================================================================
