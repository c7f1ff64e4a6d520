--------------------------- MODULE MCTaskManager ---------------------------
(***************************************************************************)
(* Instances of TaskManager for TLC: two statuses are enough, because the  *)
(* code tells only OK from the rest.                                       *)
(***************************************************************************)
EXTENDS TaskManager

CONSTANTS s1, t1

OneService == {s1}
OneTeam == {t1}

StatusesValue == {"OK", "Down"}
OnlyOK == {"OK"}
=============================================================================
