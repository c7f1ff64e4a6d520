---------------------------- MODULE MCHistoryLog ----------------------------
(***************************************************************************)
(* Three checks of two services in the log of statuses, and two scores in  *)
(* two logs, which an answer merges.  A stolen flag is logged as a score   *)
(* is, by a query of its own.                                              *)
(***************************************************************************)
EXTENDS HistoryLog

CONSTANTS attack, secret, up, down, other

RowsValue == {attack, secret, up, down, other}

LogOfValue == [x \in RowsValue |->
  CASE x = attack -> "at" [] x = secret -> "se" [] OTHER -> "statuses"]

KeyOfValue == [x \in RowsValue |-> IF x = other THEN 2 ELSE 1]

StatusOfValue == [x \in RowsValue |-> IF x = down THEN "Down" ELSE "OK"]
=============================================================================
