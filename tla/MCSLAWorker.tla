----------------------------- MODULE MCSLAWorker -----------------------------
(***************************************************************************)
(* Two teams; the first has a good and two bad checks, the second one good *)
(* check.  Three times let checks share one, and commit out of order.      *)
(***************************************************************************)
EXTENDS SLAWorker, TLC

CONSTANTS t1, t2, a, b, c, d

TwoTeams == {t1, t2}
FourChecks == {a, b, c, d}
TeamOfValue == (a :> t1) @@ (b :> t1) @@ (c :> t1) @@ (d :> t2)
OkValue == {a, d}
=============================================================================
