----------------------------- MODULE MCGetFlags -----------------------------
(***************************************************************************)
(* Two clients of any of three teams, two of which own a flag, and a       *)
(* string that is no flag: the clients send their own flags, race for one  *)
(* flag as mates or as rivals, or cross in StolenFlag with a string each.  *)
(***************************************************************************)
EXTENDS GetFlags, TLC

CONSTANTS c1, c2, t1, t2, t3, f1, f2, x, s1

TwoClients == {c1, c2}
ThreeTeams == {t1, t2, t3}
OneService == {s1}
TwoFlags == {f1, f2}
AllStrings == {f1, f2, x}

OwnerValue == (f1 :> t1) @@ (f2 :> t2)
ServiceOfValue == (f1 :> s1) @@ (f2 :> s1)

Symmetry == Permutations(TwoClients)
=============================================================================
