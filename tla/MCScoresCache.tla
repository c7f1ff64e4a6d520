---------------------------- MODULE MCScoresCache ----------------------------
(***************************************************************************)
(* Three teams that cannot pay the fee of a flag in full, and three flags, *)
(* the later two of one time.  The first flag has two thieves; one of them *)
(* was judged by the second flag, so the team that is charged for the      *)
(* first may be the other of its thieves.                                  *)
(***************************************************************************)
EXTENDS ScoresCache, TLC

CONSTANTS t1, t2, t3, f1, f2, f3

ThreeTeams == {t1, t2, t3}
ThreeFlags == {f1, f2, f3}
OwnerValue == (f1 :> t1) @@ (f2 :> t2) @@ (f3 :> t3)
TimeValue == (f1 :> 1) @@ (f2 :> 2) @@ (f3 :> 2)
Theft(f, t, judged) == [data |-> f, thief |-> t, judged |-> judged]
TheftsValue == {Theft(f1, t2, f1), Theft(f1, t3, f2),
                Theft(f2, t1, f2), Theft(f3, t1, f3)}
=============================================================================
