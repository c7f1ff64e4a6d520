------------------------- MODULE MCCheckerExecution -------------------------
(***************************************************************************)
(* CheckerExecution with the three codes the daemon names and one more: it *)
(* treats UpNoFlag and Corrupted alike.                                    *)
(***************************************************************************)
EXTENDS CheckerExecution

CodesValue == {"OK", "Corrupted", "Down", "CheckerError"}
=============================================================================
