------------------------------ MODULE MCPages ------------------------------
(***************************************************************************)
(* Three pages that share nothing.  A behaviour looks at one of them: the  *)
(* others stay as they were opened.  Two filters and one new row for the   *)
(* log, three chains of updates, so that a chain whose timer is lost meets *)
(* the one in force and a click; two tabs and two teams for the selection; *)
(* three requests and four answers for the task monitor.                   *)
(***************************************************************************)
EXTENDS LogPage, TeamSelection, TaskMonitor

CONSTANTS f1, f2, tab1, tab2, t1, t2

TwoFilters == {f1, f2}
TwoTabs == {tab1, tab2}
TwoTeams == {t1, t2}

VARIABLE page

pageVars == <<page, logVars, selectionVars, monitorVars>>

PagesInit ==
  /\ page \in {"log", "selection", "monitor"}
  /\ LogInit /\ SelectionInit /\ MonitorInit

PagesNext ==
  /\ UNCHANGED page
  /\ \/ page = "log" /\ LogNext /\ UNCHANGED <<selectionVars, monitorVars>>
     \/ page = "selection" /\ SelectionNext /\ UNCHANGED <<logVars, monitorVars>>
     \/ page = "monitor" /\ MonitorNext /\ UNCHANGED <<logVars, selectionVars>>

\* The fairness of the log's page, for the behaviours that look at it.
PagesSpec == PagesInit /\ [][PagesNext]_pageVars /\ (page = "log" => LogFairness)
=============================================================================
