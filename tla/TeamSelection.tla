---------------------------- MODULE TeamSelection ----------------------------
(***************************************************************************)
(* The teams a spectator has picked on the scoreboard                      *)
(* (scoreboard/scoreboard.js): a list in a cookie that every tab with the  *)
(* page reads when it loads and writes on a click.  A tab does not learn   *)
(* of the clicks in the others before it is loaded again, which it is      *)
(* every two minutes.  A handler has the cookie for itself while it runs.  *)
(***************************************************************************)
EXTENDS Naturals, SequencesExt

CONSTANTS
  Tabs,    \* tabs of one browser that show the scoreboard
  Teams    \* teams, known by the addresses of their vulnboxes

VARIABLES
  cookie,  \* selectedTeams
  boxes,   \* tab -> teams with their boxes checked and their rows shown
  picked   \* teams that the last click in any tab selected

selectionVars == <<cookie, boxes, picked>>

SelectionInit ==
  /\ cookie = <<>>
  /\ boxes = [tab \in Tabs |-> {}]
  /\ picked = {}

\* The copy of a team that another tab has saved is not looked for.
SaveToCookie(team) == Append(cookie, team)

\* Mutant: the search ends with the first copy.
DeleteFirst(team) == ReplaceFirstSubSeq(<<>>, <<team>>, cookie)

DeleteFromCookie(team) ==
  LET newArr[i \in 0 .. Len(cookie)] ==
        IF i = 0 THEN <<>>
        ELSE IF cookie[i] # team THEN Append(newArr[i - 1], cookie[i])
        ELSE newArr[i - 1]
  IN  newArr[Len(cookie)]

Select(tab, team) ==
  /\ team \notin boxes[tab]
  /\ boxes' = [boxes EXCEPT ![tab] = @ \cup {team}]
  /\ cookie' = SaveToCookie(team)
  /\ picked' = picked \cup {team}

Deselect(tab, team) ==
  /\ team \in boxes[tab]
  /\ boxes' = [boxes EXCEPT ![tab] = @ \ {team}]
  /\ cookie' = DeleteFromCookie(team)
  /\ picked' = picked \ {team}

\* restoreState, on a page that comes with all boxes unchecked.
RestoreState(tab) ==
  /\ boxes' = [boxes EXCEPT ![tab] = ToSet(cookie)]
  /\ UNCHANGED <<cookie, picked>>

\* The cookie has no date and ends with the browser.
BrowserRestarts == cookie' = <<>> /\ boxes' = [tab \in Tabs |-> {}] /\ picked' = {}

SelectionNext ==
  \/ \E tab \in Tabs, team \in Teams : Select(tab, team) \/ Deselect(tab, team)
  \/ \E tab \in Tabs : RestoreState(tab)
  \/ BrowserRestarts

SelectionSpec == SelectionInit /\ [][SelectionNext]_selectionVars

-----------------------------------------------------------------------------

\* What the next tab to load will show is what the last click on each team said,
\* in whichever tab it was, though tabs that do not know of each other's clicks
\* save the same team several times (scoreboard.js 32-50).
LastClickCounts == ToSet(cookie) = picked
=============================================================================
