----------------------------- MODULE ScoreChart -----------------------------
(***************************************************************************)
(* The way of the standings to a spectator's chart: RoundsCache writes the *)
(* table, the web server's CacheUpdater copies it (ructf/historyWeb), and  *)
(* the page asks the server every five seconds for the rounds from the     *)
(* last one it knows (scoreboard/charts.js).                               *)
(*                                                                         *)
(* A page has one request at a time, so the answer and what the page does  *)
(* with it are one step.  The server's random seed is abstracted to the    *)
(* question whether the page sends the one of the running server.  A page  *)
(* that was told it may not: the seed is a long, and not every long is a   *)
(* number of JavaScript (HistoryHttpHandler 22, charts.js 134).            *)
(***************************************************************************)
EXTENDS RoundsCache, SequencesExt

CONSTANT None  \* the server's cache before the first update

VARIABLES
  web,         \* Cache: a sequence of [round, standing], or None
  chart,       \* h: such a sequence, empty before the first answer
  asked,       \* the round the page asks for next
  known,       \* the seed it sends will be that of the running server
  polling      \* the page goes on asking

page == <<chart, asked, known, polling>>
chartVars == <<vars, web, page>>

ChartInit ==
  /\ Init
  /\ web = None /\ chart = <<>> /\ asked = 0 /\ known = FALSE /\ polling = TRUE

\* SELECT ... FROM rounds_cache ORDER BY team_id, round: the rows of a team.
CacheRows ==
  FlattenSeq([i \in 1 .. MaxRound + 1 |->
    [j \in DOMAIN table[i - 1] |-> [round |-> i - 1, standing |-> table[i - 1][j]]]])

UpdateCache ==
  /\ web' = CacheRows
  /\ UNCHANGED <<vars, page>>

(***************************************************************************)
(* A request.                                                              *)
(***************************************************************************)

\* The rows are in the order of the rounds: all from the first one that is
\* asked for.
GetCacheJSON(from) ==
  LET late == {k \in DOMAIN web : web[k].round >= from}
  IN  IF late = {} THEN <<>> ELSE SubSeq(web, Min(late), Len(web))

\* The answer's rounds replace what the chart has from the first of them on,
\* as far as they reach; what is beyond them stays.
AddDataToHistory(data) ==
  LET from == {k \in DOMAIN chart : chart[k].round >= data[1].round}
      i == IF from = {} THEN Len(chart) ELSE Min(from) - 1
  IN  SubSeq(chart, 1, i) \o data \o SubSeq(chart, i + Len(data) + 1, Len(chart))

\* Mutant: the page asks for the round after the last one it knows.
NextRound(data) == Last(data).round + 1

\* The first answer yields an index and the others a round's number.
LastRound(data) == IF chart = <<>> THEN Len(data) - 1 ELSE Last(data).round

\* The answer that has no rounds ends in an exception, and nothing asks again.
FetchData ==
  /\ polling /\ web # None
  /\ LET data == GetCacheJSON(IF known THEN asked ELSE 0) IN
     IF data = <<>>
     THEN polling' = FALSE /\ UNCHANGED <<chart, asked, known>>
     ELSE /\ chart' = AddDataToHistory(data)
          /\ asked' = LastRound(data)
          /\ known' \in BOOLEAN
          /\ UNCHANGED polling
  /\ UNCHANGED <<vars, web>>

\* A lost request or answer; the server has no answer before its first update.
FetchFails ==
  /\ polling
  /\ asked' = 0 /\ known' = FALSE
  /\ UNCHANGED <<vars, web, chart, polling>>

\* The server comes back with another seed and an empty cache.
WebRestarts ==
  /\ web' = None /\ known' = FALSE
  /\ UNCHANGED <<vars, chart, asked, polling>>

ChartNext ==
  \/ Next /\ UNCHANGED <<web, page>>
  \/ UpdateCache \/ FetchData \/ FetchFails \/ WebRestarts

\* The process of RoundsCache runs; nobody promises to restart it, or that
\* scores come, and a page may be closed.
ChartSpec ==
  ChartInit /\ [][ChartNext]_chartVars
    /\ WF_vars(Process /\ UNCHANGED <<web, page>>)

-----------------------------------------------------------------------------

\* While roundsCache runs, an answer leaves the page with the server's whole
\* history, though it asks only for the end of it: the rounds before the last
\* one a page knows do not change any more (charts.js 51-92, Cache 26-57,
\* roundsCache/Main 142-193).
ChartCurrent ==
  [][FetchData /\ restarts = 0 => chart' = web \/ ~polling']_chartVars

(***************************************************************************)
(* The inductive invariant.                                                *)
(***************************************************************************)

Snapshots == Seq([round : Rounds, standing : Bag])

\* A copy of the table t: rows of rounds up to n that t still has, in their
\* order and without gaps; none but the last may be another by now.
CopyOK(s, t, n) ==
  /\ s \in Snapshots
  /\ \A j, k \in DOMAIN s : j < k => s[j].round < s[k].round
  /\ \A k \in DOMAIN s :
       /\ s[k].round <= n /\ t[s[k].round] # <<>>
       /\ k < Len(s) => t[s[k].round] = <<s[k].standing>>
  /\ s # <<>> => \A r \in Rounds : r < Last(s).round /\ t[r] # <<>> =>
                    \E k \in DOMAIN s : s[k].round = r

\* The server never has less than a page, and a page asks for nothing beyond
\* what it has.
PageOK ==
  /\ web # None /\ chart # <<>> =>
       web # <<>> /\ Last(chart).round <= Last(web).round
  /\ known => chart # <<>> /\ asked <= Last(chart).round

ChartIInv ==
  restarts = 0 =>
    /\ pc # "down"
    /\ pc = "start" => \A r \in Rounds : table[r] = <<>>
    /\ web # None => CopyOK(web, table, lastCached)
    /\ CopyOK(chart, table, lastCached) /\ asked \in Nat /\ PageOK
=============================================================================
