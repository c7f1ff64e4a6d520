----------------------------- MODULE TaskMonitor -----------------------------
(***************************************************************************)
(* The page that shows the task manager's queues (taskmon/taskmon.js):     *)
(* a request when it is opened, one every ten seconds while "auto update"  *)
(* is checked, and one for each click on the button, each given up after   *)
(* five seconds.  Nothing stops a second request while one is under way.   *)
(*                                                                         *)
(* Time passes in steps of five seconds.  What an answer says              *)
(* (MonitoringTaskHandler) is abstracted to when it was made.              *)
(***************************************************************************)
EXTENDS Naturals, SequencesExt

CONSTANTS
  MaxRequests,  \* bound on the requests under way
  MaxAnswers    \* bound on the answers the task manager makes

VARIABLES
  made,         \* how many answers the task manager has made
  requests,     \* [by, age, at]: by "page" or "click"; at = 0 before the answer
  auto,         \* an interval is set, which the checked box shows
  elapsed,      \* since the interval was set or last came round
  tables        \* [by, at]: the answer the page shows

monitorVars == <<made, requests, auto, elapsed, tables>>

autoUpdateInterval == 2

\* Mutant: a request is given up only after fifteen seconds.
LongTimeout == 3

ajaxTimeout == 1

LoadData(by) == Append(requests, [by |-> by, age |-> 0, at |-> 0])

\* OnDocumentReady asks at once and sets the interval.
MonitorInit ==
  /\ made = 0
  /\ requests = <<[by |-> "page", age |-> 0, at |-> 0]>>
  /\ auto = TRUE /\ elapsed = 0
  /\ tables = [by |-> "page", at |-> 0]

ClickButton ==
  /\ Len(requests) < MaxRequests
  /\ requests' = LoadData("click")
  /\ UNCHANGED <<made, auto, elapsed, tables>>

ClickAutoUpdate ==
  /\ auto' = ~auto /\ elapsed' = 0
  /\ UNCHANGED <<made, requests, tables>>

IntervalFires ==
  /\ auto /\ elapsed = autoUpdateInterval
  /\ requests' = LoadData("page") /\ elapsed' = 0
  /\ UNCHANGED <<made, auto, tables>>

GetTasksJSON(i) ==
  /\ requests[i].at = 0 /\ made < MaxAnswers
  /\ made' = made + 1
  /\ requests' = [requests EXCEPT ![i].at = made + 1]
  /\ UNCHANGED <<auto, elapsed, tables>>

OnAjaxSuccess(i) ==
  /\ requests[i].at > 0
  /\ tables' = [by |-> requests[i].by, at |-> requests[i].at]
  /\ requests' = RemoveAt(requests, i)
  /\ UNCHANGED <<made, auto, elapsed>>

\* The request or its answer is lost, the task manager fails while it reads the
\* queues a beginning round clears, or the time is up.
OnAjaxError(i) ==
  /\ requests' = RemoveAt(requests, i)
  /\ UNCHANGED <<made, auto, elapsed, tables>>

\* Neither a request nor the interval outlives its time.
Tick ==
  /\ \A i \in DOMAIN requests : requests[i].age < ajaxTimeout
  /\ auto => elapsed < autoUpdateInterval
  /\ requests' = [i \in DOMAIN requests |-> [requests[i] EXCEPT !.age = @ + 1]]
  /\ elapsed' = IF auto THEN elapsed + 1 ELSE 0
  /\ UNCHANGED <<made, auto, tables>>

MonitorNext ==
  \/ ClickButton \/ ClickAutoUpdate \/ IntervalFires \/ Tick
  \/ \E i \in DOMAIN requests : GetTasksJSON(i) \/ OnAjaxSuccess(i) \/ OnAjaxError(i)

MonitorSpec == MonitorInit /\ [][MonitorNext]_monitorVars

-----------------------------------------------------------------------------

\* The page never goes back to an older state of the queues by itself: the
\* requests it makes are given up before the next one is made.  Only a click
\* that overlaps another request can bring that about (taskmon.js 4-5, 35-47,
\* 155-163).
PageGoesForward ==
  [][tables'.at < tables.at => "click" \in {tables.by, tables'.by}]_monitorVars
=============================================================================
