------------------------------- MODULE LogPage -------------------------------
(***************************************************************************)
(* The jury's page with the log of the checkers (CCP/views/logs.tt and     *)
(* CCP/public/js/checksystem.js) and the query behind it (CCP/App.pm).     *)
(*                                                                         *)
(* The page sends a POST when the button is clicked, or two seconds after  *)
(* the last answer while "auto-update" is checked.  The page has one       *)
(* variable for the pending timer, and no handler for a POST that fails.   *)
(* POSTs and answers may overtake each other.                              *)
(***************************************************************************)
EXTENDS Naturals, SequencesExt

CONSTANTS
  Filters,     \* choices of team, service, result and number of rows
  MaxLog,      \* rows the checkers write to checker_run_log
  MaxChains,   \* bound on timers, POSTs and answers together
  NoFilter     \* the table before the first answer

VARIABLES
  log,         \* how many rows checker_run_log has
  filter,      \* the choice in the form
  checked,     \* "auto-update"; the button is disabled just as long
  autoupdate,  \* the timer that the page's variable names is pending
  lost,        \* how many pending timers no variable names any more
  posts,       \* the filters of the POSTs on their way to the server
  answers,     \* [filter, rows]: answers on their way to the page
  logtable,    \* the answer that the page shows
  failed       \* a POST has failed since the box was checked

logVars == <<log, filter, checked, autoupdate, lost, posts, answers, logtable, failed>>

Answers == [filter : Filters, rows : 0 .. MaxLog]

LogInit ==
  /\ log = 0 /\ filter \in Filters
  /\ checked = FALSE /\ autoupdate = FALSE /\ lost = 0
  /\ posts = <<>> /\ answers = <<>> /\ failed = FALSE
  /\ logtable = [filter |-> NoFilter, rows |-> 0]

Chains == lost + Len(posts) + Len(answers) + (IF autoupdate THEN 1 ELSE 0)

(***************************************************************************)
(* The form.                                                               *)
(***************************************************************************)

\* Mutant: an update repeats the query of the table that is shown.
LastQuery == IF logtable.filter = NoFilter THEN filter ELSE logtable.filter

\* $('#team').val() and the others are read when the POST is made.
FormValues == filter

\* setTimeout: the number of the timer replaces the one of an earlier timer.
SetTimeout ==
  /\ autoupdate' = TRUE
  /\ lost' = lost + (IF autoupdate THEN 1 ELSE 0)

CheckAutoupdate ==
  /\ ~checked /\ Chains < MaxChains
  /\ checked' = TRUE /\ failed' = FALSE
  /\ SetTimeout
  /\ UNCHANGED <<log, filter, posts, answers, logtable>>

\* clearTimeout knows the last timer only, and that one may have fired.
UncheckAutoupdate ==
  /\ checked
  /\ checked' = FALSE /\ autoupdate' = FALSE
  /\ UNCHANGED <<log, filter, lost, posts, answers, logtable, failed>>

ClickUpdate ==
  /\ ~checked /\ Chains < MaxChains
  /\ posts' = Append(posts, FormValues)
  /\ UNCHANGED <<log, filter, checked, autoupdate, lost, answers, logtable, failed>>

Choose(f) ==
  /\ filter' = f
  /\ UNCHANGED <<log, checked, autoupdate, lost, posts, answers, logtable, failed>>

(***************************************************************************)
(* The timers, the server and the handler of an answer.                    *)
(***************************************************************************)

TimerFires ==
  /\ \/ autoupdate /\ autoupdate' = FALSE /\ UNCHANGED lost
     \/ lost > 0 /\ lost' = lost - 1 /\ UNCHANGED autoupdate
  /\ posts' = Append(posts, FormValues)
  /\ UNCHANGED <<log, filter, checked, answers, logtable, failed>>

QueryLog(i) ==
  /\ posts' = RemoveAt(posts, i)
  /\ answers' = Append(answers, [filter |-> posts[i], rows |-> log])
  /\ UNCHANGED <<log, filter, checked, autoupdate, lost, logtable, failed>>

\* Mutant: the next timer is set whether or not the box is still checked.
NextUpdateAlways == SetTimeout

\* The next timer is set by the answer to the last POST.
NextUpdate == IF checked THEN SetTimeout ELSE UNCHANGED <<autoupdate, lost>>

AjaxLogSuccess(i) ==
  /\ logtable' = answers[i]
  /\ answers' = RemoveAt(answers, i)
  /\ NextUpdate
  /\ UNCHANGED <<log, filter, checked, posts, failed>>

\* The server fails, or the POST or its answer is lost: nothing is called.
PostFails ==
  /\ \/ \E i \in DOMAIN posts : posts' = RemoveAt(posts, i) /\ UNCHANGED answers
     \/ \E i \in DOMAIN answers : answers' = RemoveAt(answers, i) /\ UNCHANGED posts
  /\ failed' = TRUE
  /\ UNCHANGED <<log, filter, checked, autoupdate, lost, logtable>>

\* A checker has run (CheckerRunLogInserter).
CheckerRuns ==
  /\ log < MaxLog /\ log' = log + 1
  /\ UNCHANGED <<filter, checked, autoupdate, lost, posts, answers, logtable, failed>>

SomeQuery == \E i \in DOMAIN posts : QueryLog(i)
SomeAnswer == \E i \in DOMAIN answers : AjaxLogSuccess(i)

LogNext ==
  \/ CheckAutoupdate \/ UncheckAutoupdate \/ ClickUpdate
  \/ \E f \in Filters : Choose(f)
  \/ TimerFires \/ SomeQuery \/ SomeAnswer \/ PostFails \/ CheckerRuns

\* Timers fire, and of several POSTs or answers some one gets through.
LogFairness == WF_logVars(TimerFires) /\ WF_logVars(SomeQuery) /\ WF_logVars(SomeAnswer)

-----------------------------------------------------------------------------

\* Who leaves the box checked and the form alone ends with the filtered log as
\* it is, and keeps it, unless a POST fails: answers to earlier filters may
\* overtake later ones, but there are finitely many (checksystem.js 75-86,
\* 106-113).
TableFollowsLog ==
  \A f \in Filters :
    <>[](checked /\ ~failed /\ filter = f)
      => <>[](logtable = [filter |-> f, rows |-> log])

\* Unchecking the box ends every chain of updates, the ones whose timer was lost
\* too: each comes to an answer that finds the box unchecked (54-63, 106-113).
ChainsEnd == <>[](~checked) => <>[](~autoupdate /\ lost = 0)
=============================================================================
