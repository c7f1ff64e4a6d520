----------------------------- MODULE HistoryLog -----------------------------
(***************************************************************************)
(* The logs of the web server (ructf/historyWeb).  The LogUpdater follows  *)
(* the tables: three queries in turn, each for the rows whose time is      *)
(* beyond the latest it has seen, and each row goes into a log of Log.     *)
(* A page asks for the entries from a time on: the server finds the place  *)
(* in each of the logs by binary search and merges what follows.           *)
(*                                                                         *)
(* A row's time is the start of its transaction (set_time), and it can be  *)
(* read after the end.  Only two parts of one query are asked in the order *)
(* of time; the rest comes in any order.  The driver hands a whole result  *)
(* over, so a query fails as a whole: the updater waits and begins again   *)
(* with the first.  A row that two queries read stands here for two rows.  *)
(***************************************************************************)
EXTENDS Naturals, FiniteSets, SequencesExt

CONSTANTS
  Rows,         \* the rows of the results
  LogOf,        \* [Rows -> Logs]: where a row goes
  KeyOf,        \* [Rows -> Keys]: the team and service of a row
  StatusOf,     \* [Rows -> Statuses]: the status of a check
  None,         \* no status yet
  MaxTime,      \* bound: the end of the clock
  MaxFaults     \* bound: queries that fail, and restarts of the server

VARIABLES
  now,          \* the clock
  time,         \* [Rows -> Nat]: the times of the rows; 0: not begun
  visible,      \* the committed rows
  pc,           \* the query whose turn it is
  reading,      \* its result is being read
  batch,        \* the rows of the result not read yet
  latest,       \* maxFlagTime, maxStatusTime or maxScoresTime; 0: not reading
  mark,         \* [Queries -> Nat]: flagTime, statusTime, scoresTime
  log,          \* [Logs -> Seq(Rows)]
  lastStatuses, \* [Keys -> Statuses \cup {None}]
  overtaken,    \* history: rows that committed behind their query's mark
  shuffled,     \* history: rows of a log that were not in the order of time
  faults        \* history: so far

database == <<now, time, visible>>
updater == <<pc, reading, batch, latest, mark, log, lastStatuses>>
history == <<overtaken, shuffled, faults>>
vars == <<database, updater, history>>

Queries == {"flags", "statuses", "scores"}

\* GetStateText's logs and GetScoresText's.
LogsOf(filter) ==
  IF filter = "state" THEN <<"flags", "statuses">>
  ELSE <<"at", "se", "ac", "ad", "ta">>

Logs == Range(LogsOf("state")) \cup Range(LogsOf("scores"))

QueryOf(x) == IF LogOf[x] \in {"flags", "statuses"} THEN LogOf[x] ELSE "scores"

NextQuery(q) ==
  CASE q = "flags" -> "statuses" [] q = "statuses" -> "scores" [] q = "scores" -> "flags"

Keys == Range(KeyOf)

Init ==
  /\ now = 1 /\ time = [x \in Rows |-> 0] /\ visible = {}
  /\ pc = "flags" /\ reading = FALSE /\ batch = <<>> /\ latest = 0
  /\ mark = [q \in Queries |-> 0]
  /\ log = [l \in Logs |-> <<>>]
  /\ lastStatuses = [k \in Keys |-> None]
  /\ overtaken = {} /\ shuffled = FALSE /\ faults = 0

ASSUME HistoryLogAssumption ==
  /\ MaxTime \in Nat \ {0} /\ MaxFaults \in Nat
  /\ IsFiniteSet(Rows)
  /\ LogOf \in [Rows -> Logs]
  /\ DOMAIN KeyOf = Rows /\ DOMAIN StatusOf = Rows
  /\ None \notin Range(StatusOf)

(***************************************************************************)
(* The updater.                                                            *)
(***************************************************************************)

InOrder(s) == \A i, j \in DOMAIN s : i < j => time[s[i]] <= time[s[j]]

\* The parts of UNION ALL go into logs of their own: their order is not looked at.
PartsInOrder(s) ==
  \A i, j \in DOMAIN s :
    i < j /\ LogOf[s[i]] = LogOf[s[j]] => time[s[i]] <= time[s[j]]

\* Mutant: the rows of the latest time are asked for again.
FromMark(q) == {x \in visible : QueryOf(x) = q /\ time[x] >= mark[q]}

\* WHERE time > ?
News(q) == {x \in visible : QueryOf(x) = q /\ time[x] > mark[q]}

\* The results that the database may return: ORDER BY stands only at 'se' and
\* 'ac', and UNION ALL keeps the order of the parts.
Results(q) ==
  {s \in SetToSeqs(News(q)) :
     \A l \in {"se", "ac"} : InOrder(SelectSeq(s, LAMBDA x : LogOf[x] = l))}

ExecuteQuery ==
  /\ ~reading
  /\ \E s \in Results(pc) :
       /\ batch' = s
       /\ shuffled' = (shuffled \/ ~PartsInOrder(s))
  /\ reading' = TRUE
  /\ latest' = mark[pc]
  /\ UNCHANGED <<database, pc, mark, log, lastStatuses, overtaken, faults>>

\* Mutant: one last status for all teams and services.
AnyKey(x) == Keys

\* The key of lastStatuses.
KeysOf(x) == {KeyOf[x]}

\* A status is logged when it is not the last one of its team and service.
IsNews(x) == LogOf[x] = "statuses" => lastStatuses[KeyOf[x]] # StatusOf[x]

Insert ==
  /\ reading /\ batch # <<>>
  /\ LET x == Head(batch) IN
     /\ log' = IF IsNews(x) THEN [log EXCEPT ![LogOf[x]] = Append(@, x)] ELSE log
     /\ lastStatuses' =
          [k \in Keys |-> IF LogOf[x] = "statuses" /\ k \in KeysOf(x) THEN StatusOf[x]
                          ELSE lastStatuses[k]]
     /\ latest' = IF time[x] > latest THEN time[x] ELSE latest
  /\ batch' = Tail(batch)
  /\ UNCHANGED <<database, pc, reading, mark, history>>

\* Mutant: the time of the query instead of the latest time of its rows.
TimeOfQuery == now

LatestTime == latest

EndQuery ==
  /\ reading /\ batch = <<>>
  /\ mark' = [mark EXCEPT ![pc] = LatestTime]
  /\ reading' = FALSE /\ latest' = 0
  /\ pc' = NextQuery(pc)
  /\ UNCHANGED <<database, batch, log, lastStatuses, history>>

\* The updater waits, opens a connection and begins again with the first query.
QueryFails ==
  /\ ~reading /\ faults < MaxFaults
  /\ faults' = faults + 1
  /\ pc' = "flags"
  /\ UNCHANGED <<database, reading, batch, latest, mark, log, lastStatuses,
                 overtaken, shuffled>>

\* The process ends and starts again: it has read nothing.
Restart ==
  /\ faults < MaxFaults
  /\ faults' = faults + 1
  /\ pc' = "flags" /\ reading' = FALSE /\ batch' = <<>> /\ latest' = 0
  /\ mark' = [q \in Queries |-> 0]
  /\ log' = [l \in Logs |-> <<>>]
  /\ lastStatuses' = [k \in Keys |-> None]
  /\ overtaken' = {} /\ shuffled' = FALSE
  /\ UNCHANGED database

(***************************************************************************)
(* The tables.                                                             *)
(***************************************************************************)

Tick ==
  /\ now < MaxTime
  /\ now' = now + 1
  /\ UNCHANGED <<time, visible, updater, history>>

Begin(x) ==
  /\ time[x] = 0
  /\ time' = [time EXCEPT ![x] = now]
  /\ UNCHANGED <<now, visible, updater, history>>

\* The mark of a query after what it is reading now.
Horizon(q) ==
  IF reading /\ pc = q THEN Max({latest} \cup {time[x] : x \in Range(batch)})
  ELSE mark[q]

End(x) ==
  /\ time[x] # 0 /\ x \notin visible
  /\ visible' = visible \cup {x}
  /\ overtaken' = IF time[x] <= Horizon(QueryOf(x)) THEN overtaken \cup {x}
                  ELSE overtaken
  /\ UNCHANGED <<now, time, updater, shuffled, faults>>

Updater == ExecuteQuery \/ Insert \/ EndQuery

Next ==
  \/ Updater \/ QueryFails \/ Restart \/ Tick
  \/ \E x \in Rows : Begin(x) \/ End(x)

\* The updater is a thread that nothing blocks and no exception ends.
Spec == Init /\ [][Next]_vars /\ WF_vars(Updater)

(***************************************************************************)
(* An answer.  Positions count from 0, as in the code.                     *)
(***************************************************************************)

\* Mutant: the search stops behind the entries of the time that is asked for.
Behind(t, s, mid) == t < time[s[mid + 1]]

AtOrBefore(t, s, mid) == t <= time[s[mid + 1]]

\* The body of the while loop, which is over when first meets last.
SearchStep(s, t, w) ==
  LET mid == (w.first + w.last) \div 2
  IN  IF ~(w.first < w.last) THEN w
      ELSE IF AtOrBefore(t, s, mid) THEN [w EXCEPT !.last = mid]
      ELSE [w EXCEPT !.first = mid + 1]

\* There are no more passes than entries.
BinarySearch(s, t) ==
  LET search[n \in 0 .. Len(s)] ==
        IF n = 0 THEN [first |-> 0, last |-> Len(s) - 1]
        ELSE SearchStep(s, t, search[n - 1])
  IN  search[Len(s)].last

FindOffsetForTimestamp(s, t) ==
  IF s = <<>> \/ t < time[s[1]] THEN 0
  ELSE IF t > time[s[Len(s)]] THEN Len(s)
  ELSE BinarySearch(s, t)

\* The first list whose next entry is the earliest gives the next entry.
MergeStep(m) ==
  LET open == {k \in DOMAIN m.rest : m.rest[k] # <<>>}
      first == Min({time[Head(m.rest[k])] : k \in open})
      n == Min({k \in open : time[Head(m.rest[k])] = first})
  IN  [rest |-> [m.rest EXCEPT ![n] = Tail(@)],
       result |-> Append(m.result, Head(m.rest[n]))]

Positions(lists) == UNION {{k} \X DOMAIN lists[k] : k \in DOMAIN lists}

MergeLists(lists) ==
  LET total == Cardinality(Positions(lists))
      merge[n \in 0 .. total] ==
        IF n = 0 THEN [rest |-> lists, result |-> <<>>] ELSE MergeStep(merge[n - 1])
  IN  merge[total].result

\* GetStateText and GetScoresText.
Answer(filter, from) ==
  LET names == LogsOf(filter)
  IN  MergeLists([k \in DOMAIN names |->
        LET l == log[names[k]]
        IN  SubSeq(l, FindOffsetForTimestamp(l, from) + 1, Len(l))])

-----------------------------------------------------------------------------

Times == 0 .. MaxTime

Logged == UNION {Range(log[l]) : l \in Logs}

TypeOK ==
  /\ now \in 1 .. MaxTime /\ time \in [Rows -> Times] /\ visible \subseteq Rows
  /\ pc \in Queries /\ reading \in BOOLEAN /\ batch \in Seq(visible)
  /\ latest \in Times /\ mark \in [Queries -> Times]
  /\ log \in [Logs -> Seq(visible)]
  /\ lastStatuses \in [Keys -> Range(StatusOf) \cup {None}]
  /\ overtaken \subseteq visible /\ shuffled \in BOOLEAN /\ faults \in 0 .. MaxFaults

\* An answer has every entry from the time that was asked for, once, in the
\* order of time: if the database returned the rows of each log in that order,
\* which only a part of the queries asks for (Log 46-127, LogUpdater 17-23).
AnswerExact ==
  ~shuffled => \A filter \in {"state", "scores"}, from \in Times :
    LET answer == Answer(filter, from)
        logged == UNION {Range(log[l]) : l \in Range(LogsOf(filter))}
    IN  /\ Range(answer) = {x \in logged : time[x] >= from}
        /\ IsInjective(answer)
        /\ InOrder(answer)

\* Where the log of statuses has those of a team and service.
Of(k) == {i \in DOMAIN log["statuses"] : KeyOf[log["statuses"][i]] = k}

Shown(i) == StatusOf[log["statuses"][i]]

\* No row is logged twice, in spite of failed queries; and whatever the order,
\* a status is logged only when it changes (LogUpdater 66-146).
LoggedOnce ==
  /\ \A l \in Logs : IsInjective(log[l])
  /\ \A k \in Keys : \A i, j \in Of(k) :
       i < j /\ (\A m \in Of(k) : ~(i < m /\ m < j)) => Shown(i) # Shown(j)

\* The checks of a team and service that the updater has read.
Read(k) ==
  {x \in visible \ (overtaken \cup Range(batch)) :
     LogOf[x] = "statuses" /\ KeyOf[x] = k /\ time[x] <= Horizon("statuses")}

\* The log ends, for every team and service, with the status of a latest check
\* read, unless the rows came out of order (LogUpdater 90-117).
StatusShown ==
  ~shuffled => \A k \in Keys : Read(k) # {} =>
    \E i \in Of(k), x \in Read(k) :
      /\ \A j \in Of(k) : j <= i
      /\ \A y \in Read(k) : time[y] <= time[x]
      /\ Shown(i) = StatusOf[x]

\* A committed flag or score gets into its log, unless it committed behind the
\* mark (LogUpdater 41-88, 119-146).
EveryRowLogged ==
  \A x \in Rows : LogOf[x] # "statuses" =>
    (x \in visible ~> x \in Logged \/ x \in overtaken)
=============================================================================
