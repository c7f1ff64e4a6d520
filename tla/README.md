# Verification of the RuCTFE 2013 checksystem

This directory holds TLA+ models of the checksystem of RuCTFE 2013, an attack-defence contest, and of
one of the contest's services with its checker: the TLC runs that check them on small instances, and
theorems about them checked by TLAPS.

## 1. Inventory

The repository has three parts. `checksystem/` runs the contest and is what most of the modules are
about. `services/` are the deliberately broken programs the teams defend, and `checkers/` the scripts
that visit them. Of these `nsaless`, a social network in Node.js over redis, is modelled with its
checker: its requests run concurrently and answer before their effects are stored. The others are
sequential programs, or their interest is in their data (ciphers, parsers, file formats).

| Component | State it keeps | Operations | Talks to |
|---|---|---|---|
| task manager (`taskManager`) | queues `newTasks`, `processing`, `done` per service, in memory | round thread: fail what is left, open a round, make tasks; HTTP: `getTasks`, `doneTask`, `mon` | database; daemons over HTTP |
| daemon (`daemon`) | `freeThreads`, a pool of worker threads | fetch tasks, run the checker of each in stages, report | task manager; checker processes |
| process execution (`daemon/ProcessWrapper`, `executor`) | one child process, two pipe readers, a killer thread | start, read, wait, kill at the timeout | operating system |
| flag receiver (`getflags`) | one thread per client, last access times, two static SQL statements | accept, identify the team, check and record each flag | database; teams over TCP |
| score cache (`scoresCache`) | score per team, SLA per team and service, two watermarks | move points for expired stolen flags; count access checks | database |
| rounds cache (`roundsCache`) | standings per round, the last cached round | sum the scores of each round onto the standing before it, write them to `rounds_cache` | database |
| history web (`historyWeb`) | a copy of `rounds_cache`; logs of flags, states and scores | follow the tables, answer by round or time | database; pages over HTTP |
| chart (`scoreboard/charts.js`) | the history it has, the last round, the server's seed | ask for the rounds from the last one on, replace the end of its history | history web |
| legacy checksystem (`main`) | delayed flags | one thread per team and service | database; checkers |
| database (`checksystem/db`) | tables, triggers, views | `set_round`, `set_time`, `set_score_attack`, `check_dups` | all of the above |
| jury's log page (`CCP`) | the form, timers, POSTs under way | follow the log of the checkers | `CCP/App.pm`, database |
| scoreboard page (`scoreboard/scoreboard.js`) | a cookie, the boxes of each tab | select teams | the other tabs of the browser |
| task monitor (`taskmon/taskmon.js`) | requests under way, an interval | show the queues | task manager over HTTP |
| service `nsaless` | hashes and lists in redis, callbacks waiting for three connections to it | sign up, sign in, tweet, ask to follow, accept, read pages | redis; browsers and the checker over HTTP |
| checker of `nsaless` | the step of a chain, answers still to come | `put`, `get`, `check` | the service; the daemon by its exit code |
| monitor, scoreboard files | read-only pages | show tables | database |

The components share no memory: they meet in the tables of the database and in the two HTTP requests
of the task manager. What makes them hard:

* the round thread and the HTTP dispatcher of the task manager share queues, each behind its own lock,
  and a task is out of all of them between two locks;
* INSERT errors are swallowed, so a COMMIT may silently keep nothing;
* the daemon counts free threads in a plain `int` that many threads change;
* a checker has a timeout, and may die, hang, or leave a child that holds its pipes;
* the flag receiver shares two prepared statements among all its client threads;
* the score cache changes its memory before its transaction commits, and restarts from the database;
* readers follow tables by a time stamp taken when a transaction starts, not when it commits;
* a failed transaction of the rounds cache is only logged, and its counter moves on;
* the chart keeps rounds that it never asks for again;
* `nsaless` has three connections to redis with no order between them, and answers most requests before
  redis has heard of them, while its checker reads what it wrote at once;
* pages send a request while an earlier one is under way, and have no handler for some that fail.

For each component what makes it correct: the task manager decides each task it made, once; the daemon
never runs more checkers than it has threads and keeps all its threads in use; the execution of a checker ends and reports the
right outcome; the receiver accepts a flag once per team and records the flag that was sent; the scores
move without being created or lost; the SLA counts each check once; the caches show what the tables
hold; the service shows a tweet to accepted followers only, and to all of them; its checker fails an
intact service as seldom as the code allows; a page ends with what it was asked to show.

## 2. Modules

| Component | Specification | TLC instances | Proofs |
|---|---|---|---|
| task manager | `TaskManager`, abstract: `VerdictLedger` | `MCTaskManager` | `TaskManagerProofs` |
| daemon: threads | `WorkerManager` | `MCWorkerManager` | `DaemonProofs` |
| daemon: one task | `CheckerExecution` | `MCCheckerExecution` | `DaemonProofs` |
| flag receiver | `GetFlags` | `MCGetFlags` | `GetFlagsProofs` |
| score cache: points | `ScoresCache` | `MCScoresCache` | `ScoresCacheProofs` |
| score cache: SLA | `SLAWorker` | `MCSLAWorker` | `SLAWorkerProofs` |
| rounds cache | `RoundsCache` | `MCScoreChart` | `RoundsCacheProofs` |
| history web and chart of the standings | `ScoreChart`, extends `RoundsCache` | `MCScoreChart` | `RoundsCacheProofs` |
| history web: logs | `HistoryLog` | `MCHistoryLog` | `SpectatorProofs` |
| nsaless | `Nsaless`, abstract: `SocialFeed` | `MCNsaless` | `NsalessProofs` |
| checker of nsaless | `NsalessChecker`, extends `Nsaless` | `MCNsaless` | `NsalessProofs` |
| jury's log page | `LogPage` | `MCPages` | |
| selection of teams | `TeamSelection` | `MCPages` | `SpectatorProofs` |
| task monitor | `TaskMonitor` | `MCPages` | `TaskManagerProofs` |

The models meet where the programs do, at the tables and requests, and each takes from its neighbour
only what that neighbour's model shows: `WorkerManager` lets every checker come back because
`CheckerExecution` tells which do not, `ScoresCache` takes rows whose victim is not the thief because
`GetFlags` proves it, but rows of one flag that may name different victims, for `GetFlags` shows those too;
`SLAWorker`, `RoundsCache` and `HistoryLog` take the transactions of others as a
begin, which gives the time, and a later commit. `ScoreChart` composes three programs: the process that
writes `rounds_cache`, the web server that copies it, and the page that copies the end of the copy.
`NsalessChecker` composes the service, the checker and players who use it at the same time.
A composition of the task manager with daemons is still to be written (section 8).

Every definition that models code keeps the name of what it models where it can; `PROJECT.json`
gives its lines. Definitions marked "Mutant" are not used by the specification: each is a plausible
mistake in the definition below it, and some run's property fails when it takes that one's place.

### TaskManager

Actions are named for the methods of `TaskManager.java`, cut at each synchronized block, each
transaction's COMMIT, and each exception's way out.

* Round thread (`run`, 43-63): `FailLeftTasks`, then `FailNew`, `FailProcessing`, `ClearDone` per
  service (156-195), `StartNextRound`, `RegenerateTasks`, `AddTasks` per service (197-221), `WakeUp`.
  `rpc` says where it is; `recover` is the ten seconds after a caught exception.
* Dispatcher: `GetTasks`, `PopTasks`, `PutTask`, `ReplyTasks` (65-95) and `DoneTask`, `FinishInsert`,
  `FinishRemove`, `FinishAddDone`, `FinishCommit` (97-154). One request at a time, because
  `HttpServer` is given no executor. Lost replies, repeated requests and daemons that never answer are
  behaviours of the daemons' actions, which are unconstrained.
* Failures: an INSERT that fails unnoticed (`silent`), a COMMIT that throws, a connection that cannot
  be opened, the one connection of `DatabaseManager` that is never reopened, and `Restart`.
* `dropped` remembers tasks whose verdict a failure or a crash threw away; without one it stays empty.

`VerdictLedger` says the same about `access_checks` without threads or queues: a task is issued, handed
out at most once, failed in the queue at most once and then final, failed as handed-out at most once,
reported at most once; rows never change.

### WorkerManager and CheckerExecution

`WorkerManager` is the loop of `WorkerManager.java` 46-70 and the counting in its worker threads.
`freeThreads` is a plain `int`: `--` and `++` are two steps each, a read and a write, and `lost` records
that a write undid another. The count is exact short of such a lost update; `KeepsAsking` names it as
one of two ways in which the daemon can stop asking for good.

`CheckerExecution` follows one task through `Worker.run` (stages check, put, get, random), with the
child process, its pipes and the `TimeoutKiller` as parties of their own. An `Error` takes the way
around every catch clause to the report in `finally`.

### GetFlags

One action per statement of a client's thread between two points where another thread can change
what it reads: the two static `PreparedStatement`s of `StolenFlag`, and the table. `crossed` records
which clients met another one between the constructor of `StolenFlag` and the end of
`wasStolenByTeam`. The team of a client comes from its address (`teamId`), and whether its own service
is up is whatever the view says at that moment (`ServiceStatus`). The trigger `set_score_attack` counts
what is committed when the row is inserted (`Insert`), the unique index decides when it commits (`Commit`
or `Refuse`). The client hears of it later: `Answer` is the return of `executeUpdate` with "Accepted",
`AnswerLost` its exception although the row is there, `Exit` the end of the process at any point, when the
database still decides about an INSERT under way (`Orphan`). `unheard` remembers the rows of which nobody
was told. Clients connect again (`Connect`).

### ScoresCache and SLAWorker

Both are loops with a watermark in memory, a hashtable changed before the commit, and a catch clause
that catches what it has just thrown, so the loop survives its failed transactions. `Die` ends the
process anywhere, with the commit on either side of it; `Restart` reads the tables. A theft in
`ScoresCache` has the flag it is a row of and the one by which `StolenFlag` judged it, which are two when
clients crossed; so a flag's owner may be one of its thieves (`SelfStolen`), who then has two rows of one
time. The query for the last rows returns both, in no order, and `LastScores` is the set of totals that a
start may read. `SLAWorker` has the writers too: a check has the time its transaction began and becomes visible when it commits.

### RoundsCache, ScoreChart and HistoryLog

`RoundsCache` counts score rows: a standing is a bag that tells how often each row of the five score
tables is in it, so the five sums of the teams are its images. `GetStartedRounds`, `GetScore` (one query
per round, with its part of `AddToCache`), `Commit` and `TransactionFails` are the statements of a cycle.
A statement of the read phase that throws ends `main`, which is `Die`. That the jury may change a row it
has already judged is left out: a row has one time and one value.

`ScoreChart` has the server's `UpdateCache`, the page's `FetchData`, a request that fails, and a restart
of the server. The handler's lock makes an answer one step, and a page has one request at a time, so
the answer and `addDataToHistory` are one action. The page sends back the seed it was told, which is a
Java `long` and may not survive as a number of JavaScript; it then gets the rounds from 0 (`known`). The code after line 79 of `charts.js`, meant to
remove a tail, never runs (its loop starts below its own bound); the model keeps the tail too.

`HistoryLog` has one updater with three queries and a mark for each, and inserts its rows one by one,
as the lock of `Log` is held for one entry. The binary search and the merge are iterations
of a step (`SearchStep`, `MergeStep`); answers are operators on the state, evaluated for every start time.

### Nsaless, SocialFeed and NsalessChecker

A step of `Nsaless` is one callback of the Node process, or redis executing the first command of one
connection. `sent` and `replies` are the two directions of the three connections that `users.js`,
`tweets.js` and `crypto.js` open: first in, first out, and nothing between two of them. A request begins
with `Arrive`; routes that know their user from the cookie go on in `GotUser` with the action of their
route; a page is complete when `parts` has the last of what `async.parallel` waits for. A client is named
by the user it signs up as, so "has the key of" and "is" are the same; commands that one callback sends
one after another are one command where no other connection touches what they touch.

The history variables say what the service is obliged to: `asked` and `granted` what the requests and
acceptances were, `author` who posted each tweet, `owed` which tweets are due to whom, fixed at the moment
the service looks at its followers (`saveTweet`) or at the author's list (`addFollower`).

`SocialFeed` is the promise without Node and redis: somebody becomes a follower only after asking and
being accepted, a tweet gets onto its author's list, and onto another's only from the list of somebody
followed. The refinement maps `follows` to the hashes of followers and `seen` to the ranges of the lists.

`NsalessChecker` has the chain of steps of `put`, `get` and `check`, the parallel requests of a step, the
first answer that is not as expected, and a connection that breaks. A `put` is followed by the `get` of a
later round, before which the owner's session may have ended.

### LogPage, TeamSelection and TaskMonitor

Three pages of the checksystem, each with the little of its server that it depends on. `LogPage` counts
the timers that no variable names any more (`lost`), because `setTimeout` overwrites the number of the
one before. `TeamSelection` keeps the cookie as a list with its copies. `TaskMonitor` has time in steps of
five seconds, so that the timeout of 5 s and the interval of 10 s are definitions the property depends on;
an answer is the number of the moment at which the server made it. The handlers of a page run one at a
time; the tabs of a browser share its cookie and their handlers do not overlap.

## 3. What the runs check

| Run | Instance | What it shows |
|---|---|---|
| `task_manager_faults` | 1 service, 1 team, 2 rounds, 2 failures, 1 crash | `NoTaskForgotten`, `FlagOnlyWithReport`, `OneVerdictPerSource`, `QueueVerdictFinal`, the refinement `LedgerSpec`, and with fair threads `EveryTaskDecided` |
| `task_manager_late` | 1 task | a violation, see section 7 |
| `checker_execution` | one task, four exit codes and an unknown one | what is reported is earned (`PlantedMeansReadBack`, `OKMeansAllPassed`); a task comes back unless something outlives `destroy` |
| `worker_manager` | 2 threads, 3 tasks | `CapacityKept`, `NoTaskWaits` short of a lost update; `EveryTaskReturns`, `KeepsAsking` |
| `get_flags` | 2 clients (symmetric) of any of 3 teams, two flags of different owners and a string that is none | a row is false (`RowsTrue`, `RowsFresh`) only for a client that met another; `AcceptedOnce`, short of a lost answer or the end of the process, and `FirstThiefPaid` in the race of mates and of rivals |
| `get_flags_own` | 2 clients that own a flag each | a violation, see section 7 |
| `scores_cache` | 3 teams, 3 flags, two of one time, a thief judged by another flag, whose victim is another thief | points are conserved, and what failures make is bounded (`PointsConserved`); a flag is paid once, to everybody in time, and in the end |
| `sla_worker` | 2 teams, 4 checks, 3 times | no check is counted twice (`NotInflated`), none is left out (`NothingLeftOut`), each arrives (`EveryCheckReached`) |
| `score_chart` | 1 score, 3 rounds, 2 times, a failed transaction, a crash | a closed round's standing counts each of its scores once (`StandingExact`), every score is shown in the end (`EveryScoreShown`), the page has the server's whole history after each answer (`ChartCurrent`) |
| `history_log` | 3 checks of 2 services, 2 scores in 2 logs, 2 times, a failed query or a restart | `LoggedOnce`, `StatusShown`, `EveryRowLogged`; an answer is exact while the rows of each log come in order (`AnswerExact`) |
| `nsaless` | an owner and 2 fellows of the checker, 2 members, 2 tweets; a put and its get with a player beside it, a check with two, or three requests of members; a connection that breaks | the refinement `FeedSpec`; every tweet arrives where it is due (`Delivered`); the checker fails an intact service only at the owner's own page (`OnlyOwnPageFails`) and always ends (`VisitEnds`) |
| `pages` | a log page with 2 filters and 3 chains of updates, 2 tabs and 2 teams, a monitor with 3 requests and 4 answers | the table ends with the filtered log (`TableFollowsLog`), unchecking the box ends all chains (`ChainsEnd`), the cookie follows the last click in any tab (`LastClickCounts`), the monitor goes back only when a click overlaps another request (`PageGoesForward`) |

Why the instances are large enough:

* A task is disturbed by the two threads, one failure and one crash; the second round shows what is
  carried over. Statuses other than `OK` are alike to the code. That a task is in one queue over
  several services, and that a reply keeps to its limit over all of them, is proved for any number
  (`OneQueue`, `IInv`) and not left to an instance.
* Three tasks on two threads are the least with a fetch after a lost update; four exit codes are the
  three the daemon names and one that it does not.
* All races in `StolenFlag` are between two clients, for a third only sees what the last writer left.
  They may be mates or rivals, owners or not, since each client's team is chosen.
* Three flags have a pair of one time, of which the sorted set keeps one, and one with two thieves, of
  whom one was judged by another flag: the sorted set may charge the owner, or the other thief. No team
  can pay a fee in full, and a thief of the first flag owns a later one. `Unit` is chosen so that every
  share is a whole number.
* One score suffices where bags are compared row by row; three rounds give one that is closed in the
  cycle that first sums it, one that is reopened, and one that is open. With two times, rounds may
  share a time or be apart.
* Three entries are the least for which the binary search goes both ways, and two times over them make
  neighbours that are equal; two logs are the least merge.
* Four checks over three times give a pair that shares a time, a pair that commits out of order,
  and a second team whose watermark is older.
* Two fellows are the least that answer in either order; two members ask, accept and tweet while a lookup
  of the other is between two connections. What players do beside a visit (`ErrandsValue`) is what can
  touch the same users, challenges and sessions; three requests of members are a request to follow, its
  acceptance and a tweet.
* Three chains of updates are one in force, one whose timer is lost, and a click's. Two tabs are the least
  that save a team twice. Three requests to the monitor are the page's and two clicks.

Bounds are constants named in each module (`MaxRound`, `MaxFaults`, `MaxRestarts`, `MaxTasks`,
`MaxLines`, `MaxTime`, `MaxFailures`, `Beside`, `MaxBroken`, `MaxLog`, `MaxChains`, `MaxRequests`,
`MaxAnswers`), and each is tested in a guard. `CHECK_DEADLOCK FALSE` stands only in `CheckerExecution`,
`WorkerManager` and `Nsaless`: there a task ends, a checker may hang, the manager's thread may die, or
the visit is over.

## 4. Properties that exclude something, and why

Several properties hold only under a condition. The condition is always a history variable that
names the event, so that everything else is covered:

* `dropped` (task manager): a failed COMMIT, an aborted transaction or a crash. The code has no
  second place to keep a verdict.
* `lost` (daemon): two threads wrote `freeThreads` at once.
* `crossed` (getflags): two clients were inside `StolenFlag` at once.
* `unheard` (getflags): a row whose answer was lost between the database and the client. `AcceptedOnce`
  says that it is then not answered later either, and that nothing else is.
* `failed` (scores, SLA): a transaction failed and the loop went on with the hashtable it had changed.
  `NoDebts`, `PaidOnce`, `TimelyThievesPaid` and `NotInflated` hold in spite of it.
* `selfStolen` (scores): a flag was paid whose owner was among its thieves. With `failed` it is the
  condition of the exact half of `PointsConserved` (`PointsKept`). The other half (`PointsBounded`) has no
  condition: each such flag makes one fee at most. What one loses is not excluded.
* `late` (scores): a theft recorded after its flag was rotten may come after its flag was paid.
* `overtaken` (SLA): a check that commits after one of its own or a later time. The watermark may
  have passed it, and then it is never counted.
* `overtaken` (rounds cache, log): a score that commits after its round was closed, and a row that
  commits behind its query's mark. The standing does not get it and the log does not show it.
* `unwritten` (rounds cache): rounds closed in a transaction that was rolled back. The process never
  writes them again, so the table has a hole; the rounds after them are complete (`EveryScoreShown`).
* `restarts = 0` (chart): after a restart of `roundsCache` the page may keep rounds from before it.
* `shuffled` (log): the database returned rows of one log out of the order of time, as it may without
  ORDER BY. The parts of the scores query come one after another and need no order between them.
* `failed` (log page): a POST has failed since the box was checked. The page has no handler for it.
* `broken` (checker of nsaless): a connection broke, and the process exits at once with a failure.
* `owed` (nsaless) leaves out a tweet whose followers were looked up before a new one was added and which
  reached the author's list after that was copied: the code promises it to nobody.
* `errored`, `outlived` (checker): an `Error`, or a process that `destroy` did not end.

## 5. Fairness

* `TaskManager`: `WF` of the round thread and of the dispatcher's own steps. Both are JVM threads that
  nothing blocks for ever: the locks are held for one step, `sleep` ends. Requests are not fair; a
  daemon may never call. Restarts and failures are not fair and are bounded.
* `WorkerManager`: `WF` of the manager and of each worker's thread. That checkers come back is an
  assumption here, and the subject of `CheckerExecution`.
* `CheckerExecution`: `WF` of the worker and of the killer, whose sleep ends. The checker is not fair: it
  may run for ever.
* `ScoresCache`, `SLAWorker`: `WF` of the process, and in `ScoresCache` of the clock. Nobody promises a restart,
  so the liveness properties allow the process to stay down.
* `ScoreChart`, `HistoryLog`: `WF` of the rounds cache's process, and of the updater's thread, which
  catches every exception. A page is not fair, for a spectator may close it.
* `Nsaless`: `WF` of the callbacks and of the commands of each connection: redis and the event loop serve
  what has come. Players are not fair. `NsalessChecker`: `WF` of the checker's own steps.
* `LogPage`: `WF` that a timer fires, that some POST reaches the server and that some answer reaches the
  page; no single POST is promised to get through. The jury's clicks and the checkers are not fair.
* `TeamSelection` and `TaskMonitor` state no liveness property and assume no fairness.
* `GetFlags` states no liveness property and assumes no fairness.

## 6. What is proved

All theorems hold for every value of the constants that satisfies the assumption named in the module.
Each proof module proves `Init => IInv` and that every action preserves `IInv`, one lemma per action or
group of actions, then draws the properties from it. TLC was asked about each `IInv` before it was proved; the runs keep the properties that are drawn from it.

* `TaskManagerProofs`: `OneVerdictPerSource` is not inductive; it needs that a decided task is in no queue,
  that a report being served found its task in `processing`, and that the round thread issues a
  task only in the round it has opened. These are `PlacesOK`, `RoundThreadOK`, `RowsOK`, `DispatcherOK`.
  `ImplementsLedger` maps every step to one of `VerdictLedger` or a stutter; the refinement mapping is
  the identity on the five ledger variables. `TasksInOneQueue` draws `OneQueue` from `PlacesOK`.
  Of the task monitor it proves `MonitorGoesForward`: the page's own request is the only one that is as
  old as the interval, because a request ends at the timeout, which is shorter; so an answer that is older
  than what the page shows belongs to a click, or a click has overtaken it (`NewerOK`).
* `DaemonProofs`: `EnoughThreads` is what `NoTaskWaits` rests on: tasks fetched and not counted
  down never exceed `freeThreads`.
  For one task, `StagesOK` ties where the worker stands to the stages that have passed.
* `GetFlagsProofs`: `AloneOK` says that a client alone in `StolenFlag` owns both statements; `FieldsOK`
  carries what it read to the row; `ScoresOK` that a score of 1 has a committed row behind it. `AnswersOK`
  says that one client at most is about to hear of a row, and that nobody has been denied it for good: with
  `AcceptedOnce` a row is answered, about to be, or `unheard`, and the index lets no second one in.
* `ScoresCacheProofs`: `WatermarkOK` and `TableOK` say that the watermark is never behind the rows, in
  memory or found again, hence a flag beyond it has no rows. `PointsOnlyMove` is about sums over all
  teams: it has lemmas of its own, that the sum of any function over a finite set exists and how it
  changes with one value, each from the least number of elements for which it would fail.
  Its exact half has the invariant `KeptIInv`: the table has one reading and the hashtable holds it
  (`TableKept`, `StateOK`), and `SharesOK` says that owner and thieves of one flag get and pay the same in
  every order. Its hypothesis `SharesWhole` says that the shares are whole numbers of `Unit`: the code has
  doubles, whose rounding is left out, and where the units were too coarse the model itself would lose a
  remainder. TLC confirms it on the instance. The other half, `PointsMadeBounded`, needs no hypothesis.
  After failures the hashtable is above the table, and the table may have two readings; the invariant
  (`BoundIInv`) has a function that is above both at every team, and whose sum is the start and one fee for
  each spoiled flag up to the watermark. A restart that goes back behind the watermark gives up what the
  hashtable had of the flags in between, so that they may fail once more and still count once.
* `SLAWorkerProofs`: the totals in memory and in each row count only checks up to their own time, and
  that time is not beyond the watermark; a query returns only what is. The converse (`NoneLeftOut`) has an
  invariant of its own, `CompleteInv`, for a process whose transactions have not failed: memory counts all
  that is due up to the watermark, and the table, for every team, all that is due up to the time of *any*
  row (`TableComplete`). That is what makes the one watermark of a restart right for the teams whose own
  last row is older, also when the process ended between a query and its commit (`Unwritten`). A check that
  commits in the order of the times is later than every time that was counted up to (`DueStays`).
* `RoundsCacheProofs`: the frontier is the least round that is still to be summed or is open. Below it
  the standings in memory are exact (`CacheOK`), a row that commits below it is overtaken (`LoopOK`), and
  so what is due to a closed round stays as it is (`DueKept`). `SumCounts` is the arithmetic: the standing
  before a round and the round's window share no row. `TableOK` says that a round is written once.
  For the chart, while `roundsCache` has not been restarted: the server's and the page's copies are rows
  the table still has, in order and without gaps, and only the last of each may have been written again
  (`CopyOK`). So the two begin alike (`SameBegin`), the server's is at least as long, and the end that a
  page asks for joins what it has to make the whole (`PageCatchesUp`).
* `SpectatorProofs`: for the logs, what a query may still return lies beyond its mark, and a row behind the
  mark was logged or has been overtaken (`CaughtUp`, `OvertakenOK`, `BatchOK`); the status that is shown is
  that of the last entry (`LastOK`, `ReadOK`). An answer is exact because the entries are in order (`OrderOK`):
  the search is proved by the window its step keeps, the merge by what it has taken, counted by positions.
  Of the scoreboard page it proves that the cookie's loop finds a team exactly if it is selected, and
  from it `SelectionFollowsClicks`.
* `NsalessProofs`: what redis holds is explained by what was asked, accepted and posted, but a command in
  `sent` or a reply in `replies` is the only witness of that while it is on its way. So `IInv` says of every
  command (`SentOK`) and reply (`RepliesOK`) what it stands for: an `add` of two users that one asked and
  the other accepted, a copied tweet that the author had, a looked-up follower who is one. The sequence
  lemmas carry such a statement over an append and a removal, and over a step of redis that only adds.
  With it every step is one of `SocialFeed` or a stutter (`ImplementsFeed`), and because the checker and
  the players only make requests the result holds of their visits too (`VisitsAreRequests`, `CheckedFeed`).
  The second half of the module is about a visit: `IntactServicePasses` proves `OnlyOwnPageFails` for any
  number of fellows and members, whatever the members ask for, and any order of the connections.
  Its invariant `VisitIInv` sees each message together with what is ahead of it on its connection (`Items`).
  The flag's way to a fellow is a chain of messages (`Asked`, `Waiting`, `Accepted`, ... `Shown`), and a fellow's
  page goes round `users.js` three times (its session, its user, the page's user) before it asks for tweets, as
  often as the copy of the flag that was begun before it. So at each round the page's message is behind
  the copy's (`ReadingSent`, `ReadingReply`), although tweets come over another connection. The rest is what
  keeps this in place: a connection carries only its module's commands (`Wired`), a visitor waits for one
  message at a time but for the two parts of its page (`OneMessage`), the challenge precedes its answer
  (`ChallengeOK`), what members do touches no visitor's hash (`TraceOK`), and the steps behind have led to
  what the next one needs (`ProgressOK`, `AnswersOK`). The owner's own page has no such message ahead of it,
  which is why the theorem leaves it out. That the visitors' sessions outlast the visit, except the
  owner's between `put` and `get`, is part of the model (`SessionEnds`): they last 5 minutes.

Only model-checked: the liveness properties (the prover has no rule for fairness and ENABLED), among them
`EveryRowLogged`, `TableFollowsLog` and `ChainsEnd`, which are all that is stated about the log page.
Every safety invariant that a passing run checks is stated by a theorem.

The theorems assume of the constants what the modules' `ASSUME`s say, and nothing else but `SharesWhole`
in `PointsOnlyMove`. That of `ScoresCache` lets the owner of a flag be a thief of it, by a row that was
judged by another flag.

## 7. Findings

1. `task_manager_late`: a report that is looked up just before the round ends is recorded after the
   same task was failed as Down, though the comment in `finishTask` (TaskManager.java:111) has late
   reports left out. The task has two rows that contradict each other.
2. `get_flags_own`: the prepared statements of `StolenFlag` are static, and a client that sends its own
   flag while another one sends a flag can be judged by the other's: "Denied: flag is your own"
   (ClientProcessor.java:123) is then not the answer, and its own flag is recorded as stolen by it.

The exclusions of section 4 are behaviours of the code too, but no text of the repository says
otherwise. So are these, met while modelling:

* the checker of nsaless reads the owner's page right after the tweet was answered, which may be before
  redis has the tweet: an intact service is then failed (`OnlyOwnPageFails` names the step);
* two paths of the checker that end a visit early throw instead: `codes` is not defined at utils.js:163,
  and `resulsts` is a misspelling at nsaless.checker.js:103. The process exits with an error either way;
* a killer of a checker's process that is just past its sleep does not hear `StopWatching` any more, and
  marks and destroys all the same (`WaitFor`);
* such a row of a client that crossed another has consequences in the score cache: the owner of a flag is
  among its thieves, is credited first and then set to its old total less the fee (Main 136-147), and has
  two rows of one time, so that points are lost, or made by a restart that reads the other one;
* an INSERT of a stolen flag that throws after its row is durable is answered "Please try again later", and
  when the client does, "Denied: you already submitted this flag" (`AnswerLost`);
* a POST of the log page that fails ends the updates, with the box checked and the button disabled.

## 8. Not modelled, and what comes next

1. The task manager composed with daemons: `CapacityKept` and `NoTaskForgotten` over lost replies.
2. The checksystem of earlier years (`main/TeamCheckThread`), mainly its delayed flags.

Left out for good: the other services and checkers (section 1), the programs of `checkers/*/exploit`, the
monitor (a view of the tables), the configuration. In the modelled components: the text of lines and
replies, logging, the UUIDs and strings of flags, the rounding of doubles in the scores, addresses and the
reconnect interval of getflags, keys and ciphers of nsaless, the routes `/` and `/signin` of nsaless (they
touch no state), what the monitor's answers list, single requests of the control panel.

Most of the repository's JavaScript is not its own: of about 32,200 lines some 30,700 are copies of
jQuery, Bootstrap, Flot and ExplorerCanvas under `scoreboard/flot`, `services/web/js` and `checkers/nsaless`.
What the repository adds is `charts.js`, `checksystem.js`, `scoreboard.js`, `taskmon.js`, the service
`nsaless` and its checker, and these are modelled. The libraries are not: the models take from jQuery only
what the pages use of it, a request with a callback.

## 9. Running it

    tlc -workers 2 -config ScoresCache.cfg MCScoresCache
    tlapm ScoresCacheProofs.tla

The largest runs are `task_manager_faults`, `nsaless`, `history_log`, `sla_worker`, `scores_cache` and
`get_flags`, one to two minutes each with two workers.
