---------------------------- MODULE TaskManager ----------------------------
(***************************************************************************)
(* The task manager of the checksystem (ructf/taskManager): the process    *)
(* that opens a round, creates one task per service and team, hands tasks  *)
(* out to checker daemons over HTTP, and writes one verdict per task into  *)
(* the table access_checks.                                                *)
(*                                                                         *)
(* Two threads share the queues.  The round thread (TaskManager.run) fails *)
(* what is left of the old round, starts the next one and sleeps.  The     *)
(* HTTP dispatcher serves getTasks and doneTask one request at a time (the *)
(* HttpServer has no executor of its own).  A synchronized block is one    *)
(* step, and so is a transaction's COMMIT.                                 *)
(*                                                                         *)
(* Abstractions.  A queue is a set: its order is the order of the teams in *)
(* the database, and no property tells two orders apart.  A task is named  *)
(* by its round, service and team instead of a UUID.  The flag strings are *)
(* left out; "flags" holds the tasks whose new flag is in the table flags. *)
(***************************************************************************)
EXTENDS Integers, FiniteSets

CONSTANTS
  Services,    \* the services of the contest
  Teams,       \* the teams of the contest
  Statuses,    \* the statuses a daemon may report (CheckerExitCode)
  MaxTasks,    \* bound: the largest maxTasks a daemon asks for
  MaxRound,    \* bound: rounds the database can open
  MaxFaults,   \* bound: failures of the database connection
  MaxRestarts  \* bound: crashes of the task manager

ASSUME ConstantsAssumption ==
  /\ "OK" \in Statuses
  /\ Services # {} /\ IsFiniteSet(Services) /\ IsFiniteSet(Teams)
  /\ MaxTasks \in Nat /\ MaxRound \in Nat
  /\ MaxFaults \in Nat /\ MaxRestarts \in Nat

VARIABLES
  newTasks,      \* [Services -> SUBSET Task]: created, not handed out
  processing,    \* [Services -> SUBSET Task]: handed out, no answer yet
  doneTasks,     \* [Services -> SUBSET Task]: answered in this round
  rpc, rtodo,    \* the round thread: where it is, services still to visit
  rcur,          \* failLeftTasks: the set holding the service being visited
  hpc, htodo,    \* the dispatcher: where it is, services still to visit
  room,          \* getTasks: how many more tasks the reply may hold
  toPut,         \* getTasks: tasks popped, not yet put into processing
  report,        \* doneTask: the set holding the report being served
  pending,       \* doneTask: rows its open transaction has inserted
  round,         \* database: MAX(n) of the table rounds
  checks,        \* database: the committed rows of access_checks
  flags,         \* database: tasks whose new flag is committed in flags
  connected,     \* DatabaseManager.internalDbConnection still works
  handed,        \* history: tasks ever popped for a daemon
  issued,        \* history: tasks ever created
  dropped,       \* history: tasks whose verdict a failure threw away
  faults, restarts  \* history: failures so far

queues == <<newTasks, processing, doneTasks>>
roundThread == <<rpc, rtodo, rcur>>
dispatcher == <<hpc, htodo, room, toPut, report, pending>>
database == <<round, checks, flags, connected>>
history == <<handed, issued, dropped, faults, restarts>>
vars == <<queues, roundThread, dispatcher, database, history>>

Rounds == 1 .. MaxRound
Task == [round: Rounds, service: Services, team: Teams]

\* Who wrote a row: the columns fail_stage and fail_comment tell.
Sources == {"report", "newTasks", "processingTasks"}

\* A row of access_checks.  "round" is what the trigger set_round stores.
\* "again" tells a second row of the same task and source from the first,
\* which a set of rows could not.
Row == [task: Task, by: Sources, status: Statuses \cup {"Down", "CheckerError"},
        round: Rounds, again: BOOLEAN]

Report == [task: Task, status: Statuses, newFlag: BOOLEAN]

NewRow(t, by, st) ==
  [task |-> t, by |-> by, status |-> st, round |-> round,
   again |-> \E row \in checks : row.task = t /\ row.by = by]

Decided == {row.task : row \in checks}

Init ==
  /\ newTasks = [s \in Services |-> {}]
  /\ processing = [s \in Services |-> {}]
  /\ doneTasks = [s \in Services |-> {}]
  /\ rpc = "failLeftTasks" /\ rtodo = {} /\ rcur = {}
  /\ hpc = "idle" /\ htodo = {} /\ room = 0 /\ toPut = {}
  /\ report = {} /\ pending = {}
  /\ round = 0 /\ checks = {} /\ flags = {} /\ connected = TRUE
  /\ handed = {} /\ issued = {} /\ dropped = {}
  /\ faults = 0 /\ restarts = 0

Fault == faults < MaxFaults /\ faults' = faults + 1

(***************************************************************************)
(* The round thread.                                                       *)
(***************************************************************************)

\* failLeftTasks opens its connection; an exception ends up in run's catch.
FailLeftTasks ==
  /\ rpc = "failLeftTasks"
  /\ \/ rpc' = "failNew" /\ rtodo' = Services /\ UNCHANGED faults
     \/ rpc' = "recover" /\ UNCHANGED rtodo /\ Fault
  /\ UNCHANGED <<rcur, queues, dispatcher, database,
                 handed, issued, dropped, restarts>>

\* The rows of one synchronized block and its COMMIT.  "silent": an INSERT
\* failed, Insert swallowed the exception, and the aborted transaction's
\* COMMIT keeps nothing.  "thrown": the COMMIT itself threw.
Outcomes == {"committed", "silent", "thrown"}

RecordTimeouts(T, by, st, outcome) ==
  IF outcome = "committed"
  THEN /\ checks' = checks \cup {NewRow(t, by, st) : t \in T}
       /\ UNCHANGED <<dropped, faults>>
  ELSE /\ dropped' = dropped \cup T
       /\ Fault
       /\ UNCHANGED checks

\* Mutant: the queue is walked but not cleared.
NotCleared(q, s) == q

Cleared(q, s) == [q EXCEPT ![s] = {}]

FailNew(s, outcome) ==
  /\ rpc = "failNew"
  /\ RecordTimeouts(newTasks[s], "newTasks", "CheckerError", outcome)
  /\ newTasks' = Cleared(newTasks, s)
  /\ rpc' = IF outcome = "thrown" THEN "recover" ELSE "failProcessing"
  /\ rtodo' = rtodo \ {s} /\ rcur' = {s}
  /\ UNCHANGED <<processing, doneTasks, dispatcher, round, flags, connected,
                 handed, issued, restarts>>

FailProcessing(s, outcome) ==
  /\ rpc = "failProcessing"
  /\ RecordTimeouts(processing[s], "processingTasks", "Down", outcome)
  /\ processing' = Cleared(processing, s)
  /\ rpc' = IF outcome = "thrown" THEN "recover" ELSE "clearDone"
  /\ UNCHANGED <<rtodo, rcur, newTasks, doneTasks, dispatcher, round, flags,
                 connected, handed, issued, restarts>>

\* After the last service the connection is closed, which may throw too.
ClearDone(s) ==
  /\ rpc = "clearDone"
  /\ doneTasks' = Cleared(doneTasks, s)
  /\ rcur' = {}
  /\ \/ /\ rpc' = IF rtodo = {} THEN "startNextRound" ELSE "failNew"
        /\ UNCHANGED faults
     \/ rtodo = {} /\ rpc' = "recover" /\ Fault
  /\ UNCHANGED <<rtodo, newTasks, processing, dispatcher, database,
                 handed, issued, dropped, restarts>>

\* INSERT of MAX(n)+1, then SELECT MAX(n), each a transaction of its own on
\* the one connection opened when the process started.
StartNextRound ==
  /\ rpc = "startNextRound"
  /\ connected /\ round < MaxRound
  /\ round' = round + 1
  /\ \/ /\ rpc' = "regenerateTasks"
        /\ UNCHANGED connected /\ UNCHANGED faults
     \/ rpc' = "recover" /\ connected' \in BOOLEAN /\ Fault
  /\ UNCHANGED <<rtodo, rcur, queues, dispatcher, checks, flags,
                 handed, issued, dropped, restarts>>

\* A lost internalDbConnection is never opened again.  The last round of an
\* instance ends the same way, so that MaxRound does not stop the thread.
StartNextRoundFails ==
  /\ rpc = "startNextRound"
  /\ rpc' = "recover"
  /\ \/ /\ ~connected \/ round = MaxRound
        /\ UNCHANGED connected /\ UNCHANGED faults
     \/ connected /\ connected' \in BOOLEAN /\ Fault
  /\ UNCHANGED <<rtodo, rcur, queues, dispatcher, round, checks, flags,
                 handed, issued, dropped, restarts>>

RegenerateTasks ==
  /\ rpc = "regenerateTasks"
  /\ \/ rpc' = "addTasks" /\ rtodo' = Services /\ UNCHANGED faults
     \/ rpc' = "recover" /\ UNCHANGED rtodo /\ Fault
  /\ UNCHANGED <<rcur, queues, dispatcher, database,
                 handed, issued, dropped, restarts>>

\* Mutant: the tasks keep the number of the first round.
FirstRoundTasks(s) ==
  {[round |-> 1, service |-> s, team |-> tm] : tm \in Teams}

RoundTasks(s) ==
  {[round |-> round, service |-> s, team |-> tm] : tm \in Teams}

\* One task per team, under the lock of the service's queue.
AddTasks(s) ==
  /\ rpc = "addTasks"
  /\ newTasks' = [newTasks EXCEPT ![s] = @ \cup RoundTasks(s)]
  /\ issued' = issued \cup RoundTasks(s)
  /\ rtodo' = rtodo \ {s}
  /\ \/ /\ rpc' = IF rtodo = {s} THEN "sleep" ELSE rpc
        /\ UNCHANGED faults
     \/ rtodo = {s} /\ rpc' = "recover" /\ Fault
  /\ UNCHANGED <<rcur, processing, doneTasks, dispatcher, database,
                 handed, dropped, restarts>>

\* Mutant: an exception ends the thread.
SleepOver == rpc = "sleep"

\* roundLength has passed, or the ten seconds after an exception.
Awake == rpc \in {"sleep", "recover"}

WakeUp ==
  /\ Awake
  /\ rpc' = "failLeftTasks" /\ rtodo' = {} /\ rcur' = {}
  /\ UNCHANGED <<queues, dispatcher, database, history>>

RoundThread ==
  \/ FailLeftTasks
  \/ \E s \in rtodo, outcome \in Outcomes : FailNew(s, outcome)
  \/ \E s \in rcur, outcome \in Outcomes : FailProcessing(s, outcome)
  \/ \E s \in rcur : ClearDone(s)
  \/ StartNextRound
  \/ StartNextRoundFails
  \/ RegenerateTasks
  \/ \E s \in rtodo : AddTasks(s)
  \/ WakeUp

(***************************************************************************)
(* The HTTP dispatcher.  A reply that never reaches its daemon is a        *)
(* behaviour in which the tasks handed out are never reported; a request   *)
(* the HTTP client repeats is a second GetTasks or DoneTask.  Requests the *)
(* handlers refuse before they reach the TaskManager change nothing.       *)
(***************************************************************************)

GetTasks(S, maxCount) ==
  /\ hpc = "idle"
  /\ hpc' = "getTasks" /\ htodo' = S /\ room' = maxCount
  /\ UNCHANGED <<toPut, report, pending, queues, roundThread, database,
                 history>>

\* The tasks one queue may give, up to maxCount over all the queues.
Poppable(s) ==
  LET n == Cardinality(newTasks[s]) IN
  {T \in SUBSET newTasks[s] : Cardinality(T) = IF n < room THEN n ELSE room}

\* Mutant: the tasks are read with get() instead of remove(0).
Peeked(s, T) == newTasks

Popped(s, T) == [newTasks EXCEPT ![s] = @ \ T]

PopTasks(s) ==
  /\ hpc = "getTasks"
  /\ \E T \in Poppable(s) :
       /\ newTasks' = Popped(s, T)
       /\ toPut' = toPut \cup T
       /\ handed' = handed \cup T
       /\ room' = room - Cardinality(T)
  /\ htodo' = htodo \ {s}
  /\ UNCHANGED <<hpc, report, pending, processing, doneTasks, roundThread,
                 database, issued, dropped, faults, restarts>>

\* Mutant: the map is replaced instead of extended.
PutAlone(t) == [processing EXCEPT ![t.service] = {t}]

Put(t) == [processing EXCEPT ![t.service] = @ \cup {t}]

\* Between the two loops of getTasks a task is in no queue at all.
PutTask(t) ==
  /\ hpc = "getTasks" /\ htodo = {}
  /\ processing' = Put(t)
  /\ toPut' = toPut \ {t}
  /\ UNCHANGED <<hpc, htodo, room, report, pending, newTasks, doneTasks,
                 roundThread, database, history>>

ReplyTasks ==
  /\ hpc = "getTasks" /\ htodo = {} /\ toPut = {}
  /\ hpc' = "idle" /\ room' = 0
  /\ UNCHANGED <<htodo, toPut, report, pending, queues, roundThread, database,
                 history>>

\* finishTask looks the task up in the processing map of every service.
Found(t) == \E s \in Services : t \in processing[s]

\* The handler refuses a verdict that contradicts both successes; a task that
\* is found stays in processing for the time being.
DoneTask(t, st, newFlag, randomFlag) ==
  /\ hpc = "idle"
  /\ ~(newFlag /\ randomFlag /\ st # "OK")
  /\ Found(t)
  /\ hpc' = "finishTask"
  /\ report' = {[task |-> t, status |-> st, newFlag |-> newFlag]}
  /\ UNCHANGED <<htodo, room, toPut, pending, queues, roundThread, database,
                 history>>

\* The connection of finishTask cannot be opened: the reply is an error and
\* the task stays in processing.
FinishConnectFails ==
  /\ hpc = "finishTask"
  /\ hpc' = "idle" /\ report' = {}
  /\ Fault
  /\ UNCHANGED <<htodo, room, toPut, pending, queues, roundThread, database,
                 handed, issued, dropped, restarts>>

\* INSERT the flag and the access check.  A failure is swallowed, and leaves
\* a transaction that can only be rolled back.
FinishInsert(m) ==
  /\ hpc = "finishTask"
  /\ hpc' = "removeTask"
  /\ \/ pending' = {NewRow(m.task, "report", m.status)} /\ UNCHANGED faults
     \/ UNCHANGED pending /\ Fault
  /\ UNCHANGED <<htodo, room, toPut, report, queues, roundThread, database,
                 handed, issued, dropped, restarts>>

FinishRemove(m) ==
  /\ hpc = "removeTask"
  /\ hpc' = "addDone"
  /\ processing' = [processing EXCEPT ![m.task.service] = @ \ {m.task}]
  /\ UNCHANGED <<htodo, room, toPut, report, pending, newTasks, doneTasks,
                 roundThread, database, history>>

FinishAddDone(m) ==
  /\ hpc = "addDone"
  /\ hpc' = "commit"
  /\ doneTasks' = [doneTasks EXCEPT ![m.task.service] = @ \cup {m.task}]
  /\ UNCHANGED <<htodo, room, toPut, report, pending, newTasks, processing,
                 roundThread, database, history>>

\* Mutant: the flag is inserted outside the transaction.
FlagAutocommitted(m) == UNCHANGED checks /\ flags' = flags \cup {m.task}

RolledBack(m) == UNCHANGED <<checks, flags>>

FinishCommit(m) ==
  /\ hpc = "commit"
  /\ hpc' = "idle" /\ report' = {} /\ pending' = {}
  /\ \/ /\ pending # {}
        /\ checks' = checks \cup pending
        /\ flags' = IF m.newFlag THEN flags \cup {m.task} ELSE flags
        /\ UNCHANGED <<dropped, faults>>
     \/ /\ \/ pending = {} /\ UNCHANGED faults
           \/ Fault
        /\ RolledBack(m)
        /\ dropped' = dropped \cup {m.task}
  /\ UNCHANGED <<htodo, room, toPut, queues, roundThread, round, connected,
                 handed, issued, restarts>>

\* What the dispatcher does on its own once a request is in.
Serve ==
  \/ \E s \in htodo : PopTasks(s)
  \/ \E t \in toPut : PutTask(t)
  \/ ReplyTasks
  \/ FinishConnectFails
  \/ \E m \in report : \/ FinishInsert(m) \/ FinishRemove(m)
                       \/ FinishAddDone(m) \/ FinishCommit(m)

\* What daemons send.
Request ==
  \/ \E S \in SUBSET Services, n \in 0 .. MaxTasks : GetTasks(S, n)
  \/ \E t \in handed, st \in Statuses, nf, rf \in BOOLEAN :
       DoneTask(t, st, nf, rf)

(***************************************************************************)
(* The process dies and is started again: the queues were only in memory,  *)
(* and an open transaction is rolled back.                                 *)
(***************************************************************************)
Restart ==
  /\ restarts < MaxRestarts
  /\ restarts' = restarts + 1
  /\ newTasks' = [s \in Services |-> {}]
  /\ processing' = [s \in Services |-> {}]
  /\ doneTasks' = [s \in Services |-> {}]
  /\ rpc' = "failLeftTasks" /\ rtodo' = {} /\ rcur' = {}
  /\ hpc' = "idle" /\ htodo' = {} /\ room' = 0 /\ toPut' = {}
  /\ report' = {} /\ pending' = {}
  /\ connected' = TRUE
  /\ dropped' = dropped \cup (issued \ Decided)
  /\ UNCHANGED <<round, checks, flags, handed, issued, faults>>

Next == RoundThread \/ Serve \/ Request \/ Restart

Spec == Init /\ [][Next]_vars

\* Both threads run: a thread that can take a step is not starved for ever.
\* Nothing is assumed of the daemons, nor of crashes.
FairSpec == Spec /\ WF_vars(RoundThread) /\ WF_vars(Serve)

-----------------------------------------------------------------------------

TypeOK ==
  /\ newTasks \in [Services -> SUBSET Task]
  /\ processing \in [Services -> SUBSET Task]
  /\ doneTasks \in [Services -> SUBSET Task]
  /\ rpc \in {"failLeftTasks", "failNew", "failProcessing", "clearDone",
              "startNextRound", "regenerateTasks", "addTasks", "sleep",
              "recover"}
  /\ rtodo \subseteq Services /\ rcur \subseteq Services
  /\ hpc \in {"idle", "getTasks", "finishTask", "removeTask", "addDone",
              "commit"}
  /\ htodo \subseteq Services /\ room \in Nat /\ toPut \subseteq Task
  /\ report \subseteq Report /\ pending \subseteq Row
  /\ round \in 0 .. MaxRound
  /\ checks \subseteq Row /\ flags \subseteq Task /\ connected \in BOOLEAN
  /\ handed \subseteq Task /\ issued \subseteq Task /\ dropped \subseteq Task
  /\ faults \in 0 .. MaxFaults /\ restarts \in 0 .. MaxRestarts

Waiting(t) == t \in newTasks[t.service] \cup processing[t.service] \cup toPut

InFlight == {m.task : m \in report}

\* A task never waits in two places: getTasks moves it from newTasks through
\* its local list into processing, while failLeftTasks empties the queues
\* under the same locks and regenerateTasks fills them (TaskManager 65-95,
\* 156-221).
OneQueue ==
  /\ \A s1, s2 \in Services : newTasks[s1] \cap processing[s2] = {}
  /\ \A s \in Services : toPut \cap (newTasks[s] \cup processing[s]) = {}
  /\ \A s1, s2 \in Services : s1 # s2 =>
       /\ newTasks[s1] \cap newTasks[s2] = {}
       /\ processing[s1] \cap processing[s2] = {}

\* No task is forgotten: one that was created is waiting, being answered, or
\* decided in the database, unless a failure threw its verdict away.  The
\* race of the two threads alone never loses a task.
NoTaskForgotten ==
  \A t \in issued : Waiting(t) \/ t \in InFlight \cup Decided \cup dropped

\* However often a daemon repeats its report and however often the round
\* thread starts over, a task gets at most one row from its report and at
\* most one from a timeout (finishTask 97-154, failLeftTasks 156-195).
OneVerdictPerSource ==
  /\ \A row \in checks : ~row.again
  /\ \A r1, r2 \in checks :
       r1.task = r2.task /\ (r1.by = "report" <=> r2.by = "report") => r1 = r2

\* The verdict "In newTasks queue" is final and just: the task was never
\* handed out, has no other row and no flag, and the row is stored in the
\* round the task was made for (failLeftTasks 165-172).
QueueVerdictFinal ==
  \A row \in checks : row.by = "newTasks" =>
    /\ row.task \notin handed
    /\ row.task \notin flags
    /\ row.round = row.task.round
    /\ \A other \in checks : other.task = row.task => other = row

\* A flag is never worth points without the check that planted it: both rows
\* are one transaction, even though either INSERT may fail unnoticed
\* (finishTask 120-150).
FlagOnlyWithReport ==
  \A t \in flags : \E row \in checks : row.task = t /\ row.by = "report"

\* The threads, queues and connections together keep the promise of
\* VerdictLedger: every step of the task manager is one of its steps.
Ledger == INSTANCE VerdictLedger WITH
  issued <- issued, handed <- handed, checks <- checks, flags <- flags,
  dropped <- dropped
LedgerSpec == Ledger!Spec

\* What the comment in finishTask says of a daemon that comes too late (line
\* 111: the task is no longer in processing): its report is left out.
LateReportIgnored ==
  [][\A row \in checks' \ checks : row.by = "report" =>
       ~\E old \in checks : old.task = row.task /\ old.by = "processingTasks"
    ]_vars

\* Every task is decided in the end, whatever the daemons do, unless a
\* failure threw its verdict away (run 43-63).
EveryTaskDecided ==
  \A t \in Task : t \in issued ~> t \in Decided \cup dropped

(***************************************************************************)
(* The inductive invariant: what each thread may rely on between its       *)
(* synchronized blocks.                                                    *)
(***************************************************************************)

FiniteQueues == \A s \in Services : IsFiniteSet(newTasks[s])

\* Where tasks wait, and that regenerateTasks makes each of them once.
PlacesOK ==
  /\ \A s \in Services :
       /\ \A t \in newTasks[s] \cup processing[s] : t.service = s
       /\ newTasks[s] \subseteq issued \ handed
       /\ \A t \in newTasks[s] : t.round = round
       /\ processing[s] \subseteq handed \ toPut
  /\ toPut \subseteq handed
  /\ handed \subseteq issued
  /\ \A t \in issued : t.round <= round

RoundThreadOK ==
  /\ rpc \in {"failNew", "failProcessing", "clearDone", "startNextRound"} =>
       \A s \in Services \ rtodo : newTasks[s] = {}
  /\ rpc = "startNextRound" => rtodo = {}
  /\ rpc \in {"regenerateTasks", "addTasks"} => round \in Rounds
  /\ rpc = "regenerateTasks" => \A t \in issued : t.round # round
  /\ rpc = "addTasks" =>
       \A t \in issued : t.round = round => t.service \notin rtodo

RowsOK ==
  /\ OneVerdictPerSource
  /\ \A row \in checks :
       /\ row.task \in issued
       /\ row.by = "newTasks" =>
            /\ row.task.round = row.round
            /\ row.task \notin handed
            /\ \A s \in Services : row.task \notin newTasks[s]
       /\ row.by # "newTasks" =>
            /\ row.task \in handed \ toPut
            /\ \A s \in Services : row.task \notin processing[s]

DispatcherOK ==
  /\ hpc # "getTasks" => toPut = {}
  /\ hpc \in {"idle", "getTasks"} => report = {}
  /\ hpc \notin {"addDone", "commit", "removeTask"} => pending = {}
  /\ \A m1, m2 \in report : m1 = m2
  /\ \A m \in report :
       /\ m.task \in handed
       /\ \A row \in checks : row.task = m.task => row.by # "report"
       /\ hpc = "finishTask" =>
            m.task \in processing[m.task.service] \cup Decided \cup dropped
       /\ hpc \in {"addDone", "commit"} =>
            \A s \in Services : m.task \notin processing[s]
  /\ \A p1, p2 \in pending : p1 = p2
  /\ \A p \in pending :
       /\ p.by = "report" /\ ~p.again
       /\ \A m \in report : p.task = m.task /\ p.status = m.status
       /\ report # {}

IInv ==
  /\ TypeOK
  /\ FiniteQueues /\ PlacesOK /\ RoundThreadOK /\ RowsOK /\ DispatcherOK
  /\ NoTaskForgotten /\ FlagOnlyWithReport
=============================================================================
