------------------------- MODULE TaskManagerProofs -------------------------
(***************************************************************************)
(* What is proved of TaskManager for all services, teams, statuses and     *)
(* bounds: IInv is inductive, and with it every safety property the runs   *)
(* check, and that the task manager implements VerdictLedger.              *)
(* And of the page that shows its queues, TaskMonitor: what its own        *)
(* requests find it never takes back.                                      *)
(***************************************************************************)
EXTENDS TaskManager, TaskMonitor, FunctionTheorems, FiniteSetTheorems,
        SequenceTheorems, TLAPS

\* A row written for a task of this round or an earlier one is well formed.
LEMMA NewRowTyped ==
  ASSUME TypeOK, NEW t \in Task, t.round <= round,
         NEW by \in Sources, NEW st \in Statuses \cup {"Down", "CheckerError"}
  PROVE  NewRow(t, by, st) \in Row
BY DEF TypeOK, NewRow, Row, Task, Rounds

\* What failLeftTasks leaves in the database when it fails the tasks T: new
\* rows of T only, and every task of T decided or dropped.
Recorded(T, by, st) ==
  /\ checks' \subseteq Row /\ dropped' \subseteq Task
  /\ faults' \in 0 .. MaxFaults
  /\ checks \subseteq checks' /\ dropped \subseteq dropped'
  /\ \A row \in checks' \ checks :
       /\ row.task \in T /\ row.by = by /\ row.round = round
       /\ row = NewRow(row.task, by, st)
  /\ T \subseteq Decided' \cup dropped'

LEMMA TimeoutsRecorded ==
  ASSUME TypeOK, PlacesOK, NEW T \in SUBSET issued, NEW by \in Sources,
         NEW st \in {"Down", "CheckerError"}, NEW outcome \in Outcomes,
         RecordTimeouts(T, by, st, outcome)
  PROVE  Recorded(T, by, st)
<1> USE DEF Recorded
<1>1. CASE outcome = "committed"
  <2>1. checks' = checks \cup {NewRow(t, by, st) : t \in T}
    BY <1>1 DEF RecordTimeouts
  <2>2. \A t \in T : NewRow(t, by, st) \in Row
    BY NewRowTyped DEF TypeOK, PlacesOK
  <2>3. \A t \in T : /\ NewRow(t, by, st).task = t
                     /\ NewRow(t, by, st).by = by
                     /\ NewRow(t, by, st).round = round
    BY DEF NewRow
  <2>4. T \subseteq Decided'
    BY <2>1, <2>3 DEF Decided
  <2> QED
    BY <1>1, <2>1, <2>2, <2>3, <2>4 DEF RecordTimeouts, TypeOK
<1>2. CASE outcome # "committed"
  BY <1>2, ConstantsAssumption DEF RecordTimeouts, Fault, TypeOK
<1> QED
  BY <1>1, <1>2

\* The tasks of one service are as many as there are teams.
LEMMA RoundTasksFinite ==
  ASSUME NEW r, NEW s
  PROVE  IsFiniteSet({[round |-> r, service |-> s, team |-> tm] : tm \in Teams})
<1> DEFINE T == {[round |-> r, service |-> s, team |-> tm] : tm \in Teams}
           f == [tm \in Teams |-> [round |-> r, service |-> s, team |-> tm]]
<1>1. f \in Surjection(Teams, T)
  BY DEF Surjection
<1> QED
  BY <1>1, FS_Surjection, ConstantsAssumption DEF ExistsSurjection

\* The connection of failLeftTasks opens, or does not.
LEMMA FailLeftTasksStep ==
  ASSUME IInv, FailLeftTasks
  PROVE  IInv'
<1> USE DEF IInv, FailLeftTasks, queues, dispatcher, database, Fault
<1>1. TypeOK'
  BY ConstantsAssumption DEF TypeOK
<1>2. RoundThreadOK'
  BY DEF RoundThreadOK, TypeOK, PlacesOK
<1>3. /\ FiniteQueues' /\ PlacesOK' /\ RowsOK' /\ DispatcherOK'
      /\ NoTaskForgotten' /\ FlagOnlyWithReport'
  BY DEF FiniteQueues, PlacesOK, RowsOK, OneVerdictPerSource, DispatcherOK,
         Decided, NoTaskForgotten, Waiting, InFlight, FlagOnlyWithReport
<1> QED
  BY <1>1, <1>2, <1>3

\* The new tasks of a service are failed and their queue emptied.
LEMMA FailNewStep ==
  ASSUME IInv, NEW s \in rtodo, NEW outcome \in Outcomes, FailNew(s, outcome)
  PROVE  IInv'
<1> USE DEF IInv, FailNew, Cleared, dispatcher
<1>1. Recorded(newTasks[s], "newTasks", "CheckerError")
  BY TimeoutsRecorded DEF PlacesOK, TypeOK, Sources
<1>2. TypeOK'
  BY <1>1 DEF Recorded, TypeOK
<1>3. FiniteQueues'
  BY FS_EmptySet DEF FiniteQueues, TypeOK
<1>4. PlacesOK'
  BY DEF PlacesOK, TypeOK
<1>5. RoundThreadOK'
  BY DEF RoundThreadOK, TypeOK, PlacesOK
<1>6. RowsOK'
  <2>1. \A row \in checks' \ checks : ~row.again
    BY <1>1 DEF Recorded, NewRow, RowsOK, TypeOK
  <2>2. \A row \in checks' \ checks, old \in checks :
          row.task = old.task => old.by = "report" /\ FALSE
    BY <1>1 DEF Recorded, RowsOK, TypeOK, PlacesOK, Row, Sources
  <2>3. \A r1, r2 \in checks' \ checks : r1.task = r2.task => r1 = r2
    BY <1>1 DEF Recorded
  <2>4. OneVerdictPerSource'
    BY <2>1, <2>2, <2>3 DEF RowsOK, OneVerdictPerSource
  <2> QED
    BY <1>1, <2>4 DEF Recorded, RowsOK, TypeOK, PlacesOK
<1>7. DispatcherOK'
  <2>1. \A row \in checks' \ checks : row.by # "report"
    BY <1>1 DEF Recorded
  <2>2. Decided \cup dropped \subseteq Decided' \cup dropped'
    BY <1>1 DEF Recorded, Decided
  <2> QED
    BY <1>1, <2>1, <2>2 DEF Recorded, DispatcherOK, TypeOK, Report, PlacesOK
<1>8. NoTaskForgotten'
  <2>1. Decided \cup dropped \subseteq Decided' \cup dropped'
    BY <1>1 DEF Recorded, Decided
  <2> QED
    BY <1>1, <2>1
    DEF Recorded, NoTaskForgotten, Waiting, InFlight, TypeOK, PlacesOK, Task
<1>9. FlagOnlyWithReport'
  BY <1>1 DEF Recorded, FlagOnlyWithReport
<1> QED
  BY <1>1, <1>2, <1>3, <1>4, <1>5, <1>6, <1>7, <1>8, <1>9

\* The tasks in processing of a service are failed and removed.
LEMMA FailProcessingStep ==
  ASSUME IInv, NEW s \in rcur, NEW outcome \in Outcomes,
         FailProcessing(s, outcome)
  PROVE  IInv'
<1> USE DEF IInv, FailProcessing, Cleared, dispatcher
<1>1. Recorded(processing[s], "processingTasks", "Down")
  BY TimeoutsRecorded DEF PlacesOK, TypeOK, Sources
<1>2. TypeOK'
  BY <1>1 DEF Recorded, TypeOK
<1>3. PlacesOK'
  BY DEF PlacesOK, TypeOK
<1>4. RoundThreadOK'
  BY DEF RoundThreadOK, TypeOK, PlacesOK
<1>5. RowsOK'
  <2>1. \A row \in checks' \ checks : ~row.again
    BY <1>1 DEF Recorded, NewRow, RowsOK, TypeOK
  <2>2. \A row \in checks' \ checks, old \in checks :
          row.task = old.task => old.by = "report" /\ FALSE
    BY <1>1 DEF Recorded, RowsOK, TypeOK, PlacesOK, Row, Sources
  <2>3. \A r1, r2 \in checks' \ checks : r1.task = r2.task => r1 = r2
    BY <1>1 DEF Recorded
  <2>4. OneVerdictPerSource'
    BY <2>1, <2>2, <2>3 DEF RowsOK, OneVerdictPerSource
  <2> QED
    BY <1>1, <2>4 DEF Recorded, RowsOK, TypeOK, PlacesOK
<1>6. DispatcherOK'
  <2>1. \A row \in checks' \ checks : row.by # "report"
    BY <1>1 DEF Recorded
  <2>2. Decided \cup dropped \subseteq Decided' \cup dropped'
    BY <1>1 DEF Recorded, Decided
  <2> QED
    BY <1>1, <2>1, <2>2 DEF Recorded, DispatcherOK, TypeOK, Report, PlacesOK
<1>7. NoTaskForgotten'
  <2>1. Decided \cup dropped \subseteq Decided' \cup dropped'
    BY <1>1 DEF Recorded, Decided
  <2> QED
    BY <1>1, <2>1
    DEF Recorded, NoTaskForgotten, Waiting, InFlight, TypeOK, PlacesOK, Task
<1>8. FlagOnlyWithReport'
  BY <1>1 DEF Recorded, FlagOnlyWithReport
<1>9. FiniteQueues'
  BY DEF FiniteQueues
<1> QED
  BY <1>1, <1>2, <1>3, <1>4, <1>5, <1>6, <1>7, <1>8, <1>9

\* The done tasks of a service are forgotten.
LEMMA ClearDoneStep ==
  ASSUME IInv, NEW s \in rcur, ClearDone(s)
  PROVE  IInv'
<1> USE DEF IInv, ClearDone, Cleared, dispatcher, database, Fault
<1>1. TypeOK'
  BY ConstantsAssumption DEF TypeOK
<1>2. RoundThreadOK'
  BY DEF RoundThreadOK, TypeOK, PlacesOK
<1>3. /\ FiniteQueues' /\ PlacesOK' /\ RowsOK' /\ DispatcherOK'
      /\ NoTaskForgotten' /\ FlagOnlyWithReport'
  BY DEF FiniteQueues, PlacesOK, RowsOK, OneVerdictPerSource, DispatcherOK,
         Decided, NoTaskForgotten, Waiting, InFlight, FlagOnlyWithReport
<1> QED
  BY <1>1, <1>2, <1>3

\* No task carries the number of the round that opens.
LEMMA StartNextRoundStep ==
  ASSUME IInv, StartNextRound
  PROVE  IInv'
<1> USE DEF IInv, StartNextRound, queues, dispatcher, Fault
<1>1. TypeOK'
  <2>1. round' \in 0 .. MaxRound
    BY ConstantsAssumption DEF TypeOK
  <2>2. faults' = faults \/ (faults < MaxFaults /\ faults' = faults + 1)
    BY Zenon
  <2>3. faults' \in 0 .. MaxFaults
    BY <2>2, ConstantsAssumption DEF TypeOK
  <2>4. connected' \in BOOLEAN
    BY DEF TypeOK
  <2> QED
    BY <2>1, <2>3, <2>4 DEF TypeOK
<1>2. PlacesOK'
  <2>1. \A s \in Services : newTasks[s] = {}
    BY DEF RoundThreadOK
  <2>2. \A t \in issued : t.round <= round + 1
    BY DEF PlacesOK, TypeOK, Task, Rounds
  <2> QED
    BY <2>1, <2>2 DEF PlacesOK
<1>3. RoundThreadOK'
  <2>1. round' \in Rounds
    BY ConstantsAssumption DEF TypeOK, Rounds
  <2>2. \A t \in issued : t.round # round + 1
    BY DEF PlacesOK, TypeOK, Task, Rounds
  <2> QED
    BY <2>1, <2>2 DEF RoundThreadOK
<1>4. /\ FiniteQueues' /\ RowsOK' /\ DispatcherOK' /\ NoTaskForgotten'
      /\ FlagOnlyWithReport'
  BY DEF FiniteQueues, RowsOK, OneVerdictPerSource, DispatcherOK, Decided,
         NoTaskForgotten, Waiting, InFlight, FlagOnlyWithReport
<1> QED
  BY <1>1, <1>2, <1>3, <1>4

\* No round opens: nothing but the round thread moves.
LEMMA StartNextRoundFailsStep ==
  ASSUME IInv, StartNextRoundFails
  PROVE  IInv'
<1> USE DEF IInv, StartNextRoundFails, queues, dispatcher, Fault
<1>1. TypeOK'
  BY ConstantsAssumption DEF TypeOK
<1>2. RoundThreadOK'
  BY DEF RoundThreadOK, TypeOK, PlacesOK
<1>3. /\ FiniteQueues' /\ PlacesOK' /\ RowsOK' /\ DispatcherOK'
      /\ NoTaskForgotten' /\ FlagOnlyWithReport'
  BY DEF FiniteQueues, PlacesOK, RowsOK, OneVerdictPerSource, DispatcherOK,
         Decided, NoTaskForgotten, Waiting, InFlight, FlagOnlyWithReport
<1> QED
  BY <1>1, <1>2, <1>3

\* The connection of regenerateTasks opens, or does not.
LEMMA RegenerateTasksStep ==
  ASSUME IInv, RegenerateTasks
  PROVE  IInv'
<1> USE DEF IInv, RegenerateTasks, queues, dispatcher, database, Fault
<1>1. TypeOK'
  BY ConstantsAssumption DEF TypeOK
<1>2. RoundThreadOK'
  BY DEF RoundThreadOK, TypeOK, PlacesOK
<1>3. /\ FiniteQueues' /\ PlacesOK' /\ RowsOK' /\ DispatcherOK'
      /\ NoTaskForgotten' /\ FlagOnlyWithReport'
  BY DEF FiniteQueues, PlacesOK, RowsOK, OneVerdictPerSource, DispatcherOK,
         Decided, NoTaskForgotten, Waiting, InFlight, FlagOnlyWithReport
<1> QED
  BY <1>1, <1>2, <1>3

\* The tasks made for a service are new.
LEMMA AddTasksStep ==
  ASSUME IInv, NEW s \in rtodo, AddTasks(s)
  PROVE  IInv'
<1> USE DEF IInv, AddTasks, RoundTasks, dispatcher, database, Fault
<1>1. \A tm \in Teams : [round |-> round, service |-> s, team |-> tm] \in Task
  BY DEF RoundThreadOK, TypeOK, Task
<1>2. \A tm \in Teams :
         [round |-> round, service |-> s, team |-> tm] \notin issued
  BY DEF RoundThreadOK
<1>3. TypeOK'
  <2>1. newTasks' \in [Services -> SUBSET Task] /\ issued' \subseteq Task
    BY <1>1 DEF TypeOK
  <2>2. faults' \in 0 .. MaxFaults
    BY ConstantsAssumption DEF TypeOK
  <2> QED
    BY <2>1, <2>2 DEF TypeOK
<1>4. FiniteQueues'
  <2> DEFINE T == RoundTasks(s)
  <2>1. IsFiniteSet(T)
    BY RoundTasksFinite DEF RoundTasks
  <2>2. newTasks' = [newTasks EXCEPT ![s] = newTasks[s] \cup T]
    OBVIOUS
  <2> HIDE DEF T
  <2>3. IsFiniteSet(newTasks[s])
    BY DEF FiniteQueues, TypeOK
  <2>4. IsFiniteSet(newTasks[s] \cup T)
    BY <2>1, <2>3, FS_Union
  <2> QED
    BY <2>2, <2>4 DEF FiniteQueues, TypeOK
<1>5. PlacesOK'
  <2>1. \A t \in issued' : t.round <= round
    BY DEF PlacesOK, TypeOK
  <2>2. \A q \in Services : \A t \in newTasks'[q] : t \in newTasks[q]
          \/ (q = s /\ t \in issued' \ issued /\ t.service = s /\ t.round = round)
    BY <1>2 DEF TypeOK
  <2> QED
    BY <2>1, <2>2 DEF PlacesOK, TypeOK
<1>6. RoundThreadOK'
  BY DEF RoundThreadOK, TypeOK, PlacesOK
<1>7. RowsOK'
  BY <1>2 DEF RowsOK, OneVerdictPerSource, PlacesOK, TypeOK
<1>8. NoTaskForgotten'
  BY DEF NoTaskForgotten, Waiting, InFlight, Decided, PlacesOK,
         DispatcherOK, TypeOK
<1>9. DispatcherOK' /\ FlagOnlyWithReport'
  BY DEF DispatcherOK, Decided, FlagOnlyWithReport
<1> QED
  BY <1>1, <1>2, <1>3, <1>4, <1>5, <1>6, <1>7, <1>8, <1>9

\* The round thread starts over.
LEMMA WakeUpStep ==
  ASSUME IInv, WakeUp
  PROVE  IInv'
<1> USE DEF IInv, WakeUp, Awake, queues, dispatcher, database, history
<1>1. TypeOK'
  BY DEF TypeOK
<1>2. RoundThreadOK'
  BY DEF RoundThreadOK, TypeOK, PlacesOK
<1>3. /\ FiniteQueues' /\ PlacesOK' /\ RowsOK' /\ DispatcherOK'
      /\ NoTaskForgotten' /\ FlagOnlyWithReport'
  BY DEF FiniteQueues, PlacesOK, RowsOK, OneVerdictPerSource, DispatcherOK,
         Decided, NoTaskForgotten, Waiting, InFlight, FlagOnlyWithReport
<1> QED
  BY <1>1, <1>2, <1>3

\* A request for tasks begins.
LEMMA GetTasksStep ==
  ASSUME IInv, NEW S \in SUBSET Services, NEW n \in 0 .. MaxTasks,
         GetTasks(S, n)
  PROVE  IInv'
<1> USE DEF IInv, GetTasks, queues, roundThread, database, history
<1>1. TypeOK'
  BY DEF TypeOK
<1>2. DispatcherOK'
  BY DEF DispatcherOK, Decided, TypeOK, Report, RowsOK, PlacesOK
<1>3. /\ FiniteQueues' /\ PlacesOK' /\ RoundThreadOK' /\ RowsOK'
      /\ NoTaskForgotten' /\ FlagOnlyWithReport'
  BY DEF FiniteQueues, PlacesOK, RoundThreadOK, RowsOK, OneVerdictPerSource,
         NoTaskForgotten, Waiting, InFlight, Decided, FlagOnlyWithReport
<1> QED
  BY <1>1, <1>2, <1>3

\* Tasks leave newTasks for the list of getTasks.
LEMMA PopTasksStep ==
  ASSUME IInv, NEW s \in htodo, PopTasks(s)
  PROVE  IInv'
<1> USE DEF IInv, PopTasks, Poppable, Popped, roundThread, database
<1>1. PICK T \in SUBSET newTasks[s] :
         /\ Cardinality(T) = IF Cardinality(newTasks[s]) < room
                             THEN Cardinality(newTasks[s]) ELSE room
         /\ newTasks' = [newTasks EXCEPT ![s] = @ \ T]
         /\ toPut' = toPut \cup T
         /\ handed' = handed \cup T
         /\ room' = room - Cardinality(T)
  OBVIOUS
<1>2. IsFiniteSet(T) /\ IsFiniteSet(newTasks[s])
  BY FS_Subset DEF FiniteQueues, TypeOK
<1>3. room' \in Nat
  BY <1>1, <1>2, FS_CardinalityType DEF TypeOK
<1>4. TypeOK'
  BY <1>1, <1>3 DEF TypeOK
<1>5. FiniteQueues'
  BY <1>1, <1>2, FS_Difference DEF FiniteQueues, TypeOK
<1>6. PlacesOK'
  BY DEF PlacesOK, TypeOK
<1>7. RoundThreadOK'
  BY DEF RoundThreadOK, TypeOK, PlacesOK
<1>8. RowsOK'
  BY DEF RowsOK, OneVerdictPerSource, PlacesOK, DispatcherOK, TypeOK, Row
<1>9. DispatcherOK'
  BY DEF DispatcherOK, Decided, TypeOK, Report, RowsOK, PlacesOK
<1>10. NoTaskForgotten'
  BY DEF NoTaskForgotten, Waiting, InFlight, Decided, PlacesOK,
         DispatcherOK, TypeOK
<1>11. FlagOnlyWithReport'
  BY DEF FlagOnlyWithReport
<1> QED
  BY <1>1, <1>2, <1>3, <1>4, <1>5, <1>6, <1>7, <1>8, <1>9, <1>10, <1>11

\* A task of that list enters processing.
LEMMA PutTaskStep ==
  ASSUME IInv, NEW t \in toPut, PutTask(t)
  PROVE  IInv'
<1> USE DEF IInv, PutTask, Put, roundThread, database, history
<1>1. TypeOK'
  BY DEF TypeOK
<1>2. PlacesOK'
  BY DEF PlacesOK, TypeOK
<1>3. RowsOK'
  BY DEF RowsOK, OneVerdictPerSource, PlacesOK, DispatcherOK, TypeOK, Row
<1>4. DispatcherOK'
  BY DEF DispatcherOK, Decided, TypeOK, Report, RowsOK, PlacesOK
<1>5. NoTaskForgotten'
  BY DEF NoTaskForgotten, Waiting, InFlight, Decided, TypeOK, PlacesOK, Task
<1>6. FiniteQueues' /\ RoundThreadOK' /\ FlagOnlyWithReport'
  BY DEF FiniteQueues, RoundThreadOK, FlagOnlyWithReport
<1> QED
  BY <1>1, <1>2, <1>3, <1>4, <1>5, <1>6

\* The reply of getTasks is sent.
LEMMA ReplyTasksStep ==
  ASSUME IInv, ReplyTasks
  PROVE  IInv'
<1> USE DEF IInv, ReplyTasks, queues, roundThread, database, history
<1>1. TypeOK'
  BY DEF TypeOK
<1>2. DispatcherOK'
  BY DEF DispatcherOK, Decided, TypeOK, Report, RowsOK, PlacesOK
<1>3. /\ FiniteQueues' /\ PlacesOK' /\ RoundThreadOK' /\ RowsOK'
      /\ NoTaskForgotten' /\ FlagOnlyWithReport'
  BY DEF FiniteQueues, PlacesOK, RoundThreadOK, RowsOK, OneVerdictPerSource,
         NoTaskForgotten, Waiting, InFlight, Decided, FlagOnlyWithReport
<1> QED
  BY <1>1, <1>2, <1>3

\* A report finds its task in processing.
LEMMA DoneTaskStep ==
  ASSUME IInv, NEW t \in handed, NEW st \in Statuses,
         NEW newFlag \in BOOLEAN, NEW randomFlag \in BOOLEAN,
         DoneTask(t, st, newFlag, randomFlag)
  PROVE  IInv'
<1> USE DEF IInv, DoneTask, queues, roundThread, database, history
<1>1. TypeOK'
  BY DEF TypeOK, Report
<1>2. DispatcherOK'
  <2>1. t.service \in Services /\ t \in processing[t.service]
    BY DEF Found, PlacesOK, TypeOK, Task
  <2>2. \A row \in checks : row.task = t => row.by # "report"
    BY <2>1 DEF RowsOK
  <2> QED
    BY <2>1, <2>2 DEF DispatcherOK, Decided
<1>3. NoTaskForgotten'
  BY DEF NoTaskForgotten, Waiting, InFlight, Decided, PlacesOK,
         DispatcherOK, TypeOK
<1>4. /\ FiniteQueues' /\ PlacesOK' /\ RoundThreadOK' /\ RowsOK'
      /\ FlagOnlyWithReport'
  BY DEF FiniteQueues, PlacesOK, RoundThreadOK, RowsOK, OneVerdictPerSource,
         FlagOnlyWithReport
<1> QED
  BY <1>1, <1>2, <1>3, <1>4

\* The report is refused, its task keeps its place or has its verdict.
LEMMA FinishConnectFailsStep ==
  ASSUME IInv, FinishConnectFails
  PROVE  IInv'
<1> USE DEF IInv, FinishConnectFails, queues, roundThread, database, Fault
<1>1. TypeOK'
  BY ConstantsAssumption DEF TypeOK
<1>2. DispatcherOK'
  BY DEF DispatcherOK, Decided, TypeOK, Report, RowsOK, PlacesOK
<1>3. NoTaskForgotten'
  BY DEF NoTaskForgotten, Waiting, InFlight, Decided, PlacesOK,
         DispatcherOK, TypeOK
<1>4. /\ FiniteQueues' /\ PlacesOK' /\ RoundThreadOK' /\ RowsOK'
      /\ FlagOnlyWithReport'
  BY DEF FiniteQueues, PlacesOK, RoundThreadOK, RowsOK, OneVerdictPerSource,
         FlagOnlyWithReport
<1> QED
  BY <1>1, <1>2, <1>3, <1>4

\* The report's row waits in the open transaction.
LEMMA FinishInsertStep ==
  ASSUME IInv, NEW m \in report, FinishInsert(m)
  PROVE  IInv'
<1> USE DEF IInv, FinishInsert, queues, roundThread, database, Fault
<1>1. TypeOK'
  <2>1. m.task \in Task /\ m.status \in Statuses /\ m.task.round <= round
    BY DEF DispatcherOK, TypeOK, PlacesOK, Report
  <2>2. NewRow(m.task, "report", m.status) \in Row
    BY <2>1, NewRowTyped DEF Sources
  <2>3. faults' \in 0 .. MaxFaults
    BY ConstantsAssumption DEF TypeOK
  <2> QED
    BY <2>2, <2>3 DEF TypeOK
<1>2. DispatcherOK'
  <2>1. \A row \in checks : row.task = m.task => row.by # "report"
    BY DEF DispatcherOK
  <2>2. \A p \in pending' :
          p.task = m.task /\ p.status = m.status /\ p.by = "report" /\ ~p.again
    BY <2>1 DEF NewRow, DispatcherOK
  <2>3. \A p1, p2 \in pending' : p1 = p2
    BY DEF DispatcherOK
  <2> QED
    BY <2>2, <2>3 DEF DispatcherOK, Decided
<1>3. /\ FiniteQueues' /\ PlacesOK' /\ RoundThreadOK' /\ RowsOK'
      /\ NoTaskForgotten' /\ FlagOnlyWithReport'
  BY DEF FiniteQueues, PlacesOK, RoundThreadOK, RowsOK, OneVerdictPerSource,
         NoTaskForgotten, Waiting, InFlight, Decided, FlagOnlyWithReport
<1> QED
  BY <1>1, <1>2, <1>3

\* The reported task leaves processing.
LEMMA FinishRemoveStep ==
  ASSUME IInv, NEW m \in report, FinishRemove(m)
  PROVE  IInv'
<1> USE DEF IInv, FinishRemove, roundThread, database, history
<1>1. TypeOK'
  BY DEF TypeOK
<1>2. PlacesOK'
  BY DEF PlacesOK, TypeOK
<1>3. RowsOK'
  BY DEF RowsOK, OneVerdictPerSource, PlacesOK, DispatcherOK, TypeOK, Row
<1>4. DispatcherOK'
  BY DEF DispatcherOK, Decided, TypeOK, Report, RowsOK, PlacesOK
<1>5. NoTaskForgotten'
  BY DEF NoTaskForgotten, Waiting, InFlight, Decided, PlacesOK,
         DispatcherOK, TypeOK
<1>6. FiniteQueues' /\ RoundThreadOK' /\ FlagOnlyWithReport'
  BY DEF FiniteQueues, RoundThreadOK, FlagOnlyWithReport
<1> QED
  BY <1>1, <1>2, <1>3, <1>4, <1>5, <1>6

\* The reported task enters doneTasks.
LEMMA FinishAddDoneStep ==
  ASSUME IInv, NEW m \in report, FinishAddDone(m)
  PROVE  IInv'
<1> USE DEF IInv, FinishAddDone, roundThread, database, history
<1>1. TypeOK'
  BY DEF TypeOK, Report, Task
<1>2. DispatcherOK'
  BY DEF DispatcherOK, Decided, TypeOK, Report, RowsOK, PlacesOK
<1>3. /\ FiniteQueues' /\ PlacesOK' /\ RoundThreadOK' /\ RowsOK'
      /\ NoTaskForgotten' /\ FlagOnlyWithReport'
  BY DEF FiniteQueues, PlacesOK, RoundThreadOK, RowsOK, OneVerdictPerSource,
         NoTaskForgotten, Waiting, InFlight, Decided, FlagOnlyWithReport
<1> QED
  BY <1>1, <1>2, <1>3

\* The report's row is committed, or thrown away.
LEMMA FinishCommitStep ==
  ASSUME IInv, NEW m \in report, FinishCommit(m)
  PROVE  IInv'
<1> USE DEF IInv, FinishCommit, RolledBack, queues, roundThread, Fault
<1>1. TypeOK'
  <2>1. flags' \subseteq Task /\ dropped' \subseteq Task /\ checks' \subseteq Row
    BY DEF TypeOK, Report
  <2>2. faults' \in 0 .. MaxFaults
    BY ConstantsAssumption DEF TypeOK
  <2> QED
    BY <2>1, <2>2 DEF TypeOK
<1>2. RowsOK'
  BY DEF RowsOK, OneVerdictPerSource, PlacesOK, DispatcherOK, TypeOK, Row
<1>3. DispatcherOK'
  BY DEF DispatcherOK, Decided, TypeOK, Report, RowsOK, PlacesOK
<1>4. NoTaskForgotten'
  BY DEF NoTaskForgotten, Waiting, InFlight, Decided, PlacesOK,
         DispatcherOK, TypeOK
<1>5. FlagOnlyWithReport'
  BY DEF FlagOnlyWithReport, DispatcherOK, TypeOK, Row
<1>6. FiniteQueues' /\ PlacesOK' /\ RoundThreadOK'
  BY DEF FiniteQueues, PlacesOK, RoundThreadOK
<1> QED
  BY <1>1, <1>2, <1>3, <1>4, <1>5, <1>6

\* A crash empties the queues and counts what they held as dropped.
LEMMA RestartStep ==
  ASSUME IInv, Restart
  PROVE  IInv'
<1> USE DEF IInv, Restart
<1>1. TypeOK'
  BY ConstantsAssumption DEF TypeOK
<1>2. FiniteQueues'
  BY FS_EmptySet DEF FiniteQueues
<1>3. PlacesOK'
  BY DEF PlacesOK, TypeOK
<1>4. RoundThreadOK'
  BY DEF RoundThreadOK, TypeOK, PlacesOK
<1>5. RowsOK'
  BY DEF RowsOK, OneVerdictPerSource, PlacesOK, DispatcherOK, TypeOK, Row
<1>6. DispatcherOK'
  BY DEF DispatcherOK, Decided, TypeOK, Report, RowsOK, PlacesOK
<1>7. NoTaskForgotten'
  BY DEF NoTaskForgotten, Waiting, InFlight, Decided, PlacesOK,
         DispatcherOK, TypeOK
<1>8. FlagOnlyWithReport'
  BY DEF FlagOnlyWithReport
<1> QED
  BY <1>1, <1>2, <1>3, <1>4, <1>5, <1>6, <1>7, <1>8

LEMMA InitIInv == Init => IInv
<1> SUFFICES ASSUME Init PROVE IInv
  OBVIOUS
<1>1. TypeOK
  BY ConstantsAssumption DEF Init, TypeOK
<1>2. FiniteQueues
  BY FS_EmptySet DEF Init, FiniteQueues
<1>3. PlacesOK /\ RoundThreadOK /\ RowsOK /\ DispatcherOK
  BY DEF Init, PlacesOK, RoundThreadOK, RowsOK, OneVerdictPerSource,
         DispatcherOK
<1>4. NoTaskForgotten /\ FlagOnlyWithReport
  BY DEF Init, NoTaskForgotten, FlagOnlyWithReport
<1> QED
  BY <1>1, <1>2, <1>3, <1>4 DEF IInv

LEMMA NextIInv == IInv /\ [Next]_vars => IInv'
<1> SUFFICES ASSUME IInv, [Next]_vars PROVE IInv'
  OBVIOUS
<1>1. CASE RoundThread
  BY <1>1, FailLeftTasksStep, FailNewStep, FailProcessingStep, ClearDoneStep,
     StartNextRoundStep, StartNextRoundFailsStep, RegenerateTasksStep,
     AddTasksStep, WakeUpStep DEF RoundThread
<1>2. CASE Serve
  BY <1>2, PopTasksStep, PutTaskStep, ReplyTasksStep, FinishConnectFailsStep,
     FinishInsertStep, FinishRemoveStep, FinishAddDoneStep, FinishCommitStep
     DEF Serve
<1>3. CASE Request
  BY <1>3, GetTasksStep, DoneTaskStep DEF Request
<1>4. CASE Restart
  BY <1>4, RestartStep
<1>5. CASE UNCHANGED vars
  BY <1>5
  DEF vars, queues, roundThread, dispatcher, database, history, IInv, TypeOK,
      FiniteQueues, PlacesOK, RoundThreadOK, RowsOK, OneVerdictPerSource,
      DispatcherOK, Decided, NoTaskForgotten, Waiting, InFlight,
      FlagOnlyWithReport
<1> QED
  BY <1>1, <1>2, <1>3, <1>4, <1>5 DEF Next

\* The inductive invariant holds of every behaviour (all of TaskManager).
THEOREM Invariance == Spec => []IInv
BY InitIInv, NextIInv, PTL DEF Spec

\* Every variable keeps its type.
THEOREM TypeCorrect == Spec => []TypeOK
<1>1. IInv => TypeOK
  BY DEF IInv
<1> QED
  BY <1>1, Invariance, PTL

\* A task never waits in two places at once (getTasks, failLeftTasks).
THEOREM TasksInOneQueue == Spec => []OneQueue
<1>1. IInv => OneQueue
  BY DEF IInv, OneQueue, PlacesOK
<1> QED
  BY <1>1, Invariance, PTL

\* The race of the two threads loses no task; only a failure does.
THEOREM TasksRemembered == Spec => []NoTaskForgotten
<1>1. IInv => NoTaskForgotten
  BY DEF IInv
<1> QED
  BY <1>1, Invariance, PTL

\* One row from the report and one from a timeout at most, in any
\* interleaving and for any number of repeated reports.
THEOREM VerdictsUnique == Spec => []OneVerdictPerSource
<1>1. IInv => OneVerdictPerSource
  BY DEF IInv, RowsOK
<1> QED
  BY <1>1, Invariance, PTL

\* A task failed in newTasks was never handed out and gets nothing else.
THEOREM QueueVerdictsFinal == Spec => []QueueVerdictFinal
<1>1. IInv => QueueVerdictFinal
  <2> SUFFICES ASSUME IInv, NEW row \in checks, row.by = "newTasks"
               PROVE  /\ row.task \notin handed
                      /\ row.task \notin flags
                      /\ row.round = row.task.round
                      /\ \A other \in checks : other.task = row.task => other = row
    BY DEF QueueVerdictFinal
  <2>1. row.task \notin handed /\ row.round = row.task.round
    BY DEF IInv, RowsOK
  <2>2. \A other \in checks : other.task = row.task => other.by = "newTasks"
    BY <2>1 DEF IInv, RowsOK
  <2>3. row.task \notin flags
    BY <2>2 DEF IInv, FlagOnlyWithReport
  <2> QED
    BY <2>1, <2>2, <2>3 DEF IInv, RowsOK, OneVerdictPerSource
<1> QED
  BY <1>1, Invariance, PTL

\* A flag in the table flags comes with the report's row.
THEOREM FlagsReported == Spec => []FlagOnlyWithReport
<1>1. IInv => FlagOnlyWithReport
  BY DEF IInv
<1> QED
  BY <1>1, Invariance, PTL

(***************************************************************************)
(* The task manager implements VerdictLedger.                              *)
(***************************************************************************)

\* Tasks that wait have no row yet.
LEMMA WaitingHasNoRow ==
  ASSUME IInv, NEW s \in Services
  PROVE  /\ \A t \in newTasks[s] : Ledger!RowsOf(t) = {}
         /\ \A t \in processing[s] : Ledger!RowsOf(t) = {}
<1>1. \A t \in newTasks[s] : \A row \in checks : row.task # t
  BY DEF IInv, RowsOK, PlacesOK
<1>2. \A t \in processing[s] : \A row \in checks : row.task # t
  BY DEF IInv, RowsOK, PlacesOK
<1> QED
  BY <1>1, <1>2 DEF Ledger!RowsOf

\* Rows of a task without a row are entered as its first.
LEMMA TimeoutsEntered ==
  ASSUME IInv, NEW T \in SUBSET issued, NEW by, NEW st,
         \A t \in T : Ledger!RowsOf(t) = {},
         RecordTimeouts(T, by, st, "committed")
  PROVE  Ledger!Enter(T, by, st, round)
<1>1. \A t \in T : ~\E row \in checks : row.task = t /\ row.by = by
  BY DEF Ledger!RowsOf
<1>2. {NewRow(t, by, st) : t \in T} =
        {[task |-> t, by |-> by, status |-> st, round |-> round,
          again |-> FALSE] : t \in T}
  BY <1>1 DEF NewRow
<1> QED
  BY <1>2 DEF RecordTimeouts, Ledger!Enter

LEMMA FailNewRefines ==
  ASSUME IInv, NEW s \in rtodo, NEW outcome \in Outcomes, FailNew(s, outcome)
  PROVE  [Ledger!Next]_Ledger!ledger
<1> DEFINE T == newTasks[s]
<1>1. T \in SUBSET Task /\ T \subseteq issued \ handed /\ s \in Services
  BY DEF IInv, TypeOK, PlacesOK
<1>2. CASE outcome = "committed"
  <2>1. \A t \in T : Ledger!RowsOf(t) = {} /\ t.round = round
    BY <1>1, WaitingHasNoRow DEF IInv, PlacesOK
  <2>2. Ledger!Enter(T, "newTasks", "CheckerError", round)
    BY <1>1, <1>2, <2>1, TimeoutsEntered DEF FailNew
  <2>3. UNCHANGED <<issued, handed, flags, dropped>>
    BY <1>2 DEF FailNew, RecordTimeouts
  <2>4. Ledger!FailUnhanded(T, round)
    BY <1>1, <2>1, <2>2, <2>3 DEF Ledger!FailUnhanded
  <2>5. CASE T = {}
    BY <2>2, <2>3, <2>5 DEF Ledger!Enter, Ledger!ledger
  <2>6. CASE T # {}
    <3>1. round \in Rounds
      BY <1>1, <2>1, <2>6 DEF Task
    <3> QED
      BY <1>1, <2>4, <3>1 DEF Ledger!Next
  <2> QED
    BY <2>5, <2>6
<1>3. CASE outcome # "committed"
  <2>1. Ledger!ThrowAway(T)
    BY <1>1, <1>3 DEF FailNew, RecordTimeouts, Ledger!ThrowAway
  <2> QED
    BY <1>1, <2>1 DEF Ledger!Next
<1> QED
  BY <1>2, <1>3

LEMMA FailProcessingRefines ==
  ASSUME IInv, NEW s \in rcur, NEW outcome \in Outcomes,
         FailProcessing(s, outcome)
  PROVE  [Ledger!Next]_Ledger!ledger
<1> DEFINE T == processing[s]
<1>1. /\ T \in SUBSET Task /\ T \subseteq handed /\ T \subseteq issued
      /\ s \in Services
  BY DEF IInv, TypeOK, PlacesOK
<1>2. CASE outcome = "committed"
  <2>1. \A t \in T : Ledger!RowsOf(t) = {}
    BY <1>1, WaitingHasNoRow
  <2>2. Ledger!Enter(T, "processingTasks", "Down", round)
    BY <1>1, <1>2, <2>1, TimeoutsEntered DEF FailProcessing
  <2>3. UNCHANGED <<issued, handed, flags, dropped>>
    BY <1>2 DEF FailProcessing, RecordTimeouts
  <2>4. Ledger!FailHanded(T, round)
    BY <1>1, <2>1, <2>2, <2>3 DEF Ledger!FailHanded
  <2>5. CASE T = {}
    BY <2>2, <2>3, <2>5 DEF Ledger!Enter, Ledger!ledger
  <2>6. CASE T # {}
    <3>1. round \in Rounds
      BY <1>1, <2>6 DEF IInv, PlacesOK, TypeOK, Task, Rounds
    <3> QED
      BY <1>1, <2>4, <3>1 DEF Ledger!Next
  <2> QED
    BY <2>5, <2>6
<1>3. CASE outcome # "committed"
  <2>1. Ledger!ThrowAway(T)
    BY <1>1, <1>3 DEF FailProcessing, RecordTimeouts, Ledger!ThrowAway
  <2> QED
    BY <1>1, <2>1 DEF Ledger!Next
<1> QED
  BY <1>2, <1>3

LEMMA AddTasksRefines ==
  ASSUME IInv, NEW s \in rtodo, AddTasks(s)
  PROVE  [Ledger!Next]_Ledger!ledger
<1> DEFINE T == RoundTasks(s)
<1>1. T \in SUBSET Task /\ T \cap issued = {}
  BY DEF AddTasks, RoundTasks, IInv, RoundThreadOK, TypeOK, Task
<1>2. Ledger!Issue(T)
  BY <1>1 DEF AddTasks, database, Ledger!Issue
<1> QED
  BY <1>1, <1>2 DEF Ledger!Next

LEMMA PopTasksRefines ==
  ASSUME IInv, NEW s \in htodo, PopTasks(s)
  PROVE  [Ledger!Next]_Ledger!ledger
<1>1. PICK T \in SUBSET newTasks[s] : handed' = handed \cup T
  BY DEF PopTasks, Poppable
<1>2. s \in Services
  BY DEF IInv, TypeOK
<1>3. T \in SUBSET Task /\ T \subseteq issued \ handed
  BY <1>2 DEF IInv, TypeOK, PlacesOK
<1>4. Ledger!HandOut(T)
  BY <1>1, <1>2, <1>3, WaitingHasNoRow
  DEF PopTasks, database, Ledger!HandOut
<1> QED
  BY <1>3, <1>4 DEF Ledger!Next

LEMMA FinishCommitRefines ==
  ASSUME IInv, NEW m \in report, FinishCommit(m)
  PROVE  [Ledger!Next]_Ledger!ledger
<1>1. /\ m.task \in Task /\ m.task \in issued /\ m.task \in handed
      /\ m.status \in Statuses /\ m.newFlag \in BOOLEAN
  BY DEF IInv, TypeOK, Report, DispatcherOK, PlacesOK
<1>2. CASE dropped' = dropped \cup {m.task} /\ UNCHANGED <<checks, flags>>
  <2>1. Ledger!ThrowAway({m.task})
    BY <1>1, <1>2 DEF FinishCommit, Ledger!ThrowAway
  <2> QED
    BY <1>1, <2>1 DEF Ledger!Next
<1>3. CASE /\ pending # {}
           /\ checks' = checks \cup pending
           /\ flags' = IF m.newFlag THEN flags \cup {m.task} ELSE flags
           /\ UNCHANGED dropped
  <2>1. PICK p \in pending : pending = {p}
    BY <1>3 DEF IInv, DispatcherOK
  <2>2. /\ p.task = m.task /\ p.by = "report" /\ p.again = FALSE
        /\ p.status = m.status /\ p.round \in Rounds
    BY DEF IInv, DispatcherOK, TypeOK, Row
  <2>3. p = [task |-> m.task, by |-> "report", status |-> m.status,
             round |-> p.round, again |-> FALSE]
    BY <2>2 DEF IInv, TypeOK, Row
  <2>4. Ledger!Enter({m.task}, "report", m.status, p.round)
    BY <1>3, <2>1, <2>3 DEF Ledger!Enter
  <2>5. \A row \in checks : row.task = m.task => row.by = "processingTasks"
    BY <1>1 DEF IInv, DispatcherOK, RowsOK, TypeOK, Row, Sources
  <2>6. Ledger!Report(m.task, m.status, m.newFlag, p.round)
    BY <1>1, <1>3, <2>4, <2>5
    DEF FinishCommit, Ledger!Report, Ledger!RowsOf
  <2> QED
    BY <1>1, <2>2, <2>6 DEF Ledger!Next
<1> QED
  BY <1>2, <1>3 DEF FinishCommit, RolledBack

LEMMA RestartRefines ==
  ASSUME IInv, Restart
  PROVE  [Ledger!Next]_Ledger!ledger
<1>1. Ledger!ThrowAway(issued \ Decided)
  BY DEF Restart, Ledger!ThrowAway
<1>2. issued \ Decided \in SUBSET Task
  BY DEF IInv, TypeOK
<1> QED
  BY <1>1, <1>2 DEF Ledger!Next

LEMMA StepRefines == IInv /\ [Next]_vars => [Ledger!Next]_Ledger!ledger
<1> SUFFICES ASSUME IInv, [Next]_vars PROVE [Ledger!Next]_Ledger!ledger
  OBVIOUS
<1>1. ASSUME \/ FailLeftTasks \/ StartNextRound \/ StartNextRoundFails
             \/ RegenerateTasks \/ WakeUp \/ (\E s \in rcur : ClearDone(s))
      PROVE  UNCHANGED Ledger!ledger
  BY <1>1 DEF FailLeftTasks, StartNextRound, StartNextRoundFails,
     RegenerateTasks, WakeUp, ClearDone, database, history, Ledger!ledger
<1>2. ASSUME \/ \E t \in toPut : PutTask(t)
             \/ ReplyTasks \/ FinishConnectFails
             \/ \E m \in report : \/ FinishInsert(m) \/ FinishRemove(m)
                                  \/ FinishAddDone(m)
      PROVE  UNCHANGED Ledger!ledger
  BY <1>2 DEF PutTask, ReplyTasks, FinishConnectFails, FinishInsert,
     FinishRemove, FinishAddDone, database, history, Ledger!ledger
<1>3. ASSUME Request
      PROVE  UNCHANGED Ledger!ledger
  BY <1>3 DEF Request, GetTasks, DoneTask, database, history, Ledger!ledger
<1>4. CASE RoundThread
  BY <1>1, <1>4, FailNewRefines, FailProcessingRefines, AddTasksRefines
  DEF RoundThread
<1>5. CASE Serve
  BY <1>2, <1>5, PopTasksRefines, FinishCommitRefines DEF Serve
<1>6. CASE UNCHANGED vars
  BY <1>6 DEF vars, database, history, Ledger!ledger
<1> QED
  BY <1>3, <1>4, <1>5, <1>6, RestartRefines DEF Next

\* Every behaviour of the task manager is one VerdictLedger allows.
THEOREM ImplementsLedger == Spec => LedgerSpec
<1>1. Init => Ledger!Init
  BY DEF Init, Ledger!Init
<1> QED
  BY <1>1, StepRefines, Invariance, PTL DEF Spec, LedgerSpec, Ledger!Spec

(***************************************************************************)
(* The task monitor.                                                       *)
(***************************************************************************)

Origins == {"page", "click"}

MonitorTypeOK ==
  /\ made \in Nat
  /\ requests \in Seq([by : Origins, age : 0 .. ajaxTimeout, at : Nat])
  /\ auto \in BOOLEAN
  /\ elapsed \in 0 .. autoUpdateInterval
  /\ tables \in [by : Origins, at : Nat]

\* No answer is from the future.
MadeOK ==
  /\ tables.at <= made
  /\ \A i \in DOMAIN requests : requests[i].at <= made

\* A request of the page's own is as old as the interval, and alone.
OwnRequestOK ==
  /\ auto => \A i \in DOMAIN requests : requests[i].by = "page" => elapsed <= requests[i].age
  /\ \A i, j \in DOMAIN requests :
       requests[i].by = "page" /\ requests[j].by = "page" => i = j

\* It was answered after what the page shows, if the page asked for that.
NewerOK ==
  \A i \in DOMAIN requests :
    requests[i].by = "page" /\ tables.by = "page" /\ requests[i].at > 0
      => tables.at < requests[i].at

MonitorIInv == MonitorTypeOK /\ MadeOK /\ OwnRequestOK /\ NewerOK

\* What a removal leaves: the others, at their places or one before.
LEMMA RemoveAtFacts ==
  ASSUME NEW S, NEW s \in Seq(S), NEW i \in DOMAIN s
  PROVE  /\ RemoveAt(s, i) \in Seq(S)
         /\ DOMAIN RemoveAt(s, i) = 1 .. Len(s) - 1
         /\ \A k \in 1 .. Len(s) - 1 :
              /\ RemoveAt(s, i)[k] = s[IF k < i THEN k ELSE k + 1]
              /\ (IF k < i THEN k ELSE k + 1) \in DOMAIN s
<1> DEFINE a == SubSeq(s, 1, i - 1)
           b == SubSeq(s, i + 1, Len(s))
<1>1. Len(s) \in Nat /\ DOMAIN s = 1 .. Len(s) /\ i \in 1 .. Len(s)
  OBVIOUS
<1>2. /\ a \in Seq(S) /\ Len(a) = i - 1
      /\ \A k \in 1 .. i - 1 : a[k] = s[k]
  <2>1. 1 \in Int /\ i - 1 \in Int /\ \A k \in 1 .. i - 1 : s[k] \in S
    BY <1>1, ElementOfSeq
  <2>2. /\ a \in Seq(S)
        /\ Len(a) = IF 1 <= i - 1 THEN i - 1 - 1 + 1 ELSE 0
        /\ \A k \in 1 .. i - 1 - 1 + 1 : a[k] = s[1 + k - 1]
    BY <2>1, SubSeqProperties
  <2> HIDE DEF a
  <2>3. i - 1 - 1 + 1 = i - 1 /\ \A k \in Nat : 1 + k - 1 = k
    BY <1>1
  <2>4. Len(a) = i - 1
    <3>1. CASE i = 1
      BY <2>2, <3>1
    <3>2. CASE i # 1
      <4>1. 1 <= i - 1
        BY <1>1, <3>2
      <4> QED BY <2>2, <2>3, <4>1
    <3> QED BY <3>1, <3>2
  <2>5. \A k \in 1 .. i - 1 : k \in Nat
    BY <1>1
  <2> QED BY <2>2, <2>3, <2>4, <2>5
<1>3. /\ b \in Seq(S) /\ Len(b) = Len(s) - i
      /\ \A k \in 1 .. Len(s) - i : b[k] = s[i + k]
  <2>1. i + 1 \in Int /\ Len(s) \in Int /\ \A k \in i + 1 .. Len(s) : s[k] \in S
    BY <1>1, ElementOfSeq
  <2>2. /\ b \in Seq(S)
        /\ Len(b) = IF i + 1 <= Len(s) THEN Len(s) - (i + 1) + 1 ELSE 0
        /\ \A k \in 1 .. Len(s) - (i + 1) + 1 : b[k] = s[i + 1 + k - 1]
    BY <2>1, SubSeqProperties
  <2> HIDE DEF b
  <2>3. Len(s) - (i + 1) + 1 = Len(s) - i /\ \A k \in Nat : i + 1 + k - 1 = i + k
    BY <1>1
  <2>4. Len(b) = Len(s) - i
    <3>1. CASE i = Len(s)
      <4>1. Len(s) - i = 0 /\ ~(i + 1 <= Len(s))
        BY <1>1, <3>1
      <4> QED BY <2>2, <4>1
    <3>2. CASE i # Len(s)
      <4>1. i + 1 <= Len(s)
        BY <1>1, <3>2
      <4> QED BY <2>2, <2>3, <4>1
    <3> QED BY <3>1, <3>2
  <2>5. \A k \in 1 .. Len(s) - i : k \in Nat
    BY <1>1
  <2> QED BY <2>2, <2>3, <2>4, <2>5
<1>4. RemoveAt(s, i) = a \o b
  BY DEF RemoveAt
<1> HIDE DEF a, b
<1>5. /\ a \o b \in Seq(S) /\ Len(a \o b) = Len(a) + Len(b)
      /\ \A k \in 1 .. Len(a) + Len(b) :
           (a \o b)[k] = IF k <= Len(a) THEN a[k] ELSE b[k - Len(a)]
  BY <1>2, <1>3, ConcatProperties
<1>6. Len(a \o b) = Len(s) - 1 /\ Len(a) + Len(b) = Len(s) - 1
  BY <1>1, <1>2, <1>3, <1>5
<1>7. ASSUME NEW k \in 1 .. Len(s) - 1
      PROVE  /\ (a \o b)[k] = s[IF k < i THEN k ELSE k + 1]
             /\ (IF k < i THEN k ELSE k + 1) \in DOMAIN s
  <2>1. (a \o b)[k] = IF k <= Len(a) THEN a[k] ELSE b[k - Len(a)]
    BY <1>5, <1>6
  <2>2. CASE k < i
    <3>1. k <= i - 1 /\ k \in 1 .. i - 1 /\ k \in 1 .. Len(s)
      BY <1>1, <2>2
    <3> QED BY <1>1, <1>2, <2>1, <2>2, <3>1
  <2>3. CASE ~(k < i)
    <3>1. /\ ~(k <= i - 1) /\ k - (i - 1) \in 1 .. Len(s) - i
          /\ i + (k - (i - 1)) = k + 1 /\ k + 1 \in 1 .. Len(s)
      BY <1>1, <2>3
    <3>2. (a \o b)[k] = b[k - (i - 1)]
      BY <1>2, <2>1, <3>1
    <3>3. b[k - (i - 1)] = s[k + 1]
      BY <1>3, <3>1
    <3> QED BY <1>1, <2>3, <3>1, <3>2, <3>3
  <2> QED BY <2>2, <2>3
<1>8. DOMAIN (a \o b) = 1 .. Len(s) - 1
  BY <1>5, <1>6
<1> QED BY <1>4, <1>5, <1>7, <1>8

\* Every request that is left was there.
LEMMA RemoveAtRequests ==
  ASSUME NEW S, NEW s \in Seq(S), NEW i \in DOMAIN s
  PROVE  \A k \in DOMAIN RemoveAt(s, i) :
           \E n \in DOMAIN s : /\ n # i /\ RemoveAt(s, i)[k] = s[n]
                               /\ n = (IF k < i THEN k ELSE k + 1)
<1> TAKE k \in DOMAIN RemoveAt(s, i)
<1>1. k \in 1 .. Len(s) - 1 /\ i \in 1 .. Len(s) /\ Len(s) \in Nat
  BY RemoveAtFacts
<1> DEFINE n == IF k < i THEN k ELSE k + 1
<1>2. n # i
  BY <1>1
<1>3. RemoveAt(s, i)[k] = s[n] /\ n \in DOMAIN s
  BY <1>1, RemoveAtFacts
<1> QED BY <1>2, <1>3

\* A request goes, with its answer or without.
LEMMA RequestGoes ==
  ASSUME MonitorTypeOK, MadeOK, OwnRequestOK, NEW i \in DOMAIN requests,
         UNCHANGED <<made, auto, elapsed>>, requests' = RemoveAt(requests, i)
  PROVE  /\ requests' \in Seq([by : Origins, age : 0 .. ajaxTimeout, at : Nat])
         /\ \A k \in DOMAIN requests' : requests'[k].at <= made
         /\ OwnRequestOK'
         /\ \A k \in DOMAIN requests' :
              \E n \in DOMAIN requests : n # i /\ requests'[k] = requests[n]
<1> DEFINE T == [by : Origins, age : 0 .. ajaxTimeout, at : Nat]
<1>1. requests \in Seq(T)
  BY DEF MonitorTypeOK
<1> HIDE DEF T
<1>2. PICK r : r = RemoveAt(requests, i)
  OBVIOUS
<1>3. r \in Seq(T) /\ DOMAIN r = 1 .. Len(requests) - 1
  BY <1>1, <1>2, RemoveAtFacts
<1>4. \A k \in DOMAIN r :
        \E n \in DOMAIN requests : /\ n # i /\ r[k] = requests[n]
                                   /\ n = (IF k < i THEN k ELSE k + 1)
  BY <1>1, <1>2, RemoveAtRequests
<1>5. requests' = r
  BY <1>2
<1>6. \A k \in DOMAIN r : r[k].at <= made
  BY <1>4 DEF MadeOK
<1>7. auto => \A k \in DOMAIN r : r[k].by = "page" => elapsed <= r[k].age
  BY <1>4 DEF OwnRequestOK
<1>8. ASSUME NEW j \in DOMAIN r, NEW k \in DOMAIN r, r[j].by = "page", r[k].by = "page"
      PROVE  j = k
  <2>1. (IF j < i THEN j ELSE j + 1) = (IF k < i THEN k ELSE k + 1)
    BY <1>4, <1>8 DEF OwnRequestOK
  <2>2. j \in Nat /\ k \in Nat /\ i \in Nat
    BY <1>1, <1>3
  <2> QED BY <2>1, <2>2
<1>9. OwnRequestOK'
  BY <1>5, <1>7, <1>8 DEF OwnRequestOK
<1> QED BY <1>3, <1>4, <1>5, <1>6, <1>9 DEF T

LEMMA RequestType ==
  ASSUME MonitorTypeOK
  PROVE  \A i \in DOMAIN requests :
           /\ requests[i] \in [by : Origins, age : 0 .. ajaxTimeout, at : Nat]
           /\ requests[i].by \in Origins /\ requests[i].at \in Nat
           /\ requests[i].age \in 0 .. ajaxTimeout /\ requests[i].age \in Nat
<1> DEFINE T == [by : Origins, age : 0 .. ajaxTimeout, at : Nat]
<1>1. requests \in Seq(T)
  BY DEF MonitorTypeOK
<1>2. \A i \in DOMAIN requests : requests[i] \in T
  <2> HIDE DEF T
  <2> QED BY <1>1
<1>3. \A x \in T : /\ x.by \in Origins /\ x.at \in Nat
                   /\ x.age \in 0 .. ajaxTimeout /\ x.age \in Nat
  BY DEF ajaxTimeout
<1> HIDE DEF T
<1>4. \A i \in DOMAIN requests :
        /\ requests[i] \in T
        /\ requests[i].by \in Origins /\ requests[i].at \in Nat
        /\ requests[i].age \in 0 .. ajaxTimeout /\ requests[i].age \in Nat
  BY <1>2, <1>3
<1> QED BY <1>4 DEF T

LEMMA MonitorInitIInv == MonitorInit => MonitorIInv
<1> SUFFICES ASSUME MonitorInit PROVE MonitorIInv
  OBVIOUS
<1>1. /\ requests = <<[by |-> "page", age |-> 0, at |-> 0]>> /\ made = 0
      /\ tables = [by |-> "page", at |-> 0] /\ auto = TRUE /\ elapsed = 0
  BY DEF MonitorInit
<1>2. MonitorTypeOK
  <2>1. [by |-> "page", age |-> 0, at |-> 0] \in [by : Origins, age : 0 .. ajaxTimeout, at : Nat]
    BY DEF Origins, ajaxTimeout
  <2> QED BY <1>1, <2>1 DEF MonitorTypeOK, Origins, autoUpdateInterval
<1>3. DOMAIN requests = {1} /\ requests[1] = [by |-> "page", age |-> 0, at |-> 0]
  BY <1>1
<1>4. MadeOK /\ OwnRequestOK /\ NewerOK
  BY <1>1, <1>3 DEF MadeOK, OwnRequestOK, NewerOK
<1> QED BY <1>2, <1>4 DEF MonitorIInv

\* A new request joins those under way.
LEMMA RequestComes ==
  ASSUME MonitorTypeOK, MadeOK, NewerOK, NEW by \in Origins, requests' = LoadData(by),
         UNCHANGED <<made, tables>>
  PROVE  /\ requests' \in Seq([by : Origins, age : 0 .. ajaxTimeout, at : Nat])
         /\ MadeOK' /\ NewerOK'
         /\ DOMAIN requests' = 1 .. Len(requests) + 1
         /\ DOMAIN requests = 1 .. Len(requests) /\ Len(requests) \in Nat
         /\ \A i \in DOMAIN requests : requests'[i] = requests[i]
         /\ requests'[Len(requests) + 1] = [by |-> by, age |-> 0, at |-> 0]
<1> DEFINE T == [by : Origins, age : 0 .. ajaxTimeout, at : Nat]
           r == [by |-> by, age |-> 0, at |-> 0]
           s == Append(requests, r)
<1>1. requests \in Seq(T) /\ r \in T
  BY DEF MonitorTypeOK, ajaxTimeout
<1>2. r.at = 0 /\ requests' = s
  BY DEF LoadData
<1> HIDE DEF T, r
<1>3. /\ s \in Seq(T) /\ Len(requests) \in Nat
      /\ DOMAIN requests = 1 .. Len(requests) /\ DOMAIN s = 1 .. Len(requests) + 1
      /\ \A i \in 1 .. Len(requests) : s[i] = requests[i]
      /\ s[Len(requests) + 1] = r
  BY <1>1, AppendProperties
<1> HIDE DEF s
<1>4. ASSUME NEW i \in DOMAIN s
      PROVE  (i \in DOMAIN requests /\ s[i] = requests[i]) \/ s[i] = r
  BY <1>3
<1>5. made \in Nat
  BY DEF MonitorTypeOK
<1>6. MadeOK'
  BY <1>2, <1>4, <1>5 DEF MadeOK
<1>7. NewerOK'
  BY <1>2, <1>4 DEF NewerOK
<1> QED BY <1>2, <1>3, <1>6, <1>7 DEF T, r

LEMMA ClickButtonStep == ASSUME MonitorIInv, ClickButton PROVE MonitorIInv'
<1>1. requests' = LoadData("click") /\ UNCHANGED <<made, auto, elapsed, tables>>
  BY DEF ClickButton
<1>2. "click" \in Origins
  BY DEF Origins
<1>3. /\ requests' \in Seq([by : Origins, age : 0 .. ajaxTimeout, at : Nat])
      /\ MadeOK' /\ NewerOK'
      /\ DOMAIN requests' = 1 .. Len(requests) + 1
      /\ DOMAIN requests = 1 .. Len(requests) /\ Len(requests) \in Nat
      /\ \A i \in DOMAIN requests : requests'[i] = requests[i]
      /\ requests'[Len(requests) + 1] = [by |-> "click", age |-> 0, at |-> 0]
  BY <1>1, <1>2, RequestComes DEF MonitorIInv
<1>4. \A i \in DOMAIN requests' : requests'[i].by = "page" =>
        i \in DOMAIN requests /\ requests'[i] = requests[i]
  BY <1>3
<1>5. OwnRequestOK'
  BY <1>1, <1>4 DEF MonitorIInv, OwnRequestOK
<1> QED BY <1>1, <1>3, <1>5 DEF MonitorIInv, MonitorTypeOK

\* When the interval comes round, every request of the page's own has been
\* given up.
LEMMA IntervalFiresStep == ASSUME MonitorIInv, IntervalFires PROVE MonitorIInv'
<1>1. /\ auto /\ elapsed = autoUpdateInterval
      /\ requests' = LoadData("page") /\ elapsed' = 0 /\ UNCHANGED <<made, auto, tables>>
  BY DEF IntervalFires
<1>2. "page" \in Origins
  BY DEF Origins
<1>3. /\ requests' \in Seq([by : Origins, age : 0 .. ajaxTimeout, at : Nat])
      /\ MadeOK' /\ NewerOK'
      /\ DOMAIN requests' = 1 .. Len(requests) + 1
      /\ DOMAIN requests = 1 .. Len(requests) /\ Len(requests) \in Nat
      /\ \A i \in DOMAIN requests : requests'[i] = requests[i]
      /\ requests'[Len(requests) + 1] = [by |-> "page", age |-> 0, at |-> 0]
  BY <1>1, <1>2, RequestComes DEF MonitorIInv
<1>4. \A i \in DOMAIN requests : requests[i].by # "page"
  <2> SUFFICES ASSUME NEW i \in DOMAIN requests, requests[i].by = "page" PROVE FALSE
    OBVIOUS
  <2>1. autoUpdateInterval <= requests[i].age
    BY <1>1 DEF MonitorIInv, OwnRequestOK
  <2>2. requests[i].age \in 0 .. ajaxTimeout
    BY RequestType DEF MonitorIInv
  <2> QED BY <2>1, <2>2 DEF ajaxTimeout, autoUpdateInterval
<1>5. \A i \in DOMAIN requests' : requests'[i].by = "page" =>
        i = Len(requests) + 1 /\ requests'[i].age = 0
  BY <1>3, <1>4
<1>6. OwnRequestOK'
  BY <1>1, <1>5 DEF OwnRequestOK
<1> QED BY <1>1, <1>3, <1>6 DEF MonitorIInv, MonitorTypeOK, autoUpdateInterval

LEMMA ClickAutoUpdateStep == ASSUME MonitorIInv, ClickAutoUpdate PROVE MonitorIInv'
<1>1. auto' = ~auto /\ elapsed' = 0 /\ UNCHANGED <<made, requests, tables>>
  BY DEF ClickAutoUpdate
<1>2. MonitorTypeOK'
  BY <1>1 DEF MonitorIInv, MonitorTypeOK, autoUpdateInterval
<1>3. \A i \in DOMAIN requests : requests[i].age >= 0
  BY RequestType DEF MonitorIInv
<1>4. OwnRequestOK'
  BY <1>1, <1>3 DEF MonitorIInv, OwnRequestOK
<1>5. MadeOK' /\ NewerOK'
  BY <1>1 DEF MonitorIInv, MadeOK, NewerOK
<1> QED BY <1>2, <1>4, <1>5 DEF MonitorIInv

LEMMA GetTasksJSONStep ==
  ASSUME MonitorIInv, NEW i \in DOMAIN requests, GetTasksJSON(i) PROVE MonitorIInv'
<1> DEFINE T == [by : Origins, age : 0 .. ajaxTimeout, at : Nat]
<1>1. /\ requests[i].at = 0 /\ made' = made + 1
      /\ requests' = [requests EXCEPT ![i].at = made + 1]
      /\ UNCHANGED <<auto, elapsed, tables>>
  BY DEF GetTasksJSON
<1>2. /\ requests \in Seq(T) /\ made \in Nat /\ tables \in [by : Origins, at : Nat]
      /\ \A j \in DOMAIN requests : requests[j] \in T /\ requests[j].at \in Nat
  BY RequestType DEF MonitorIInv, MonitorTypeOK
<1>3. /\ DOMAIN requests' = DOMAIN requests /\ requests' \in Seq(T)
      /\ requests'[i] = [requests[i] EXCEPT !.at = made + 1]
      /\ \A j \in DOMAIN requests : j # i => requests'[j] = requests[j]
  <2> DEFINE y == [requests[i] EXCEPT !.at = made + 1]
  <2>1. y \in T
    <3>1. requests[i] \in T /\ made + 1 \in Nat
      BY <1>2
    <3> QED BY <3>1
  <2> HIDE DEF T
  <2>2. requests' = [requests EXCEPT ![i] = y]
    BY <1>1
  <2> HIDE DEF y
  <2>3. /\ DOMAIN requests' = DOMAIN requests /\ requests'[i] = y
        /\ \A j \in DOMAIN requests : j # i => requests'[j] = requests[j]
    BY <2>2
  <2>4. requests' \in Seq(T)
    BY <1>2, <2>1, <2>2, ExceptSeq
  <2> QED BY <2>3, <2>4 DEF y
<1>4. \A j \in DOMAIN requests : /\ requests'[j].by = requests[j].by
                                 /\ requests'[j].age = requests[j].age
  BY <1>2, <1>3
<1>5. requests'[i].at = made + 1
  BY <1>2, <1>3
<1>6. MonitorTypeOK'
  BY <1>1, <1>2, <1>3 DEF MonitorIInv, MonitorTypeOK
<1>7. MadeOK'
  <2>1. tables'.at <= made'
    BY <1>1, <1>2 DEF MonitorIInv, MadeOK
  <2>2. ASSUME NEW j \in DOMAIN requests PROVE requests'[j].at <= made'
    <3>1. requests[j].at \in Nat /\ requests[j].at <= made
      BY <1>2 DEF MonitorIInv, MadeOK
    <3>2. CASE j = i
      BY <1>1, <1>2, <1>5, <3>2
    <3>3. CASE j # i
      BY <1>1, <1>2, <1>3, <3>1, <3>3
    <3> QED BY <3>2, <3>3
  <2> QED BY <1>3, <2>1, <2>2 DEF MadeOK
<1>8. OwnRequestOK'
  BY <1>1, <1>3, <1>4 DEF MonitorIInv, OwnRequestOK
<1>9. NewerOK'
  <2>1. tables.at < made + 1
    BY <1>2 DEF MonitorIInv, MadeOK
  <2> QED BY <1>1, <1>3, <1>4, <1>5, <2>1 DEF MonitorIInv, NewerOK
<1> QED BY <1>6, <1>7, <1>8, <1>9 DEF MonitorIInv

\* The page shows an answer: of its own requests there was no other.
LEMMA OnAjaxSuccessStep ==
  ASSUME MonitorIInv, NEW i \in DOMAIN requests, OnAjaxSuccess(i) PROVE MonitorIInv'
<1>1. /\ tables' = [by |-> requests[i].by, at |-> requests[i].at]
      /\ requests' = RemoveAt(requests, i)
      /\ UNCHANGED <<made, auto, elapsed>>
  BY DEF OnAjaxSuccess
<1>2. /\ requests' \in Seq([by : Origins, age : 0 .. ajaxTimeout, at : Nat])
      /\ \A k \in DOMAIN requests' : requests'[k].at <= made
      /\ OwnRequestOK'
      /\ \A k \in DOMAIN requests' :
           \E n \in DOMAIN requests : n # i /\ requests'[k] = requests[n]
  BY <1>1, RequestGoes DEF MonitorIInv
<1>3. /\ requests[i].by \in Origins /\ requests[i].at \in Nat
      /\ requests[i].at <= made
  BY RequestType DEF MonitorIInv, MadeOK
<1>4. tables' \in [by : Origins, at : Nat] /\ tables'.at <= made
  BY <1>1, <1>3
<1>5. MonitorTypeOK'
  BY <1>1, <1>2, <1>4 DEF MonitorIInv, MonitorTypeOK
<1>6. MadeOK'
  BY <1>1, <1>2, <1>4 DEF MadeOK
<1>7. NewerOK'
  <2>1. ASSUME NEW k \in DOMAIN requests', requests'[k].by = "page", tables'.by = "page"
        PROVE  FALSE
    BY <1>1, <1>2, <2>1 DEF MonitorIInv, OwnRequestOK
  <2> QED BY <2>1 DEF NewerOK
<1> QED BY <1>2, <1>5, <1>6, <1>7 DEF MonitorIInv

LEMMA OnAjaxErrorStep ==
  ASSUME MonitorIInv, NEW i \in DOMAIN requests, OnAjaxError(i) PROVE MonitorIInv'
<1>1. requests' = RemoveAt(requests, i) /\ UNCHANGED <<made, auto, elapsed, tables>>
  BY DEF OnAjaxError
<1>2. /\ requests' \in Seq([by : Origins, age : 0 .. ajaxTimeout, at : Nat])
      /\ \A k \in DOMAIN requests' : requests'[k].at <= made
      /\ OwnRequestOK'
      /\ \A k \in DOMAIN requests' :
           \E n \in DOMAIN requests : n # i /\ requests'[k] = requests[n]
  BY <1>1, RequestGoes DEF MonitorIInv
<1>3. MonitorTypeOK' /\ MadeOK'
  BY <1>1, <1>2 DEF MonitorIInv, MonitorTypeOK, MadeOK
<1>4. NewerOK'
  BY <1>1, <1>2 DEF MonitorIInv, NewerOK
<1> QED BY <1>2, <1>3, <1>4 DEF MonitorIInv

LEMMA MonitorTickStep == ASSUME MonitorIInv, Tick PROVE MonitorIInv'
<1> DEFINE T == [by : Origins, age : 0 .. ajaxTimeout, at : Nat]
<1>1. /\ \A i \in DOMAIN requests : requests[i].age < ajaxTimeout
      /\ auto => elapsed < autoUpdateInterval
      /\ requests' = [i \in DOMAIN requests |-> [requests[i] EXCEPT !.age = @ + 1]]
      /\ elapsed' = IF auto THEN elapsed + 1 ELSE 0
      /\ UNCHANGED <<made, auto, tables>>
  BY DEF Tick
<1>2. requests \in Seq(T) /\ elapsed \in 0 .. 2 /\ auto \in BOOLEAN
      /\ \A j \in DOMAIN requests : requests[j] \in T /\ requests[j].age \in 0 .. ajaxTimeout
  BY RequestType DEF MonitorIInv, MonitorTypeOK, autoUpdateInterval
<1>3. \A i \in DOMAIN requests :
        /\ requests'[i] \in T
        /\ requests'[i].by = requests[i].by /\ requests'[i].at = requests[i].at
        /\ requests'[i].age = requests[i].age + 1
  <2> TAKE i \in DOMAIN requests
  <2>1. requests'[i] = [requests[i] EXCEPT !.age = @ + 1]
    BY <1>1
  <2>2. requests[i] \in T /\ requests[i].age \in 0 .. 1 /\ requests[i].age < 1
    BY <1>1, <1>2 DEF ajaxTimeout
  <2>3. requests[i].age + 1 \in 0 .. 1
    BY <2>2
  <2>4. [requests[i] EXCEPT !.age = @ + 1] \in T
    BY <2>2, <2>3 DEF ajaxTimeout
  <2> QED BY <2>1, <2>2, <2>4
<1>4. DOMAIN requests' = DOMAIN requests /\ requests' \in Seq(T)
  <2>1. DOMAIN requests' = 1 .. Len(requests) /\ Len(requests) \in Nat
    BY <1>1, <1>2
  <2>2. requests' \in [1 .. Len(requests) -> T]
    <3>1. requests' = [i \in DOMAIN requests |-> requests'[i]]
      BY <1>1
    <3>2. DOMAIN requests = 1 .. Len(requests)
      BY <1>1, <2>1
    <3> HIDE DEF T
    <3> QED BY <1>3, <3>1, <3>2
  <2> QED BY <1>2, <2>1, <2>2, SeqDef
<1>5. elapsed' \in 0 .. 2
  BY <1>1, <1>2 DEF autoUpdateInterval
<1> HIDE DEF T
<1>6. MonitorTypeOK'
  BY <1>1, <1>4, <1>5 DEF MonitorIInv, MonitorTypeOK, autoUpdateInterval, T
<1>7. MadeOK'
  BY <1>1, <1>3, <1>4 DEF MonitorIInv, MadeOK
<1>8. OwnRequestOK'
  <2>1. ASSUME auto, NEW i \in DOMAIN requests, requests[i].by = "page"
        PROVE  elapsed' <= requests'[i].age
    <3>1. elapsed <= requests[i].age /\ requests[i].age \in Nat
      BY <2>1, RequestType DEF MonitorIInv, OwnRequestOK
    <3> QED BY <1>1, <1>2, <1>3, <2>1, <3>1
  <2>2. auto' => \A i \in DOMAIN requests' :
                  requests'[i].by = "page" => elapsed' <= requests'[i].age
    BY <1>1, <1>3, <1>4, <2>1
  <2>3. \A i, j \in DOMAIN requests' :
          requests'[i].by = "page" /\ requests'[j].by = "page" => i = j
    BY <1>3, <1>4 DEF MonitorIInv, OwnRequestOK
  <2> QED BY <2>2, <2>3 DEF OwnRequestOK
<1>9. NewerOK'
  BY <1>1, <1>3, <1>4 DEF MonitorIInv, NewerOK
<1> QED BY <1>6, <1>7, <1>8, <1>9 DEF MonitorIInv

THEOREM MonitorInvariance == MonitorSpec => []MonitorIInv
<1>1. MonitorIInv /\ [MonitorNext]_monitorVars => MonitorIInv'
  <2> SUFFICES ASSUME MonitorIInv, [MonitorNext]_monitorVars PROVE MonitorIInv'
    OBVIOUS
  <2>1. CASE UNCHANGED monitorVars
    BY <2>1 DEF monitorVars, MonitorIInv, MonitorTypeOK, MadeOK, OwnRequestOK, NewerOK
  <2> QED BY <2>1, ClickButtonStep, ClickAutoUpdateStep, IntervalFiresStep,
             MonitorTickStep, GetTasksJSONStep, OnAjaxSuccessStep, OnAjaxErrorStep
             DEF MonitorNext
<1> QED BY MonitorInitIInv, <1>1, PTL DEF MonitorSpec

\* The page never goes back by itself to an older state of the queues.
THEOREM MonitorGoesForward == MonitorSpec => PageGoesForward
<1>1. ASSUME MonitorIInv, [MonitorNext]_monitorVars, tables'.at < tables.at
      PROVE  "click" \in {tables.by, tables'.by}
  <2>1. tables' # tables
    BY <1>1 DEF MonitorIInv, MonitorTypeOK
  <2>2. PICK i \in DOMAIN requests : OnAjaxSuccess(i)
    BY <1>1, <2>1
       DEF MonitorNext, monitorVars, ClickButton, ClickAutoUpdate, IntervalFires,
           Tick, GetTasksJSON, OnAjaxError
  <2>3. /\ requests[i].at > 0 /\ tables' = [by |-> requests[i].by, at |-> requests[i].at]
        /\ requests[i].by \in Origins /\ requests[i].at \in Nat
        /\ tables.by \in Origins /\ tables.at \in Nat
    BY <1>1, <2>2, RequestType DEF OnAjaxSuccess, MonitorIInv, MonitorTypeOK
  <2>4. ~(requests[i].by = "page" /\ tables.by = "page")
    BY <1>1, <2>3 DEF MonitorIInv, NewerOK
  <2> QED BY <2>3, <2>4 DEF Origins
<1>2. MonitorIInv /\ [MonitorNext]_monitorVars
        => [tables'.at < tables.at => "click" \in {tables.by, tables'.by}]_monitorVars
  BY <1>1
<1> QED BY <1>2, MonitorInvariance, PTL DEF MonitorSpec, PageGoesForward

=============================================================================
